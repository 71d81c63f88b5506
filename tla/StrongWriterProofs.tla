------------------------- MODULE StrongWriterProofs -------------------------
(***************************************************************************)
(* Proofs about StrongWriter, for any sets of readers and writers, any     *)
(* LIMIT and any number of SIGINTs: what the GETZCNT question buys where   *)
(* the kernel counts every waiting writer.                                 *)
(***************************************************************************)
EXTENDS StrongWriter, ReaderWriterProofs

USE ReaderWriterAssumption

(* Giving a round up changes only where the reader is in its loop. *)
LEMMA CheckType ==
  ASSUME TypeOK, NEW r \in Readers, CheckWriters(r)
  PROVE  TypeOK'
<1>1. cnt[r] + 1 \in Nat
  BY DEF TypeOK, Threads
<1>2. pc' \in [Threads -> ThreadSteps] /\ cnt' \in [Threads -> Nat]
  <2>1. Loop(cnt[r] + 1) \in ThreadSteps
    BY <1>1, StepNames
  <2>2. QED
    BY <1>1, <2>1 DEF CheckWriters, TypeOK
<1>3. QED
  BY <1>2 DEF CheckWriters, TypeOK, sigVars

(* main() of this program is that of ReaderWriter in another order. *)
LEMMA MainType ==
  ASSUME TypeOK, SWMain
  PROVE  TypeOK'
<1>1. CASE MakeSegment \/ init_my_sems \/ InstallHandler \/ removeid \/ RemoveSegment
  BY <1>1, TypeStep DEF Next, Main
<1>2. CASE Create(Readers, "create W", "create R") \/ Create(Writers, "create R", "join W")
  BY <1>2, CreateType, MainNames
<1>3. CASE Join(Writers, "join W", "join R") \/ Join(Readers, "join R", "removeid")
  BY <1>3, JoinType, MainNames
<1>4. QED
  BY <1>1, <1>2, <1>3 DEF SWMain

(* The counts of overtaking stop at two. *)
LEMMA CountType ==
  ASSUME SWTypeOK, NEW w \in Writers, NEW r \in Readers, NEW u \in Readers
  PROVE  overtakes[<<w, u>>] + (IF u = r THEN Overtaken(w, r) ELSE 0) \in 0..2
<1>1. overtakes[<<w, u>>] \in 0..2 /\ overtakes[<<w, r>>] \in 0..2
  BY DEF SWTypeOK
<1>2. CASE u = r
  <2>1. CASE w \in asleep /\ overtakes[<<w, r>>] < 2
    <3>1. Overtaken(w, r) = 1
      BY <2>1 DEF Overtaken
    <3>2. QED
      BY <1>1, <1>2, <2>1, <3>1
  <2>2. CASE ~(w \in asleep /\ overtakes[<<w, r>>] < 2)
    <3>1. Overtaken(w, r) = 0
      BY <2>2 DEF Overtaken
    <3>2. QED
      BY <1>1, <1>2, <3>1
  <2>3. QED
    BY <2>1, <2>2
<1>3. CASE u # r
  BY <1>1, <1>3
<1>4. QED
  BY <1>2, <1>3

(* What each action does to who sleeps, who was told that nobody waits, and *)
(* who overtook whom. *)
LEMMA Bookkeeping ==
  ASSUME SWTypeOK, [SWNext]_swVars
  PROVE  /\ asleep' \subseteq Threads /\ checked' \subseteq Readers
         /\ zcnt' = zcnt
         /\ overtakes' \in [Writers \X Readers -> 0..2]
<1> USE DEF SWTypeOK
<1>1. CASE UNCHANGED <<asleep, checked, zcnt, overtakes>>
  BY <1>1
<1>2. ASSUME NEW t \in Threads, Sleep(t) PROVE
         /\ asleep' \subseteq Threads
         /\ UNCHANGED <<checked, zcnt, overtakes>>
  BY <1>2 DEF Sleep
<1>3. ASSUME NEW r \in Readers, CheckWriters(r) PROVE
         /\ checked' \subseteq Readers
         /\ UNCHANGED <<asleep, zcnt, overtakes>>
  BY <1>3 DEF CheckWriters
<1>4. ASSUME NEW r \in Readers, SWreader_lock(r) PROVE
         /\ asleep' \subseteq Threads /\ checked' \subseteq Readers /\ zcnt' = zcnt
         /\ overtakes' \in [Writers \X Readers -> 0..2]
  <2>1. ASSUME NEW p \in Writers \X Readers
        PROVE  overtakes[p] + (IF p[2] = r THEN Overtaken(p[1], r) ELSE 0) \in 0..2
    <3>1. PICK w \in Writers, u \in Readers : p = <<w, u>>
      OBVIOUS
    <3>2. QED
      BY <3>1, CountType
  <2>2. QED
    BY <1>4, <2>1 DEF SWreader_lock
<1>5. ASSUME NEW w \in Writers, SWwriter_lock(w) PROVE
         /\ asleep' \subseteq Threads /\ UNCHANGED <<checked, zcnt>>
         /\ overtakes' \in [Writers \X Readers -> 0..2]
  BY <1>5 DEF SWwriter_lock
<1>6. ASSUME SWSigint PROVE
         /\ asleep' \subseteq Threads /\ UNCHANGED <<checked, zcnt>>
         /\ overtakes' \in [Writers \X Readers -> 0..2]
  BY <1>6 DEF SWSigint
<1>7. QED
  BY <1>1, <1>2, <1>3, <1>4, <1>5, <1>6
     DEF SWNext, SWMain, SWReader, SWWriter, SWctrlc_handler, swVars, Threads

(* The variables keep their types.                                         *)
THEOREM SWTypeCorrect == SWSpec => []SWTypeOK
<1>1. SWInit => SWTypeOK
  <2> SUFFICES ASSUME SWInit PROVE SWTypeOK
    OBVIOUS
  <2>1. TypeOK
    BY DEF SWInit, Init, TypeOK, MainSteps, ThreadSteps, Life, HandlerSteps
  <2>2. QED
    BY <2>1 DEF SWInit, SWTypeOK
<1>2. SWTypeOK /\ [SWNext]_swVars => SWTypeOK'
  <2> SUFFICES ASSUME SWTypeOK, [SWNext]_swVars PROVE SWTypeOK'
    OBVIOUS
  <2>1. TypeOK
    BY DEF SWTypeOK
  <2>2. TypeOK'
    <3>1. CASE SWMain
      BY <2>1, <3>1, MainType
    <3>2. ASSUME NEW r \in Readers, SWReader(r) PROVE TypeOK'
      <4>1. CASE CheckWriters(r)
        BY <2>1, <4>1, CheckType
      <4>2. CASE Sleep(r)
        BY <2>1, <4>2, TypeStep DEF Sleep
      <4>3. CASE reader_lock(r) \/ ReadShared(r) \/ reader_unlock(r)
        BY <2>1, <4>3, TypeStep DEF Next, Reader
      <4>4. QED
        BY <3>2, <4>1, <4>2, <4>3 DEF SWReader, SWreader_lock
    <3>3. ASSUME NEW w \in Writers, SWWriter(w) PROVE TypeOK'
      <4>1. CASE Sleep(w)
        BY <2>1, <4>1, TypeStep DEF Sleep
      <4>2. CASE writer_lock(w) \/ LoadShared(w) \/ StoreShared(w) \/ writer_unlock(w)
        BY <2>1, <4>2, TypeStep DEF Next, Writer
      <4>3. QED
        BY <3>3, <4>1, <4>2 DEF SWWriter, SWwriter_lock
    <3>4. CASE SWSigint \/ Ended \/ \E t \in Callers : SWctrlc_handler(t)
      BY <2>1, <3>4, TypeStep DEF Next, SWSigint, SWctrlc_handler
    <3>5. CASE UNCHANGED swVars
      BY <2>1, <3>5, TypeStep DEF swVars
    <3>6. QED
      BY <3>1, <3>2, <3>3, <3>4, <3>5 DEF SWNext
  <2>3. QED
    BY <2>2, Bookkeeping DEF SWTypeOK
<1>3. QED
  BY <1>1, <1>2, PTL DEF SWSpec

----------------------------------------------------------------------------
(* A reader that has overtaken a sleeping writer would have to be told     *)
(* again that nobody waits; as long as the writer sleeps it is not.        *)
OneFree ==
  \A w \in Writers, r \in Readers :
    \/ overtakes[<<w, r>>] = 0
    \/ overtakes[<<w, r>>] = 1 /\ w \in asleep /\ r \notin checked

OvertakeInv == SWTypeOK /\ (zcnt = "any" => OneFree)

LEMMA OvertakeStep ==
  ASSUME SWTypeOK, zcnt = "any", OneFree, [SWNext]_swVars
  PROVE  OneFree'
<1>1. CASE UNCHANGED <<asleep, checked, zcnt, overtakes>>
  BY <1>1 DEF OneFree
<1>2. ASSUME NEW t \in Threads, Sleep(t) PROVE OneFree'
  BY <1>2 DEF Sleep, OneFree
<1>3. ASSUME NEW r \in Readers, CheckWriters(r) PROVE OneFree'
  <2>1. CASE checked' = checked
    BY <1>3, <2>1 DEF CheckWriters, OneFree
  <2>2. CASE GETZCNT = {} /\ checked' = checked \cup {r}
    <3>1. \A w \in Writers : w \notin asleep
      BY <2>2 DEF GETZCNT
    <3>2. \A w \in Writers, u \in Readers : overtakes[<<w, u>>] = 0
      BY <3>1 DEF OneFree
    <3>3. overtakes' = overtakes
      BY <1>3 DEF CheckWriters
    <3>4. QED
      BY <3>2, <3>3 DEF OneFree
  <2>3. QED
    BY <1>3, <2>1, <2>2 DEF CheckWriters
<1>4. ASSUME NEW r \in Readers, SWreader_lock(r) PROVE OneFree'
  <2>1. r \in checked /\ checked' = checked \ {r} /\ asleep' = asleep \ {r}
    BY <1>4 DEF SWreader_lock
  <2>2. \A w \in Writers : w # r
    OBVIOUS
  <2>3. SUFFICES ASSUME NEW w \in Writers, NEW u \in Readers
                 PROVE  \/ overtakes'[<<w, u>>] = 0
                        \/ overtakes'[<<w, u>>] = 1 /\ w \in asleep' /\ u \notin checked'
    BY DEF OneFree
  <2>4. overtakes'[<<w, u>>] =
          overtakes[<<w, u>>] + (IF u = r THEN Overtaken(w, r) ELSE 0)
    BY <1>4 DEF SWreader_lock
  <2>5. CASE u = r
    <3>1. overtakes[<<w, u>>] = 0
      BY <2>1, <2>5 DEF OneFree
    <3>2. overtakes'[<<w, u>>] = Overtaken(w, r)
      <4>1. Overtaken(w, r) \in {0, 1}
        BY DEF Overtaken
      <4>2. QED
        BY <2>4, <2>5, <3>1, <4>1
    <3>3. w \in asleep \/ Overtaken(w, r) = 0
      BY DEF Overtaken
    <3>4. Overtaken(w, r) \in {0, 1}
      BY DEF Overtaken
    <3>5. QED
      BY <2>1, <2>2, <2>5, <3>2, <3>3, <3>4
  <2>6. CASE u # r
    <3>1. overtakes[<<w, u>>] \in 0..2
      BY DEF SWTypeOK
    <3>2. overtakes'[<<w, u>>] = overtakes[<<w, u>>]
      BY <2>4, <2>6, <3>1
    <3>3. QED
      BY <2>1, <2>2, <2>6, <3>2 DEF OneFree
  <2>7. QED
    BY <2>5, <2>6
<1>5. ASSUME NEW w \in Writers, SWwriter_lock(w) PROVE OneFree'
  <2>1. /\ asleep' = asleep \ {w} /\ checked' = checked
        /\ \A v \in Writers, u \in Readers :
             overtakes'[<<v, u>>] = IF v = w THEN 0 ELSE overtakes[<<v, u>>]
    BY <1>5 DEF SWwriter_lock
  <2>2. QED
    BY <2>1 DEF OneFree
<1>6. ASSUME SWSigint PROVE OneFree'
  <2>1. ASSUME NEW w \in Writers, NEW u \in Readers
        PROVE  \/ overtakes'[<<w, u>>] = 0
               \/ overtakes'[<<w, u>>] = 1 /\ w \in asleep' /\ u \notin checked'
    <3>1. overtakes'[<<w, u>>] = IF handling'[w] = "none" THEN overtakes[<<w, u>>] ELSE 0
      BY <1>6 DEF SWSigint
    <3>2. CASE handling'[w] = "none"
      <4>1. (w \in asleep' <=> w \in asleep) /\ checked' = checked
        BY <1>6, <3>2 DEF SWSigint
      <4>2. QED
        BY <3>1, <3>2, <4>1 DEF OneFree
    <3>3. QED
      BY <3>1, <3>2
  <2>2. QED
    BY <2>1 DEF OneFree
<1>7. QED
  BY <1>1, <1>2, <1>3, <1>4, <1>5, <1>6
     DEF SWNext, SWMain, SWReader, SWWriter, SWctrlc_handler, swVars, Threads

(* Where GETZCNT counts every sleeping writer, no reader gets in twice     *)
(* while the same writer sleeps.                                           *)
THEOREM OvertakesAtMostOnce == SWSpec => []OvertakesOnce
<1>1. SWInit => OneFree
  BY DEF SWInit, OneFree
<1>2. SWTypeOK /\ (zcnt = "any" => OneFree) /\ [SWNext]_swVars =>
        (zcnt = "any" => OneFree)'
  <2> SUFFICES ASSUME SWTypeOK, zcnt = "any" => OneFree, [SWNext]_swVars,
                      zcnt' = "any"
               PROVE  OneFree'
    OBVIOUS
  <2>1. zcnt = "any"
    BY Bookkeeping
  <2>2. QED
    BY <2>1, OvertakeStep
<1>3. SWTypeOK /\ (zcnt = "any" => OneFree) => OvertakesOnce
  <2> SUFFICES ASSUME SWTypeOK, OneFree, NEW p \in Writers \X Readers
               PROVE  overtakes[p] <= 1
    BY DEF OvertakesOnce
  <2>1. PICK w \in Writers, r \in Readers : p = <<w, r>>
    OBVIOUS
  <2>2. overtakes[<<w, r>>] \in {0, 1}
    BY DEF OneFree
  <2>3. QED
    BY <2>1, <2>2
<1>4. QED
  BY <1>1, <1>2, <1>3, SWTypeCorrect, PTL DEF SWSpec

-----------------------------------------------------------------------------
(* The steps of this program are those of ReaderWriter, the two loops that *)
(* create the threads in the other order, and the question of a reader.    *)
LEMMA SWSteps ==
  ASSUME [SWNext]_swVars
  PROVE  \/ [Next]_vars
         \/ Create(Readers, "create W", "create R")
         \/ Create(Writers, "create R", "join W")
         \/ \E r \in Readers : CheckWriters(r)
<1>1. CASE SWMain
  BY <1>1 DEF SWMain, Next, Main
<1>2. ASSUME NEW r \in Readers, SWReader(r)
      PROVE  [Next]_vars \/ CheckWriters(r)
  BY <1>2 DEF SWReader, SWreader_lock, Sleep, Next, Reader
<1>3. ASSUME NEW w \in Writers, SWWriter(w)
      PROVE  [Next]_vars
  BY <1>3 DEF SWWriter, SWwriter_lock, Sleep, Next, Writer
<1>4. QED
  BY <1>1, <1>2, <1>3 DEF SWNext, SWSigint, SWctrlc_handler, swVars, Next

(* What those two loops and the question leave alone. *)
LEMMA CreateLeaves ==
  ASSUME TypeOK, NEW group, NEW from, NEW to, Create(group, from, to)
  PROVE  /\ UNCHANGED <<proc, cnt, tmp, shared, shm, set, sem, sigVars>>
         /\ main = from /\ main' \in {from, to}
         /\ \E t \in group : /\ pc[t] = "new"
                             /\ pc' = [pc EXCEPT ![t] = Loop(0)]
BY DEF Create, At

LEMMA CheckLeaves ==
  ASSUME TypeOK, NEW r \in Readers, CheckWriters(r)
  PROVE  /\ UNCHANGED <<proc, main, tmp, shared, shm, set, sem, sigVars>>
         /\ pc[r] = "lock"
         /\ pc' = pc \/ \E s \in {"lock", "exit"} : pc' = [pc EXCEPT ![r] = s]
         /\ \A w \in Writers : cnt'[w] = cnt[w]
<1>1. \A w \in Writers : w # r
  BY ReaderWriterAssumption
<1>2. Loop(cnt[r] + 1) \in {"lock", "exit"}
  BY DEF Loop
<1>3. \A w \in Writers : cnt'[w] = cnt[w]
  BY <1>1 DEF CheckWriters, TypeOK, Threads
<1>4. QED
  BY <1>2, <1>3 DEF CheckWriters

(* The three invariants of ReaderWriter that the lost-update argument      *)
(* needs hold of this program too.                                         *)
LockInv == LifeInv /\ ExclusionInv /\ LoadedValueIsCurrent

LEMMA QuietStep ==
  ASSUME TypeOK, LockInv, NEW t \in Threads, NEW s \in ThreadSteps \ InsideSteps,
         pc[t] \notin InsideSteps,
         pc' = [pc EXCEPT ![t] = s],
         UNCHANGED <<tmp, shared, set, sem>>
  PROVE  ExclusionInv' /\ LoadedValueIsCurrent'
<1>1. \A g \in {Readers, Writers} : Inside(g)' = Inside(g)
  BY Stay
<1>2. Inside(Threads)' = Inside(Threads)
  BY <1>1 DEF Inside, Threads
<1>3. ExclusionInv'
  BY <1>1, <1>2 DEF LockInv, ExclusionInv, SemsCountThreads,
                    ExclusionWhileSetLives, ExclusiveUse
<1>4. \A u \in Threads : pc'[u] \in InsideSteps => pc'[u] = pc[u]
  BY DEF TypeOK
<1>5. LoadedValueIsCurrent'
  BY <1>4, StepsInside DEF LockInv, LoadedValueIsCurrent
<1>6. QED
  BY <1>3, <1>5

LEMMA LockStep ==
  ASSUME TypeOK, LockInv, [SWNext]_swVars
  PROVE  LockInv'
<1>1. CASE [Next]_vars
  BY <1>1, LifeStep, ExclusionStep, LoadedStep DEF LockInv
<1>2. ASSUME NEW group \in {Readers, Writers},
             NEW from \in {"create W", "create R"}, NEW to \in {"create R", "join W"},
             Create(group, from, to)
      PROVE  LockInv'
  <2>1. PICK t \in group : pc[t] = "new" /\ pc' = [pc EXCEPT ![t] = Loop(0)]
    BY <1>2, CreateLeaves
  <2>2. t \in Threads /\ Loop(0) \in ThreadSteps \ InsideSteps /\ pc[t] \notin InsideSteps
    BY <2>1, StepNames, StepsInside DEF Threads
  <2>3. UNCHANGED <<tmp, shared, set, sem>>
    BY <1>2, CreateLeaves
  <2>4. LifeInv'
    <3>1. main \notin Startup /\ main' \notin Startup
      BY <1>2, CreateLeaves DEF Startup
    <3>2. UNCHANGED <<proc, shared, shm, set, sigaction, handling>>
      BY <1>2, CreateLeaves DEF sigVars
    <3>3. main \notin {"shmget", "semget", "shmctl"} /\ main' \notin {"shmget", "semget", "shmctl"}
      BY <1>2, CreateLeaves
    <3>4. (SetCared' <=> SetCared) /\ (ShmCared' <=> ShmCared)
      BY <3>2, Cares
    <3>5. proc' # "exited"
      BY <3>2, <3>3 DEF LockInv, LifeInv
    <3>6. QED
      BY <3>1, <3>2, <3>3, <3>4, <3>5 DEF LockInv, LifeInv
  <2>5. QED
    BY <2>1, <2>2, <2>3, <2>4, QuietStep DEF LockInv
<1>3. ASSUME NEW r \in Readers, CheckWriters(r)
      PROVE  LockInv'
  <2>1. r \in Threads /\ pc[r] = "lock"
    BY <1>3, CheckLeaves DEF Threads
  <2>2. pc[r] \in ThreadSteps \ InsideSteps /\ "exit" \in ThreadSteps \ InsideSteps
    BY <2>1 DEF ThreadSteps, InsideSteps
  <2>3. PICK s \in ThreadSteps \ InsideSteps : pc' = [pc EXCEPT ![r] = s]
    <3>1. pc = [pc EXCEPT ![r] = pc[r]]
      BY DEF TypeOK
    <3>2. QED
      BY <1>3, <2>1, <2>2, <3>1, CheckLeaves
  <2>4. UNCHANGED <<tmp, shared, set, sem>>
    BY <1>3, CheckLeaves
  <2>5. LifeInv'
    <3>1. main \notin Startup
      BY <2>1 DEF LockInv, LifeInv
    <3>2. QED
      BY <1>3, <3>1, CheckLeaves, Cares DEF LockInv, LifeInv, Startup, sigVars
  <2>6. QED
    BY <2>1, <2>2, <2>3, <2>4, <2>5, QuietStep DEF LockInv
<1>4. QED
  BY <1>1, <1>2, <1>3, SWSteps

(* The rounds that the writers have stored.  While the set lives, every    *)
(* one of them is in the cell.                                             *)
Stored == {p \in Writers \X (1 .. LIMIT) : p[2] <= cnt[p[1]]}

CountOK(w) ==
  /\ cnt[w] <= LIMIT
  /\ pc[w] = "new" => cnt[w] = 0
  /\ pc[w] \in {"lock", "read", "write"} => cnt[w] < LIMIT
  /\ pc[w] = "exit" => cnt[w] = LIMIT

Joined == main \in {"join R", "removeid", "shmctl"} =>
            \A w \in Writers : pc[w] = "exit"

CountInv ==
  /\ \A w \in Writers : CountOK(w)
  /\ Joined
  /\ set # "removed" => shared = Cardinality(Stored)

(* The test of the loop lets a writer begin a round only below LIMIT. *)
LEMMA LoopCounts ==
  ASSUME NEW n \in Nat, n <= LIMIT
  PROVE  /\ Loop(n) = "lock" => n < LIMIT
         /\ Loop(n) = "exit" => n = LIMIT
         /\ Loop(n) \in {"lock", "exit"}
BY ReaderWriterAssumption DEF Loop

LEMMA NewCounts ==
  ASSUME NEW w \in Writers, pc'[w] = Loop(0), cnt'[w] = 0
  PROVE  CountOK(w)'
<1>1. 0 \in Nat /\ 0 <= LIMIT
  BY ReaderWriterAssumption
<1>2. QED
  BY <1>1, LoopCounts DEF CountOK

LEMMA StoredFinite == IsFiniteSet(Stored)
<1>1. IsFiniteSet(1 .. LIMIT)
  BY ReaderWriterAssumption, FS_Interval
<1>2. IsFiniteSet(Writers \X (1 .. LIMIT))
  BY <1>1, ReaderWriterAssumption, FS_Product
<1>3. QED
  BY <1>2, FS_Subset DEF Stored

(* One round of a writer adds one pair. *)
LEMMA StoreAddsOne ==
  ASSUME TypeOK, NEW w \in Writers, cnt[w] < LIMIT,
         cnt' = [cnt EXCEPT ![w] = @ + 1]
  PROVE  Cardinality(Stored') = Cardinality(Stored) + 1
<1> DEFINE n == cnt[w] + 1
<1>1. w \in Threads /\ cnt[w] \in Nat
  BY DEF TypeOK, Threads
<1>2. \A v \in Writers : cnt'[v] = IF v = w THEN n ELSE cnt[v]
  BY <1>1 DEF TypeOK, Threads
<1>3. n \in 1 .. LIMIT
  BY <1>1, ReaderWriterAssumption
<1>4. <<w, n>> \notin Stored
  BY <1>1 DEF Stored
<1>5. Stored' = Stored \cup {<<w, n>>}
  <2>1. ASSUME NEW v \in Writers, NEW k \in 1 .. LIMIT
        PROVE  <<v, k>> \in Stored' <=> <<v, k>> \in Stored \cup {<<w, n>>}
    <3>1. CASE v = w
      <4>1. k <= n <=> k <= cnt[w] \/ k = n
        BY <1>1
      <4>2. QED
        BY <1>2, <3>1, <4>1 DEF Stored
    <3>2. CASE v # w
      BY <1>2, <3>2 DEF Stored
    <3>3. QED
      BY <3>1, <3>2
  <2>2. \A p \in Stored' \cup Stored \cup {<<w, n>>} :
           \E v \in Writers, k \in 1 .. LIMIT : p = <<v, k>>
    BY <1>3 DEF Stored
  <2>3. QED
    BY <2>1, <2>2
<1>6. QED
  BY <1>4, <1>5, StoredFinite, FS_AddElement

(* When all writers have ended, all their rounds are stored. *)
LEMMA AllStored ==
  ASSUME \A w \in Writers : cnt[w] = LIMIT
  PROVE  Cardinality(Stored) = LIMIT * Cardinality(Writers)
<1>1. Stored = Writers \X (1 .. LIMIT)
  BY ReaderWriterAssumption DEF Stored
<1>2. IsFiniteSet(1 .. LIMIT) /\ Cardinality(1 .. LIMIT) = LIMIT
  BY ReaderWriterAssumption, FS_Interval
<1>3. Cardinality(Writers) \in Nat
  BY ReaderWriterAssumption, FS_CardinalityType
<1>4. Cardinality(Writers \X (1 .. LIMIT)) = Cardinality(Writers) * LIMIT
  BY <1>2, ReaderWriterAssumption, FS_Product
<1>5. QED
  BY <1>1, <1>3, <1>4, ReaderWriterAssumption

(* A step that changes neither the cell nor the count of a writer. *)
LEMMA CountKept ==
  ASSUME CountInv, \A w \in Writers : CountOK(w)', Joined',
         \A w \in Writers : cnt'[w] = cnt[w], shared' = shared,
         set' # "removed" => set # "removed"
  PROVE  CountInv'
<1>1. Stored' = Stored
  BY DEF Stored
<1>2. QED
  BY <1>1 DEF CountInv

(* A step of a thread that is not one of the writers. *)
LEMMA ReaderCount ==
  ASSUME TypeOK, CountInv, NEW r \in Readers, NEW s,
         pc' = pc \/ pc' = [pc EXCEPT ![r] = s],
         \A w \in Writers : cnt'[w] = cnt[w],
         UNCHANGED <<main, shared, set>>
  PROVE  CountInv'
<1>1. \A w \in Writers : pc'[w] = pc[w]
  BY ReaderWriterAssumption DEF TypeOK, Threads
<1>2. \A w \in Writers : CountOK(w)'
  BY <1>1 DEF CountInv, CountOK
<1>3. Joined'
  BY <1>1 DEF CountInv, Joined
<1>4. QED
  BY <1>2, <1>3, CountKept

(* A step of one writer that is not yet joined. *)
LEMMA WriterCount ==
  ASSUME TypeOK, CountInv, NEW w \in Writers, NEW s, pc[w] # "exit",
         pc' = [pc EXCEPT ![w] = s], CountOK(w)', main' = main,
         \A v \in Writers : v # w => cnt'[v] = cnt[v]
  PROVE  (\A v \in Writers : CountOK(v)') /\ Joined'
<1>1. \A v \in Writers : v # w => pc'[v] = pc[v]
  BY DEF TypeOK, Threads
<1>2. \A v \in Writers : CountOK(v)'
  BY <1>1 DEF CountInv, CountOK
<1>3. main \notin {"join R", "removeid", "shmctl"}
  BY DEF CountInv, Joined
<1>4. QED
  BY <1>2, <1>3 DEF Joined

LEMMA WriterStep ==
  ASSUME TypeOK, LockInv, CountInv, NEW w \in Writers, Writer(w)
  PROVE  CountInv'
<1>0. w \in Threads /\ cnt[w] \in Nat /\ CountOK(w)
  BY DEF TypeOK, Threads, CountInv
<1>1. CASE writer_lock(w)
  <2>1. /\ pc[w] = "lock" /\ pc' = [pc EXCEPT ![w] = "read"]
        /\ UNCHANGED <<main, cnt, shared, set>>
    BY <1>1 DEF writer_lock, Goto
  <2>2. CountOK(w)'
    BY <1>0, <2>1 DEF CountOK, TypeOK
  <2>3. QED
    BY <1>0, <2>1, <2>2, WriterCount, CountKept
<1>2. CASE LoadShared(w)
  <2>1. /\ pc[w] = "read" /\ pc' = [pc EXCEPT ![w] = "write"]
        /\ UNCHANGED <<main, cnt, shared, set>>
    BY <1>2 DEF LoadShared, Goto
  <2>2. CountOK(w)'
    BY <1>0, <2>1 DEF CountOK, TypeOK
  <2>3. QED
    BY <1>0, <2>1, <2>2, WriterCount, CountKept
<1>3. CASE StoreShared(w)
  <2>1. /\ pc[w] = "write" /\ pc' = [pc EXCEPT ![w] = "unlock"]
        /\ cnt' = [cnt EXCEPT ![w] = @ + 1] /\ shared' = tmp[w] + 1
        /\ UNCHANGED <<main, set>>
    BY <1>3 DEF StoreShared, Goto
  <2>2. cnt[w] < LIMIT /\ cnt'[w] = cnt[w] + 1 /\ pc'[w] = "unlock"
    BY <1>0, <2>1 DEF CountOK, TypeOK
  <2>3. CountOK(w)'
    BY <1>0, <2>2, ReaderWriterAssumption DEF CountOK
  <2>4. \A v \in Writers : v # w => cnt'[v] = cnt[v]
    BY <2>1 DEF TypeOK, Threads
  <2>5. (\A v \in Writers : CountOK(v)') /\ Joined'
    BY <2>1, <2>3, <2>4, WriterCount
  <2>6. set' # "removed" => shared' = Cardinality(Stored')
    <3>1. SUFFICES ASSUME set # "removed" PROVE shared' = Cardinality(Stored')
      BY <2>1
    <3>2. set = "live"
      <4>1. main \notin Startup
        BY <1>0, <2>1 DEF LockInv, LifeInv
      <4>2. set # "none"
        BY <4>1 DEF LockInv, LifeInv, Startup
      <4>3. QED
        BY <3>1, <4>2 DEF TypeOK, Life
    <3>3. tmp[w] = shared
      BY <1>0, <2>1, <3>2 DEF LockInv, LoadedValueIsCurrent
    <3>4. shared = Cardinality(Stored)
      BY <3>1 DEF CountInv
    <3>5. QED
      BY <2>1, <2>2, <3>3, <3>4, StoreAddsOne
  <2>7. QED
    BY <2>5, <2>6 DEF CountInv
<1>4. CASE writer_unlock(w)
  <2>1. /\ pc[w] = "unlock" /\ pc' = [pc EXCEPT ![w] = Loop(cnt[w])]
        /\ UNCHANGED <<main, cnt, shared, set>>
    BY <1>4 DEF writer_unlock, Goto
  <2>2. cnt[w] <= LIMIT
    BY <1>0 DEF CountOK
  <2>3. CountOK(w)'
    BY <1>0, <2>1, <2>2, LoopCounts DEF CountOK, TypeOK
  <2>4. QED
    BY <1>0, <2>1, <2>3, WriterCount, CountKept
<1>5. QED
  BY <1>1, <1>2, <1>3, <1>4 DEF Writer

LEMMA CountStep ==
  ASSUME TypeOK, LockInv, CountInv, [SWNext]_swVars
  PROVE  CountInv'
<1>1. ASSUME NEW group \in {Readers, Writers},
             NEW from \in {"create W", "create R"}, NEW to \in {"create R", "join W"},
             Create(group, from, to)
      PROVE  CountInv'
  <2>1. /\ UNCHANGED <<cnt, shared, set>>
        /\ main' \notin {"join R", "removeid", "shmctl"}
    BY <1>1, CreateLeaves
  <2>2. PICK t \in group : pc[t] = "new" /\ pc' = [pc EXCEPT ![t] = Loop(0)]
    BY <1>1, CreateLeaves
  <2>3. \A w \in Writers : CountOK(w)'
    <3>1. SUFFICES ASSUME NEW w \in Writers PROVE CountOK(w)'
      OBVIOUS
    <3>2. CASE w = t
      <4>1. pc'[w] = Loop(0)
        BY <2>2, <3>2 DEF TypeOK, Threads
      <4>2. cnt'[w] = 0
        BY <2>1, <2>2, <3>2 DEF CountInv, CountOK
      <4>3. QED
        BY <4>1, <4>2, NewCounts
    <3>3. CASE w # t
      <4>1. pc'[w] = pc[w] /\ cnt'[w] = cnt[w]
        BY <2>1, <2>2, <3>3 DEF TypeOK, Threads
      <4>2. QED
        BY <4>1 DEF CountInv, CountOK
    <3>4. QED
      BY <3>2, <3>3
  <2>4. QED
    BY <2>1, <2>3, CountKept DEF Joined
<1>2. ASSUME NEW r \in Readers, CheckWriters(r)
      PROVE  CountInv'
  BY <1>2, CheckLeaves, ReaderCount
<1>3. ASSUME NEW r \in Readers, Reader(r)
      PROVE  CountInv'
  <2>1. (\E s : pc' = [pc EXCEPT ![r] = s]) /\ UNCHANGED <<main, shared, set>>
    BY <1>3 DEF Reader, reader_lock, ReadShared, reader_unlock, Goto
  <2>2. cnt' = cnt \/ cnt' = [cnt EXCEPT ![r] = @ + 1]
    BY <1>3 DEF Reader, reader_lock, ReadShared, reader_unlock
  <2>3. \A w \in Writers : cnt'[w] = cnt[w]
    BY <2>2, ReaderWriterAssumption DEF TypeOK, Threads
  <2>4. QED
    BY <2>1, <2>3, ReaderCount
<1>4. CASE MakeSegment
  <2>1. /\ UNCHANGED <<pc, cnt, set>> /\ shared' = 0
        /\ main = "shmget" /\ main' = "semget"
    BY <1>4 DEF MakeSegment, At
  <2>2. \A w \in Writers : pc[w] = "new" /\ cnt[w] = 0
    BY <2>1 DEF LockInv, LifeInv, Startup, CountInv, CountOK, Threads
  <2>3. Stored' = {}
    BY <2>1, <2>2 DEF Stored
  <2>4. QED
    BY <2>1, <2>3, FS_EmptySet DEF CountInv, CountOK, Joined
<1>5. CASE init_my_sems \/ InstallHandler \/ removeid \/ RemoveSegment
  <2>1. /\ UNCHANGED <<pc, cnt, shared>>
        /\ set' # "removed" => set # "removed"
        /\ main' \in {"join R", "removeid", "shmctl"} =>
              main \in {"join R", "removeid", "shmctl"}
    <3>1. init_my_sems => set = "none"
      BY DEF init_my_sems, At, LockInv, LifeInv
    <3>2. QED
      BY <1>5, <3>1 DEF init_my_sems, InstallHandler, removeid, RemoveSegment, At, threadVars
  <2>2. QED
    BY <2>1, CountKept DEF CountInv, CountOK, Joined
<1>6. CASE Join(Writers, "join W", "join R")
  <2>1. /\ UNCHANGED <<pc, cnt, shared, set>>
        /\ \A w \in Writers : pc[w] = "exit"
    BY <1>6 DEF Join, threadVars
  <2>2. QED
    BY <2>1, CountKept DEF CountInv, CountOK, Joined
<1>7. CASE Join(Readers, "join R", "removeid")
  <2>1. UNCHANGED <<pc, cnt, shared, set>> /\ main = "join R"
    BY <1>7 DEF Join, At, threadVars
  <2>2. QED
    BY <2>1, CountKept DEF CountInv, CountOK, Joined
<1>8. CASE Sigint
  <2>1. UNCHANGED <<pc, cnt, shared, main>> /\ (set' # "removed" => set # "removed")
    BY <1>8 DEF Sigint, threadVars
  <2>2. QED
    BY <2>1, CountKept DEF CountInv, CountOK, Joined
<1>8a. ASSUME NEW t \in Callers, ctrlc_handler(t) PROVE CountInv'
  <2>1. UNCHANGED <<pc, cnt, shared, main>> /\ (set' # "removed" => set # "removed")
    BY <1>8a DEF ctrlc_handler, HandlerCall, threadVars
  <2>2. QED
    BY <2>1, CountKept DEF CountInv, CountOK, Joined
<1>9. CASE UNCHANGED vars
  BY <1>9, CountKept DEF vars, CountInv, CountOK, Joined
<1>10. CASE [Next]_vars
  <2>1. CASE \/ Create(Writers, "create W", "create R")
             \/ Create(Readers, "create R", "join W")
    BY <1>1, <2>1
  <2>2. QED
    BY <1>3, <1>4, <1>5, <1>6, <1>7, <1>8, <1>8a, <1>9, <1>10, <2>1, WriterStep
       DEF Next, Main, Ended
<1>11. QED
  BY <1>1, <1>2, <1>10, SWSteps

(* For any number of writers and rounds: when main() has joined everybody  *)
(* and the set was never removed, the cell holds every increment.          *)
THEOREM NoWriteIsLost == SWSpec => []EveryWriteCounts
<1>1. SWInit => LockInv /\ CountInv
  <2> SUFFICES ASSUME SWInit PROVE LockInv /\ CountInv
    OBVIOUS
  <2>1. LockInv
    BY DEF SWInit, Init, LockInv, LifeInv, Startup, ExclusionInv, SemsCountThreads,
           ExclusionWhileSetLives, LoadedValueIsCurrent
  <2>2. \A w \in Writers : CountOK(w)
    BY ReaderWriterAssumption DEF SWInit, Init, CountOK, Threads
  <2>3. Stored = {}
    BY DEF SWInit, Init, Stored, Threads
  <2>4. QED
    BY <2>1, <2>2, <2>3, FS_EmptySet DEF SWInit, Init, CountInv, Joined
<1>2. SWTypeOK => TypeOK
  BY DEF SWTypeOK
<1>3. CountInv => EveryWriteCounts
  BY AllStored DEF CountInv, Joined, CountOK, EveryWriteCounts
<1>4. QED
  BY <1>1, <1>2, <1>3, LockStep, CountStep, SWTypeCorrect, PTL DEF SWSpec
=============================================================================
