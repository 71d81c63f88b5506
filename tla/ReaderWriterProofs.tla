------------------------- MODULE ReaderWriterProofs -------------------------
(***************************************************************************)
(* Proofs about ReaderWriter, for any finite sets of readers and writers,  *)
(* any LIMIT and any number of SIGINTs.                                    *)
(***************************************************************************)
EXTENDS ReaderWriter, FiniteSetTheorems, TLAPS

Startup == {"shmget", "semget", "sigaction"}

(* What main() has and has not done yet, and what a SIGINT leaves: once    *)
(* the disposition is reset, each object is removed or a thread inside the *)
(* handler is still to remove it.                                          *)
SetCared == set = "removed" \/ HandlerOwes({"semctl"})
ShmCared == shm = "removed" \/ HandlerOwes({"semctl", "shmctl"})

LifeInv ==
  /\ main \in {"shmget", "semget"} => set = "none"
  /\ main \in Startup =>
       /\ sigaction = "default"
       /\ shared = 0
       /\ \A t \in Threads : pc[t] = "new"
  /\ main \notin {"shmget", "semget"} => set # "none"
  /\ main \in Startup => \A t \in Callers : handling[t] = "none"
  /\ main \notin Startup /\ sigaction = "default" => SetCared /\ ShmCared
  /\ main = "shmctl" => set = "removed"
  /\ proc = "exited" => main = "shmctl" /\ shm = "removed"
  /\ proc = "killed" => sigaction = "default"

USE DEF READER, WRITER

-----------------------------------------------------------------------------
(* Where a step of a thread may lead. *)
LEMMA StepNames ==
  /\ {"lock", "read", "write", "unlock", "exit"} \subseteq ThreadSteps
  /\ \A n \in Nat : Loop(n) \in ThreadSteps
BY DEF ThreadSteps, Loop

(* A step of a thread leaves main(), the resources and signals alone. *)
LEMMA GotoType ==
  ASSUME TypeOK, NEW t \in Threads, NEW from, NEW to \in ThreadSteps,
         Goto(t, from, to)
  PROVE  /\ pc' \in [Threads -> ThreadSteps]
         /\ UNCHANGED <<proc, main, shm, set, sigaction, sa_flags, handling, sigints>>
BY DEF TypeOK, Goto, sigVars

(* A semaphore operation of the code keeps the values natural. *)
LEMMA SemopType ==
  ASSUME TypeOK, NEW s \in {READER, WRITER}, NEW enabled,
         \/ Semop(enabled, Add(s, 1))
         \/ Semop(enabled /\ sem[s] > 0, Sub(s, 1))
  PROVE  sem' \in [{READER, WRITER} -> Nat]
BY DEF TypeOK, Semop, Add, Sub

(* Where main() may go, and the values of the other enumerations. *)
LEMMA MainNames ==
  /\ {"semget", "sigaction", "create W", "create R", "join W", "join R",
      "removeid", "shmctl"} \subseteq MainSteps
  /\ {"live", "removed"} \subseteq Life
BY DEF MainSteps, Life

(* The two loops of main() over the threads. *)
LEMMA CreateType ==
  ASSUME TypeOK, NEW group, NEW from \in MainSteps, NEW to \in MainSteps,
         Create(group, from, to)
  PROVE  TypeOK'
<1>1. PICK t \in group :
        /\ pc' = [pc EXCEPT ![t] = Loop(0)]
        /\ main' \in {from, to}
        /\ UNCHANGED <<proc, cnt, tmp, shared, shm, set, sem, sigVars>>
  BY DEF Create, At
<1>2. Loop(0) \in ThreadSteps
  BY StepNames
<1>3. QED
  BY <1>1, <1>2 DEF TypeOK, sigVars

LEMMA JoinType ==
  ASSUME TypeOK, NEW group, NEW from, NEW to \in MainSteps, Join(group, from, to)
  PROVE  TypeOK'
BY DEF TypeOK, Join, At, threadVars, sigVars

(* main(), the threads and SIGINT keep every variable in its range.        *)
LEMMA TypeStep == TypeOK /\ [Next]_vars => TypeOK'
<1> SUFFICES ASSUME TypeOK, [Next]_vars PROVE TypeOK'
  OBVIOUS
<1> USE DEF Threads, sigVars, threadVars
<1>1. ASSUME Main PROVE TypeOK'
  <2> USE MainNames
  <2>1. CASE MakeSegment
    BY <2>1 DEF TypeOK, MakeSegment, At
  <2>2. CASE init_my_sems
    BY <2>2 DEF TypeOK, init_my_sems, At
  <2>3. CASE InstallHandler
    BY <2>3 DEF TypeOK, InstallHandler, At
  <2>4. CASE Create(Writers, "create W", "create R") \/ Create(Readers, "create R", "join W")
    BY <2>4, CreateType
  <2>5. CASE Join(Writers, "join W", "join R") \/ Join(Readers, "join R", "removeid")
    BY <2>5, JoinType
  <2>6. CASE removeid
    BY <2>6 DEF TypeOK, removeid, At
  <2>7. CASE RemoveSegment
    BY <2>7 DEF TypeOK, RemoveSegment, At
  <2>8. QED
    BY <1>1, <2>1, <2>2, <2>3, <2>4, <2>5, <2>6, <2>7 DEF Main
<1>2. ASSUME NEW r \in Readers, Reader(r) PROVE TypeOK'
  <2>1. CASE reader_lock(r)
    BY <2>1, GotoType, SemopType, StepNames DEF reader_lock, TypeOK
  <2>2. CASE ReadShared(r)
    <3>1. Goto(r, "read", "unlock") /\ "unlock" \in ThreadSteps
      BY <2>2, StepNames DEF ReadShared
    <3>2. QED
      BY <2>2, <3>1, GotoType DEF ReadShared, TypeOK
  <2>3. CASE reader_unlock(r)
    BY <2>3, GotoType, SemopType, StepNames DEF reader_unlock, TypeOK
  <2>4. QED
    BY <1>2, <2>1, <2>2, <2>3 DEF Reader
<1>3. ASSUME NEW w \in Writers, Writer(w) PROVE TypeOK'
  <2>1. CASE writer_lock(w)
    BY <2>1, GotoType, SemopType, StepNames DEF writer_lock, TypeOK
  <2>2. CASE LoadShared(w)
    <3>1. Goto(w, "read", "write") /\ "write" \in ThreadSteps
      BY <2>2, StepNames DEF LoadShared
    <3>2. QED
      BY <2>2, <3>1, GotoType DEF LoadShared, TypeOK
  <2>3. CASE StoreShared(w)
    <3>1. Goto(w, "write", "unlock") /\ "unlock" \in ThreadSteps
      BY <2>3, StepNames DEF StoreShared
    <3>2. QED
      BY <2>3, <3>1, GotoType DEF StoreShared, TypeOK
  <2>4. CASE writer_unlock(w)
    BY <2>4, GotoType, SemopType, StepNames DEF writer_unlock, TypeOK
  <2>5. QED
    BY <1>3, <2>1, <2>2, <2>3, <2>4 DEF Writer
<1>4. ASSUME Sigint PROVE TypeOK'
  <2>1. sigints' \in Nat
    BY <1>4 DEF Sigint, TypeOK
  <2>2. handling' \in [Callers -> HandlerSteps]
    BY <1>4 DEF Sigint, EnterHandler, KilledBySigint, TypeOK, HandlerSteps
  <2>3. QED
    BY <1>4, <2>1, <2>2 DEF Sigint, EnterHandler, KilledBySigint, TypeOK
<1>4a. ASSUME NEW t \in Callers, ctrlc_handler(t) PROVE TypeOK'
  <2>1. handling' \in [Callers -> HandlerSteps]
    BY <1>4a DEF ctrlc_handler, HandlerCall, TypeOK, HandlerSteps
  <2>2. QED
    BY <1>4a, <2>1, MainNames DEF ctrlc_handler, HandlerCall, TypeOK
<1>5. ASSUME UNCHANGED vars PROVE TypeOK'
  BY <1>5 DEF vars, TypeOK
<1>6. QED
  BY <1>1, <1>2, <1>3, <1>4, <1>4a, <1>5 DEF Next, Ended

(* Every variable stays in its range.                                      *)
THEOREM TypeCorrect == Spec => []TypeOK
<1>1. Init => TypeOK
  BY ReaderWriterAssumption DEF Init, TypeOK, MainSteps, ThreadSteps, Life, HandlerSteps
<1>2. QED
  BY <1>1, TypeStep, PTL DEF Spec

-----------------------------------------------------------------------------
(* What a thread owes after it has entered the handler, and after each of  *)
(* its two calls.                                                          *)
LEMMA Cares ==
  ASSUME TypeOK
  PROVE  /\ UNCHANGED <<set, shm, handling>> =>
              (SetCared' <=> SetCared) /\ (ShmCared' <=> ShmCared)
         /\ \A t \in Callers :
              EnterHandler(t) /\ UNCHANGED <<set, shm>> => SetCared' /\ ShmCared'
         /\ \A t \in Callers :
              ctrlc_handler(t) /\ SetCared /\ ShmCared => SetCared' /\ ShmCared'
<1> USE DEF SetCared, ShmCared, HandlerOwes
<1>1. UNCHANGED <<set, shm, handling>> =>
         (SetCared' <=> SetCared) /\ (ShmCared' <=> ShmCared)
  OBVIOUS
<1>2. ASSUME NEW t \in Callers, EnterHandler(t), UNCHANGED <<set, shm>>
      PROVE  SetCared' /\ ShmCared'
  <2>1. handling'[t] = "semctl"
    BY <1>2 DEF EnterHandler, TypeOK
  <2>2. QED
    BY <2>1
<1>3. ASSUME NEW t \in Callers, ctrlc_handler(t), SetCared, ShmCared
      PROVE  SetCared' /\ ShmCared'
  <2>1. CASE HandlerCall(t, "semctl", "shmctl") /\ set' = "removed" /\ UNCHANGED shm
    <3>1. handling'[t] = "shmctl"
      BY <2>1 DEF HandlerCall, TypeOK
    <3>2. QED
      BY <2>1, <3>1
  <2>2. CASE HandlerCall(t, "shmctl", "none") /\ shm' = "removed" /\ UNCHANGED set
    <3>1. \A u \in Callers : handling[u] = "semctl" => handling'[u] = "semctl"
      BY <2>2 DEF HandlerCall, TypeOK
    <3>2. QED
      BY <1>3, <2>2, <3>1
  <2>3. QED
    BY <1>3, <2>1, <2>2 DEF ctrlc_handler
<1>4. QED
  BY <1>1, <1>2, <1>3

(* No thread runs before the set and the handler exist, and no resource    *)
(* outlives a process that got as far as installing its handler, but for   *)
(* what a thread in the handler was about to remove.                       *)
LEMMA LifeStep ==
  ASSUME TypeOK, LifeInv, [Next]_vars
  PROVE  LifeInv'
<1> USE DEF LifeInv, Startup, sigVars, threadVars
<1>0. UNCHANGED <<set, shm, handling>> => (SetCared /\ ShmCared => SetCared' /\ ShmCared')
  BY Cares
<1>1. CASE MakeSegment
  BY <1>1 DEF MakeSegment, At
<1>2. CASE init_my_sems
  BY <1>2 DEF init_my_sems, At
<1>3. CASE InstallHandler
  BY <1>3 DEF InstallHandler, At
<1>4. CASE \/ Create(Writers, "create W", "create R")
           \/ Create(Readers, "create R", "join W")
  BY <1>0, <1>4 DEF Create, At
<1>5. CASE \/ Join(Writers, "join W", "join R")
           \/ Join(Readers, "join R", "removeid")
  BY <1>0, <1>5 DEF Join, At
<1>6. CASE removeid
  <2>1. ShmCared => ShmCared'
    BY <1>6 DEF removeid, ShmCared, HandlerOwes
  <2>2. SetCared'
    BY <1>6 DEF removeid, SetCared
  <2>3. QED
    BY <1>6, <2>1, <2>2 DEF removeid, At
<1>7. CASE RemoveSegment
  <2>1. ShmCared' /\ (SetCared => SetCared')
    BY <1>7 DEF RemoveSegment, ShmCared, SetCared, HandlerOwes
  <2>2. QED
    BY <1>7, <2>1 DEF RemoveSegment, At
<1>8. ASSUME NEW t \in Threads, NEW from, NEW to, from # "new", Goto(t, from, to)
      PROVE  LifeInv'
  BY <1>0, <1>8 DEF Goto
<1>9. ASSUME NEW r \in Readers, Reader(r) PROVE LifeInv'
  BY <1>8, <1>9 DEF Reader, reader_lock, ReadShared, reader_unlock, Threads
<1>10. ASSUME NEW w \in Writers, Writer(w) PROVE LifeInv'
  BY <1>8, <1>10 DEF Writer, writer_lock, LoadShared, StoreShared,
                     writer_unlock, Threads
<1>11. CASE Sigint
  <2>1. PICK t \in Callers : EnterHandler(t) \/ KilledBySigint
    BY <1>11 DEF Sigint
  <2>2. UNCHANGED <<main, pc, shared, set, shm>> /\ proc = "running"
    BY <1>11 DEF Sigint
  <2>3. CASE EnterHandler(t)
    <3>1. SetCared' /\ ShmCared'
      BY <2>2, <2>3, Cares
    <3>2. main \notin Startup
      BY <2>3 DEF EnterHandler
    <3>3. QED
      BY <2>2, <2>3, <3>1, <3>2 DEF EnterHandler
  <2>4. CASE KilledBySigint
    BY <1>0, <2>2, <2>4 DEF KilledBySigint
  <2>5. QED
    BY <2>1, <2>3, <2>4
<1>11a. ASSUME NEW t \in Callers, ctrlc_handler(t) PROVE LifeInv'
  <2>1. /\ UNCHANGED <<main, pc, shared, proc, sigaction>>
        /\ proc = "running" /\ handling[t] # "none"
        /\ set' \in {set, "removed"}
    BY <1>11a DEF ctrlc_handler, HandlerCall
  <2>2. main \notin Startup
    BY <2>1
  <2>3. SetCared /\ ShmCared => SetCared' /\ ShmCared'
    BY <1>11a, Cares
  <2>4. QED
    BY <2>1, <2>2, <2>3
<1>12. CASE UNCHANGED vars
  BY <1>0, <1>12 DEF vars
<1>13. QED
  BY <1>1, <1>2, <1>3, <1>4, <1>5, <1>6, <1>7, <1>9, <1>10, <1>11, <1>11a, <1>12
  DEF Next, Main, Ended

LEMMA LifeCorrect == Spec => []LifeInv
<1>1. Init => LifeInv
  BY DEF Init, LifeInv, Startup
<1>2. QED
  BY <1>1, LifeStep, TypeCorrect, PTL DEF Spec

(* Whatever signals arrive, and whenever they arrive, the set and the      *)
(* segment are gone when the process ends, unless it was killed while a    *)
(* thread was in the handler, on its way to remove what is left.           *)
THEOREM Cleanup == Spec => []NothingLeftBehind
<1>1. TypeOK /\ LifeInv => NothingLeftBehind
  BY DEF TypeOK, LifeInv, NothingLeftBehind, Startup, SetCared, ShmCared
<1>2. QED
  BY <1>1, TypeCorrect, LifeCorrect, PTL
-----------------------------------------------------------------------------
(* How the sets of threads inside change when one thread moves. *)
LEMMA InsideFinite ==
  /\ IsFiniteSet(Inside(Readers))
  /\ IsFiniteSet(Inside(Writers))
BY ReaderWriterAssumption, FS_Subset DEF Inside

LEMMA Enter ==
  ASSUME TypeOK, NEW g \in {Readers, Writers}, NEW t \in g,
         NEW s \in InsideSteps, pc[t] \notin InsideSteps,
         pc' = [pc EXCEPT ![t] = s]
  PROVE  /\ Inside(g)' = Inside(g) \cup {t}
         /\ Cardinality(Inside(g)') = Cardinality(Inside(g)) + 1
         /\ \A h \in {Readers, Writers} : t \notin h => Inside(h)' = Inside(h)
<1>1. /\ Inside(g)' = Inside(g) \cup {t}
      /\ t \notin Inside(g)
      /\ \A h \in {Readers, Writers} : t \notin h => Inside(h)' = Inside(h)
  BY DEF TypeOK, Inside, Threads
<1>2. QED
  BY <1>1, InsideFinite, FS_AddElement

LEMMA Leave ==
  ASSUME TypeOK, NEW g \in {Readers, Writers}, NEW t \in g,
         NEW s, s \notin InsideSteps, pc[t] \in InsideSteps,
         pc' = [pc EXCEPT ![t] = s]
  PROVE  /\ Inside(g)' = Inside(g) \ {t}
         /\ Cardinality(Inside(g)') = Cardinality(Inside(g)) - 1
         /\ \A h \in {Readers, Writers} : t \notin h => Inside(h)' = Inside(h)
<1>1. /\ Inside(g)' = Inside(g) \ {t}
      /\ t \in Inside(g)
      /\ \A h \in {Readers, Writers} : t \notin h => Inside(h)' = Inside(h)
  BY DEF TypeOK, Inside, Threads
<1>2. QED
  BY <1>1, InsideFinite, FS_RemoveElement

LEMMA Stay ==
  ASSUME TypeOK, NEW t, NEW s,
         pc[t] \in InsideSteps <=> s \in InsideSteps,
         pc' = [pc EXCEPT ![t] = s]
  PROVE  \A g \in {Readers, Writers} : Inside(g)' = Inside(g)
BY DEF TypeOK, Inside, Threads

LEMMA StepsInside ==
  /\ {"read", "write", "unlock"} \subseteq InsideSteps
  /\ "new" \notin InsideSteps /\ "lock" \notin InsideSteps
  /\ \A n \in Nat : Loop(n) \notin InsideSteps
BY DEF InsideSteps, Loop

(* The semaphore values count the threads inside, and the wait operations  *)
(* of the two lock arrays are exactly the tests that exclusion needs.      *)
ExclusionInv == SemsCountThreads /\ ExclusionWhileSetLives

LEMMA ExclusionStep ==
  ASSUME TypeOK, LifeInv, ExclusionInv, [Next]_vars
  PROVE  ExclusionInv'
<1> USE DEF ExclusionInv, SemsCountThreads, ExclusionWhileSetLives, ExclusiveUse
<1> Inside(Threads) = Inside(Readers) \cup Inside(Writers)
  BY DEF Inside, Threads
<1> Inside(Threads)' = Inside(Readers)' \cup Inside(Writers)'
  BY DEF Inside, Threads
<1>1. ASSUME \A g \in {Readers, Writers} : Inside(g)' = Inside(g),
             sem' = sem, set' \in {set, "removed"}
      PROVE  ExclusionInv'
  BY <1>1
<1>2. CASE MakeSegment
  BY <1>1, <1>2 DEF MakeSegment, At, Inside
<1>3. CASE init_my_sems
  <2>1. Inside(Readers)' = {} /\ Inside(Writers)' = {}
    BY <1>3, StepsInside DEF init_my_sems, At, Inside, LifeInv, Startup, Threads
  <2>2. QED
    BY <1>3, <2>1, FS_EmptySet DEF init_my_sems
<1>4. CASE InstallHandler
  BY <1>1, <1>4 DEF InstallHandler, Inside, threadVars
<1>5. ASSUME NEW group, NEW from, NEW to, Create(group, from, to)
      PROVE  ExclusionInv'
  <2>1. PICK t \in group :
          pc[t] = "new" /\ pc' = [pc EXCEPT ![t] = Loop(0)] /\ sem' = sem /\ set' = set
    BY <1>5 DEF Create
  <2>2. pc[t] \notin InsideSteps /\ Loop(0) \notin InsideSteps
    BY <2>1, StepsInside
  <2>3. QED
    BY <1>1, <2>1, <2>2, Stay
<1>6. ASSUME NEW group, NEW from, NEW to, Join(group, from, to)
      PROVE  ExclusionInv'
  BY <1>1, <1>6 DEF Join, threadVars, Inside
<1>7. CASE removeid
  BY <1>1, <1>7 DEF removeid, threadVars, Inside
<1>8. CASE RemoveSegment
  BY <1>1, <1>8 DEF RemoveSegment, threadVars, Inside
<1>9. ASSUME NEW r \in Readers, reader_lock(r), set = "live"
      PROVE  ExclusionInv'
  <2>1. /\ pc' = [pc EXCEPT ![r] = "read"] /\ pc[r] = "lock"
        /\ sem[WRITER] = 0 /\ sem' = Add(READER, 1) /\ set' = set
    BY <1>9 DEF reader_lock, Goto, Semop
  <2>2. /\ Cardinality(Inside(Readers)') = Cardinality(Inside(Readers)) + 1
        /\ Inside(Writers)' = Inside(Writers)
    <3>1. "read" \in InsideSteps /\ pc[r] \notin InsideSteps /\ r \notin Writers
      BY <2>1, StepsInside, ReaderWriterAssumption
    <3>2. QED
      BY <2>1, <3>1, Enter
  <2>3. Inside(Writers) = {}
    BY <1>9, <2>1, InsideFinite, FS_EmptySet
  <2>4. sem'[READER] = sem[READER] + 1 /\ sem'[WRITER] = sem[WRITER]
    BY <2>1 DEF Add, TypeOK
  <2>5. SemsCountThreads'
    BY <1>9, <2>1, <2>2, <2>4
  <2>6. ExclusionWhileSetLives'
    BY <2>2, <2>3
  <2>7. QED
    BY <2>5, <2>6
<1>10. ASSUME NEW w \in Writers, writer_lock(w), set = "live"
       PROVE  ExclusionInv'
  <2>1. /\ pc' = [pc EXCEPT ![w] = "read"] /\ pc[w] = "lock"
        /\ sem[READER] = 0 /\ sem[WRITER] = 0
        /\ sem' = Add(WRITER, 1) /\ set' = set
    BY <1>10 DEF writer_lock, Goto, Semop
  <2>2. /\ Cardinality(Inside(Writers)') = Cardinality(Inside(Writers)) + 1
        /\ Inside(Writers)' = Inside(Writers) \cup {w}
        /\ Inside(Readers)' = Inside(Readers)
    <3>1. "read" \in InsideSteps /\ pc[w] \notin InsideSteps /\ w \notin Readers
      BY <2>1, StepsInside, ReaderWriterAssumption
    <3>2. QED
      BY <2>1, <3>1, Enter
  <2>3. Inside(Readers) = {} /\ Inside(Writers) = {}
    BY <1>10, <2>1, InsideFinite, FS_EmptySet
  <2>4. sem'[WRITER] = sem[WRITER] + 1 /\ sem'[READER] = sem[READER]
    BY <2>1 DEF Add, TypeOK
  <2>5. SemsCountThreads'
    BY <1>10, <2>1, <2>2, <2>4
  <2>6. ExclusionWhileSetLives'
    BY <2>2, <2>3
  <2>7. QED
    BY <2>5, <2>6
<1>11. ASSUME NEW r \in Readers, reader_unlock(r), set = "live"
       PROVE  ExclusionInv'
  <2>1. /\ pc' = [pc EXCEPT ![r] = Loop(cnt[r])] /\ pc[r] = "unlock"
        /\ sem' = Sub(READER, 1) /\ set' = set /\ cnt[r] \in Nat
    BY <1>11 DEF reader_unlock, Goto, Semop, TypeOK, Threads
  <2>2. /\ Cardinality(Inside(Readers)') = Cardinality(Inside(Readers)) - 1
        /\ Inside(Readers)' = Inside(Readers) \ {r}
        /\ Inside(Writers)' = Inside(Writers)
    <3>1. Loop(cnt[r]) \notin InsideSteps /\ pc[r] \in InsideSteps /\ r \notin Writers
      BY <2>1, StepsInside, ReaderWriterAssumption
    <3>2. QED
      BY <2>1, <3>1, Leave
  <2>3. sem'[READER] = sem[READER] - 1 /\ sem'[WRITER] = sem[WRITER]
    BY <2>1 DEF Sub, TypeOK
  <2>4. Inside(Writers) = {}
    BY <1>11, <2>1, StepsInside, ReaderWriterAssumption DEF Inside
  <2>5. SemsCountThreads'
    BY <1>11, <2>1, <2>2, <2>3
  <2>6. ExclusionWhileSetLives'
    BY <2>2, <2>4
  <2>7. QED
    BY <2>5, <2>6
<1>12. ASSUME NEW w \in Writers, writer_unlock(w), set = "live"
       PROVE  ExclusionInv'
  <2>1. /\ pc' = [pc EXCEPT ![w] = Loop(cnt[w])] /\ pc[w] = "unlock"
        /\ sem' = Sub(WRITER, 1) /\ set' = set /\ cnt[w] \in Nat
    BY <1>12 DEF writer_unlock, Goto, Semop, TypeOK, Threads
  <2>2. /\ Cardinality(Inside(Writers)') = Cardinality(Inside(Writers)) - 1
        /\ Inside(Writers)' = Inside(Writers) \ {w}
        /\ Inside(Readers)' = Inside(Readers)
    <3>1. Loop(cnt[w]) \notin InsideSteps /\ pc[w] \in InsideSteps /\ w \notin Readers
      BY <2>1, StepsInside, ReaderWriterAssumption
    <3>2. QED
      BY <2>1, <3>1, Leave
  <2>3. sem'[WRITER] = sem[WRITER] - 1 /\ sem'[READER] = sem[READER]
    BY <2>1 DEF Sub, TypeOK
  <2>4. Inside(Writers) = {w}
    BY <1>12, <2>1, StepsInside DEF Inside
  <2>5. sem[WRITER] \in Nat
    BY DEF TypeOK
  <2>6. SemsCountThreads'
    BY <1>12, <2>1, <2>2, <2>3, <2>5
  <2>7. ExclusionWhileSetLives'
    BY <2>2, <2>4
  <2>8. QED
    BY <2>6, <2>7
<1>13. ASSUME NEW r \in Readers, ReadShared(r)
       PROVE  ExclusionInv'
  BY <1>1, <1>13, Stay, StepsInside DEF ReadShared, Goto
<1>14. ASSUME NEW w \in Writers, LoadShared(w) \/ StoreShared(w)
       PROVE  ExclusionInv'
  BY <1>1, <1>14, Stay, StepsInside DEF LoadShared, StoreShared, Goto
<1>15. ASSUME NEW t \in Threads, NEW from, NEW to, Goto(t, from, to), set # "live"
       PROVE  ExclusionInv'
  BY <1>15 DEF Goto
<1>16. CASE Sigint
  BY <1>1, <1>16 DEF Sigint, threadVars, Inside
<1>16a. ASSUME NEW t \in Callers, ctrlc_handler(t) PROVE ExclusionInv'
  BY <1>1, <1>16a DEF ctrlc_handler, HandlerCall, threadVars, Inside
<1>17. CASE UNCHANGED vars
  BY <1>1, <1>17 DEF vars, Inside
<1>18. ASSUME NEW r \in Readers, Reader(r) PROVE ExclusionInv'
  BY <1>9, <1>11, <1>13, <1>15, <1>18
  DEF Reader, reader_lock, reader_unlock, Threads
<1>19. ASSUME NEW w \in Writers, Writer(w) PROVE ExclusionInv'
  BY <1>10, <1>12, <1>14, <1>15, <1>19
  DEF Writer, writer_lock, writer_unlock, Threads
<1>20. QED
  BY <1>2, <1>3, <1>4, <1>5, <1>6, <1>7, <1>8, <1>16, <1>16a, <1>17, <1>18, <1>19
  DEF Next, Main, Ended
(* l.283 of the file and the header, for any number of threads.            *)
THEOREM Exclusion == Spec => [](SemsCountThreads /\ ExclusionWhileSetLives)
<1>1. Init => ExclusionInv
  BY DEF Init, ExclusionInv, SemsCountThreads, ExclusionWhileSetLives
<1>2. ExclusionInv <=> SemsCountThreads /\ ExclusionWhileSetLives
  BY DEF ExclusionInv
<1>3. QED
  BY <1>1, <1>2, ExclusionStep, TypeCorrect, LifeCorrect, PTL DEF Spec

(* The half of it the comment at l.283 of the program is about: both       *)
(* values are what is inside, and at most one writer is.                   *)
THEOREM CountsAreExact == Spec => []SemsCountThreads
<1>1. QED
  BY Exclusion, PTL

-----------------------------------------------------------------------------
(* Threads that still use the value they loaded; all of them are inside.   *)
Holding(t) ==
  \/ t \in Readers /\ pc[t] = "unlock"
  \/ t \in Writers /\ pc[t] = "write"

LEMMA LoadedStep ==
  ASSUME TypeOK, LifeInv, ExclusionInv, LoadedValueIsCurrent, [Next]_vars
  PROVE  LoadedValueIsCurrent'
<1> USE DEF Holding
<1>0. LoadedValueIsCurrent <=>
        (set = "live" => \A t \in Threads : Holding(t) => tmp[t] = shared)
  BY DEF LoadedValueIsCurrent
<1>0a. LoadedValueIsCurrent' <=>
        (set' = "live" => \A t \in Threads : Holding(t)' => tmp'[t] = shared')
  BY DEF LoadedValueIsCurrent
<1>1. ASSUME \A t \in Threads : Holding(t)' => Holding(t),
             UNCHANGED <<tmp, shared>>, set' \in {set, "removed"}
      PROVE  LoadedValueIsCurrent'
  BY <1>0, <1>0a, <1>1
<1>2. CASE MakeSegment \/ init_my_sems
  <2>1. \A t \in Threads : pc'[t] = "new"
    BY <1>2 DEF MakeSegment, init_my_sems, At, LifeInv, Startup
  <2>2. QED
    BY <1>0a, <2>1
<1>3. CASE InstallHandler
  BY <1>1, <1>3 DEF InstallHandler, threadVars
<1>4. ASSUME NEW group, NEW from, NEW to, Create(group, from, to)
      PROVE  LoadedValueIsCurrent'
  BY <1>1, <1>4 DEF Create, Loop, TypeOK
<1>5. ASSUME NEW group, NEW from, NEW to, Join(group, from, to)
      PROVE  LoadedValueIsCurrent'
  BY <1>1, <1>5 DEF Join, threadVars
<1>6. CASE removeid \/ RemoveSegment
  BY <1>1, <1>6 DEF removeid, RemoveSegment, threadVars
<1>7. CASE Sigint
  BY <1>1, <1>7 DEF Sigint, threadVars
<1>7a. ASSUME NEW t \in Callers, ctrlc_handler(t) PROVE LoadedValueIsCurrent'
  BY <1>1, <1>7a DEF ctrlc_handler, HandlerCall, threadVars
<1>8. CASE UNCHANGED vars
  BY <1>1, <1>8 DEF vars
<1>9. ASSUME NEW r \in Readers, reader_lock(r) \/ reader_unlock(r)
      PROVE  LoadedValueIsCurrent'
  <2>1. \A t \in Threads : Holding(t)' => Holding(t)
    BY <1>9, ReaderWriterAssumption
    DEF reader_lock, reader_unlock, Goto, Loop, TypeOK
  <2>2. QED
    BY <1>1, <1>9, <2>1 DEF reader_lock, reader_unlock, Goto
<1>10. ASSUME NEW w \in Writers, writer_lock(w) \/ writer_unlock(w)
       PROVE  LoadedValueIsCurrent'
  <2>1. \A t \in Threads : Holding(t)' => Holding(t)
    BY <1>10, ReaderWriterAssumption
    DEF writer_lock, writer_unlock, Goto, Loop, TypeOK
  <2>2. QED
    BY <1>1, <1>10, <2>1 DEF writer_lock, writer_unlock, Goto
<1>11. ASSUME NEW t \in Threads, ReadShared(t) \/ LoadShared(t)
       PROVE  LoadedValueIsCurrent'
  <2>1. /\ tmp' = [tmp EXCEPT ![t] = shared] /\ shared' = shared /\ set' = set
        /\ \E s : pc' = [pc EXCEPT ![t] = s]
    BY <1>11 DEF ReadShared, LoadShared, Goto
  <2>2. ASSUME NEW u \in Threads, u # t
        PROVE  tmp'[u] = tmp[u] /\ pc'[u] = pc[u]
    BY <2>1, <2>2 DEF TypeOK
  <2>3. tmp'[t] = shared'
    BY <2>1 DEF TypeOK
  <2>4. QED
    BY <1>0, <1>0a, <2>1, <2>2, <2>3
<1>12. ASSUME NEW w \in Writers, StoreShared(w), set = "live"
       PROVE  LoadedValueIsCurrent'
  <2>1. pc[w] = "write" /\ pc' = [pc EXCEPT ![w] = "unlock"]
    BY <1>12 DEF StoreShared, Goto
  <2>2. Inside(Threads) = {w}
    BY <1>12, <2>1, StepsInside
    DEF ExclusionInv, ExclusionWhileSetLives, ExclusiveUse, Inside
  <2>3. \A t \in Threads : ~Holding(t)'
    BY <2>1, <2>2, StepsInside, ReaderWriterAssumption DEF Inside, TypeOK, Threads
  <2>4. QED
    BY <1>0a, <2>3
<1>13. ASSUME NEW w \in Writers, StoreShared(w), set # "live"
       PROVE  LoadedValueIsCurrent'
  BY <1>0a, <1>13 DEF StoreShared, Goto
<1>14. QED
  BY <1>2, <1>3, <1>4, <1>5, <1>6, <1>7, <1>7a, <1>8, <1>9, <1>10, <1>11, <1>12, <1>13
  DEF Next, Main, Reader, Writer, Ended, Threads

(* No increment is lost and no reader sees the cell change under its lock. *)
THEOREM NoStaleValue == Spec => []LoadedValueIsCurrent
<1>1. Init => LoadedValueIsCurrent
  BY DEF Init, LoadedValueIsCurrent
<1>2. SemsCountThreads /\ ExclusionWhileSetLives => ExclusionInv
  BY DEF ExclusionInv
<1>3. QED
  BY <1>1, <1>2, LoadedStep, TypeCorrect, LifeCorrect, Exclusion, PTL DEF Spec
-----------------------------------------------------------------------------
LEMMA RefinementStep ==
  ASSUME TypeOK, LifeInv, ExclusionInv, LoadedValueIsCurrent, [Next]_vars,
         set' # "removed"
  PROVE  /\ set # "removed"
         /\ \/ RW!Use
            \/ UNCHANGED <<Inside(Readers), Inside(Writers), shared>>
<1> DEFINE cell == <<Inside(Readers), Inside(Writers), shared>>
<1>0. Inside(Threads) = Inside(Readers) \cup Inside(Writers)
  BY DEF Inside, Threads
<1>1. ASSUME Main PROVE set # "removed" /\ UNCHANGED cell
  <2>1. CASE MakeSegment \/ init_my_sems \/ InstallHandler \/ removeid \/ RemoveSegment
    BY <2>1 DEF MakeSegment, init_my_sems, InstallHandler, removeid,
                RemoveSegment, At, LifeInv, Startup, Inside, threadVars
  <2>2. ASSUME NEW group, NEW from, NEW to, Create(group, from, to)
        PROVE  set # "removed" /\ UNCHANGED cell
    <3>1. PICK t \in group : /\ pc[t] = "new" /\ pc' = [pc EXCEPT ![t] = Loop(0)]
                             /\ shared' = shared /\ set' = set
      BY <2>2 DEF Create
    <3>2. pc[t] \notin InsideSteps /\ Loop(0) \notin InsideSteps
      BY <3>1, StepsInside
    <3>3. QED
      BY <3>1, <3>2, Stay
  <2>3. ASSUME NEW group, NEW from, NEW to, Join(group, from, to)
        PROVE  set # "removed" /\ UNCHANGED cell
    BY <2>3 DEF Join, threadVars, Inside
  <2>4. QED
    BY <1>1, <2>1, <2>2, <2>3 DEF Main
<1>2. ASSUME NEW t \in Threads, NEW from, NEW to, from # "new", Goto(t, from, to)
      PROVE  set = "live"
  BY <1>2 DEF Goto, LifeInv, Startup, TypeOK, Life
<1>3. ASSUME NEW r \in Readers, Reader(r)
      PROVE  RW!StartRead(r) \/ RW!EndRead(r) \/ UNCHANGED cell
  <2>0. r \in Threads /\ r \notin Writers
    BY ReaderWriterAssumption DEF Threads
  <2>1. CASE reader_lock(r)
    <3>1. /\ pc' = [pc EXCEPT ![r] = "read"] /\ pc[r] = "lock"
          /\ sem[WRITER] = 0 /\ shared' = shared /\ set = "live"
      BY <1>2, <2>0, <2>1 DEF reader_lock, Goto, Semop
    <3>2. pc[r] \notin InsideSteps /\ "read" \in InsideSteps
      BY <3>1, StepsInside
    <3>3. /\ Inside(Readers)' = Inside(Readers) \cup {r}
          /\ Inside(Writers)' = Inside(Writers)
      BY <2>0, <3>1, <3>2, Enter
    <3>4. Inside(Writers) = {}
      BY <3>1, InsideFinite, FS_EmptySet DEF ExclusionInv, SemsCountThreads
    <3>5. r \notin Inside(Readers)
      BY <3>2 DEF Inside
    <3>6. QED
      BY <3>1, <3>3, <3>4, <3>5 DEF RW!StartRead
  <2>2. CASE ReadShared(r)
    BY <2>2, Stay, StepsInside DEF ReadShared, Goto
  <2>3. CASE reader_unlock(r)
    <3>1. /\ pc' = [pc EXCEPT ![r] = Loop(cnt[r])] /\ pc[r] = "unlock"
          /\ shared' = shared /\ cnt[r] \in Nat
      BY <2>0, <2>3 DEF reader_unlock, Goto, TypeOK
    <3>2. pc[r] \in InsideSteps /\ Loop(cnt[r]) \notin InsideSteps
      BY <3>1, StepsInside
    <3>3. /\ Inside(Readers)' = Inside(Readers) \ {r}
          /\ Inside(Writers)' = Inside(Writers)
      BY <2>0, <3>1, <3>2, Leave
    <3>4. r \in Inside(Readers)
      BY <3>2 DEF Inside
    <3>5. QED
      BY <3>1, <3>3, <3>4 DEF RW!EndRead
  <2>4. QED
    BY <1>3, <2>1, <2>2, <2>3 DEF Reader
<1>4. ASSUME NEW w \in Writers, Writer(w)
      PROVE  \/ RW!StartWrite(w) \/ RW!Increment(w) \/ RW!EndWrite(w)
             \/ UNCHANGED cell
  <2>0. w \in Threads /\ w \notin Readers
    BY ReaderWriterAssumption DEF Threads
  <2>1. CASE writer_lock(w)
    <3>1. /\ pc' = [pc EXCEPT ![w] = "read"] /\ pc[w] = "lock" /\ set = "live"
          /\ sem[READER] = 0 /\ sem[WRITER] = 0 /\ shared' = shared
      BY <1>2, <2>0, <2>1 DEF writer_lock, Goto, Semop
    <3>2. pc[w] \notin InsideSteps /\ "read" \in InsideSteps
      BY <3>1, StepsInside
    <3>3. /\ Inside(Writers)' = Inside(Writers) \cup {w}
          /\ Inside(Readers)' = Inside(Readers)
      BY <2>0, <3>1, <3>2, Enter
    <3>4. Inside(Writers) = {} /\ Inside(Readers) = {}
      BY <3>1, InsideFinite, FS_EmptySet DEF ExclusionInv, SemsCountThreads
    <3>5. QED
      BY <3>1, <3>3, <3>4 DEF RW!StartWrite
  <2>2. CASE LoadShared(w)
    BY <2>2, Stay, StepsInside DEF LoadShared, Goto
  <2>3. CASE StoreShared(w)
    <3>1. /\ pc' = [pc EXCEPT ![w] = "unlock"] /\ pc[w] = "write"
          /\ shared' = tmp[w] + 1 /\ set = "live"
      BY <1>2, <2>0, <2>3 DEF StoreShared, Goto
    <3>2. pc[w] \in InsideSteps /\ "unlock" \in InsideSteps
      BY <3>1, StepsInside
    <3>3. \A g \in {Readers, Writers} : Inside(g)' = Inside(g)
      BY <3>1, <3>2, Stay
    <3>4. Inside(Writers) = {w}
      BY <1>0, <2>0, <3>1, <3>2
      DEF ExclusionInv, ExclusionWhileSetLives, ExclusiveUse, Inside
    <3>5. tmp[w] = shared
      BY <2>0, <3>1 DEF LoadedValueIsCurrent
    <3>6. QED
      BY <3>1, <3>3, <3>4, <3>5 DEF RW!Increment
  <2>4. CASE writer_unlock(w)
    <3>1. /\ pc' = [pc EXCEPT ![w] = Loop(cnt[w])] /\ pc[w] = "unlock"
          /\ shared' = shared /\ cnt[w] \in Nat
      BY <2>0, <2>4 DEF writer_unlock, Goto, TypeOK
    <3>2. pc[w] \in InsideSteps /\ Loop(cnt[w]) \notin InsideSteps
      BY <3>1, StepsInside
    <3>3. /\ Inside(Writers)' = Inside(Writers) \ {w}
          /\ Inside(Readers)' = Inside(Readers)
      BY <2>0, <3>1, <3>2, Leave
    <3>4. w \in Inside(Writers)
      BY <3>2 DEF Inside
    <3>5. QED
      BY <3>1, <3>3, <3>4 DEF RW!EndWrite
  <2>5. QED
    BY <1>4, <2>1, <2>2, <2>3, <2>4 DEF Writer
<1>5. CASE UNCHANGED vars
  BY <1>5 DEF vars, Inside
<1>6. CASE Sigint
  BY <1>6 DEF Sigint, threadVars, Inside
<1>6a. ASSUME NEW t \in Callers, ctrlc_handler(t)
       PROVE  UNCHANGED cell /\ set' \in {set, "removed"}
  BY <1>6a DEF ctrlc_handler, HandlerCall, threadVars, Inside
<1>7. ASSUME NEW t \in Threads, NEW from, NEW to, Goto(t, from, to)
      PROVE  set # "removed"
  BY <1>7 DEF Goto
<1>8. (\E r \in Readers : Reader(r)) \/ (\E w \in Writers : Writer(w))
        => set # "removed"
  <2>1. ASSUME NEW r \in Readers, Reader(r)
        PROVE  \E from, to : Goto(r, from, to)
    BY <2>1 DEF Reader, reader_lock, ReadShared, reader_unlock
  <2>2. ASSUME NEW w \in Writers, Writer(w)
        PROVE  \E from, to : Goto(w, from, to)
    BY <2>2 DEF Writer, writer_lock, LoadShared, StoreShared, writer_unlock
  <2>3. QED
    BY <1>7, <2>1, <2>2 DEF Threads
<1>9. CASE \E r \in Readers : Reader(r)
  BY <1>3, <1>8, <1>9 DEF RW!Use
<1>10. CASE \E w \in Writers : Writer(w)
  BY <1>4, <1>8, <1>10 DEF RW!Use
<1>11. set' = set => set # "removed"
  OBVIOUS
<1>12. QED
  BY <1>1, <1>5, <1>6, <1>6a, <1>9, <1>10, <1>11
  DEF Next, Ended, vars, Sigint

(* Until the semaphore set is removed, by Ctrl-C or by main() at the end,  *)
(* the threads have a readers/writers lock, for all numbers of them.       *)
THEOREM Refinement == Spec => ImplementsRWLock
<1>1. Init => RW!Init
  BY StepsInside DEF Init, RW!Init, Inside, Threads
<1>2. ASSUME TypeOK, LifeInv, ExclusionInv, LoadedValueIsCurrent, [Next]_vars
      PROVE  [RW!Next]_(RW!rwvars)
  <2>1. CASE set' = "removed"
    BY <2>1 DEF RW!Next
  <2>2. CASE set' # "removed"
    BY <1>2, <2>2, RefinementStep DEF RW!Next, RW!rwvars
  <2>3. QED
    BY <2>1, <2>2
<1>3. SemsCountThreads /\ ExclusionWhileSetLives => ExclusionInv
  BY DEF ExclusionInv
<1>4. QED
  BY <1>1, <1>2, <1>3, TypeCorrect, LifeCorrect, Exclusion, NoStaleValue, PTL
  DEF Spec, ImplementsRWLock, RW!Spec
=============================================================================
