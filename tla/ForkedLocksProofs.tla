------------------------- MODULE ForkedLocksProofs --------------------------
(***************************************************************************)
(* Proofs about ForkedLocks where runs follow one another (no Overlap),    *)
(* for any number of runs, rounds, Ctrl-C and kills: exclusion on the      *)
(* semaphores, what a value that is up means, and what is left behind.     *)
(***************************************************************************)
EXTENDS ForkedLocks, FiniteSetTheorems, TLAPS

USE KeyedLockAssumption, SemtestAssumption, Lab5oldAssumption,
    SemCtrlAssumption

(* Where a parent and where a child can be. *)
BeforeSemget == {"none", "shmget", "sigaction", "semget"}
BeforeFork == BeforeSemget \cup {"SETVAL", "fork"}
ParentSteps ==
  BeforeFork \cup {"assign", "grab", "inside", "release", "wait", "rmid"} \cup Ended
ChildSteps ==
  {"none", "grab", "inside", "remove segment", "undo", "exit"} \cup Ended

(* A child comes after its parent's fork, a run after the parents before   *)
(* it, and the set a run uses was made by that run or an earlier one.      *)
Shape ==
  \A r \in RunIds :
    /\ pc[Parent(r)] \in ParentSteps /\ pc[Child(r)] \in ChildSteps
    /\ pc[Child(r)] # "none" => pc[Parent(r)] \notin BeforeFork
    /\ semid[r] <= r
    /\ pc[Parent(r)] \in BeforeSemget => semid[r] = 0
    /\ \A q \in RunIds :
         q < r /\ pc[Parent(r)] # "none" => pc[Parent(q)] \in Ended

(* The set is that of the run it is named after, and it is none that a     *)
(* parent which exited had.                                                *)
KeyShape ==
  key # 0 => /\ semid[key] = key
             /\ \A r \in RunIds : pc[Parent(r)] = "exited" => semid[r] # key

Holds(p) == Inside(p) /\ HasSet(p)

(* The semaphore counts its holder, and so does its adjustment. *)
Account ==
  /\ \A p, q \in Procs : Holds(p) /\ Holds(q) => p = q
  /\ \A p \in Procs : semadj[p] = IF Holds(p) THEN -1 ELSE 0
  /\ val = IF \E p \in Procs : Holds(p) THEN 1 ELSE 0

LockInv == Shape /\ KeyShape /\ (~Abandoned => Account)

(* The child of lab5 removes the segment before it exits. *)
SegmentInv ==
  program = "lab5" =>
    \A r \in RunIds : pc[Child(r)] \in {"undo", "exited"} => segment[r] = "removed"

CtlInv ==
  /\ \/ ctlVal = 0 /\ ctlAdj = 0
     \/ ctlVal = 1 /\ ctlAdj = -1
  /\ ctl \notin {"try", "kill", "rmid"} => ctlVal = 0
  /\ ctl = "exited" => ctlSet = "none"

NamedValue(i) == IF named[i] = -1 THEN 0 ELSE named[i]

(* lab5old: one token, in a semaphore or with who is between a sem_wait    *)
(* and its sem_post; none before the second semaphore was made.            *)
Token ==
  /\ NamedValue(1) + NamedValue(2) + Cardinality(OldWriters)
       + Cardinality(OldReaders) <= 1
  /\ named[2] = -1 =>
       /\ named[1] \in {-1, 0}
       /\ \A r \in OldRunIds :
            /\ oldPar[r] \in {"none", "shmget", "sem1", "sem2", "killed"}
            /\ oldChi[r] = "none"
  /\ \A r \in OldRunIds : oldPar[r] = "sem2" => named[1] # -1
  /\ named[1] = -1 => named[2] = -1

----------------------------------------------------------------------------
(* Names.                                                                  *)

LEMMA RunNames ==
  /\ \A r \in RunIds : r \in Nat /\ r # 0 /\ r \in 0..Runs
  /\ \A k \in 0..Runs : k # 0 => k \in RunIds
BY DEF RunIds

LEMMA ProcNames ==
  /\ \A r \in RunIds :
       /\ Parent(r) \in Procs /\ Parent(r)[1] = r /\ Parent(r)[2] = "parent"
       /\ Child(r) \in Procs /\ Child(r)[1] = r /\ Child(r)[2] = "child"
  /\ \A r, q \in RunIds : Parent(r) # Child(q)
  /\ \A r, q \in RunIds : Parent(r) = Parent(q) => r = q
  /\ \A r, q \in RunIds : Child(r) = Child(q) => r = q
BY DEF Parent, Child, Procs

LEMMA EveryProc ==
  ASSUME NEW p \in Procs
  PROVE  /\ p[1] \in RunIds
         /\ \/ p[2] = "parent" /\ p = Parent(p[1])
            \/ p[2] = "child" /\ p = Child(p[1])
BY DEF Parent, Child, Procs

InsideSteps == {"inside", "release", "remove segment", "undo"}

LEMMA StepNames ==
  /\ ParentSteps \subseteq LockSteps /\ ChildSteps \subseteq LockSteps
  /\ BeforeSemget \subseteq BeforeFork /\ BeforeFork \subseteq ParentSteps
  /\ Ended \subseteq ParentSteps /\ Ended \subseteq ChildSteps
  /\ "none" \in BeforeSemget /\ "none" \notin Ended
  /\ \A l \in Ended : l \notin BeforeFork /\ l \notin InsideSteps
  /\ \A l \in BeforeFork : l \notin Ended /\ l \notin InsideSteps
  /\ "none" \in ChildSteps /\ "none" \notin InsideSteps
  /\ {"exited", "exit 77", "killed"} = Ended
BY DEF ParentSteps, ChildSteps, LockSteps, BeforeSemget, BeforeFork, Ended,
       InsideSteps, NoHandler, ChildUnset

LEMMA InsideNames ==
  \A p : Inside(p) <=> pc[p] \in InsideSteps
BY DEF Inside, InsideSteps

----------------------------------------------------------------------------
(* The steps of semtest and lab5 on what they share.                       *)

Quiet(r) ==
  /\ \/ Goto(Parent(r), "shmget", "sigaction")
     \/ Goto(Parent(r), "inside", "release")
     \/ Goto(Child(r), "inside", "remove segment")
     \/ Goto(Child(r), "remove segment", "undo")
  /\ UNCHANGED <<semVars, sigVars>>

Leave(p) ==
  \/ Release(p, "inside", "grab")
  \/ p[2] = "parent" /\ Release(p, "inside", "wait")
  \/ p[2] = "parent" /\ Release(p, "release", "wait")
  \/ p[2] = "child" /\ Release(p, "inside", "exit")

ChildEnds(p) ==
  /\ p[2] = "child"
  /\ pc[p] \in {"undo", "exit"}
  /\ Exit(p, "exited")
  /\ UNCHANGED sigVars

RunMove(r) ==
  \/ Start(r, "sigaction") \/ Start(r, "shmget")
  \/ InstallHandler(r) \/ Semget(r) \/ SetVal(r) \/ Fork(r) \/ AssignChild(r)
  \/ Wait(r) \/ Cleanup(r) \/ Quiet(r) \/ CtrlC(r)

ProcMove(p) ==
  Grab(p) \/ Leave(p) \/ ChildEnds(p) \/ TakeSigint(p) \/ Kill(p)

LockMove ==
  \/ \E r \in RunIds : RunMove(r)
  \/ \E p \in Procs : ProcMove(p)
  \/ UNCHANGED lockVars

LEMMA SemtestMoves ==
  ASSUME Shape, SemtestNext
  PROVE  LockMove
<1>1. ASSUME NEW r \in RunIds, SemtestStart(r) \/ CtrlC(r)
      PROVE  LockMove
  BY <1>1 DEF SemtestStart, LockMove, RunMove
<1>2. ASSUME NEW p \in Procs, SemtestStep(p) \/ Kill(p)
      PROVE  LockMove
  <2> DEFINE r == p[1]
  <2>1. r \in RunIds /\ (p[2] = "parent" \/ p[2] = "child")
    BY EveryProc
  <2>2. CASE EndRound(p)
    <3>1. Leave(p)
      BY <2>1, <2>2 DEF EndRound, Leave
    <3>2. QED
      BY <3>1 DEF LockMove, ProcMove
  <2>3. CASE p[2] = "parent" /\ (SetUp(r) \/ Wait(r) \/ Cleanup(r))
    BY <2>1, <2>3 DEF SetUp, LockMove, RunMove
  <2>4. CASE ChildExit(p)
    <3>1. p[2] = "child"
      <4>1. SUFFICES ASSUME p = Parent(r) PROVE FALSE
        BY EveryProc
      <4>2. pc[p] \in ParentSteps
        BY <2>1, <4>1 DEF Shape
      <4>3. QED
        BY <2>4, <4>2 DEF ChildExit, ParentSteps, BeforeFork, BeforeSemget, Ended
    <3>2. ChildEnds(p)
      BY <2>4, <3>1 DEF ChildExit, ChildEnds
    <3>3. QED
      BY <3>2 DEF LockMove, ProcMove
  <2>5. CASE Grab(p) \/ TakeSigint(p) \/ Kill(p)
    BY <2>5 DEF LockMove, ProcMove
  <2>6. QED
    BY <1>2, <2>2, <2>3, <2>4, <2>5 DEF SemtestStep
<1>3. QED
  BY <1>1, <1>2 DEF SemtestNext

LEMMA Lab5Moves ==
  ASSUME Lab5Next
  PROVE  LockMove
<1>1. ASSUME NEW r \in RunIds, Lab5Start(r) \/ CtrlC(r)
      PROVE  LockMove
  BY <1>1 DEF Lab5Start, LockMove, RunMove
<1>2. ASSUME NEW p \in Procs, Lab5Step(p) \/ Kill(p)
      PROVE  LockMove
  <2> DEFINE r == p[1]
  <2>1. /\ r \in RunIds
        /\ p[2] = "parent" => p = Parent(r)
        /\ p[2] = "child" => p = Child(r)
    BY EveryProc
  <2>2. CASE p[2] = "parent" /\ Lab5Parent(r)
    <3>1. CASE MakeSegment(r) \/ WriteFib(r)
      <4>1. Quiet(r)
        BY <3>1 DEF MakeSegment, WriteFib, Quiet
      <4>2. QED
        BY <2>1, <4>1 DEF LockMove, RunMove
    <3>2. CASE Release(Parent(r), "release", "wait") \/ Grab(Parent(r))
      BY <2>1, <2>2, <3>2 DEF Leave, LockMove, ProcMove
    <3>3. CASE SetUp(r) \/ Wait(r) \/ Cleanup(r)
      BY <2>1, <3>3 DEF SetUp, LockMove, RunMove
    <3>4. QED
      BY <2>2, <3>1, <3>2, <3>3 DEF Lab5Parent
  <2>3. CASE p[2] = "child" /\ Lab5Child(r)
    <3>1. CASE ReadFib(r) \/ RemoveSegment(r)
      <4>1. Quiet(r)
        BY <3>1 DEF ReadFib, RemoveSegment, Quiet
      <4>2. QED
        BY <2>1, <4>1 DEF LockMove, RunMove
    <3>2. CASE Grab(Child(r))
      BY <2>1, <2>3, <3>2 DEF LockMove, ProcMove
    <3>3. CASE ChildUndo(r)
      <4>1. ChildEnds(p)
        BY <2>1, <2>3, <3>3 DEF ChildUndo, ChildEnds
      <4>2. QED
        BY <4>1 DEF LockMove, ProcMove
    <3>4. QED
      BY <2>3, <3>1, <3>2, <3>3 DEF Lab5Child
  <2>4. CASE TakeSigint(p) \/ Kill(p)
    BY <2>4 DEF LockMove, ProcMove
  <2>5. QED
    BY <1>2, <2>2, <2>3, <2>4 DEF Lab5Step
<1>3. QED
  BY <1>1, <1>2 DEF Lab5Next

LEMMA Moves ==
  ASSUME Shape, [ForkedNext]_forkedVars
  PROVE  LockMove
<1>1. CASE RunSemtest(SemtestNext)
  BY <1>1, SemtestMoves DEF RunSemtest
<1>2. CASE RunLab5(Lab5Next)
  BY <1>2, Lab5Moves DEF RunLab5
<1>3. CASE RunLab5old(OldNext) \/ RunSemCtrl(CtlNext) \/ UNCHANGED forkedVars
  BY <1>3 DEF RunLab5old, RunSemCtrl, LockMove, forkedVars
<1>4. QED
  BY <1>1, <1>2, <1>3 DEF ForkedNext

----------------------------------------------------------------------------
(* Types.                                                                  *)

LEMMA TypeNames ==
  {"none", "shmget", "sigaction", "semget", "SETVAL", "fork", "assign", "grab",
   "inside", "release", "wait", "rmid", "remove segment", "undo", "exit",
   "exited", "exit 77", "killed"} \subseteq LockSteps
BY DEF LockSteps, NoHandler, ChildUnset, Ended

LEMMA GotoType ==
  ASSUME LockTypeOK, NEW p \in Procs, NEW from, NEW to \in LockSteps,
         Goto(p, from, to)
  PROVE  pc' \in [Procs -> LockSteps]
BY DEF LockTypeOK, Goto

LEMMA ExitType ==
  ASSUME LockTypeOK, NEW p \in Procs, NEW how \in LockSteps, Exit(p, how)
  PROVE  /\ pc' \in [Procs -> LockSteps] /\ val' \in Nat
         /\ semadj' \in [Procs -> Int]
         /\ key' \in 0..Runs /\ semid' \in [RunIds -> 0..Runs]
<1>1. semadj[p] \in Int /\ val \in Nat
  BY DEF LockTypeOK
<1>2. val' \in Nat
  <2>1. val' = IF val + semadj[p] > 0 THEN val + semadj[p] ELSE 0
    BY DEF Exit
  <2>2. val + semadj[p] \in Int
    BY <1>1
  <2>3. QED
    BY <2>1, <2>2
<1>3. QED
  BY <1>1, <1>2 DEF Exit, LockTypeOK

LEMMA RemoveType ==
  ASSUME LockTypeOK, NEW p \in Procs, RemoveAndExit(p)
  PROVE  /\ pc' \in [Procs -> LockSteps] /\ val' \in Nat
         /\ semadj' \in [Procs -> Int]
         /\ key' \in 0..Runs /\ semid' \in [RunIds -> 0..Runs]
<1>1. CASE HasSet(p)
  <2>1. /\ pc' = [pc EXCEPT ![p] = "exited"]
        /\ key' = 0 /\ val' = 0 /\ semadj' = NoAdj /\ semid' = semid
    BY <1>1 DEF RemoveAndExit
  <2>2. pc' \in [Procs -> LockSteps]
    BY <2>1, TypeNames DEF LockTypeOK
  <2>3. 0 \in 0..Runs /\ 0 \in Nat /\ NoAdj \in [Procs -> Int]
    BY DEF NoAdj, KeyedLockAssumption
  <2>4. QED
    BY <2>1, <2>2, <2>3 DEF LockTypeOK
<1>2. CASE ~HasSet(p)
  BY <1>2, TypeNames, ExitType DEF RemoveAndExit
<1>3. QED
  BY <1>1, <1>2

LEMMA RunMoveType ==
  ASSUME LockTypeOK, NEW r \in RunIds, RunMove(r)
  PROVE  LockTypeOK'
<1>1. Parent(r) \in Procs /\ Child(r) \in Procs /\ r \in 0..Runs
  BY ProcNames, RunNames
<1>2. CASE Start(r, "sigaction") \/ Start(r, "shmget") \/ InstallHandler(r)
           \/ AssignChild(r) \/ Wait(r) \/ Quiet(r)
  <2>1. pc' \in [Procs -> LockSteps]
    BY <1>1, <1>2, GotoType, TypeNames
       DEF Start, InstallHandler, AssignChild, Wait, Quiet
  <2>2. UNCHANGED <<semVars, sigVars>>
    BY <1>2 DEF Start, InstallHandler, AssignChild, Wait, Quiet
  <2>3. QED
    BY <2>1, <2>2 DEF LockTypeOK, semVars, sigVars
<1>3. CASE Semget(r)
  <2>1. pc' \in [Procs -> LockSteps]
    BY <1>1, <1>3, GotoType, TypeNames DEF Semget
  <2>2. QED
    BY <1>1, <1>3, <2>1 DEF Semget, LockTypeOK, sigVars
<1>4. CASE SetVal(r)
  <2>1. pc' \in [Procs -> LockSteps]
    BY <1>1, <1>4, GotoType, TypeNames DEF SetVal
  <2>2. val' \in Nat /\ semadj' \in [Procs -> Int]
    BY <1>4 DEF SetVal, NoAdj, LockTypeOK
  <2>3. QED
    BY <1>4, <2>1, <2>2 DEF SetVal, LockTypeOK, sigVars
<1>5. CASE Fork(r)
  <2>1. pc' \in [Procs -> LockSteps]
    BY <1>1, <1>5, TypeNames DEF Fork, LockTypeOK
  <2>2. QED
    BY <1>5, <2>1 DEF Fork, LockTypeOK, semVars, sigVars
<1>6. CASE Cleanup(r)
  BY <1>1, <1>6, RemoveType DEF Cleanup, LockTypeOK, sigVars
<1>7. CASE CtrlC(r)
  <2>1. sigint' \in [Procs -> {"none", "pending"}]
    BY <1>7 DEF CtrlC, LockTypeOK
  <2>2. sigints' \in 0..MaxSigints
    <3>1. sigints \in Nat /\ MaxSigints \in Nat
      BY DEF LockTypeOK, KeyedLockAssumption
    <3>2. QED
      BY <1>7, <3>1 DEF CtrlC
  <2>3. QED
    BY <1>7, <2>1, <2>2 DEF CtrlC, LockTypeOK, semVars
<1>8. QED
  BY <1>2, <1>3, <1>4, <1>5, <1>6, <1>7 DEF RunMove

LEMMA ProcMoveType ==
  ASSUME LockTypeOK, NEW p \in Procs, ProcMove(p)
  PROVE  LockTypeOK'
<1>1. val \in Nat /\ semadj \in [Procs -> Int] /\ semadj[p] \in Int
  BY DEF LockTypeOK
<1>2. CASE Grab(p)
  <2>1. pc' \in [Procs -> LockSteps]
    BY <1>2, GotoType, TypeNames DEF Grab
  <2>2. val' \in Nat /\ semadj' \in [Procs -> Int]
    BY <1>1, <1>2 DEF Grab, Add
  <2>3. QED
    BY <1>2, <2>1, <2>2 DEF Grab, LockTypeOK, sigVars
<1>3. ASSUME NEW from, NEW to \in LockSteps, Release(p, from, to)
      PROVE  LockTypeOK'
  <2>1. pc' \in [Procs -> LockSteps]
    BY <1>3, GotoType DEF Release
  <2>2. val' \in Nat /\ semadj' \in [Procs -> Int]
    BY <1>1, <1>3 DEF Release, Add
  <2>3. QED
    BY <1>3, <2>1, <2>2 DEF Release, LockTypeOK, sigVars
<1>4. CASE Leave(p)
  BY <1>3, <1>4, TypeNames DEF Leave
<1>5. CASE ChildEnds(p)
  BY <1>5, ExitType, TypeNames DEF ChildEnds, LockTypeOK, sigVars
<1>6. CASE TakeSigint(p)
  <2>1. CASE RemoveAndExit(p)
    BY <1>6, <2>1, RemoveType DEF TakeSigint, LockTypeOK
  <2>2. CASE Exit(p, "exit 77") \/ Exit(p, "killed")
    BY <1>6, <2>2, ExitType, TypeNames DEF TakeSigint, LockTypeOK
  <2>3. QED
    BY <1>6, <2>1, <2>2 DEF TakeSigint, sigint_handler, DefaultAction
<1>7. CASE Kill(p)
  <2>1. kills' \in 0..MaxKills
    <3>1. kills \in Nat /\ MaxKills \in Nat
      BY DEF LockTypeOK, KeyedLockAssumption
    <3>2. QED
      BY <1>7, <3>1 DEF Kill
  <2>2. Exit(p, "killed") /\ UNCHANGED <<sigint, sigints>>
    BY <1>7 DEF Kill
  <2>3. QED
    BY <2>1, <2>2, ExitType, TypeNames DEF LockTypeOK
<1>8. QED
  BY <1>2, <1>4, <1>5, <1>6, <1>7 DEF ProcMove

LEMMA LockType ==
  ASSUME LockTypeOK, LockMove
  PROVE  LockTypeOK'
<1>1. CASE UNCHANGED lockVars
  BY <1>1 DEF lockVars, semVars, sigVars, LockTypeOK
<1>2. QED
  BY <1>1, RunMoveType, ProcMoveType DEF LockMove

----------------------------------------------------------------------------
(* Where the processes are.                                                *)

LEMMA ParentShape ==
  ASSUME LockTypeOK, Shape, NEW r \in RunIds, NEW to \in ParentSteps,
         pc' = [pc EXCEPT ![Parent(r)] = to], semid' = semid,
         pc[Parent(r)] \notin Ended, to # "none",
         to \in BeforeFork => pc[Parent(r)] \in BeforeFork,
         to \in BeforeSemget => pc[Parent(r)] \in BeforeSemget,
         pc[Parent(r)] = "none" =>
           \A q \in RunIds : q < r => pc[Parent(q)] \in Ended
  PROVE  Shape'
<1>1. /\ pc'[Parent(r)] = to
      /\ \A q \in RunIds : pc'[Child(q)] = pc[Child(q)]
      /\ \A q \in RunIds : q # r => pc'[Parent(q)] = pc[Parent(q)]
  BY ProcNames DEF LockTypeOK
<1>2. SUFFICES ASSUME NEW s \in RunIds
      PROVE  /\ pc'[Parent(s)] \in ParentSteps /\ pc'[Child(s)] \in ChildSteps
             /\ pc'[Child(s)] # "none" => pc'[Parent(s)] \notin BeforeFork
             /\ semid'[s] <= s
             /\ pc'[Parent(s)] \in BeforeSemget => semid'[s] = 0
             /\ \A q \in RunIds :
                  q < s /\ pc'[Parent(s)] # "none" => pc'[Parent(q)] \in Ended
  BY DEF Shape
<1>3. /\ pc'[Parent(s)] \in ParentSteps /\ pc'[Child(s)] \in ChildSteps
      /\ pc'[Child(s)] # "none" => pc'[Parent(s)] \notin BeforeFork
      /\ semid'[s] <= s
      /\ pc'[Parent(s)] \in BeforeSemget => semid'[s] = 0
  BY <1>1 DEF Shape
<1>4. ASSUME NEW q \in RunIds, q < s, pc'[Parent(s)] # "none"
      PROVE  pc'[Parent(q)] \in Ended
  <2>1. CASE q # r
    <3>1. CASE s = r /\ pc[Parent(r)] = "none"
      BY <1>1, <1>4, <2>1, <3>1
    <3>2. CASE s # r \/ pc[Parent(r)] # "none"
      BY <1>1, <1>4, <2>1, <3>2 DEF Shape
    <3>3. QED
      BY <3>1, <3>2
  <2>2. CASE q = r
    <3>1. s # r
      BY <1>4, <2>2, RunNames
    <3>2. QED
      BY <1>1, <1>4, <2>2, <3>1 DEF Shape
  <2>3. QED
    BY <2>1, <2>2
<1>5. QED
  BY <1>3, <1>4

LEMMA ChildShape ==
  ASSUME LockTypeOK, Shape, NEW r \in RunIds, NEW to \in ChildSteps,
         pc' = [pc EXCEPT ![Child(r)] = to], semid' = semid,
         pc[Child(r)] # "none"
  PROVE  Shape'
<1>1. /\ pc'[Child(r)] = to
      /\ \A q \in RunIds : pc'[Parent(q)] = pc[Parent(q)]
      /\ \A q \in RunIds : q # r => pc'[Child(q)] = pc[Child(q)]
  BY ProcNames DEF LockTypeOK
<1>2. QED
  BY <1>1 DEF Shape

(* A process that ends, or goes on after its grab, keeps all of this. *)
LEMMA ProcShape ==
  ASSUME LockTypeOK, Shape, NEW p \in Procs, NEW to,
         pc' = [pc EXCEPT ![p] = to], semid' = semid,
         Running(p),
         p[2] = "parent" => to \in ParentSteps \ BeforeFork,
         p[2] = "child" => to \in ChildSteps
  PROVE  Shape'
<1>1. pc[p] # "none" /\ pc[p] \notin Ended
  BY DEF Running
<1>2. PICK r \in RunIds :
        \/ p[2] = "parent" /\ p = Parent(r)
        \/ p[2] = "child" /\ p = Child(r)
  BY EveryProc
<1>3. CASE p[2] = "parent" /\ p = Parent(r)
  <2>1. to \in ParentSteps /\ to \notin BeforeFork /\ to \notin BeforeSemget /\ to # "none"
    BY <1>3, StepNames
  <2>2. QED
    BY <1>1, <1>3, <2>1, ParentShape
<1>4. CASE p[2] = "child" /\ p = Child(r)
  BY <1>1, <1>4, ChildShape
<1>5. QED
  BY <1>2, <1>3, <1>4

(* Nobody who abandoned a child comes back. *)
LEMMA AbandonedStays ==
  ASSUME Abandoned,
         \A q \in Procs : pc[q] \in Ended => pc'[q] = pc[q],
         \A q \in Procs : pc[q] # "none" => pc'[q] # "none"
  PROVE  Abandoned'
<1>1. PICK r \in RunIds :
        pc[Parent(r)] \in {"exit 77", "killed"} /\ pc[Child(r)] # "none"
  BY DEF Abandoned
<1>2. pc[Parent(r)] \in Ended
  BY <1>1 DEF Ended
<1>3. QED
  BY <1>1, <1>2, ProcNames DEF Abandoned

(* As long as nobody abandoned a child, who holds belongs to a run whose   *)
(* parent runs.                                                            *)
LEMMA HolderRuns ==
  ASSUME LockTypeOK, Shape, KeyShape, ~Abandoned, NEW p \in Procs, Holds(p)
  PROVE  /\ pc[Parent(p[1])] \notin Ended
         /\ pc[Parent(p[1])] \notin BeforeFork
<1> DEFINE r == p[1]
<1>1. r \in RunIds /\ (p = Parent(r) \/ p = Child(r))
  BY EveryProc
<1>2. pc[p] \in InsideSteps /\ key # 0 /\ semid[r] = key
  BY InsideNames DEF Holds, HasSet
<1>3. pc[p] # "none" /\ pc[p] \notin Ended /\ pc[p] \notin BeforeFork
  BY <1>2, StepNames
<1>4. CASE p = Parent(r)
  BY <1>3, <1>4
<1>5. CASE p = Child(r)
  <2>1. pc[Parent(r)] \notin BeforeFork
    BY <1>1, <1>3, <1>5 DEF Shape
  <2>2. pc[Parent(r)] \notin {"exit 77", "killed"}
    BY <1>1, <1>3, <1>5 DEF Abandoned
  <2>3. pc[Parent(r)] # "exited"
    BY <1>1, <1>2 DEF KeyShape
  <2>4. QED
    BY <2>1, <2>2, <2>3 DEF Ended
<1>6. QED
  BY <1>1, <1>4, <1>5

LEMMA MoveNames ==
  /\ {"none", "shmget", "sigaction", "semget"} \subseteq BeforeSemget
  /\ {"SETVAL", "fork"} \subseteq BeforeFork
  /\ "SETVAL" \notin BeforeSemget /\ "fork" \notin BeforeSemget
  /\ {"assign", "grab", "inside", "release", "wait", "rmid"} \subseteq ParentSteps
  /\ \A l \in {"assign", "grab", "inside", "release", "wait", "rmid"} :
       l \notin BeforeFork /\ l \notin BeforeSemget /\ l \notin Ended
  /\ {"grab", "inside", "remove segment", "undo", "exit"} \subseteq ChildSteps
  /\ \A l \in {"grab", "inside", "remove segment", "undo", "exit"} : l \notin Ended
  /\ \A l \in {"assign", "grab", "wait", "rmid", "exit"} : l \notin InsideSteps
BY DEF BeforeSemget, BeforeFork, ParentSteps, ChildSteps, Ended, InsideSteps

(* The key names no set of a later run. *)
LEMMA KeyBehind ==
  ASSUME LockTypeOK, Shape, KeyShape, NEW r \in RunIds, pc[Parent(r)] = "semget"
  PROVE  key <= r
<1>1. CASE key = 0
  BY <1>1, RunNames
<1>2. CASE key # 0
  <2>1. key \in RunIds
    BY <1>2, RunNames DEF LockTypeOK
  <2>2. semid[key] # 0
    BY <1>2 DEF KeyShape
  <2>3. pc[Parent(key)] # "none"
    BY <2>1, <2>2, StepNames DEF Shape
  <2>4. pc[Parent(r)] \notin Ended
    BY MoveNames, StepNames
  <2>5. ~(r < key)
    BY <2>1, <2>3, <2>4 DEF Shape
  <2>6. QED
    BY <2>1, <2>5, RunNames
<1>3. QED
  BY <1>1, <1>2

LEMMA RunMoveShape ==
  ASSUME Overlap = FALSE, LockTypeOK, Shape, KeyShape, NEW r \in RunIds, RunMove(r)
  PROVE  Shape'
<1>1. CASE Start(r, "sigaction") \/ Start(r, "shmget")
  <2>1. PICK to \in {"sigaction", "shmget"} :
          /\ pc[Parent(r)] = "none" /\ pc' = [pc EXCEPT ![Parent(r)] = to]
    BY <1>1 DEF Start, Goto
  <2>2. \A q \in RunIds : q < r => pc[Parent(q)] \in Ended
    <3>1. \A q \in RunIds : q < r => q \in 1..(r - 1)
      BY DEF RunIds
    <3>2. QED
      BY <1>1, <3>1 DEF Start
  <2>3. semid' = semid
    BY <1>1 DEF Start, semVars
  <2>4. to \in BeforeSemget /\ to \in BeforeFork /\ to \in ParentSteps /\ to # "none"
    BY <2>1, MoveNames, StepNames
  <2>5. "none" \notin Ended /\ "none" \in BeforeFork /\ "none" \in BeforeSemget
    BY StepNames
  <2>6. QED
    BY <2>1, <2>2, <2>3, <2>4, <2>5, ParentShape
<1>2. ASSUME NEW from, NEW to, Goto(Parent(r), from, to), semid' = semid,
             <<from, to>> \in {<<"shmget", "sigaction">>, <<"sigaction", "semget">>,
               <<"SETVAL", "fork">>, <<"assign", "grab">>, <<"inside", "release">>,
               <<"wait", "rmid">>}
      PROVE  Shape'
  <2>1. /\ to \in ParentSteps /\ to # "none" /\ from # "none" /\ from \notin Ended
        /\ to \in BeforeFork => from \in BeforeFork
        /\ to \in BeforeSemget => from \in BeforeSemget
    BY <1>2, MoveNames, StepNames
  <2>2. pc[Parent(r)] = from /\ pc' = [pc EXCEPT ![Parent(r)] = to]
    BY <1>2 DEF Goto
  <2>3. QED
    BY <1>2, <2>1, <2>2, ParentShape
<1>3. CASE InstallHandler(r) \/ AssignChild(r) \/ Wait(r)
  BY <1>2, <1>3 DEF InstallHandler, AssignChild, Wait, semVars
<1>4. CASE SetVal(r)
  BY <1>2, <1>4 DEF SetVal
<1>5. CASE Quiet(r)
  <2>1. semid' = semid
    BY <1>5 DEF Quiet, semVars
  <2>2. CASE Goto(Parent(r), "shmget", "sigaction") \/ Goto(Parent(r), "inside", "release")
    BY <1>2, <2>1, <2>2
  <2>3. ASSUME NEW from \in {"inside", "remove segment"}, NEW to \in ChildSteps,
               Goto(Child(r), from, to)
        PROVE  Shape'
    BY <2>1, <2>3, ChildShape DEF Goto
  <2>4. QED
    BY <1>5, <2>2, <2>3, MoveNames DEF Quiet
<1>6. CASE Semget(r)
  <2>1. /\ pc[Parent(r)] = "semget" /\ pc' = [pc EXCEPT ![Parent(r)] = "SETVAL"]
        /\ key' = (IF key = 0 THEN r ELSE key)
        /\ semid' = [semid EXCEPT ![r] = key']
    BY <1>6 DEF Semget, Goto
  <2>2. /\ pc'[Parent(r)] = "SETVAL"
        /\ \A q \in RunIds : pc'[Child(q)] = pc[Child(q)]
        /\ \A q \in RunIds : q # r => pc'[Parent(q)] = pc[Parent(q)]
    BY <2>1, ProcNames DEF LockTypeOK
  <2>3. pc[Child(r)] = "none"
    <3>1. "semget" \in BeforeFork
      BY DEF BeforeFork, BeforeSemget
    <3>2. QED
      BY <2>1, <3>1 DEF Shape
  <2>4. /\ semid'[r] = key' /\ \A q \in RunIds : q # r => semid'[q] = semid[q]
    BY <2>1 DEF LockTypeOK
  <2>5. key' <= r
    BY <2>1, KeyBehind, RunNames
  <2>6. "SETVAL" \in ParentSteps /\ "SETVAL" \notin BeforeSemget /\ "semget" \notin Ended
    BY MoveNames, StepNames
  <2>7. QED
    BY <2>1, <2>2, <2>3, <2>4, <2>5, <2>6 DEF Shape
<1>7. CASE Fork(r)
  <2>1. /\ pc[Parent(r)] = "fork" /\ semid' = semid
        /\ pc' = [pc EXCEPT ![Parent(r)] = "assign", ![Child(r)] = "grab"]
    BY <1>7 DEF Fork, semVars
  <2>2. /\ pc'[Parent(r)] = "assign" /\ pc'[Child(r)] = "grab"
        /\ \A q \in RunIds : q # r => /\ pc'[Parent(q)] = pc[Parent(q)]
                                     /\ pc'[Child(q)] = pc[Child(q)]
    BY <2>1, ProcNames DEF LockTypeOK
  <2>3. /\ "assign" \in ParentSteps /\ "grab" \in ChildSteps
        /\ "assign" \notin BeforeFork /\ "assign" \notin BeforeSemget
        /\ "fork" \notin Ended
    BY MoveNames, StepNames
  <2>4. ASSUME NEW s \in RunIds
        PROVE  /\ pc'[Parent(s)] \in ParentSteps /\ pc'[Child(s)] \in ChildSteps
               /\ pc'[Child(s)] # "none" => pc'[Parent(s)] \notin BeforeFork
               /\ semid'[s] <= s
               /\ pc'[Parent(s)] \in BeforeSemget => semid'[s] = 0
    BY <2>1, <2>2, <2>3 DEF Shape
  <2>5. ASSUME NEW s \in RunIds, NEW q \in RunIds, q < s, pc'[Parent(s)] # "none"
        PROVE  pc'[Parent(q)] \in Ended
    <3>1. pc[Parent(s)] # "none"
      BY <2>1, <2>2, <2>5
    <3>2. pc[Parent(q)] \in Ended
      BY <2>5, <3>1 DEF Shape
    <3>3. QED
      BY <2>1, <2>2, <2>3, <3>2
  <2>6. QED
    BY <2>4, <2>5 DEF Shape
<1>8. CASE Cleanup(r)
  <2>1. pc[Parent(r)] = "rmid" /\ pc' = [pc EXCEPT ![Parent(r)] = "exited"] /\ semid' = semid
    BY <1>8 DEF Cleanup, RemoveAndExit, Exit
  <2>2. /\ "exited" \in ParentSteps /\ "exited" \notin BeforeFork
        /\ "exited" \notin BeforeSemget /\ "rmid" \notin Ended
    BY StepNames, MoveNames
  <2>3. QED
    BY <2>1, <2>2, ParentShape
<1>9. CASE CtrlC(r)
  BY <1>9 DEF CtrlC, semVars, Shape
<1>10. QED
  BY <1>1, <1>3, <1>4, <1>5, <1>6, <1>7, <1>8, <1>9 DEF RunMove

(* How a move of one process changes pc. *)
LEMMA ProcMoveGoes ==
  ASSUME LockTypeOK, Shape, NEW p \in Procs, ProcMove(p)
  PROVE  /\ Running(p)
         /\ \E to :
              /\ pc' = [pc EXCEPT ![p] = to] /\ to # "none"
              /\ p[2] = "parent" => to \in ParentSteps \ BeforeFork
              /\ p[2] = "child" => to \in ChildSteps
         /\ semid' = semid
<1> USE MoveNames, StepNames
<1>1. CASE Grab(p)
  BY <1>1 DEF Grab, Goto, Running
<1>2. CASE Leave(p)
  BY <1>2, EveryProc DEF Leave, Release, Goto, Running
<1>3. ASSUME NEW how \in Ended, Exit(p, how)
      PROVE  /\ pc' = [pc EXCEPT ![p] = how] /\ how # "none" /\ semid' = semid
             /\ how \in ParentSteps \ BeforeFork /\ how \in ChildSteps
  BY <1>3 DEF Exit
<1>4. "exited" \in Ended /\ "exit 77" \in Ended /\ "killed" \in Ended
  OBVIOUS
<1>5. CASE ChildEnds(p)
  <2>1. Exit(p, "exited") /\ Running(p)
    BY <1>5 DEF ChildEnds, Running
  <2>2. QED
    BY <2>1, <1>3, <1>4
<1>6. CASE Kill(p)
  <2>1. Exit(p, "killed") /\ Running(p)
    BY <1>6 DEF Kill
  <2>2. QED
    BY <2>1, <1>3, <1>4
<1>7. CASE TakeSigint(p)
  <2>1. Running(p)
    BY <1>7 DEF TakeSigint
  <2>2. CASE HasSet(p) /\ RemoveAndExit(p)
    <3>1. pc' = [pc EXCEPT ![p] = "exited"] /\ semid' = semid
      BY <2>2 DEF RemoveAndExit
    <3>2. QED
      BY <2>1, <3>1, <1>4
  <2>3. CASE Exit(p, "exited") \/ Exit(p, "exit 77") \/ Exit(p, "killed")
    BY <2>1, <2>3, <1>3, <1>4
  <2>4. QED
    BY <1>7, <2>2, <2>3 DEF TakeSigint, sigint_handler, DefaultAction, RemoveAndExit
<1>8. QED
  BY <1>1, <1>2, <1>5, <1>6, <1>7 DEF ProcMove

LEMMA ShapeStep ==
  ASSUME Overlap = FALSE, LockTypeOK, Shape, KeyShape, LockMove
  PROVE  Shape'
<1>1. ASSUME NEW p \in Procs, ProcMove(p) PROVE Shape'
  BY <1>1, ProcMoveGoes, ProcShape
<1>2. CASE UNCHANGED lockVars
  BY <1>2 DEF lockVars, semVars, Shape
<1>3. QED
  BY <1>1, <1>2, RunMoveShape DEF LockMove

(* Nobody comes back from where it ended, or from where it started. *)
LEMMA AbandonStep ==
  ASSUME LockTypeOK, Shape, LockMove, Abandoned
  PROVE  Abandoned'
<1>1. ASSUME NEW p \in Procs, NEW to, pc' = [pc EXCEPT ![p] = to], to # "none",
             pc[p] \notin Ended
      PROVE  Abandoned'
  <2>1. /\ \A q \in Procs : pc[q] \in Ended => pc'[q] = pc[q]
        /\ \A q \in Procs : pc[q] # "none" => pc'[q] # "none"
    BY <1>1 DEF LockTypeOK
  <2>2. QED
    BY <2>1, AbandonedStays
<1>2. ASSUME NEW p \in Procs, ProcMove(p) PROVE Abandoned'
  <2>1. PICK to : pc' = [pc EXCEPT ![p] = to] /\ to # "none"
    BY <1>2, ProcMoveGoes
  <2>2. pc[p] \notin Ended
    BY <1>2, ProcMoveGoes DEF Running
  <2>3. QED
    BY <1>1, <2>1, <2>2
<1>3. ASSUME NEW r \in RunIds, RunMove(r) PROVE Abandoned'
  <2>1. Parent(r) \in Procs /\ Child(r) \in Procs
    BY ProcNames
  <2>2. ASSUME NEW p \in Procs, NEW from, NEW to, Goto(p, from, to),
               from \notin Ended, to # "none"
        PROVE  Abandoned'
    BY <1>1, <2>2 DEF Goto
  <2>3. /\ \A l \in {"none", "sigaction", "semget", "SETVAL", "assign", "wait",
                    "shmget", "inside", "remove segment"} : l \notin Ended
        /\ \A l \in {"sigaction", "shmget", "semget", "SETVAL", "fork", "grab",
                    "rmid", "release", "remove segment", "undo"} : l # "none"
    BY MoveNames, StepNames
  <2>4. CASE \/ Start(r, "sigaction") \/ Start(r, "shmget") \/ InstallHandler(r)
             \/ Semget(r) \/ SetVal(r) \/ AssignChild(r) \/ Wait(r)
    BY <2>1, <2>2, <2>3, <2>4
       DEF Start, InstallHandler, Semget, SetVal, AssignChild, Wait
  <2>5. CASE Quiet(r)
    BY <2>1, <2>2, <2>3, <2>5 DEF Quiet
  <2>6. CASE Fork(r)
    <3>1. /\ pc[Parent(r)] = "fork"
          /\ pc' = [pc EXCEPT ![Parent(r)] = "assign", ![Child(r)] = "grab"]
      BY <2>6 DEF Fork
    <3>2. "fork" \in BeforeFork /\ "fork" \notin Ended /\ "none" \notin Ended
      BY MoveNames, StepNames
    <3>3. pc[Child(r)] = "none"
      BY <3>1, <3>2 DEF Shape
    <3>4. /\ \A q \in Procs : pc[q] \in Ended => pc'[q] = pc[q]
          /\ \A q \in Procs : pc[q] # "none" => pc'[q] # "none"
      BY <2>1, <3>1, <3>2, <3>3 DEF LockTypeOK
    <3>5. QED
      BY <3>4, AbandonedStays
  <2>7. CASE Cleanup(r)
    <3>1. /\ pc[Parent(r)] = "rmid"
          /\ pc' = [pc EXCEPT ![Parent(r)] = "exited"]
      BY <2>7 DEF Cleanup, RemoveAndExit, Exit
    <3>2. "rmid" \notin Ended
      BY MoveNames
    <3>3. QED
      BY <1>1, <2>1, <3>1, <3>2
  <2>8. CASE CtrlC(r)
    BY <2>8 DEF CtrlC, Abandoned
  <2>9. QED
    BY <1>3, <2>4, <2>5, <2>6, <2>7, <2>8 DEF RunMove
<1>4. CASE UNCHANGED lockVars
  BY <1>4 DEF lockVars, Abandoned
<1>5. QED
  BY <1>2, <1>3, <1>4 DEF LockMove

----------------------------------------------------------------------------
(* The key.                                                                *)

LEMMA KeySame ==
  ASSUME KeyShape, key' = key, semid' = semid,
         \A r \in RunIds : pc'[Parent(r)] = "exited" =>
                             pc[Parent(r)] = "exited" \/ ~HasSet(Parent(r))
  PROVE  KeyShape'
<1>1. \A r \in RunIds : ~HasSet(Parent(r)) /\ key # 0 => semid[r] # key
  BY ProcNames DEF HasSet
<1>2. QED
  BY <1>1 DEF KeyShape

LEMMA KeyGone ==
  ASSUME key' = 0
  PROVE  KeyShape'
BY DEF KeyShape

LEMMA KeyGoto ==
  ASSUME LockTypeOK, KeyShape, NEW p \in Procs, NEW to, to # "exited",
         pc' = [pc EXCEPT ![p] = to], key' = key, semid' = semid
  PROVE  KeyShape'
<1>1. \A r \in RunIds : pc'[Parent(r)] = "exited" => pc[Parent(r)] = "exited"
  BY ProcNames DEF LockTypeOK
<1>2. QED
  BY <1>1, KeySame

LEMMA KeyExit ==
  ASSUME LockTypeOK, KeyShape, NEW p \in Procs, NEW how, Exit(p, how),
         how # "exited" \/ p[2] = "child" \/ ~HasSet(p)
  PROVE  KeyShape'
<1>1. key' = key /\ semid' = semid /\ pc' = [pc EXCEPT ![p] = how]
  BY DEF Exit
<1>2. \A r \in RunIds : pc'[Parent(r)] = "exited" =>
                           pc[Parent(r)] = "exited" \/ ~HasSet(Parent(r))
  <2> SUFFICES ASSUME NEW r \in RunIds, pc'[Parent(r)] = "exited",
                      pc[Parent(r)] # "exited"
               PROVE  ~HasSet(Parent(r))
    OBVIOUS
  <2>1. Parent(r) \in Procs /\ Parent(r)[2] = "parent"
    BY ProcNames
  <2>2. p = Parent(r) /\ how = "exited"
    BY <1>1, <2>1 DEF LockTypeOK
  <2>3. QED
    BY <2>1, <2>2
<1>3. QED
  BY <1>1, <1>2, KeySame

LEMMA KeyRemove ==
  ASSUME LockTypeOK, KeyShape, NEW p \in Procs, RemoveAndExit(p)
  PROVE  KeyShape'
<1>1. CASE HasSet(p)
  BY <1>1, KeyGone DEF RemoveAndExit
<1>2. CASE ~HasSet(p)
  BY <1>2, KeyExit DEF RemoveAndExit
<1>3. QED
  BY <1>1, <1>2

LEMMA KeyStep ==
  ASSUME LockTypeOK, Shape, KeyShape, LockMove
  PROVE  KeyShape'
<1>1. ASSUME NEW p \in Procs, ProcMove(p) PROVE KeyShape'
  <2>1. CASE Grab(p)
    BY <2>1, KeyGoto DEF Grab, Goto
  <2>2. CASE Leave(p)
    BY <2>2, KeyGoto DEF Leave, Release, Goto
  <2>3. CASE ChildEnds(p)
    BY <2>3, KeyExit DEF ChildEnds
  <2>4. CASE TakeSigint(p)
    BY <2>4, KeyExit, KeyRemove DEF TakeSigint, sigint_handler, DefaultAction
  <2>5. CASE Kill(p)
    BY <2>5, KeyExit DEF Kill
  <2>6. QED
    BY <1>1, <2>1, <2>2, <2>3, <2>4, <2>5 DEF ProcMove
<1>2. ASSUME NEW r \in RunIds, RunMove(r) PROVE KeyShape'
  <2>1. Parent(r) \in Procs /\ Child(r) \in Procs
    BY ProcNames
  <2>8. ASSUME NEW p \in Procs, NEW from, NEW to, Goto(p, from, to), to # "exited",
               key' = key, semid' = semid
        PROVE  KeyShape'
    BY <2>8, KeyGoto DEF Goto
  <2>9. CASE Start(r, "sigaction") \/ Start(r, "shmget") \/ InstallHandler(r)
             \/ AssignChild(r) \/ Wait(r)
    BY <2>1, <2>8, <2>9 DEF Start, InstallHandler, AssignChild, Wait, semVars
  <2>10. CASE SetVal(r) \/ Quiet(r)
    BY <2>1, <2>8, <2>10 DEF SetVal, Quiet, semVars
  <2>3. CASE Fork(r)
    <3>1. /\ pc' = [pc EXCEPT ![Parent(r)] = "assign", ![Child(r)] = "grab"]
          /\ key' = key /\ semid' = semid
      BY <2>3 DEF Fork, semVars
    <3>2. \A q \in RunIds : pc'[Parent(q)] = "exited" => pc[Parent(q)] = "exited"
      BY <3>1, ProcNames DEF LockTypeOK
    <3>3. QED
      BY <3>1, <3>2, KeySame
  <2>4. CASE Cleanup(r)
    BY <2>1, <2>4, KeyRemove DEF Cleanup
  <2>5. CASE CtrlC(r)
    BY <2>5, KeySame DEF CtrlC, semVars
  <2>6. CASE Semget(r)
    <3>1. /\ pc[Parent(r)] = "semget" /\ pc' = [pc EXCEPT ![Parent(r)] = "SETVAL"]
          /\ key' = (IF key = 0 THEN r ELSE key)
          /\ semid' = [semid EXCEPT ![r] = key']
      BY <2>6 DEF Semget, Goto
    <3>2. /\ pc'[Parent(r)] = "SETVAL"
          /\ \A q \in RunIds : q # r => pc'[Parent(q)] = pc[Parent(q)]
      BY <3>1, ProcNames DEF LockTypeOK
    <3>3. /\ semid'[r] = key' /\ \A q \in RunIds : q # r => semid'[q] = semid[q]
      BY <3>1 DEF LockTypeOK
    <3>4. CASE key = 0
      <4>1. key' = r
        BY <3>1, <3>4
      <4>2. ASSUME NEW q \in RunIds, pc'[Parent(q)] = "exited" PROVE semid'[q] # r
        <5>1. q # r /\ pc[Parent(q)] = "exited"
          BY <3>2, <4>2
        <5>2. ~(r < q)
          BY <3>1, <5>1, MoveNames, StepNames DEF Shape
        <5>3. semid[q] <= q /\ semid[q] \in 0..Runs
          BY DEF Shape, LockTypeOK
        <5>4. semid[q] # r
          BY <5>1, <5>2, <5>3, RunNames
        <5>5. QED
          BY <3>3, <5>1, <5>4
      <4>3. QED
        BY <3>3, <4>1, <4>2 DEF KeyShape
    <3>5. CASE key # 0
      <4>1. semid[r] = 0
        BY <3>1, MoveNames DEF Shape
      <4>2. key' = key /\ key # r
        BY <3>1, <3>5, <4>1 DEF KeyShape
      <4>3. key \in RunIds
        BY <3>5, RunNames DEF LockTypeOK
      <4>4. semid'[key] = key
        BY <3>3, <3>5, <4>2, <4>3 DEF KeyShape
      <4>5. \A q \in RunIds : pc'[Parent(q)] = "exited" => semid'[q] # key
        BY <3>2, <3>3, <3>5 DEF KeyShape
      <4>6. QED
        BY <4>2, <4>4, <4>5 DEF KeyShape
    <3>6. QED
      BY <3>4, <3>5
  <2>7. QED
    BY <1>2, <2>9, <2>10, <2>3, <2>4, <2>5, <2>6 DEF RunMove
<1>3. CASE UNCHANGED lockVars
  BY <1>3, KeySame DEF lockVars, semVars
<1>4. QED
  BY <1>1, <1>2, <1>3 DEF LockMove

----------------------------------------------------------------------------
(* The semaphore and its adjustments.                                      *)

LEMMA AccountSame ==
  ASSUME Account, UNCHANGED semVars,
         \A q \in Procs : pc'[q] \in InsideSteps <=> pc[q] \in InsideSteps
  PROVE  Account'
<1>1. \A q \in Procs : Holds(q)' <=> Holds(q)
  BY InsideNames DEF Holds, Inside, InsideSteps, HasSet, semVars
<1>2. QED
  BY <1>1 DEF Account, semVars

LEMMA AccountGoto ==
  ASSUME LockTypeOK, Account, UNCHANGED semVars, NEW p \in Procs, NEW from, NEW to,
         Goto(p, from, to), to \in InsideSteps <=> from \in InsideSteps
  PROVE  Account'
<1>1. \A q \in Procs : pc'[q] \in InsideSteps <=> pc[q] \in InsideSteps
  BY DEF LockTypeOK, Goto
<1>2. QED
  BY <1>1, AccountSame

(* A grab that is let through finds nobody holding. *)
LEMMA AccountGrab ==
  ASSUME LockTypeOK, Account, NEW p \in Procs, Grab(p)
  PROVE  Account'
<1>1. /\ pc[p] = "grab" /\ pc' = [pc EXCEPT ![p] = "inside"]
      /\ key' = key /\ semid' = semid
  BY DEF Grab, Goto
<1>2. "grab" \notin InsideSteps /\ "inside" \in InsideSteps
  BY DEF InsideSteps
<1>3. /\ pc'[p] = "inside" /\ \A q \in Procs : q # p => pc'[q] = pc[q]
  BY <1>1 DEF LockTypeOK
<1>4. \A q \in Procs : HasSet(q)' <=> HasSet(q)
  BY <1>1 DEF HasSet
<1>5. /\ Holds(p)' <=> HasSet(p)
      /\ ~Holds(p)
      /\ \A q \in Procs : q # p => (Holds(q)' <=> Holds(q))
  BY <1>1, <1>2, <1>3, <1>4 DEF Holds, Inside, InsideSteps
<1>6. CASE HasSet(p)
  <2>1. val = 0 /\ val' = val + 1 /\ semadj' = [semadj EXCEPT ![p] = @ - 1]
    BY <1>6 DEF Grab, Add
  <2>2. \A q \in Procs : ~Holds(q)
    BY <2>1 DEF Account
  <2>3. semadj[p] = 0
    BY <2>2 DEF Account
  <2>4. semadj'[p] = -1 /\ \A q \in Procs : q # p => semadj'[q] = 0
    BY <2>1, <2>2, <2>3 DEF Account, LockTypeOK
  <2>5. val' = 1
    BY <2>1
  <2>6. QED
    BY <1>5, <1>6, <2>2, <2>4, <2>5 DEF Account
<1>7. CASE ~HasSet(p)
  <2>1. val' = val /\ semadj' = semadj
    BY <1>7 DEF Grab
  <2>2. \A q \in Procs : Holds(q)' <=> Holds(q)
    BY <1>5, <1>7
  <2>3. QED
    BY <2>1, <2>2 DEF Account
<1>8. QED
  BY <1>6, <1>7

(* p stops holding: the value and its adjustment go back to 0. *)
LEMMA AccountEnd ==
  ASSUME LockTypeOK, Account, NEW p \in Procs, NEW to, to \notin InsideSteps,
         pc' = [pc EXCEPT ![p] = to], key' = key, semid' = semid,
         Holds(p) => val' = val - 1 /\ semadj' = [semadj EXCEPT ![p] = @ + 1],
         ~Holds(p) => val' = val /\ semadj' = semadj
  PROVE  Account'
<1>1. /\ pc'[p] = to /\ \A q \in Procs : q # p => pc'[q] = pc[q]
  BY DEF LockTypeOK
<1>2. /\ ~Holds(p)'
      /\ \A q \in Procs : q # p => (Holds(q)' <=> Holds(q))
  BY <1>1 DEF Holds, Inside, InsideSteps, HasSet
<1>3. CASE Holds(p)
  <2>1. val = 1 /\ semadj[p] = -1
    BY <1>3 DEF Account
  <2>2. \A q \in Procs : q # p => ~Holds(q)
    BY <1>3 DEF Account
  <2>3. val' = 0
    BY <1>3, <2>1
  <2>4. semadj' = [semadj EXCEPT ![p] = 0]
    BY <1>3, <2>1
  <2>5. \A q \in Procs : ~Holds(q)'
    BY <1>2, <2>2
  <2>6. \A q \in Procs : semadj'[q] = 0
    BY <2>2, <2>4 DEF Account, LockTypeOK
  <2>7. QED
    BY <2>3, <2>5, <2>6 DEF Account
<1>4. CASE ~Holds(p)
  <2>1. \A q \in Procs : Holds(q)' <=> Holds(q)
    BY <1>2, <1>4
  <2>2. QED
    BY <1>4, <2>1 DEF Account
<1>5. QED
  BY <1>3, <1>4

LEMMA AccountExit ==
  ASSUME LockTypeOK, Account, NEW p \in Procs, NEW how, how \notin InsideSteps,
         Exit(p, how)
  PROVE  Account'
<1>1. /\ pc' = [pc EXCEPT ![p] = how] /\ key' = key /\ semid' = semid
      /\ val' = (IF val + semadj[p] > 0 THEN val + semadj[p] ELSE 0)
      /\ semadj' = [semadj EXCEPT ![p] = 0]
  BY DEF Exit
<1>2. Holds(p) => val' = val - 1 /\ semadj' = [semadj EXCEPT ![p] = @ + 1]
  <2> SUFFICES ASSUME Holds(p)
               PROVE  val' = val - 1 /\ semadj' = [semadj EXCEPT ![p] = @ + 1]
    OBVIOUS
  <2>1. val = 1 /\ semadj[p] = -1
    BY DEF Account
  <2>2. semadj[p] + 1 = 0 /\ val' = 0 /\ val - 1 = 0
    BY <1>1, <2>1
  <2>3. QED
    BY <1>1, <2>2
<1>3. ~Holds(p) => val' = val /\ semadj' = semadj
  <2> SUFFICES ASSUME ~Holds(p) PROVE val' = val /\ semadj' = semadj
    OBVIOUS
  <2>1. semadj[p] = 0
    BY DEF Account
  <2>2. val \in Nat
    BY DEF LockTypeOK
  <2>3. val' = val
    BY <1>1, <2>1, <2>2
  <2>4. semadj' = semadj
    BY <1>1, <2>1 DEF LockTypeOK
  <2>5. QED
    BY <2>3, <2>4
<1>4. QED
  BY <1>1, <1>2, <1>3, AccountEnd

LEMMA AccountRelease ==
  ASSUME LockTypeOK, Account, NEW p \in Procs, NEW from \in InsideSteps, NEW to,
         to \notin InsideSteps, Release(p, from, to)
  PROVE  Account'
<1>1. /\ pc[p] = from /\ pc' = [pc EXCEPT ![p] = to]
      /\ key' = key /\ semid' = semid
  BY DEF Release, Goto
<1>2. Holds(p) <=> HasSet(p)
  BY <1>1 DEF Holds, Inside, InsideSteps
<1>3. Holds(p) => val' = val - 1 /\ semadj' = [semadj EXCEPT ![p] = @ + 1]
  <2> SUFFICES ASSUME Holds(p)
               PROVE  val' = val - 1 /\ semadj' = [semadj EXCEPT ![p] = @ + 1]
    OBVIOUS
  <2>1. val' = val + (-1) /\ semadj' = [semadj EXCEPT ![p] = @ - (-1)]
    BY <1>2 DEF Release, Add
  <2>2. val = 1 /\ semadj[p] = -1
    BY DEF Account
  <2>3. val' = val - 1 /\ semadj[p] - (-1) = semadj[p] + 1
    BY <2>1, <2>2
  <2>4. QED
    BY <2>1, <2>3
<1>4. ~Holds(p) => val' = val /\ semadj' = semadj
  BY <1>2 DEF Release
<1>5. QED
  BY <1>1, <1>3, <1>4, AccountEnd

(* After a removal nobody has a set and nothing is to be undone. *)
LEMMA AccountRemove ==
  ASSUME LockTypeOK, Account, NEW p \in Procs, RemoveAndExit(p)
  PROVE  Account'
<1>1. CASE HasSet(p)
  <2>1. key' = 0 /\ val' = 0 /\ semadj' = NoAdj
    BY <1>1 DEF RemoveAndExit
  <2>2. \A q \in Procs : ~Holds(q)'
    BY <2>1 DEF Holds, HasSet
  <2>3. QED
    BY <2>1, <2>2 DEF Account, NoAdj
<1>2. CASE ~HasSet(p)
  <2>1. "exited" \notin InsideSteps
    BY DEF InsideSteps
  <2>2. QED
    BY <1>2, <2>1, AccountExit DEF RemoveAndExit
<1>3. QED
  BY <1>1, <1>2

(* Another run's processes are outside while the parent of r sets up. *)
LEMMA AloneInSetUp ==
  ASSUME LockTypeOK, Shape, KeyShape, ~Abandoned, NEW r \in RunIds,
         pc[Parent(r)] \in BeforeFork, pc[Parent(r)] # "none"
  PROVE  \A q \in Procs : ~Holds(q)
<1> SUFFICES ASSUME NEW q \in Procs, Holds(q) PROVE FALSE
  OBVIOUS
<1>1. q[1] \in RunIds
  BY EveryProc
<1>2. pc[Parent(q[1])] \notin Ended /\ pc[Parent(q[1])] \notin BeforeFork
  BY HolderRuns
<1>3. q[1] # r
  BY <1>2
<1>4. pc[Parent(q[1])] # "none" /\ pc[Parent(r)] \notin Ended
  BY <1>2, StepNames
<1>5. ~(q[1] < r) /\ ~(r < q[1])
  BY <1>1, <1>2, <1>4 DEF Shape
<1>6. QED
  BY <1>1, <1>3, <1>5, RunNames

(* A set that is made is new to every run that started before. *)
LEMMA AccountSemget ==
  ASSUME LockTypeOK, Shape, Shape', KeyShape, ~Abandoned, Account, NEW r \in RunIds,
         Semget(r)
  PROVE  Account'
<1>1. /\ pc[Parent(r)] = "semget" /\ pc' = [pc EXCEPT ![Parent(r)] = "SETVAL"]
      /\ key' = (IF key = 0 THEN r ELSE key)
      /\ semid' = [semid EXCEPT ![r] = key']
      /\ val' = val /\ semadj' = semadj
  BY DEF Semget, Goto
<1>2. "semget" \in BeforeFork /\ "semget" # "none" /\ "semget" \notin Ended
      /\ "SETVAL" \in BeforeFork /\ "SETVAL" \notin InsideSteps
  BY MoveNames, StepNames
<1>3. \A q \in Procs : ~Holds(q)
  BY <1>1, <1>2, AloneInSetUp
<1>4. /\ pc'[Parent(r)] = "SETVAL" /\ Parent(r) \in Procs
      /\ \A q \in Procs : q # Parent(r) => pc'[q] = pc[q]
  BY <1>1, ProcNames DEF LockTypeOK
<1>5. \A q \in RunIds : q # r => semid'[q] = semid[q]
  BY <1>1 DEF LockTypeOK
<1>6. ASSUME NEW q \in Procs, Holds(q)' PROVE FALSE
  <2>1. q[1] \in RunIds /\ (q = Parent(q[1]) \/ q = Child(q[1]))
    BY EveryProc
  <2>2. pc'[q] \in InsideSteps /\ key' # 0 /\ semid'[q[1]] = key'
    BY <1>6 DEF Holds, Inside, InsideSteps, HasSet
  <2>3. q # Parent(r)
    BY <1>2, <1>4, <2>2
  <2>4. q[1] # r
    <3>1. pc[Child(r)] = "none"
      BY <1>1, <1>2 DEF Shape
    <3>2. Child(r) # Parent(r) /\ Child(r) \in Procs
      BY ProcNames
    <3>3. pc'[Child(r)] = "none"
      BY <1>4, <3>1, <3>2
    <3>4. QED
      BY <2>1, <2>2, <2>3, <3>3, StepNames
  <2>5. pc[q] \in InsideSteps /\ semid[q[1]] = key'
    BY <1>4, <1>5, <2>1, <2>2, <2>3, <2>4
  <2>6. key = 0
    BY <1>1, <1>3, <2>5, InsideNames DEF Holds, HasSet
  <2>7. semid[q[1]] = r
    BY <1>1, <2>5, <2>6
  <2>8. r < q[1]
    BY <2>1, <2>4, <2>7, RunNames DEF Shape
  <2>9. pc[Parent(q[1])] # "none"
    <3>1. semid[q[1]] # 0
      BY <2>7, RunNames
    <3>2. pc[Parent(q[1])] \notin BeforeSemget
      BY <2>1, <3>1 DEF Shape
    <3>3. QED
      BY <3>2, MoveNames
  <2>10. QED
    BY <1>1, <1>2, <2>1, <2>8, <2>9 DEF Shape
<1>7. QED
  BY <1>1, <1>3, <1>6 DEF Account

LEMMA AccountStep ==
  ASSUME Overlap = FALSE, LockTypeOK, Shape, KeyShape, ~Abandoned, Account, LockMove
  PROVE  Account'
<1>1. ASSUME NEW p \in Procs, ProcMove(p) PROVE Account'
  <2>1. \A l \in Ended : l \notin InsideSteps
    BY StepNames
  <2>2. "exited" \in Ended /\ "exit 77" \in Ended /\ "killed" \in Ended
    BY StepNames
  <2>3. CASE Grab(p)
    BY <2>3, AccountGrab
  <2>4. CASE Leave(p)
    <3>1. /\ "inside" \in InsideSteps /\ "release" \in InsideSteps
          /\ "grab" \notin InsideSteps /\ "wait" \notin InsideSteps
          /\ "exit" \notin InsideSteps
      BY DEF InsideSteps
    <3>2. QED
      BY <2>4, <3>1, AccountRelease DEF Leave
  <2>5. CASE ChildEnds(p)
    BY <2>1, <2>2, <2>5, AccountExit DEF ChildEnds
  <2>6. CASE TakeSigint(p)
    BY <2>1, <2>2, <2>6, AccountExit, AccountRemove
       DEF TakeSigint, sigint_handler, DefaultAction
  <2>7. CASE Kill(p)
    BY <2>1, <2>2, <2>7, AccountExit DEF Kill
  <2>8. QED
    BY <1>1, <2>3, <2>4, <2>5, <2>6, <2>7 DEF ProcMove
<1>2. ASSUME NEW r \in RunIds, RunMove(r) PROVE Account'
  <2>1. Parent(r) \in Procs /\ Child(r) \in Procs
    BY ProcNames
  <2>2. CASE Start(r, "sigaction") \/ Start(r, "shmget") \/ InstallHandler(r)
             \/ AssignChild(r) \/ Wait(r) \/ Quiet(r)
    <3>1. UNCHANGED semVars
      BY <2>2 DEF Start, InstallHandler, AssignChild, Wait, Quiet
    <3>2. /\ "none" \notin InsideSteps /\ "sigaction" \notin InsideSteps
          /\ "shmget" \notin InsideSteps /\ "semget" \notin InsideSteps
          /\ "assign" \notin InsideSteps /\ "grab" \notin InsideSteps
          /\ "wait" \notin InsideSteps /\ "rmid" \notin InsideSteps
          /\ {"inside", "release", "remove segment", "undo"} \subseteq InsideSteps
      BY DEF InsideSteps
    <3>3. CASE Start(r, "sigaction") \/ Start(r, "shmget") \/ InstallHandler(r)
               \/ AssignChild(r) \/ Wait(r)
      BY <2>1, <3>1, <3>2, <3>3, AccountGoto DEF Start, InstallHandler, AssignChild, Wait
    <3>4. CASE Quiet(r)
      BY <2>1, <3>1, <3>2, <3>4, AccountGoto DEF Quiet
    <3>5. QED
      BY <2>2, <3>3, <3>4
  <2>3. CASE Semget(r)
    BY <1>2, <2>3, RunMoveShape, AccountSemget
  <2>4. CASE SetVal(r)
    <3>1. /\ pc[Parent(r)] = "SETVAL" /\ pc' = [pc EXCEPT ![Parent(r)] = "fork"]
          /\ key' = key /\ semid' = semid
      BY <2>4 DEF SetVal, Goto
    <3>2. /\ "SETVAL" \in BeforeFork /\ "SETVAL" # "none" /\ "fork" \in BeforeFork
          /\ "SETVAL" \notin InsideSteps /\ "fork" \notin InsideSteps
      BY MoveNames, StepNames
    <3>3. \A q \in Procs : ~Holds(q)
      BY <3>1, <3>2, AloneInSetUp
    <3>4. val = 0 /\ \A q \in Procs : semadj[q] = 0
      BY <3>3 DEF Account
    <3>5. val' = 0 /\ \A q \in Procs : semadj'[q] = 0
      BY <2>4, <3>4 DEF SetVal, NoAdj
    <3>6. \A q \in Procs : ~Holds(q)'
      BY <2>1, <3>1, <3>2, <3>3 DEF LockTypeOK, Holds, Inside, InsideSteps, HasSet
    <3>7. QED
      BY <3>5, <3>6 DEF Account
  <2>5. CASE Fork(r)
    <3>1. /\ pc[Parent(r)] = "fork" /\ UNCHANGED semVars
          /\ pc' = [pc EXCEPT ![Parent(r)] = "assign", ![Child(r)] = "grab"]
      BY <2>5 DEF Fork
    <3>2. /\ "fork" \in BeforeFork /\ "fork" \notin InsideSteps
          /\ "assign" \notin InsideSteps /\ "grab" \notin InsideSteps
          /\ "none" \notin InsideSteps
      BY MoveNames, StepNames
    <3>3. pc[Child(r)] = "none"
      BY <3>1, <3>2 DEF Shape
    <3>4. \A q \in Procs : pc'[q] \in InsideSteps <=> pc[q] \in InsideSteps
      BY <2>1, <3>1, <3>2, <3>3 DEF LockTypeOK
    <3>5. QED
      BY <3>1, <3>4, AccountSame
  <2>6. CASE Cleanup(r)
    BY <2>1, <2>6, AccountRemove DEF Cleanup
  <2>7. CASE CtrlC(r)
    BY <2>7, AccountSame DEF CtrlC
  <2>8. QED
    BY <1>2, <2>2, <2>3, <2>4, <2>5, <2>6, <2>7 DEF RunMove
<1>3. CASE UNCHANGED lockVars
  BY <1>3, AccountSame DEF lockVars
<1>4. QED
  BY <1>1, <1>2, <1>3 DEF LockMove

----------------------------------------------------------------------------
(* The segments of lab5.                                                   *)

LEMMA SegmentSame ==
  ASSUME SegmentInv, program' = program, segment' = segment,
         \A r \in RunIds : pc'[Child(r)] \in {"undo", "exited"} =>
                             pc[Child(r)] \in {"undo", "exited"}
  PROVE  SegmentInv'
BY DEF SegmentInv

LEMMA SegmentStep ==
  ASSUME LockTypeOK, Lab5TypeOK, Shape, SegmentInv, [ForkedNext]_forkedVars
  PROVE  SegmentInv'
<1>1. ASSUME NEW p \in Procs, NEW to, to \notin {"undo", "exited"},
             pc' = [pc EXCEPT ![p] = to], segment' = segment, program' = program
      PROVE  SegmentInv'
  BY <1>1, SegmentSame, ProcNames DEF LockTypeOK
<1>2. ASSUME NEW r \in RunIds, NEW to, program' = program,
             pc' = [pc EXCEPT ![Parent(r)] = to], segment' = segment
      PROVE  SegmentInv'
  BY <1>2, SegmentSame, ProcNames DEF LockTypeOK
<1>3. CASE RunLab5(Lab5Next)
  <2>1. program' = program /\ Lab5Next
    BY <1>3 DEF RunLab5
  <2>2. ASSUME NEW r \in RunIds, Lab5Start(r)
        PROVE  SegmentInv'
    BY <1>2, <2>1, <2>2 DEF Lab5Start, Start, Goto, KeepSegment
  <2>3. ASSUME NEW r \in RunIds, CtrlC(r), KeepSegment
        PROVE  SegmentInv'
    BY <2>1, <2>3, SegmentSame DEF CtrlC, KeepSegment
  <2>4. ASSUME NEW p \in Procs, Kill(p), KeepSegment
        PROVE  SegmentInv'
    BY <1>1, <2>1, <2>4 DEF Kill, Exit, KeepSegment
  <2>5. ASSUME NEW p \in Procs, TakeSigint(p), KeepSegment
        PROVE  SegmentInv'
    <3>1. CASE Exit(p, "exit 77") \/ Exit(p, "killed")
      BY <1>1, <2>1, <2>5, <3>1 DEF Exit, KeepSegment
    <3>2. CASE ~ChildIsZero(p) /\ RemoveAndExit(p)
      <4>1. p = Parent(p[1]) /\ p[1] \in RunIds
        BY <3>2, EveryProc DEF ChildIsZero
      <4>2. pc' = [pc EXCEPT ![p] = "exited"]
        BY <3>2 DEF RemoveAndExit, Exit
      <4>3. QED
        BY <1>2, <2>1, <2>5, <4>1, <4>2 DEF KeepSegment
    <3>3. QED
      BY <2>5, <3>1, <3>2 DEF TakeSigint, sigint_handler, DefaultAction
  <2>6. ASSUME NEW r \in RunIds, Lab5Parent(r)
        PROVE  SegmentInv'
    <3>1. CASE MakeSegment(r)
      <4>1. /\ pc[Parent(r)] = "shmget" /\ pc' = [pc EXCEPT ![Parent(r)] = "sigaction"]
            /\ segment' = [segment EXCEPT ![r] = "made"]
        BY <3>1 DEF MakeSegment, Goto
      <4>2. pc[Child(r)] = "none"
        <5>1. "shmget" \in BeforeFork
          BY MoveNames, StepNames
        <5>2. QED
          BY <4>1, <5>1 DEF Shape
      <4>3. \A q \in RunIds : pc'[Child(q)] = pc[Child(q)]
        BY <4>1, ProcNames DEF LockTypeOK
      <4>4. \A q \in RunIds : q # r => segment'[q] = segment[q]
        BY <4>1 DEF Lab5TypeOK
      <4>5. QED
        BY <2>1, <4>2, <4>3, <4>4 DEF SegmentInv
    <3>2. CASE WriteFib(r)
      BY <1>2, <2>1, <3>2 DEF WriteFib, Goto
    <3>3. CASE Fork(r) /\ KeepSegment
      <4>1. pc' = [pc EXCEPT ![Parent(r)] = "assign", ![Child(r)] = "grab"]
        BY <3>3 DEF Fork
      <4>2. \A q \in RunIds : pc'[Child(q)] \in {"undo", "exited"} =>
                                pc[Child(q)] \in {"undo", "exited"}
        BY <4>1, ProcNames DEF LockTypeOK
      <4>3. QED
        BY <2>1, <3>3, <4>2, SegmentSame DEF KeepSegment
    <3>4. CASE /\ \/ Release(Parent(r), "release", "wait") \/ InstallHandler(r)
                  \/ Semget(r) \/ SetVal(r) \/ AssignChild(r) \/ Grab(Parent(r)) \/ Wait(r)
               /\ KeepSegment
      BY <1>2, <2>1, <3>4
         DEF Release, InstallHandler, Semget, SetVal, AssignChild, Grab, Wait, Goto,
             KeepSegment
    <3>5. CASE Cleanup(r) /\ KeepSegment
      BY <1>2, <2>1, <3>5 DEF Cleanup, RemoveAndExit, Exit, KeepSegment
    <3>6. QED
      BY <2>6, <3>1, <3>2, <3>3, <3>4, <3>5 DEF Lab5Parent, SetUp
  <2>7. ASSUME NEW r \in RunIds, Lab5Child(r)
        PROVE  SegmentInv'
    <3>1. Child(r) \in Procs
      BY ProcNames
    <3>2. CASE ReadFib(r)
      BY <1>1, <2>1, <3>1, <3>2 DEF ReadFib, Goto
    <3>3. CASE Grab(Child(r)) /\ KeepSegment
      BY <1>1, <2>1, <3>1, <3>3 DEF Grab, Goto, KeepSegment
    <3>4. CASE RemoveSegment(r)
      <4>1. /\ pc' = [pc EXCEPT ![Child(r)] = "undo"]
            /\ segment' = [segment EXCEPT ![r] = "removed"]
        BY <3>4 DEF RemoveSegment, Goto
      <4>2. \A q \in RunIds : q # r => pc'[Child(q)] = pc[Child(q)]
        BY <4>1, ProcNames DEF LockTypeOK
      <4>3. /\ segment'[r] = "removed"
            /\ \A q \in RunIds : q # r => segment'[q] = segment[q]
        BY <4>1 DEF Lab5TypeOK
      <4>4. QED
        BY <2>1, <4>2, <4>3 DEF SegmentInv
    <3>5. CASE ChildUndo(r) /\ KeepSegment
      <4>1. /\ pc[Child(r)] = "undo" /\ pc' = [pc EXCEPT ![Child(r)] = "exited"]
        BY <3>5 DEF ChildUndo, Exit
      <4>2. \A q \in RunIds : pc'[Child(q)] \in {"undo", "exited"} =>
                                pc[Child(q)] \in {"undo", "exited"}
        BY <4>1, ProcNames DEF LockTypeOK
      <4>3. QED
        BY <2>1, <3>5, <4>2, SegmentSame DEF KeepSegment
    <3>6. QED
      BY <2>7, <3>2, <3>3, <3>4, <3>5 DEF Lab5Child
  <2>8. QED
    BY <2>1, <2>2, <2>3, <2>4, <2>5, <2>6, <2>7, EveryProc DEF Lab5Next, Lab5Step
<1>4. CASE RunSemtest(SemtestNext)
  BY <1>4 DEF RunSemtest, SegmentInv
<1>5. CASE RunLab5old(OldNext) \/ RunSemCtrl(CtlNext) \/ UNCHANGED forkedVars
  BY <1>5, SegmentSame DEF RunLab5old, RunSemCtrl, forkedVars, lockVars
<1>6. QED
  BY <1>3, <1>4, <1>5 DEF ForkedNext

----------------------------------------------------------------------------
(* sem_ctrl.                                                               *)

LEMMA CtlStepHolds ==
  ASSUME CtlTypeOK, CtlInv, [CtlNext]_ctlVars
  PROVE  CtlTypeOK' /\ CtlInv'
<1>1. ctrlCs \in Nat /\ CtlSigints \in Nat
  BY DEF CtlTypeOK
<1> USE DEF CtlTypeOK, CtlInv, CtlSteps, CtlStep, CtlGoto, CtlAlive, CtlAdd
<1>2. CASE CtlSigaction
  BY <1>2 DEF CtlSigaction
<1>3. CASE CtlSemget
  BY <1>3 DEF CtlSemget
<1>4. CASE CtlFillRelease
  BY <1>4 DEF CtlFillRelease
<1>5. CASE CtlSetVal
  BY <1>5 DEF CtlSetVal
<1>6. CASE CtlGrab
  <2>1. ctlVal = 0 /\ ctlAdj = 0
    BY <1>6 DEF CtlGrab
  <2>2. ctlVal' = 1 /\ ctlAdj' = -1
    BY <1>6, <2>1 DEF CtlGrab
  <2>3. QED
    BY <1>6, <2>2 DEF CtlGrab
<1>7. CASE CtlTry
  <2>1. ctlVal' = 1 /\ ctlAdj' = -1
    BY <1>7 DEF CtlTry
  <2>2. QED
    BY <1>7, <2>1 DEF CtlTry
<1>8. CASE CtlKillSelf
  BY <1>8 DEF CtlKillSelf
<1>9. CASE CtlRmid
  BY <1>9 DEF CtlRmid
<1>10. CASE CtlHandler
  <2>1. (ctlVal' = 0 /\ ctlAdj' = 0) \/ UNCHANGED <<ctlVal, ctlAdj>>
    <3>1. CASE ctlVal > 0 /\ ctlVal' = ctlVal + (-1) /\ ctlAdj' = ctlAdj - (-1)
      BY <3>1
    <3>2. QED
      BY <1>10, <3>1 DEF CtlHandler
  <2>2. context' \in {"main", "handler"} /\ again' \in BOOLEAN
    BY <1>10, Zenon DEF CtlHandler
  <2>3. ctl' = ctl /\ ctlSet' = ctlSet /\ ctrlCs' = ctrlCs
    BY <1>10 DEF CtlHandler
  <2>4. QED
    BY <2>1, <2>2, <2>3
<1>11. ASSUME CtlDies
       PROVE  /\ ctlVal' = 0 /\ ctlAdj' = 0 /\ ctl' = "killed" /\ ctlSet' = ctlSet
              /\ context' = "main" /\ again' = FALSE
  <2>1. ctlVal' = IF ctlVal + ctlAdj < 0 THEN 0 ELSE ctlVal + ctlAdj
    BY <1>11 DEF CtlDies
  <2>2. ctlVal + ctlAdj = 0
    OBVIOUS
  <2>3. QED
    BY <1>11, <2>1, <2>2 DEF CtlDies
<1>12. CASE CtlKill
  BY <1>11, <1>12 DEF CtlKill
<1>13. CASE CtlCtrlC
  <2>1. ctrlCs' \in 0 .. CtlSigints
    BY <1>1, <1>13 DEF CtlCtrlC
  <2>2. CASE CtlDies
    BY <1>11, <2>1, <2>2
  <2>3. CASE context' = "handler" /\ again' = (context = "handler")
             /\ UNCHANGED <<ctl, ctlSet, ctlVal, ctlAdj>>
    <3>1. again' \in BOOLEAN
      BY <2>3, Zenon
    <3>2. context' = "handler" /\ UNCHANGED <<ctl, ctlSet, ctlVal, ctlAdj>>
      BY <2>3
    <3>3. QED
      BY <2>1, <3>1, <3>2
  <2>4. QED
    BY <1>13, <2>2, <2>3 DEF CtlCtrlC
<1>14. CASE CtlRerun
  BY <1>1, <1>14 DEF CtlRerun
<1>15. CASE UNCHANGED ctlVars
  BY <1>15 DEF ctlVars
<1>16. QED
  BY <1>2, <1>3, <1>4, <1>5, <1>6, <1>7, <1>8, <1>9, <1>10, <1>12, <1>14, <1>15, <1>13
     DEF CtlNext, CtlMain

----------------------------------------------------------------------------
(* lab5old.                                                                *)

(* What one element that moves does to the number of members. *)
LEMMA CountMove ==
  ASSUME NEW F, NEW G, IsFiniteSet(F), IsFiniteSet(G), NEW r,
         \A x : x # r => (x \in F <=> x \in G)
  PROVE  /\ Cardinality(F) \in Nat /\ Cardinality(G) \in Nat
         /\ (r \in F <=> r \in G) => Cardinality(G) = Cardinality(F)
         /\ r \in F /\ r \notin G => Cardinality(G) = Cardinality(F) - 1
         /\ r \notin F /\ r \in G => Cardinality(G) = Cardinality(F) + 1
<1>1. Cardinality(F) \in Nat /\ Cardinality(G) \in Nat
  BY FS_CardinalityType
<1>2. CASE r \in F <=> r \in G
  <2>1. F = G
    BY <1>2
  <2>2. QED
    BY <1>1, <1>2, <2>1
<1>3. CASE r \in F /\ r \notin G
  <2>1. G = F \ {r} /\ r \in F
    BY <1>3
  <2>2. Cardinality(G) = Cardinality(F) - 1
    BY <2>1, FS_RemoveElement
  <2>3. QED
    BY <1>1, <1>3, <2>2
<1>4. CASE r \notin F /\ r \in G
  <2>1. G = F \cup {r} /\ r \notin F
    BY <1>4
  <2>2. Cardinality(G) = Cardinality(F) + 1
    BY <2>1, FS_AddElement
  <2>3. QED
    BY <1>1, <1>4, <2>2
<1>5. QED
  BY <1>2, <1>3, <1>4

ParOthers(r) == \A x \in OldRunIds : x # r => oldPar'[x] = oldPar[x]
ChiOthers(r) == \A x \in OldRunIds : x # r => oldChi'[x] = oldChi[x]

LEMMA OldSetsFinite ==
  /\ IsFiniteSet(OldWriters) /\ IsFiniteSet(OldReaders)
  /\ IsFiniteSet(OldWriters') /\ IsFiniteSet(OldReaders')
<1>1. IsFiniteSet(OldRunIds)
  BY FS_Interval DEF OldRunIds, Lab5oldAssumption
<1>2. /\ OldWriters \subseteq OldRunIds /\ OldReaders \subseteq OldRunIds
      /\ OldWriters' \subseteq OldRunIds /\ OldReaders' \subseteq OldRunIds
  BY DEF OldWriters, OldReaders
<1>3. QED
  BY <1>1, <1>2, FS_Subset

LEMMA WritersMove ==
  ASSUME NEW r \in OldRunIds, ParOthers(r)
  PROVE  LET w == {"write", "post sem1"}
             f == Cardinality(OldWriters)
             g == Cardinality(OldWriters')
         IN  /\ oldPar[r] \notin w /\ oldPar'[r] \notin w => g = f
             /\ oldPar[r] \in w /\ oldPar'[r] \in w => g = f
             /\ oldPar[r] \in w /\ oldPar'[r] \notin w => g = f - 1
             /\ oldPar[r] \notin w /\ oldPar'[r] \in w => g = f + 1
<1>1. /\ \A x : x # r => (x \in OldWriters <=> x \in OldWriters')
      /\ r \in OldWriters <=> oldPar[r] \in {"write", "post sem1"}
      /\ r \in OldWriters' <=> oldPar'[r] \in {"write", "post sem1"}
  BY DEF OldWriters, ParOthers
<1>2. QED
  BY <1>1, OldSetsFinite, CountMove

LEMMA ReadersMove ==
  ASSUME NEW r \in OldRunIds, ChiOthers(r)
  PROVE  LET w == {"read", "post sem2"}
             f == Cardinality(OldReaders)
             g == Cardinality(OldReaders')
         IN  /\ oldChi[r] \notin w /\ oldChi'[r] \notin w => g = f
             /\ oldChi[r] \in w /\ oldChi'[r] \in w => g = f
             /\ oldChi[r] \in w /\ oldChi'[r] \notin w => g = f - 1
             /\ oldChi[r] \notin w /\ oldChi'[r] \in w => g = f + 1
<1>1. /\ \A x : x # r => (x \in OldReaders <=> x \in OldReaders')
      /\ r \in OldReaders <=> oldChi[r] \in {"read", "post sem2"}
      /\ r \in OldReaders' <=> oldChi'[r] \in {"read", "post sem2"}
  BY DEF OldReaders, ChiOthers
<1>2. QED
  BY <1>1, OldSetsFinite, CountMove

(* One move of the parent, or of the child, of run r. *)
LEMMA TokenParent ==
  ASSUME OldTypeOK, Token, NEW r \in OldRunIds, NEW to,
         oldPar' = [oldPar EXCEPT ![r] = to], oldChi' = oldChi,
         NamedValue(1)' + NamedValue(2)' + Cardinality(OldWriters') =
           NamedValue(1) + NamedValue(2) + Cardinality(OldWriters),
         named'[2] = -1 => /\ named'[1] \in {-1, 0} /\ named[2] = -1
                           /\ to \in {"none", "shmget", "sem1", "sem2", "killed"},
         to = "sem2" => named'[1] # -1,
         named'[1] = -1 => named[1] = -1 /\ named'[2] = -1
  PROVE  Token'
<1>1. OldReaders' = OldReaders
  BY DEF OldReaders
<1>2. /\ oldPar'[r] = to
      /\ \A x \in OldRunIds : x # r => oldPar'[x] = oldPar[x]
  BY DEF OldTypeOK
<1>3. named[1] \in Int /\ named[2] \in Int /\ NamedValue(1) \in Int /\ NamedValue(2) \in Int
  BY DEF OldTypeOK, NamedValue
<1>4. Cardinality(OldReaders) \in Nat /\ Cardinality(OldWriters) \in Nat
      /\ Cardinality(OldWriters') \in Nat
  BY OldSetsFinite, FS_CardinalityType
<1>5. NamedValue(1)' + NamedValue(2)' + Cardinality(OldWriters')
        + Cardinality(OldReaders') <= 1
  BY <1>1, <1>3, <1>4 DEF Token
<1>6. named'[2] = -1 =>
        /\ named'[1] \in {-1, 0}
        /\ \A x \in OldRunIds :
             /\ oldPar'[x] \in {"none", "shmget", "sem1", "sem2", "killed"}
             /\ oldChi'[x] = "none"
  BY <1>2 DEF Token
<1>7. \A x \in OldRunIds : oldPar'[x] = "sem2" => named'[1] # -1
  BY <1>2 DEF Token
<1>8. QED
  BY <1>5, <1>6, <1>7 DEF Token, NamedValue

LEMMA TokenChild ==
  ASSUME OldTypeOK, Token, NEW r \in OldRunIds, NEW to,
         oldChi' = [oldChi EXCEPT ![r] = to], oldPar' = oldPar,
         NamedValue(1)' + NamedValue(2)' + Cardinality(OldReaders') =
           NamedValue(1) + NamedValue(2) + Cardinality(OldReaders),
         named' \in [{1, 2} -> Nat \cup {-1}], named'[1] # -1, named'[2] # -1
  PROVE  Token'
<1>1. OldWriters' = OldWriters
  BY DEF OldWriters
<1>2. NamedValue(1) \in Int /\ NamedValue(2) \in Int
  BY DEF OldTypeOK, NamedValue
<1>3. Cardinality(OldReaders) \in Nat /\ Cardinality(OldWriters) \in Nat
      /\ Cardinality(OldReaders') \in Nat
  BY OldSetsFinite, FS_CardinalityType
<1>4. NamedValue(1)' \in Int /\ NamedValue(2)' \in Int
  BY DEF NamedValue
<1>5. NamedValue(1)' + NamedValue(2)' + Cardinality(OldWriters')
        + Cardinality(OldReaders') <= 1
  BY <1>1, <1>2, <1>3, <1>4 DEF Token
<1>6. QED
  BY <1>5 DEF Token, NamedValue

(* A process that ends leaves the values alone, and its place. *)
LEMMA Fewer ==
  ASSUME NEW a \in Int, NEW b \in Int, NEW w \in Nat, NEW r \in Nat,
         NEW v \in Nat, NEW q \in Nat, v <= w, q <= r, a + b + w + r <= 1
  PROVE  a + b + v + q <= 1
OBVIOUS

LEMMA OldStepHolds ==
  ASSUME OldTypeOK, Token, [OldNext]_oldVars
  PROVE  OldTypeOK' /\ Token'
<1>1. /\ named \in [{1, 2} -> Nat \cup {-1}]
      /\ named[1] \in Nat \cup {-1} /\ named[2] \in Nat \cup {-1}
  BY DEF OldTypeOK
<1>2. CASE UNCHANGED oldVars
  BY <1>2 DEF oldVars, OldTypeOK, Token, NamedValue, OldWriters, OldReaders
<1>3. ASSUME NEW r \in OldRunIds, NEW from, NEW to \in OldParSteps,
             OldParGoto(r, from, to)
      PROVE  /\ oldPar[r] = from /\ oldPar' = [oldPar EXCEPT ![r] = to]
             /\ oldPar'[r] = to /\ ParOthers(r)
             /\ oldPar' \in [OldRunIds -> OldParSteps] /\ oldKilled' \in Nat
  BY <1>3 DEF OldParGoto, OldTypeOK, ParOthers
<1>4. ASSUME NEW r \in OldRunIds, NEW from, NEW to \in OldChiSteps,
             OldChiGoto(r, from, to)
      PROVE  /\ oldChi[r] = from /\ oldChi' = [oldChi EXCEPT ![r] = to]
             /\ oldChi'[r] = to /\ ChiOthers(r)
             /\ oldChi' \in [OldRunIds -> OldChiSteps]
             /\ oldPar' = oldPar /\ oldCell' = oldCell /\ oldKilled' = oldKilled
  BY <1>4 DEF OldChiGoto, OldTypeOK, ChiOthers
<1>5. /\ {"none", "shmget", "sem1", "sem2", "fork", "wait sem2", "write",
         "post sem1", "wait", "exited", "killed"} \subseteq OldParSteps
      /\ {"none", "wait sem1", "read", "post sem2", "exited", "killed"}
           \subseteq OldChiSteps
  BY DEF OldParSteps, OldChiSteps, OldEnded
<1>6. ASSUME NEW r \in OldRunIds, OldStart(r) PROVE OldTypeOK' /\ Token'
  <2>1. /\ oldPar[r] = "none" /\ oldPar' = [oldPar EXCEPT ![r] = "shmget"]
        /\ oldPar'[r] = "shmget" /\ ParOthers(r)
        /\ oldPar' \in [OldRunIds -> OldParSteps] /\ oldKilled' \in Nat
        /\ oldChi' = oldChi /\ named' = named /\ oldCell' = oldCell
    BY <1>3, <1>5, <1>6 DEF OldStart
  <2>2. Cardinality(OldWriters') = Cardinality(OldWriters)
    BY <2>1, WritersMove
  <2>3. Token'
    BY <2>1, <2>2, TokenParent DEF Token, NamedValue
  <2>4. QED
    BY <2>1, <2>3 DEF OldTypeOK
<1>7. ASSUME NEW r \in OldRunIds, OldSegment(r) PROVE OldTypeOK' /\ Token'
  <2>1. /\ oldPar[r] = "shmget" /\ oldPar' = [oldPar EXCEPT ![r] = "sem1"]
        /\ oldPar'[r] = "sem1" /\ ParOthers(r)
        /\ oldPar' \in [OldRunIds -> OldParSteps] /\ oldKilled' \in Nat
        /\ oldChi' = oldChi /\ named' = named
    BY <1>3, <1>5, <1>7 DEF OldSegment
  <2>2. Cardinality(OldWriters') = Cardinality(OldWriters)
    BY <2>1, WritersMove
  <2>3. Token'
    BY <2>1, <2>2, TokenParent DEF Token, NamedValue
  <2>4. QED
    BY <1>7, <2>1, <2>3 DEF OldTypeOK, OldSegment
<1>8. ASSUME NEW r \in OldRunIds, SemOpen(r, 1, 0, "sem1", "sem2")
      PROVE  OldTypeOK' /\ Token'
  <2>1. /\ oldPar[r] = "sem1" /\ oldPar' = [oldPar EXCEPT ![r] = "sem2"]
        /\ oldPar'[r] = "sem2" /\ ParOthers(r)
        /\ oldPar' \in [OldRunIds -> OldParSteps] /\ oldKilled' \in Nat
        /\ oldChi' = oldChi /\ oldCell' = oldCell
    BY <1>3, <1>5, <1>8 DEF SemOpen
  <2>2. /\ named'[1] = IF named[1] = -1 THEN 0 ELSE named[1]
        /\ named'[2] = named[2] /\ named' \in [{1, 2} -> Nat \cup {-1}]
    BY <1>1, <1>8 DEF SemOpen
  <2>3. Cardinality(OldWriters') = Cardinality(OldWriters)
    BY <2>1, WritersMove
  <2>4. NamedValue(1)' = NamedValue(1) /\ NamedValue(2)' = NamedValue(2)
    BY <2>2 DEF NamedValue
  <2>5. named'[1] # -1
    BY <2>2
  <2>6. Token'
    BY <2>1, <2>2, <2>3, <2>4, <2>5, TokenParent DEF Token
  <2>7. QED
    BY <2>1, <2>2, <2>6 DEF OldTypeOK
<1>9. ASSUME NEW r \in OldRunIds, SemOpen(r, 2, 1, "sem2", "fork")
      PROVE  OldTypeOK' /\ Token'
  <2>1. /\ oldPar[r] = "sem2" /\ oldPar' = [oldPar EXCEPT ![r] = "fork"]
        /\ oldPar'[r] = "fork" /\ ParOthers(r)
        /\ oldPar' \in [OldRunIds -> OldParSteps] /\ oldKilled' \in Nat
        /\ oldChi' = oldChi /\ oldCell' = oldCell
    BY <1>3, <1>5, <1>9 DEF SemOpen
  <2>2. /\ named'[2] = IF named[2] = -1 THEN 1 ELSE named[2]
        /\ named'[1] = named[1] /\ named' \in [{1, 2} -> Nat \cup {-1}]
    BY <1>1, <1>9 DEF SemOpen
  <2>3. Cardinality(OldWriters') = Cardinality(OldWriters)
    BY <2>1, WritersMove
  <2>4. named[1] # -1
    BY <2>1 DEF Token
  <2>5. CASE named[2] # -1
    <3>1. NamedValue(1)' = NamedValue(1) /\ NamedValue(2)' = NamedValue(2)
      BY <2>2, <2>5 DEF NamedValue
    <3>2. QED
      BY <2>1, <2>2, <2>3, <2>4, <2>5, <3>1, TokenParent DEF OldTypeOK
  <2>6. CASE named[2] = -1
    <3>1. named[1] = 0 /\ named'[2] = 1
      BY <2>2, <2>4, <2>6 DEF Token
    <3>2. OldWriters = {} /\ OldReaders = {}
      BY <2>6 DEF Token, OldWriters, OldReaders
    <3>3. Cardinality(OldWriters') = 0 /\ Cardinality(OldReaders') = 0
      <4>1. OldReaders' = OldReaders
        BY <2>1 DEF OldReaders
      <4>2. QED
        BY <2>3, <3>2, <4>1, FS_EmptySet
    <3>4. NamedValue(1)' = 0 /\ NamedValue(2)' = 1
      BY <2>2, <3>1 DEF NamedValue
    <3>5. NamedValue(1)' + NamedValue(2)' + Cardinality(OldWriters')
            + Cardinality(OldReaders') <= 1
      BY <3>3, <3>4
    <3>6. Token'
      BY <2>2, <2>4, <3>1, <3>5 DEF Token, NamedValue
    <3>7. QED
      BY <2>1, <2>2, <3>6 DEF OldTypeOK
  <2>7. QED
    BY <2>5, <2>6
<1>10. ASSUME NEW r \in OldRunIds, OldFork(r) PROVE OldTypeOK' /\ Token'
  <2>1. /\ oldPar[r] = "fork" /\ oldPar' = [oldPar EXCEPT ![r] = "wait sem2"]
        /\ oldPar'[r] = "wait sem2" /\ ParOthers(r)
        /\ oldPar' \in [OldRunIds -> OldParSteps] /\ oldKilled' \in Nat
        /\ oldChi' = [oldChi EXCEPT ![r] = "wait sem1"]
        /\ named' = named /\ oldCell' = oldCell
    BY <1>3, <1>5, <1>10 DEF OldFork
  <2>2. named[2] # -1 /\ named[1] # -1
    BY <2>1 DEF Token
  <2>3. /\ Cardinality(OldWriters') = Cardinality(OldWriters)
        /\ Cardinality(OldReaders') \in Nat /\ Cardinality(OldReaders) \in Nat
        /\ Cardinality(OldWriters) \in Nat
    BY <2>1, WritersMove, OldSetsFinite, FS_CardinalityType
  <2>4. Cardinality(OldReaders') <= Cardinality(OldReaders)
    <3>1. oldChi'[r] = "wait sem1" /\ ChiOthers(r)
      BY <2>1 DEF OldTypeOK, ChiOthers
    <3>2. \/ Cardinality(OldReaders') = Cardinality(OldReaders)
          \/ Cardinality(OldReaders') = Cardinality(OldReaders) - 1
      BY <3>1, ReadersMove
    <3>3. QED
      BY <2>3, <3>2
  <2>5. NamedValue(1)' = NamedValue(1) /\ NamedValue(2)' = NamedValue(2)
    BY <2>1 DEF NamedValue
  <2>6. NamedValue(1) \in Int /\ NamedValue(2) \in Int
    BY <1>1 DEF NamedValue
  <2>7. NamedValue(1)' + NamedValue(2)' + Cardinality(OldWriters')
          + Cardinality(OldReaders') <= 1
    BY <2>3, <2>4, <2>5, <2>6, Fewer DEF Token
  <2>8. Token'
    BY <2>1, <2>2, <2>7 DEF Token, NamedValue
  <2>9. oldChi' \in [OldRunIds -> OldChiSteps]
    BY <1>5, <2>1 DEF OldTypeOK
  <2>10. QED
    BY <2>1, <2>8, <2>9 DEF OldTypeOK
<1>11. ASSUME NEW r \in OldRunIds, OldWaitTurn(r) PROVE OldTypeOK' /\ Token'
  <2>1. /\ oldPar[r] = "wait sem2" /\ oldPar' = [oldPar EXCEPT ![r] = "write"]
        /\ oldPar'[r] = "write" /\ ParOthers(r)
        /\ oldPar' \in [OldRunIds -> OldParSteps] /\ oldKilled' \in Nat
        /\ oldChi' = oldChi /\ oldCell' = oldCell
    BY <1>3, <1>5, <1>11 DEF OldWaitTurn
  <2>2. named[2] > 0 /\ named' = [named EXCEPT ![2] = @ - 1]
    BY <1>11 DEF OldWaitTurn, sem_wait
  <2>3. /\ named[2] \in Nat /\ named'[2] = named[2] - 1 /\ named'[1] = named[1]
        /\ named'[2] \in Nat
    BY <1>1, <2>2
  <2>4. NamedValue(1)' = NamedValue(1) /\ NamedValue(2)' = NamedValue(2) - 1
    BY <2>3 DEF NamedValue
  <2>5. Cardinality(OldWriters') = Cardinality(OldWriters) + 1
    BY <2>1, WritersMove
  <2>6. named[2] # -1 /\ named[1] # -1 /\ named'[2] # -1
    BY <2>3 DEF Token
  <2>7. /\ NamedValue(1) \in Int /\ NamedValue(2) \in Int
        /\ Cardinality(OldWriters) \in Nat
    BY <1>1, OldSetsFinite, FS_CardinalityType DEF NamedValue
  <2>8. NamedValue(1)' + NamedValue(2)' + Cardinality(OldWriters') =
          NamedValue(1) + NamedValue(2) + Cardinality(OldWriters)
    BY <2>4, <2>5, <2>7
  <2>9. Token'
    BY <2>1, <2>3, <2>6, <2>8, TokenParent
  <2>10. named' \in [{1, 2} -> Nat \cup {-1}]
    BY <1>1, <2>2, <2>3
  <2>11. QED
    BY <2>1, <2>9, <2>10 DEF OldTypeOK
<1>12. ASSUME NEW r \in OldRunIds, OldWrite(r) PROVE OldTypeOK' /\ Token'
  <2>1. /\ oldPar[r] = "write" /\ oldPar' = [oldPar EXCEPT ![r] = "post sem1"]
        /\ oldPar'[r] = "post sem1" /\ ParOthers(r)
        /\ oldPar' \in [OldRunIds -> OldParSteps] /\ oldKilled' \in Nat
        /\ oldChi' = oldChi /\ named' = named
    BY <1>3, <1>5, <1>12 DEF OldWrite
  <2>2. Cardinality(OldWriters') = Cardinality(OldWriters)
    BY <2>1, WritersMove
  <2>3. named[2] # -1 /\ named[1] # -1
    BY <2>1 DEF Token
  <2>4. Token'
    BY <2>1, <2>2, <2>3, TokenParent DEF NamedValue
  <2>5. QED
    BY <1>12, <2>1, <2>4 DEF OldTypeOK, OldWrite
<1>13. ASSUME NEW r \in OldRunIds, OldPostChild(r) PROVE OldTypeOK' /\ Token'
  <2>1. /\ oldPar[r] = "post sem1" /\ oldPar' = [oldPar EXCEPT ![r] = "wait"]
        /\ oldPar'[r] = "wait" /\ ParOthers(r)
        /\ oldPar' \in [OldRunIds -> OldParSteps] /\ oldKilled' \in Nat
        /\ oldChi' = oldChi /\ oldCell' = oldCell
    BY <1>3, <1>5, <1>13 DEF OldPostChild
  <2>2. named' = [named EXCEPT ![1] = @ + 1]
    BY <1>13 DEF OldPostChild, sem_post
  <2>3. named[2] # -1 /\ named[1] # -1
    BY <2>1 DEF Token
  <2>4. /\ named[1] \in Nat /\ named'[1] = named[1] + 1 /\ named'[2] = named[2]
        /\ named'[1] \in Nat
    BY <1>1, <2>2, <2>3
  <2>5. NamedValue(1)' = NamedValue(1) + 1 /\ NamedValue(2)' = NamedValue(2)
    BY <2>4 DEF NamedValue
  <2>6. Cardinality(OldWriters') = Cardinality(OldWriters) - 1
    BY <2>1, WritersMove
  <2>7. /\ NamedValue(1) \in Int /\ NamedValue(2) \in Int
        /\ Cardinality(OldWriters) \in Nat
    BY <1>1, OldSetsFinite, FS_CardinalityType DEF NamedValue
  <2>8. NamedValue(1)' + NamedValue(2)' + Cardinality(OldWriters') =
          NamedValue(1) + NamedValue(2) + Cardinality(OldWriters)
    BY <2>5, <2>6, <2>7
  <2>9. Token'
    <3>1. named'[1] # -1 /\ named'[2] # -1
      BY <2>3, <2>4
    <3>2. QED
      BY <2>1, <2>8, <3>1, TokenParent
  <2>10. named' \in [{1, 2} -> Nat \cup {-1}]
    BY <1>1, <2>2, <2>4
  <2>11. QED
    BY <2>1, <2>9, <2>10 DEF OldTypeOK
<1>14. ASSUME NEW r \in OldRunIds, OldWait(r) PROVE OldTypeOK' /\ Token'
  <2>1. /\ oldPar[r] = "wait" /\ oldPar' = [oldPar EXCEPT ![r] = "exited"]
        /\ oldPar'[r] = "exited" /\ ParOthers(r)
        /\ oldPar' \in [OldRunIds -> OldParSteps] /\ oldKilled' \in Nat
        /\ oldChi' = oldChi /\ named' = named /\ oldCell' = oldCell
    BY <1>3, <1>5, <1>14 DEF OldWait
  <2>2. Cardinality(OldWriters') = Cardinality(OldWriters)
    BY <2>1, WritersMove
  <2>3. named[2] # -1 /\ named[1] # -1
    BY <2>1 DEF Token
  <2>4. Token'
    BY <2>1, <2>2, <2>3, TokenParent DEF NamedValue
  <2>5. QED
    BY <2>1, <2>4 DEF OldTypeOK
<1>15. ASSUME NEW r \in OldRunIds, OldWaitFib(r) PROVE OldTypeOK' /\ Token'
  <2>1. /\ oldChi[r] = "wait sem1" /\ oldChi' = [oldChi EXCEPT ![r] = "read"]
        /\ oldChi'[r] = "read" /\ ChiOthers(r)
        /\ oldChi' \in [OldRunIds -> OldChiSteps]
        /\ oldPar' = oldPar /\ oldCell' = oldCell /\ oldKilled' = oldKilled
    BY <1>4, <1>5, <1>15 DEF OldWaitFib
  <2>2. named[1] > 0 /\ named' = [named EXCEPT ![1] = @ - 1]
    BY <1>15 DEF OldWaitFib, sem_wait
  <2>3. /\ named[1] \in Nat /\ named'[1] = named[1] - 1 /\ named'[2] = named[2]
        /\ named'[1] \in Nat
    BY <1>1, <2>2
  <2>4. NamedValue(1)' = NamedValue(1) - 1 /\ NamedValue(2)' = NamedValue(2)
    BY <2>3 DEF NamedValue
  <2>5. Cardinality(OldReaders') = Cardinality(OldReaders) + 1
    BY <2>1, ReadersMove
  <2>6. named[2] # -1
    BY <2>1 DEF Token
  <2>7. /\ NamedValue(1) \in Int /\ NamedValue(2) \in Int
        /\ Cardinality(OldReaders) \in Nat
    BY <1>1, OldSetsFinite, FS_CardinalityType DEF NamedValue
  <2>8. NamedValue(1)' + NamedValue(2)' + Cardinality(OldReaders') =
          NamedValue(1) + NamedValue(2) + Cardinality(OldReaders)
    BY <2>4, <2>5, <2>7
  <2>9. named' \in [{1, 2} -> Nat \cup {-1}] /\ named'[1] # -1 /\ named'[2] # -1
    BY <1>1, <2>2, <2>3, <2>6
  <2>10. Token'
    BY <2>1, <2>8, <2>9, TokenChild
  <2>11. QED
    BY <2>1, <2>9, <2>10 DEF OldTypeOK
<1>16. ASSUME NEW r \in OldRunIds, OldRead(r) PROVE OldTypeOK' /\ Token'
  <2>1. /\ oldChi[r] = "read" /\ oldChi' = [oldChi EXCEPT ![r] = "post sem2"]
        /\ oldChi'[r] = "post sem2" /\ ChiOthers(r)
        /\ oldChi' \in [OldRunIds -> OldChiSteps] /\ named' = named
        /\ oldPar' = oldPar /\ oldCell' = oldCell /\ oldKilled' = oldKilled
    BY <1>4, <1>5, <1>16 DEF OldRead
  <2>2. Cardinality(OldReaders') = Cardinality(OldReaders)
    BY <2>1, ReadersMove
  <2>3. named[2] # -1 /\ named[1] # -1
    BY <2>1 DEF Token
  <2>4. Token'
    <3>1. /\ named' \in [{1, 2} -> Nat \cup {-1}] /\ named'[1] # -1 /\ named'[2] # -1
          /\ NamedValue(1)' = NamedValue(1) /\ NamedValue(2)' = NamedValue(2)
      BY <1>1, <2>1, <2>3 DEF NamedValue
    <3>2. QED
      BY <2>1, <2>2, <3>1, TokenChild
  <2>5. QED
    BY <2>1, <2>4 DEF OldTypeOK
<1>17. ASSUME NEW r \in OldRunIds, OldPostParent(r) PROVE OldTypeOK' /\ Token'
  <2>1. /\ oldChi[r] = "post sem2" /\ oldChi' = [oldChi EXCEPT ![r] = "exited"]
        /\ oldChi'[r] = "exited" /\ ChiOthers(r)
        /\ oldChi' \in [OldRunIds -> OldChiSteps]
        /\ oldPar' = oldPar /\ oldCell' = oldCell /\ oldKilled' = oldKilled
    BY <1>4, <1>5, <1>17 DEF OldPostParent
  <2>2. named' = [named EXCEPT ![2] = @ + 1]
    BY <1>17 DEF OldPostParent, sem_post
  <2>3. named[2] # -1 /\ named[1] # -1
    BY <2>1 DEF Token
  <2>4. /\ named[2] \in Nat /\ named'[2] = named[2] + 1 /\ named'[1] = named[1]
        /\ named'[2] \in Nat
    BY <1>1, <2>2, <2>3
  <2>5. NamedValue(1)' = NamedValue(1) /\ NamedValue(2)' = NamedValue(2) + 1
    BY <2>4 DEF NamedValue
  <2>6. Cardinality(OldReaders') = Cardinality(OldReaders) - 1
    BY <2>1, ReadersMove
  <2>7. /\ NamedValue(1) \in Int /\ NamedValue(2) \in Int
        /\ Cardinality(OldReaders) \in Nat
    BY <1>1, OldSetsFinite, FS_CardinalityType DEF NamedValue
  <2>8. NamedValue(1)' + NamedValue(2)' + Cardinality(OldReaders') =
          NamedValue(1) + NamedValue(2) + Cardinality(OldReaders)
    BY <2>5, <2>6, <2>7
  <2>9. named' \in [{1, 2} -> Nat \cup {-1}] /\ named'[1] # -1 /\ named'[2] # -1
    BY <1>1, <2>2, <2>3, <2>4
  <2>10. Token'
    BY <2>1, <2>8, <2>9, TokenChild
  <2>11. QED
    BY <2>1, <2>9, <2>10 DEF OldTypeOK
<1>18. NamedValue(1) \in Int /\ NamedValue(2) \in Int
  BY <1>1 DEF NamedValue
<1>19. /\ Cardinality(OldReaders) \in Nat /\ Cardinality(OldWriters) \in Nat
       /\ Cardinality(OldReaders') \in Nat /\ Cardinality(OldWriters') \in Nat
  BY OldSetsFinite, FS_CardinalityType
<1>20. ASSUME NEW r \in OldRunIds, KillOldParent(r) PROVE OldTypeOK' /\ Token'
  <2>1. /\ oldPar' = [oldPar EXCEPT ![r] = "killed"]
        /\ oldKilled' = oldKilled + 1
        /\ oldChi' = oldChi /\ named' = named /\ oldCell' = oldCell
    BY <1>20 DEF KillOldParent
  <2>2. oldPar'[r] = "killed" /\ ParOthers(r)
    BY <2>1 DEF OldTypeOK, ParOthers
  <2>3. Cardinality(OldWriters') <= Cardinality(OldWriters)
    <3>1. \/ Cardinality(OldWriters') = Cardinality(OldWriters)
          \/ Cardinality(OldWriters') = Cardinality(OldWriters) - 1
      BY <2>2, WritersMove
    <3>2. QED
      BY <1>19, <3>1
  <2>4. OldReaders' = OldReaders
    BY <2>1 DEF OldReaders
  <2>5. NamedValue(1)' = NamedValue(1) /\ NamedValue(2)' = NamedValue(2)
    BY <2>1 DEF NamedValue
  <2>6. NamedValue(1)' + NamedValue(2)' + Cardinality(OldWriters')
          + Cardinality(OldReaders') <= 1
    BY <1>18, <1>19, <2>3, <2>4, <2>5, Fewer DEF Token
  <2>7. Token'
    BY <2>1, <2>2, <2>6 DEF Token, NamedValue, ParOthers
  <2>8. oldPar' \in [OldRunIds -> OldParSteps] /\ oldKilled' \in Nat
    <3>1. oldKilled' \in Nat
      BY <2>1 DEF OldTypeOK
    <3>2. "killed" \in OldParSteps
      BY <1>5
    <3>3. oldPar' \in [OldRunIds -> OldParSteps]
      BY <2>1, <3>2 DEF OldTypeOK
    <3>4. QED
      BY <3>1, <3>3
  <2>9. QED
    BY <2>1, <2>7, <2>8 DEF OldTypeOK
<1>21. ASSUME NEW r \in OldRunIds, KillOldChild(r) PROVE OldTypeOK' /\ Token'
  <2>1. /\ oldChi' = [oldChi EXCEPT ![r] = "killed"] /\ oldChi[r] # "none"
        /\ oldKilled' = oldKilled + 1
        /\ oldPar' = oldPar /\ named' = named /\ oldCell' = oldCell
    BY <1>21 DEF KillOldChild
  <2>2. Cardinality(OldReaders') <= Cardinality(OldReaders)
    <3>1. oldChi'[r] = "killed" /\ ChiOthers(r)
      BY <2>1 DEF OldTypeOK, ChiOthers
    <3>2. \/ Cardinality(OldReaders') = Cardinality(OldReaders)
          \/ Cardinality(OldReaders') = Cardinality(OldReaders) - 1
      BY <3>1, ReadersMove
    <3>3. QED
      BY <1>19, <3>2
  <2>3. OldWriters' = OldWriters
    BY <2>1 DEF OldWriters
  <2>4. NamedValue(1)' = NamedValue(1) /\ NamedValue(2)' = NamedValue(2)
    BY <2>1 DEF NamedValue
  <2>5. NamedValue(1)' + NamedValue(2)' + Cardinality(OldWriters')
          + Cardinality(OldReaders') <= 1
    BY <1>18, <1>19, <2>2, <2>3, <2>4, Fewer DEF Token
  <2>6. named[2] # -1
    BY <2>1 DEF Token
  <2>7. Token'
    BY <2>1, <2>5, <2>6 DEF Token, NamedValue
  <2>8. oldChi' \in [OldRunIds -> OldChiSteps] /\ oldKilled' \in Nat
    <3>1. oldKilled' \in Nat
      BY <2>1 DEF OldTypeOK
    <3>2. "killed" \in OldChiSteps
      BY <1>5
    <3>3. oldChi' \in [OldRunIds -> OldChiSteps]
      BY <2>1, <3>2 DEF OldTypeOK
    <3>4. QED
      BY <3>1, <3>3
  <2>9. QED
    BY <2>1, <2>7, <2>8 DEF OldTypeOK
<1>22. QED
  BY <1>2, <1>6, <1>7, <1>8, <1>9, <1>10, <1>11, <1>12, <1>13, <1>14, <1>15, <1>16,
     <1>17, <1>20, <1>21 DEF OldNext, OldParent, OldChild

----------------------------------------------------------------------------
(* The rounds of semtest.                                                  *)

Done == {"wait", "rmid", "exit"} \cup Ended

LoopInv ==
  program = "semtest" => \A p \in Procs : pc[p] \notin Done => loop[p] > 0

LEMMA DoneForward ==
  ASSUME LockTypeOK, Shape, LockMove, NEW q \in Procs, pc[q] \in Done
  PROVE  pc'[q] \in Done
<1>1. ASSUME NEW p \in Procs, NEW to, pc' = [pc EXCEPT ![p] = to],
             pc[p] \in Done => to \in Done
      PROVE  pc'[q] \in Done
  BY <1>1 DEF LockTypeOK
<1>2. /\ \A l \in {"none", "sigaction", "semget", "SETVAL", "assign", "shmget", "inside",
                  "release", "remove segment", "grab", "fork"} : l \notin Done
      /\ "rmid" \in Done /\ Ended \subseteq Done
      /\ {"exited", "exit 77", "killed"} = Ended
  BY DEF Done, Ended
<1>3. ASSUME NEW p \in Procs, ProcMove(p) PROVE pc'[q] \in Done
  <2>1. CASE Grab(p)
    BY <1>1, <1>2, <2>1 DEF Grab, Goto
  <2>2. CASE Leave(p)
    BY <1>1, <1>2, <2>2 DEF Leave, Release, Goto
  <2>3. ASSUME NEW how \in Ended, pc' = [pc EXCEPT ![p] = how]
        PROVE  pc'[q] \in Done
    BY <1>1, <1>2, <2>3
  <2>4. CASE ChildEnds(p) \/ Kill(p)
    BY <1>2, <2>3, <2>4 DEF ChildEnds, Kill, Exit
  <2>5. CASE TakeSigint(p)
    BY <1>2, <2>3, <2>5 DEF TakeSigint, sigint_handler, DefaultAction, RemoveAndExit, Exit
  <2>6. QED
    BY <1>3, <2>1, <2>2, <2>4, <2>5 DEF ProcMove
<1>4. ASSUME NEW r \in RunIds, RunMove(r) PROVE pc'[q] \in Done
  <2>1. Parent(r) \in Procs /\ Child(r) \in Procs
    BY ProcNames
  <2>2. ASSUME NEW p \in Procs, NEW from, NEW to, Goto(p, from, to),
               from \in Done => to \in Done
        PROVE  pc'[q] \in Done
    BY <1>1, <2>2 DEF Goto
  <2>3. CASE \/ Start(r, "sigaction") \/ Start(r, "shmget") \/ InstallHandler(r)
             \/ Semget(r) \/ SetVal(r) \/ AssignChild(r) \/ Wait(r)
    BY <1>2, <2>1, <2>2, <2>3
       DEF Start, InstallHandler, Semget, SetVal, AssignChild, Wait
  <2>4. CASE Quiet(r)
    BY <1>2, <2>1, <2>2, <2>4 DEF Quiet
  <2>5. CASE Fork(r)
    <3>1. /\ pc[Parent(r)] = "fork"
          /\ pc' = [pc EXCEPT ![Parent(r)] = "assign", ![Child(r)] = "grab"]
      BY <2>5 DEF Fork
    <3>2. "fork" \in BeforeFork
      BY MoveNames
    <3>3. pc[Child(r)] = "none"
      BY <3>1, <3>2 DEF Shape
    <3>4. q # Parent(r) /\ q # Child(r)
      BY <1>2, <3>1, <3>3
    <3>5. QED
      BY <3>1, <3>4 DEF LockTypeOK
  <2>6. CASE Cleanup(r)
    <3>1. pc' = [pc EXCEPT ![Parent(r)] = "exited"]
      BY <2>6 DEF Cleanup, RemoveAndExit, Exit
    <3>2. QED
      BY <1>1, <1>2, <2>1, <3>1
  <2>7. CASE CtrlC(r)
    BY <2>7 DEF CtrlC
  <2>8. QED
    BY <1>4, <2>3, <2>4, <2>5, <2>6, <2>7 DEF RunMove
<1>5. CASE UNCHANGED lockVars
  BY <1>5 DEF lockVars
<1>6. QED
  BY <1>3, <1>4, <1>5 DEF LockMove

LEMMA LoopStep ==
  ASSUME SemtestTypeOK, Shape, LoopInv, [ForkedNext]_forkedVars
  PROVE  loop' \in [Procs -> 0..LOOP] /\ LoopInv'
<1>1. LockTypeOK /\ loop \in [Procs -> 0..LOOP]
  BY DEF SemtestTypeOK
<1>2. LockMove
  BY Moves
<1>3. \A q \in Procs : pc'[q] \notin Done => pc[q] \notin Done
  BY <1>1, <1>2, DoneForward
<1>4. CASE loop' = loop /\ program' = program
  BY <1>1, <1>3, <1>4 DEF LoopInv
<1>5. ASSUME NEW p \in Procs, EndRound(p), program = "semtest", program' = program
      PROVE  loop' \in [Procs -> 0..LOOP] /\ LoopInv'
  <2>1. pc[p] = "inside" /\ loop' = [loop EXCEPT ![p] = @ - 1]
    BY <1>5 DEF EndRound, Release, Goto
  <2>2. loop[p] > 0 /\ loop[p] \in 0..LOOP
    BY <1>1, <1>5, <2>1 DEF LoopInv, Done, Ended
  <2>3. loop[p] - 1 \in 0..LOOP
    BY <2>2, SemtestAssumption
  <2>4. loop' \in [Procs -> 0..LOOP]
    BY <1>1, <2>1, <2>3
  <2>5. loop'[p] = loop[p] - 1 /\ \A q \in Procs : q # p => loop'[q] = loop[q]
    BY <1>1, <2>1
  <2>6. loop[p] > 1 \/ pc'[p] \in Done
    <3>1. loop[p] > 1 \/ pc'[p] = "wait" \/ pc'[p] = "exit"
      BY <1>1, <1>5 DEF EndRound, Release, Goto, LockTypeOK
    <3>2. QED
      BY <3>1 DEF Done
  <2>7. pc'[p] \notin Done => loop'[p] > 0
    BY <2>2, <2>5, <2>6
  <2>8. \A q \in Procs : pc'[q] \notin Done => loop'[q] > 0
    BY <1>3, <1>5, <2>5, <2>7 DEF LoopInv
  <2>9. QED
    BY <2>4, <2>8 DEF LoopInv
<1>6. CASE RunSemtest(SemtestNext)
  <2>1. program = "semtest" /\ program' = program /\ SemtestNext
    BY <1>6 DEF RunSemtest
  <2>2. loop' = loop \/ \E p \in Procs : EndRound(p)
    BY <2>1 DEF SemtestNext, SemtestStep, SemtestStart
  <2>3. QED
    BY <1>4, <1>5, <2>1, <2>2
<1>7. CASE RunLab5(Lab5Next) \/ RunLab5old(OldNext) \/ RunSemCtrl(CtlNext)
           \/ UNCHANGED forkedVars
  BY <1>4, <1>7 DEF RunLab5, RunLab5old, RunSemCtrl, forkedVars
<1>8. QED
  BY <1>6, <1>7 DEF ForkedNext

LEMMA SharedStep ==
  ASSUME Lab5TypeOK, [ForkedNext]_forkedVars
  PROVE  /\ shared' \in [RunIds -> {"0", "fib"}]
         /\ segment' \in [RunIds -> {"none", "made", "removed"}]
<1> USE DEF Lab5TypeOK
<1>1. CASE UNCHANGED <<shared, segment>>
  BY <1>1
<1>2. ASSUME NEW r \in RunIds, MakeSegment(r) \/ WriteFib(r) \/ RemoveSegment(r)
      PROVE  /\ shared' \in [RunIds -> {"0", "fib"}]
             /\ segment' \in [RunIds -> {"none", "made", "removed"}]
  BY <1>2 DEF MakeSegment, WriteFib, RemoveSegment
<1>3. CASE RunLab5(Lab5Next)
  <2>1. \/ UNCHANGED <<shared, segment>>
        \/ \E p \in Procs : MakeSegment(p[1]) \/ WriteFib(p[1]) \/ RemoveSegment(p[1])
    BY <1>3 DEF RunLab5, Lab5Next, Lab5Step, Lab5Start, Lab5Parent, Lab5Child, ReadFib,
                KeepSegment
  <2>2. QED
    BY <1>1, <1>2, <2>1, EveryProc
<1>4. QED
  BY <1>1, <1>3
     DEF ForkedNext, RunSemtest, RunLab5old, RunSemCtrl, forkedVars

----------------------------------------------------------------------------
(* lab5: what its child can read.  A SETVAL forgets the holders that an    *)
(* abandoned run left inside, so exclusion among all processes is not what *)
(* holds here; the processes that the kernel would undo are still at most  *)
(* one, and those of the run whose parent runs are undone when inside.     *)

UndoInv ==
  /\ \A p \in Procs : semadj[p] # 0 => semadj[p] = -1 /\ Holds(p)
  /\ \A p, q \in Procs : semadj[p] # 0 /\ semadj[q] # 0 => p = q
  /\ val = IF \E p \in Procs : semadj[p] # 0 THEN 1 ELSE 0

Later(r) == pc[Parent(r)] \notin BeforeSemget \cup Ended
Written(r) == pc[Parent(r)] \in {"release", "wait", "rmid"} => shared[r] = "fib"

CurrentRun(r) ==
  Later(r) =>
    /\ HasSet(Parent(r))
    /\ Inside(Parent(r)) => semadj[Parent(r)] = -1
    /\ Inside(Child(r)) => semadj[Child(r)] = -1
    /\ Written(r)

LabInv ==
  program = "lab5" => UndoInv /\ \A r \in RunIds : CurrentRun(r)

LEMMA HasSetOf ==
  ASSUME NEW r \in RunIds
  PROVE  /\ HasSet(Parent(r)) <=> key # 0 /\ semid[r] = key
         /\ HasSet(Child(r)) <=> key # 0 /\ semid[r] = key
BY ProcNames DEF HasSet

LEMMA UndoSame ==
  ASSUME UndoInv, UNCHANGED semVars,
         \A p \in Procs : pc[p] \in InsideSteps => pc'[p] \in InsideSteps
  PROVE  UndoInv'
<1>1. \A p \in Procs : Holds(p) => Holds(p)'
  BY InsideNames DEF Holds, Inside, InsideSteps, HasSet, semVars
<1>2. QED
  BY <1>1 DEF UndoInv, semVars

LEMMA UndoGrab ==
  ASSUME LockTypeOK, UndoInv, NEW p \in Procs, Grab(p)
  PROVE  UndoInv'
<1>1. pc' = [pc EXCEPT ![p] = "inside"] /\ pc'[p] = "inside" /\ key' = key /\ semid' = semid
  BY DEF Grab, Goto, LockTypeOK
<1>2. \A q \in Procs : Holds(q) => Holds(q)'
  BY <1>1 DEF Holds, Inside, HasSet, LockTypeOK
<1>3. CASE HasSet(p)
  <2>1. val = 0 /\ val' = 1 /\ semadj' = [semadj EXCEPT ![p] = @ - 1]
    BY <1>3 DEF Grab, Add
  <2>2. \A q \in Procs : semadj[q] = 0
    BY <2>1 DEF UndoInv
  <2>3. semadj'[p] = -1 /\ \A q \in Procs : q # p => semadj'[q] = 0
    BY <2>1, <2>2 DEF LockTypeOK
  <2>4. Holds(p)'
    BY <1>1, <1>3 DEF Holds, Inside, HasSet
  <2>5. QED
    BY <2>1, <2>3, <2>4 DEF UndoInv
<1>4. CASE ~HasSet(p)
  BY <1>2, <1>4 DEF Grab, UndoInv
<1>5. QED
  BY <1>3, <1>4

(* The adjustment of a process is given back, by a -1 or by its exit. *)
LEMMA UndoDrop ==
  ASSUME LockTypeOK, UndoInv, NEW p \in Procs, NEW to,
         semadj' = [semadj EXCEPT ![p] = 0], val' = val + semadj[p],
         pc' = [pc EXCEPT ![p] = to], key' = key, semid' = semid
  PROVE  UndoInv'
<1>1. semadj'[p] = 0 /\ \A q \in Procs : q # p => semadj'[q] = semadj[q]
  BY DEF LockTypeOK
<1>2. \A q \in Procs : q # p /\ Holds(q) => Holds(q)'
  BY DEF Holds, Inside, HasSet, LockTypeOK
<1>3. \A q \in Procs : semadj'[q] # 0 => semadj'[q] = -1 /\ Holds(q)'
  BY <1>1, <1>2 DEF UndoInv
<1>4. \A q, s \in Procs : semadj'[q] # 0 /\ semadj'[s] # 0 => q = s
  BY <1>1 DEF UndoInv
<1>5. val' = IF \E q \in Procs : semadj'[q] # 0 THEN 1 ELSE 0
  <2>1. CASE semadj[p] = 0
    <3>1. val' = val
      BY <2>1 DEF LockTypeOK
    <3>2. QED
      BY <1>1, <2>1, <3>1 DEF UndoInv
  <2>2. CASE semadj[p] # 0
    <3>1. semadj[p] = -1 /\ val = 1
      BY <2>2 DEF UndoInv
    <3>2. val' = 0
      BY <3>1
    <3>3. \A q \in Procs : semadj'[q] = 0
      BY <1>1, <2>2 DEF UndoInv
    <3>4. QED
      BY <3>2, <3>3
  <2>3. QED
    BY <2>1, <2>2
<1>6. QED
  BY <1>3, <1>4, <1>5 DEF UndoInv

LEMMA UndoExit ==
  ASSUME LockTypeOK, UndoInv, NEW p \in Procs, NEW how, Exit(p, how)
  PROVE  UndoInv'
<1>1. val' = val + semadj[p]
  <2>1. CASE semadj[p] = 0
    BY <2>1 DEF Exit, LockTypeOK
  <2>2. CASE semadj[p] # 0
    <3>1. semadj[p] = -1 /\ val = 1
      BY <2>2 DEF UndoInv
    <3>2. QED
      BY <3>1 DEF Exit
  <2>3. QED
    BY <2>1, <2>2
<1>2. QED
  BY <1>1, UndoDrop DEF Exit

LEMMA UndoClear ==
  ASSUME val' = 0, semadj' = NoAdj
  PROVE  UndoInv'
BY DEF UndoInv, NoAdj

LEMMA UndoRemove ==
  ASSUME LockTypeOK, UndoInv, NEW p \in Procs, RemoveAndExit(p)
  PROVE  UndoInv'
BY UndoExit, UndoClear DEF RemoveAndExit

LEMMA UndoSemget ==
  ASSUME LockTypeOK, Shape, UndoInv, NEW r \in RunIds, Semget(r)
  PROVE  UndoInv'
<1>1. /\ pc[Parent(r)] = "semget" /\ pc' = [pc EXCEPT ![Parent(r)] = "SETVAL"]
      /\ semid' = [semid EXCEPT ![r] = key'] /\ key' = IF key = 0 THEN r ELSE key
      /\ val' = val /\ semadj' = semadj
  BY DEF Semget, Goto
<1>2. pc[Child(r)] = "none"
  <2>1. "semget" \in BeforeFork
    BY DEF BeforeFork, BeforeSemget
  <2>2. QED
    BY <1>1, <2>1 DEF Shape
<1>3. CASE key = 0
  <2>1. \A p \in Procs : semadj[p] = 0
    BY <1>3 DEF UndoInv, Holds, HasSet
  <2>2. QED
    BY <1>1, <2>1 DEF UndoInv
<1>4. CASE key # 0
  <2>1. \A p \in Procs : Holds(p) => Holds(p)'
    <3> SUFFICES ASSUME NEW p \in Procs, Holds(p) PROVE Holds(p)'
      OBVIOUS
    <3>2. pc[p] \in InsideSteps
      BY InsideNames DEF Holds
    <3>3. p[1] # r
      <4>1. pc[Parent(r)] \notin InsideSteps /\ pc[Child(r)] \notin InsideSteps
        BY <1>1, <1>2 DEF InsideSteps
      <4>2. QED
        BY <3>2, <4>1, EveryProc
    <3>4. p # Parent(r) /\ p[1] \in RunIds
      BY <3>3, EveryProc, ProcNames
    <3>5. pc'[p] = pc[p]
      BY <1>1, <3>4 DEF LockTypeOK
    <3>6. semid'[p[1]] = semid[p[1]]
      BY <1>1, <3>3, <3>4 DEF LockTypeOK
    <3>7. key' = key
      BY <1>1, <1>4
    <3>8. key # 0 /\ semid[p[1]] = key
      BY DEF Holds, HasSet
    <3>9. Inside(p)'
      BY <3>2, <3>5 DEF Inside, InsideSteps
    <3>10. QED
      BY <3>6, <3>7, <3>8, <3>9 DEF Holds, HasSet
  <2>2. QED
    BY <1>1, <2>1 DEF UndoInv
<1>5. QED
  BY <1>3, <1>4

(* While a parent runs, no other parent does. *)
LEMMA OneRuns ==
  ASSUME Shape, NEW q \in RunIds, NEW r \in RunIds, r # q,
         pc[Parent(q)] \notin Ended,
         \/ pc[Parent(q)] # "none"
         \/ \A s \in RunIds : s < q => pc[Parent(s)] \in Ended
  PROVE  pc[Parent(r)] \in {"none"} \cup Ended
<1>1. r < q \/ q < r
  BY RunNames
<1>2. CASE r < q
  BY <1>2 DEF Shape
<1>3. CASE q < r
  BY <1>3 DEF Shape
<1>4. QED
  BY <1>1, <1>2, <1>3

(* So a step of a parent concerns its own run only. *)
LEMMA ParentAlone ==
  ASSUME Shape, NEW q \in RunIds,
         pc[Parent(q)] \notin Ended,
         \/ pc[Parent(q)] # "none"
         \/ \A s \in RunIds : s < q => pc[Parent(s)] \in Ended,
         \A r \in RunIds : r # q => pc'[Parent(r)] = pc[Parent(r)],
         CurrentRun(q)'
  PROVE  \A r \in RunIds : CurrentRun(r)'
<1> SUFFICES ASSUME NEW r \in RunIds, r # q PROVE CurrentRun(r)'
  OBVIOUS
<1>1. pc[Parent(r)] \in {"none"} \cup Ended
  BY OneRuns
<1>2. pc'[Parent(r)] \in BeforeSemget \cup Ended
  BY <1>1, StepNames
<1>3. QED
  BY <1>2 DEF CurrentRun, Later

LEMMA CurrentEnds ==
  ASSUME NEW r \in RunIds, pc'[Parent(r)] \in BeforeSemget \cup Ended
  PROVE  CurrentRun(r)'
BY DEF CurrentRun, Later

LEMMA CurrentKept ==
  ASSUME NEW r \in RunIds, CurrentRun(r),
         Later(r)' =>
           /\ Later(r) /\ key' = key /\ semid'[r] = semid[r]
           /\ Written(r) => Written(r)'
           /\ \A p \in {Parent(r), Child(r)} :
                pc'[p] \in InsideSteps =>
                  \/ semadj'[p] = -1
                  \/ pc[p] \in InsideSteps /\ semadj'[p] = semadj[p]
  PROVE  CurrentRun(r)'
<1> SUFFICES ASSUME Later(r)'
             PROVE  /\ HasSet(Parent(r))'
                    /\ Inside(Parent(r))' => semadj'[Parent(r)] = -1
                    /\ Inside(Child(r))' => semadj'[Child(r)] = -1
                    /\ Written(r)'
  BY DEF CurrentRun
<1>1. /\ HasSet(Parent(r)) /\ Written(r)
      /\ pc[Parent(r)] \in InsideSteps => semadj[Parent(r)] = -1
      /\ pc[Child(r)] \in InsideSteps => semadj[Child(r)] = -1
  BY InsideNames DEF CurrentRun
<1>2. HasSet(Parent(r))'
  BY <1>1, ProcNames DEF HasSet
<1>3. ASSUME NEW p \in {Parent(r), Child(r)}, Inside(p)'
      PROVE  semadj'[p] = -1
  <2>1. pc'[p] \in InsideSteps
    BY <1>3 DEF Inside, InsideSteps
  <2>2. QED
    BY <1>1, <2>1
<1>4. QED
  BY <1>1, <1>2, <1>3

(* A step of a child. *)
LEMMA CurrentChild ==
  ASSUME LockTypeOK, NEW q \in RunIds, NEW to,
         \A r \in RunIds : CurrentRun(r),
         pc' = [pc EXCEPT ![Child(q)] = to],
         key' = key, semid' = semid, shared' = shared,
         \A p \in Procs : p # Child(q) => semadj'[p] = semadj[p],
         Later(q) /\ to \in InsideSteps => semadj'[Child(q)] = -1
  PROVE  \A r \in RunIds : CurrentRun(r)'
<1> SUFFICES ASSUME NEW r \in RunIds PROVE CurrentRun(r)'
  OBVIOUS
<1>1. /\ Parent(r) \in Procs /\ Child(r) \in Procs /\ Parent(r) # Child(q)
      /\ r # q => Child(r) # Child(q)
      /\ Child(q) \in Procs
  BY ProcNames
<1>2. /\ pc'[Parent(r)] = pc[Parent(r)]
      /\ r # q => pc'[Child(r)] = pc[Child(r)]
      /\ pc'[Child(q)] = to
  BY <1>1 DEF LockTypeOK
<1>3. Later(r)' <=> Later(r)
  BY <1>2 DEF Later
<1>4. Written(r) => Written(r)'
  BY <1>2 DEF Written
<1>5. QED
  BY <1>1, <1>2, <1>3, <1>4, CurrentKept

(* A step of a parent that is past its semget. *)
LEMMA CurrentParent ==
  ASSUME LockTypeOK, Shape, NEW q \in RunIds, NEW to,
         \A r \in RunIds : CurrentRun(r), Later(q),
         pc' = [pc EXCEPT ![Parent(q)] = to],
         to \in Ended \/
           (/\ key' = key /\ semid' = semid
            /\ pc[Child(q)] \in InsideSteps => semadj'[Child(q)] = semadj[Child(q)]
            /\ to \in InsideSteps => \/ semadj'[Parent(q)] = -1
                                     \/ /\ pc[Parent(q)] \in InsideSteps
                                        /\ semadj'[Parent(q)] = semadj[Parent(q)]
            /\ to \in {"release", "wait", "rmid"} =>
                 \/ shared'[q] = "fib"
                 \/ /\ pc[Parent(q)] \in {"release", "wait", "rmid"}
                    /\ shared'[q] = shared[q])
  PROVE  \A r \in RunIds : CurrentRun(r)'
<1>1. /\ Parent(q) \in Procs /\ pc'[Parent(q)] = to
      /\ pc'[Child(q)] = pc[Child(q)]
      /\ \A r \in RunIds : r # q => pc'[Parent(r)] = pc[Parent(r)]
  BY ProcNames DEF LockTypeOK
<1>2. pc[Parent(q)] \notin Ended /\ pc[Parent(q)] # "none"
  BY StepNames DEF Later
<1>3. CurrentRun(q)'
  <2>1. CASE to \in Ended
    BY <1>1, <2>1, CurrentEnds
  <2>2. CASE to \notin Ended
    <3>1. Written(q) => Written(q)'
      BY <1>1, <2>2 DEF Written
    <3>2. ASSUME NEW p \in {Parent(q), Child(q)}, pc'[p] \in InsideSteps
          PROVE  \/ semadj'[p] = -1
                 \/ pc[p] \in InsideSteps /\ semadj'[p] = semadj[p]
      BY <1>1, <2>2, <3>2
    <3>3. QED
      BY <2>2, <3>1, <3>2, CurrentKept
  <2>3. QED
    BY <2>1, <2>2
<1>4. QED
  BY <1>1, <1>2, <1>3, ParentAlone

(* Names of the steps of a parent that is past its semget. *)
LEMMA LaterNames ==
  /\ \A l \in {"SETVAL", "fork", "assign", "grab", "inside", "release", "wait", "rmid"} :
       l \notin BeforeSemget \cup Ended
  /\ \A l \in {"SETVAL", "fork", "assign", "grab", "wait", "rmid"} : l \notin InsideSteps
  /\ "inside" \in InsideSteps /\ "release" \in InsideSteps
  /\ \A l \in {"SETVAL", "fork", "assign", "grab", "inside"} :
       l \notin {"release", "wait", "rmid"}
BY DEF BeforeSemget, Ended, InsideSteps

LabGoal == UndoInv' /\ \A r \in RunIds : CurrentRun(r)'

(* A parent that has not come to its semget. *)
LEMMA LabEarly ==
  ASSUME LockTypeOK, Shape, UndoInv, NEW q \in RunIds,
         NEW to \in {"shmget", "sigaction", "semget"},
         pc[Parent(q)] \in {"none", "shmget", "sigaction"},
         pc[Parent(q)] = "none" =>
           \A s \in RunIds : s < q => pc[Parent(s)] \in Ended,
         pc' = [pc EXCEPT ![Parent(q)] = to], UNCHANGED semVars
  PROVE  LabGoal
<1>1. /\ pc'[Parent(q)] = to
      /\ \A p \in Procs : p # Parent(q) => pc'[p] = pc[p]
      /\ \A r \in RunIds : r # q => pc'[Parent(r)] = pc[Parent(r)]
  BY ProcNames DEF LockTypeOK
<1>2. pc[Parent(q)] \notin InsideSteps /\ pc[Parent(q)] \notin Ended /\ to \in BeforeSemget
  BY DEF InsideSteps, Ended, BeforeSemget
<1>3. UndoInv'
  BY <1>1, <1>2, UndoSame
<1>4. CurrentRun(q)'
  BY <1>1, <1>2, CurrentEnds
<1>5. QED
  BY <1>1, <1>2, <1>3, <1>4, ParentAlone DEF LabGoal

LEMMA LabSemget ==
  ASSUME LockTypeOK, Shape, UndoInv, NEW q \in RunIds, Semget(q)
  PROVE  LabGoal
<1>1. /\ pc[Parent(q)] = "semget" /\ pc' = [pc EXCEPT ![Parent(q)] = "SETVAL"]
      /\ semid' = [semid EXCEPT ![q] = key'] /\ key' = IF key = 0 THEN q ELSE key
  BY DEF Semget, Goto
<1>2. /\ pc'[Parent(q)] = "SETVAL" /\ pc'[Child(q)] = pc[Child(q)]
      /\ \A r \in RunIds : r # q => pc'[Parent(r)] = pc[Parent(r)]
  BY <1>1, ProcNames DEF LockTypeOK
<1>3. pc[Child(q)] = "none" /\ pc[Parent(q)] \notin Ended /\ pc[Parent(q)] # "none"
  <2>1. "semget" \in BeforeFork /\ "semget" \notin Ended
    BY StepNames DEF BeforeFork, BeforeSemget
  <2>2. QED
    BY <1>1, <2>1 DEF Shape
<1>4. key' # 0 /\ semid'[q] = key'
  BY <1>1, RunNames DEF LockTypeOK
<1>5. HasSet(Parent(q))'
  BY <1>4, ProcNames DEF HasSet
<1>6. ~Inside(Parent(q))' /\ ~Inside(Child(q))' /\ Written(q)'
  BY <1>2, <1>3 DEF Inside, Written
<1>7. CurrentRun(q)'
  BY <1>5, <1>6 DEF CurrentRun
<1>8. QED
  BY <1>2, <1>3, <1>7, UndoSemget, ParentAlone DEF LabGoal

LEMMA LabParent ==
  ASSUME LockTypeOK, Lab5TypeOK, Shape, UndoInv, \A r \in RunIds : CurrentRun(r),
         NEW q \in RunIds, Lab5Parent(q)
  PROVE  LabGoal
<1> USE LaterNames
<1>0. Parent(q) \in Procs /\ Child(q) \in Procs /\ Parent(q) # Child(q)
  BY ProcNames
<1>1. ASSUME pc[Parent(q)] \in BeforeFork
      PROVE  pc[Child(q)] \notin InsideSteps
  BY <1>1, StepNames DEF Shape
<1>2. CASE MakeSegment(q)
  BY <1>2, LabEarly DEF MakeSegment, Goto
<1>3. CASE InstallHandler(q)
  BY <1>3, LabEarly DEF InstallHandler, Goto
<1>4. CASE Semget(q)
  BY <1>4, LabSemget
<1>5. CASE SetVal(q)
  <2>1. /\ pc[Parent(q)] = "SETVAL" /\ pc' = [pc EXCEPT ![Parent(q)] = "fork"]
        /\ key' = key /\ semid' = semid
    BY <1>5 DEF SetVal, Goto
  <2>2. Later(q) /\ HasSet(Parent(q))
    BY <2>1 DEF Later, CurrentRun
  <2>3. UndoInv'
    BY <1>5, <2>2, UndoClear DEF SetVal
  <2>4. pc[Child(q)] \notin InsideSteps
    BY <1>1, <2>1, MoveNames
  <2>5. QED
    BY <2>1, <2>2, <2>3, <2>4, CurrentParent DEF LabGoal
<1>6. CASE Fork(q) /\ KeepSegment
  <2>1. /\ pc[Parent(q)] = "fork" /\ UNCHANGED semVars
        /\ pc' = [pc EXCEPT ![Parent(q)] = "assign", ![Child(q)] = "grab"]
    BY <1>6 DEF Fork
  <2>2. /\ pc'[Parent(q)] = "assign" /\ pc'[Child(q)] = "grab"
        /\ \A p \in Procs : p # Parent(q) /\ p # Child(q) => pc'[p] = pc[p]
    BY <1>0, <2>1 DEF LockTypeOK
  <2>3. \A r \in RunIds : r # q => pc'[Parent(r)] = pc[Parent(r)]
    BY <2>2, ProcNames
  <2>4. pc[Parent(q)] \notin InsideSteps /\ pc[Child(q)] \notin InsideSteps
    BY <1>1, <2>1, MoveNames
  <2>5. UndoInv'
    BY <2>1, <2>2, <2>4, UndoSame
  <2>6. Later(q) /\ pc[Parent(q)] \notin Ended /\ pc[Parent(q)] # "none"
    BY <2>1, StepNames DEF Later
  <2>7. Written(q)'
    BY <2>2 DEF Written
  <2>8. CurrentRun(q)'
    BY <2>1, <2>2, <2>6, <2>7, CurrentKept DEF semVars
  <2>9. QED
    BY <2>3, <2>5, <2>6, <2>8, ParentAlone DEF LabGoal
<1>7. CASE AssignChild(q) /\ KeepSegment
  <2>1. /\ pc[Parent(q)] = "assign" /\ pc' = [pc EXCEPT ![Parent(q)] = "grab"]
        /\ UNCHANGED semVars
    BY <1>7 DEF AssignChild, Goto
  <2>2. UndoInv'
    <3>1. \A p \in Procs : pc[p] \in InsideSteps => pc'[p] \in InsideSteps
      BY <2>1 DEF LockTypeOK
    <3>2. QED
      BY <2>1, <3>1, UndoSame
  <2>3. Later(q)
    BY <2>1 DEF Later
  <2>4. QED
    BY <2>1, <2>2, <2>3, CurrentParent DEF LabGoal, semVars
<1>8. CASE Wait(q) /\ KeepSegment
  <2>1. /\ pc[Parent(q)] = "wait" /\ pc' = [pc EXCEPT ![Parent(q)] = "rmid"]
        /\ UNCHANGED semVars /\ shared' = shared
    BY <1>8 DEF Wait, Goto, KeepSegment
  <2>2. UndoInv'
    <3>1. \A p \in Procs : pc[p] \in InsideSteps => pc'[p] \in InsideSteps
      BY <2>1 DEF LockTypeOK
    <3>2. QED
      BY <2>1, <3>1, UndoSame
  <2>3. Later(q)
    BY <2>1 DEF Later
  <2>4. QED
    BY <2>1, <2>2, <2>3, CurrentParent DEF LabGoal, semVars
<1>9. CASE WriteFib(q)
  <2>1. /\ pc[Parent(q)] = "inside" /\ pc' = [pc EXCEPT ![Parent(q)] = "release"]
        /\ UNCHANGED semVars /\ shared' = [shared EXCEPT ![q] = "fib"]
    BY <1>9 DEF WriteFib, Goto
  <2>2. UndoInv'
    <3>1. \A p \in Procs : pc[p] \in InsideSteps => pc'[p] \in InsideSteps
      BY <2>1 DEF LockTypeOK
    <3>2. QED
      BY <2>1, <3>1, UndoSame
  <2>3. Later(q) /\ shared'[q] = "fib"
    BY <2>1 DEF Later, Lab5TypeOK
  <2>4. QED
    BY <2>1, <2>2, <2>3, CurrentParent DEF LabGoal, semVars
<1>10. CASE Grab(Parent(q)) /\ KeepSegment
  <2>1. /\ pc[Parent(q)] = "grab" /\ pc' = [pc EXCEPT ![Parent(q)] = "inside"]
        /\ key' = key /\ semid' = semid
    BY <1>10 DEF Grab, Goto
  <2>2. Later(q) /\ HasSet(Parent(q))
    BY <2>1 DEF Later, CurrentRun
  <2>3. val = 0 /\ semadj' = [semadj EXCEPT ![Parent(q)] = @ - 1]
    BY <1>10, <2>2 DEF Grab, Add
  <2>4. semadj[Parent(q)] = 0
    BY <1>0, <2>3 DEF UndoInv
  <2>5. semadj'[Parent(q)] = -1 /\ semadj'[Child(q)] = semadj[Child(q)]
    BY <1>0, <2>3, <2>4 DEF LockTypeOK
  <2>6. UndoInv'
    BY <1>0, <1>10, UndoGrab
  <2>7. QED
    BY <2>1, <2>2, <2>5, <2>6, CurrentParent DEF LabGoal
<1>11. CASE Release(Parent(q), "release", "wait") /\ KeepSegment
  <2>1. /\ pc[Parent(q)] = "release" /\ pc' = [pc EXCEPT ![Parent(q)] = "wait"]
        /\ key' = key /\ semid' = semid /\ shared' = shared
    BY <1>11 DEF Release, Goto, KeepSegment
  <2>2. Later(q) /\ HasSet(Parent(q)) /\ semadj[Parent(q)] = -1
    BY <2>1 DEF Later, CurrentRun, Inside
  <2>3. val' = val + -1 /\ semadj' = [semadj EXCEPT ![Parent(q)] = @ - -1]
    BY <1>11, <2>2 DEF Release, Add
  <2>4. semadj' = [semadj EXCEPT ![Parent(q)] = 0]
    BY <1>0, <2>2, <2>3 DEF LockTypeOK
  <2>5. semadj'[Child(q)] = semadj[Child(q)]
    BY <1>0, <2>4 DEF LockTypeOK
  <2>6. UndoInv'
    BY <1>0, <2>1, <2>2, <2>3, <2>4, UndoDrop
  <2>7. QED
    BY <2>1, <2>2, <2>5, <2>6, CurrentParent DEF LabGoal
<1>12. CASE Cleanup(q) /\ KeepSegment
  <2>1. pc[Parent(q)] = "rmid" /\ pc' = [pc EXCEPT ![Parent(q)] = "exited"]
    BY <1>12 DEF Cleanup, RemoveAndExit, Exit
  <2>2. Later(q) /\ "exited" \in Ended
    BY <2>1 DEF Later, Ended
  <2>3. UndoInv'
    BY <1>0, <1>12, UndoRemove DEF Cleanup
  <2>4. QED
    BY <2>1, <2>2, <2>3, CurrentParent DEF LabGoal
<1>13. QED
  BY <1>2, <1>3, <1>4, <1>5, <1>6, <1>7, <1>8, <1>9, <1>10, <1>11, <1>12
     DEF Lab5Parent, SetUp

LEMMA LabChild ==
  ASSUME LockTypeOK, UndoInv, \A r \in RunIds : CurrentRun(r),
         NEW q \in RunIds, Lab5Child(q)
  PROVE  LabGoal
<1>0. Child(q) \in Procs
  BY ProcNames
<1>1. CASE Grab(Child(q)) /\ KeepSegment
  <2>1. /\ pc' = [pc EXCEPT ![Child(q)] = "inside"]
        /\ key' = key /\ semid' = semid /\ shared' = shared
    BY <1>1 DEF Grab, Goto, KeepSegment
  <2>2. \A p \in Procs : p # Child(q) => semadj'[p] = semadj[p]
    BY <1>0, <1>1 DEF Grab, Add, LockTypeOK
  <2>3. Later(q) => semadj'[Child(q)] = -1
    <3> SUFFICES ASSUME Later(q) PROVE semadj'[Child(q)] = -1
      OBVIOUS
    <3>1. HasSet(Child(q))
      BY HasSetOf DEF CurrentRun
    <3>2. val = 0 /\ semadj' = [semadj EXCEPT ![Child(q)] = @ - 1]
      BY <1>1, <3>1 DEF Grab, Add
    <3>3. semadj[Child(q)] = 0
      BY <1>0, <3>2 DEF UndoInv
    <3>4. QED
      BY <1>0, <3>2, <3>3 DEF LockTypeOK
  <2>4. UndoInv'
    BY <1>0, <1>1, UndoGrab
  <2>5. QED
    BY <2>1, <2>2, <2>3, <2>4, CurrentChild DEF LabGoal
<1>2. ASSUME NEW from \in InsideSteps, NEW to \in InsideSteps,
             Goto(Child(q), from, to), UNCHANGED semVars, shared' = shared
      PROVE  LabGoal
  <2>1. pc[Child(q)] \in InsideSteps /\ pc' = [pc EXCEPT ![Child(q)] = to]
    BY <1>2 DEF Goto
  <2>2. \A p \in Procs : pc[p] \in InsideSteps => pc'[p] \in InsideSteps
    BY <2>1 DEF LockTypeOK
  <2>3. UndoInv'
    BY <1>2, <2>2, UndoSame
  <2>4. Later(q) => semadj'[Child(q)] = -1
    BY <1>2, <2>1, InsideNames DEF CurrentRun, semVars
  <2>5. QED
    BY <1>2, <2>1, <2>3, <2>4, CurrentChild DEF LabGoal, semVars
<1>3. CASE ReadFib(q) \/ RemoveSegment(q)
  <2>1. {"inside", "remove segment", "undo"} \subseteq InsideSteps
    BY DEF InsideSteps
  <2>2. QED
    BY <1>2, <1>3, <2>1 DEF ReadFib, RemoveSegment
<1>4. CASE ChildUndo(q) /\ KeepSegment
  <2>1. Exit(Child(q), "exited") /\ shared' = shared
    BY <1>4 DEF ChildUndo, KeepSegment
  <2>2. /\ pc' = [pc EXCEPT ![Child(q)] = "exited"]
        /\ key' = key /\ semid' = semid
        /\ \A p \in Procs : p # Child(q) => semadj'[p] = semadj[p]
    BY <2>1 DEF Exit, LockTypeOK
  <2>3. "exited" \notin InsideSteps
    BY DEF InsideSteps
  <2>4. UndoInv'
    BY <1>0, <2>1, UndoExit
  <2>5. QED
    BY <2>1, <2>2, <2>3, <2>4, CurrentChild DEF LabGoal
<1>5. QED
  BY <1>1, <1>3, <1>4 DEF Lab5Child

(* A process that is ended by a signal. *)
LEMMA LabKilled ==
  ASSUME LockTypeOK, Shape, UndoInv, \A r \in RunIds : CurrentRun(r),
         NEW p \in Procs, Running(p), shared' = shared,
         \/ \E how \in Ended : Exit(p, how)
         \/ p[2] = "parent" /\ RemoveAndExit(p)
  PROVE  LabGoal
<1> DEFINE q == p[1]
<1>1. q \in RunIds /\ (p = Parent(q) \/ p = Child(q))
  BY EveryProc
<1>2. PICK how \in Ended : pc' = [pc EXCEPT ![p] = how]
  BY DEF Exit, RemoveAndExit, Ended
<1>3. UndoInv'
  BY UndoExit, UndoRemove
<1>4. CASE p = Parent(q)
  <2>1. pc[p] # "none" /\ pc[p] \notin Ended
    BY DEF Running
  <2>2. pc'[Parent(q)] = how /\ \A r \in RunIds : r # q => pc'[Parent(r)] = pc[Parent(r)]
    BY <1>1, <1>2, <1>4, ProcNames DEF LockTypeOK
  <2>3. CurrentRun(q)'
    BY <1>1, <2>2, CurrentEnds
  <2>4. QED
    BY <1>1, <1>3, <1>4, <2>1, <2>2, <2>3, ParentAlone DEF LabGoal
<1>5. CASE p = Child(q)
  <2>1. p[2] # "parent"
    BY <1>1, <1>5, ProcNames
  <2>2. /\ key' = key /\ semid' = semid
        /\ \A s \in Procs : s # p => semadj'[s] = semadj[s]
    BY <2>1 DEF Exit, LockTypeOK
  <2>3. how \notin InsideSteps
    BY StepNames
  <2>4. QED
    BY <1>1, <1>2, <1>3, <1>5, <2>2, <2>3, CurrentChild DEF LabGoal
<1>6. QED
  BY <1>1, <1>4, <1>5

LEMMA LabStep ==
  ASSUME Overlap = FALSE, LockTypeOK, Lab5TypeOK, Shape, LabInv, [ForkedNext]_forkedVars
  PROVE  LabInv'
<1>1. CASE RunLab5(Lab5Next)
  <2>1. program = "lab5" /\ program' = program /\ Lab5Next
    BY <1>1 DEF RunLab5
  <2>2. UndoInv /\ \A r \in RunIds : CurrentRun(r)
    BY <2>1 DEF LabInv
  <2>3. ASSUME NEW r \in RunIds, Lab5Start(r)
        PROVE  LabGoal
    <3>1. \A s \in RunIds : s < r => s \in 1 .. (r - 1)
      BY DEF RunIds
    <3>2. \A s \in RunIds : s < r => pc[Parent(s)] \in Ended
      BY <2>3, <3>1 DEF Lab5Start, Start
    <3>3. /\ pc[Parent(r)] = "none" /\ pc' = [pc EXCEPT ![Parent(r)] = "shmget"]
          /\ UNCHANGED semVars
      BY <2>3 DEF Lab5Start, Start, Goto
    <3>4. QED
      BY <2>2, <3>2, <3>3, LabEarly
  <2>4. ASSUME NEW r \in RunIds, CtrlC(r), KeepSegment
        PROVE  LabGoal
    <3>1. UNCHANGED <<pc, shared>> /\ UNCHANGED semVars
      BY <2>4 DEF CtrlC, KeepSegment
    <3>2. QED
      BY <2>2, <3>1 DEF LabGoal, UndoInv, CurrentRun, Later, Written, Holds, Inside,
                        HasSet, semVars
  <2>5. ASSUME NEW p \in Procs, Kill(p) \/ TakeSigint(p), KeepSegment
        PROVE  LabGoal
    <3>1. Running(p) /\ shared' = shared
      BY <2>5 DEF Kill, TakeSigint, KeepSegment
    <3>2. \/ \E how \in Ended : Exit(p, how)
          \/ p[2] = "parent" /\ RemoveAndExit(p)
      BY <2>5, EveryProc, StepNames
         DEF Kill, TakeSigint, sigint_handler, DefaultAction, ChildIsZero
    <3>3. QED
      BY <2>2, <3>1, <3>2, LabKilled
  <2>6. ASSUME NEW p \in Procs, Lab5Step(p)
        PROVE  LabGoal
    BY <2>2, <2>5, <2>6, EveryProc, LabParent, LabChild DEF Lab5Step
  <2>7. LabGoal
    BY <2>1, <2>3, <2>4, <2>5, <2>6 DEF Lab5Next
  <2>8. QED
    BY <2>7 DEF LabInv, LabGoal
<1>2. CASE RunSemtest(SemtestNext)
  BY <1>2 DEF RunSemtest, LabInv
<1>3. CASE RunLab5old(OldNext) \/ RunSemCtrl(CtlNext) \/ UNCHANGED forkedVars
  <2>1. UNCHANGED <<program, key, semid, val, semadj, pc, shared>>
    BY <1>3 DEF RunLab5old, RunSemCtrl, forkedVars, lockVars, semVars
  <2>2. UndoInv => UndoInv'
    BY <2>1 DEF UndoInv, Holds, Inside, HasSet
  <2>3. \A r \in RunIds : CurrentRun(r) => CurrentRun(r)'
    BY <2>1 DEF CurrentRun, Later, Written, Inside, HasSet
  <2>4. QED
    BY <2>1, <2>2, <2>3 DEF LabInv
<1>4. QED
  BY <1>1, <1>2, <1>3 DEF ForkedNext

(* The child is inside and would read 0: the parent is not further than    *)
(* its own grab.                                                           *)
LEMMA LabReads ==
  ASSUME Shape, LabInv, program = "lab5", NEW r \in RunIds,
         pc[Child(r)] = "inside", shared[r] = "0"
  PROVE  pc[Parent(r)] \in {"assign", "grab"} \cup Ended
<1> SUFFICES ASSUME pc[Parent(r)] \notin Ended
             PROVE  pc[Parent(r)] \in {"assign", "grab"}
  OBVIOUS
<1>1. pc[Parent(r)] \notin BeforeFork /\ pc[Parent(r)] \in ParentSteps
  BY DEF Shape
<1>2. Later(r)
  BY <1>1, StepNames DEF Later
<1>3. pc[Parent(r)] \notin {"release", "wait", "rmid"}
  BY <1>2 DEF LabInv, CurrentRun, Written
<1>4. pc[Parent(r)] # "inside"
  <2> SUFFICES ASSUME pc[Parent(r)] = "inside" PROVE FALSE
    OBVIOUS
  <2>1. semadj[Parent(r)] = -1 /\ semadj[Child(r)] = -1
    BY <1>2 DEF LabInv, CurrentRun, Inside
  <2>2. Parent(r) # Child(r) /\ Parent(r) \in Procs /\ Child(r) \in Procs
    BY ProcNames
  <2>3. QED
    BY <2>1, <2>2 DEF LabInv, UndoInv
<1>5. QED
  BY <1>1, <1>3, <1>4 DEF ParentSteps

(* Only lab5 has the step in which a child reads. *)
LEMMA LabOnlyReads ==
  ASSUME LockTypeOK, [ForkedNext]_forkedVars, NEW r \in RunIds,
         pc[Child(r)] = "inside", pc'[Child(r)] = "remove segment"
  PROVE  program = "lab5"
<1>1. ASSUME NEW p \in Procs, NEW to, to # "remove segment",
             pc' = [pc EXCEPT ![p] = to]
      PROVE  FALSE
  BY <1>1, ProcNames DEF LockTypeOK
<1>2. pc' # pc
  OBVIOUS
<1>3. CASE RunSemtest(SemtestNext)
  <2>1. ASSUME NEW p \in Procs, SemtestStep(p) \/ Kill(p)
        PROVE  FALSE
    <3> DEFINE q == p[1]
    <3>1. /\ Parent(q) \in Procs /\ Child(q) \in Procs /\ q \in RunIds
          /\ Parent(q) # Child(r) /\ Child(r) \in Procs
      <4>1. q \in RunIds
        BY EveryProc
      <4>2. QED
        BY <4>1, ProcNames
    <3>2. CASE \/ EndRound(p) \/ Grab(p) \/ ChildExit(p) \/ TakeSigint(p) \/ Kill(p)
      <4>1. PICK to : pc' = [pc EXCEPT ![p] = to] /\ to # "remove segment"
        BY <3>2 DEF EndRound, Release, Grab, Goto, ChildExit, TakeSigint, Kill,
                    sigint_handler, DefaultAction, RemoveAndExit, Exit
      <4>2. QED
        BY <1>1, <4>1
    <3>3. CASE \/ InstallHandler(q) \/ Semget(q) \/ SetVal(q) \/ AssignChild(q)
               \/ Wait(q) \/ Cleanup(q)
      <4>1. PICK to : pc' = [pc EXCEPT ![Parent(q)] = to] /\ to # "remove segment"
        BY <3>3 DEF InstallHandler, Semget, SetVal, AssignChild, Wait, Cleanup, Goto,
                    RemoveAndExit, Exit
      <4>2. QED
        BY <1>1, <3>1, <4>1
    <3>4. CASE Fork(q)
      <4>1. pc' = [pc EXCEPT ![Parent(q)] = "assign", ![Child(q)] = "grab"]
        BY <3>4 DEF Fork
      <4>2. QED
        BY <3>1, <4>1 DEF LockTypeOK
    <3>5. QED
      BY <2>1, <3>2, <3>3, <3>4 DEF SemtestStep, SetUp
  <2>2. ASSUME NEW q \in RunIds, SemtestStart(q)
        PROVE  FALSE
    BY <1>1, <2>2, ProcNames DEF SemtestStart, Start, Goto
  <2>3. ASSUME NEW q \in RunIds, CtrlC(q)
        PROVE  FALSE
    BY <1>2, <2>3 DEF CtrlC
  <2>4. QED
    BY <1>3, <2>1, <2>2, <2>3 DEF RunSemtest, SemtestNext
<1>4. QED
  BY <1>2, <1>3 DEF ForkedNext, RunLab5, RunLab5old, RunSemCtrl, forkedVars, lockVars

----------------------------------------------------------------------------
(* lab5old: as long as nobody is killed the runs follow one another, and a *)
(* first semaphore that is up was posted by the run whose child waits.     *)

OldAlone ==
  \A r, q \in OldRunIds : q < r /\ oldPar[r] # "none" => oldPar[q] = "exited"

OldRun(r) ==
  /\ oldPar[r] # "killed" /\ oldChi[r] # "killed"
  /\ oldPar[r] = "exited" => oldChi[r] = "exited"
  /\ oldChi[r] # "none" <=>
       oldPar[r] \in {"wait sem2", "write", "post sem1", "wait", "exited"}
  /\ oldPar[r] \in {"post sem1", "wait", "exited"} => oldCell[r] = "fib"
  /\ oldChi[r] \in {"read", "post sem2", "exited"} => oldPar[r] \in {"wait", "exited"}

Posted ==
  named[1] > 0 =>
    \E r \in OldRunIds : oldPar[r] = "wait" /\ oldChi[r] = "wait sem1"

FibGoal == OldAlone' /\ (\A r \in OldRunIds : OldRun(r)') /\ Posted'

OldFibInv ==
  oldKilled = 0 => OldAlone /\ (\A r \in OldRunIds : OldRun(r)) /\ Posted

(* A step of the parent of run r that leaves the semaphores alone, or      *)
(* takes the second one.                                                   *)
LEMMA FibParent ==
  ASSUME OldTypeOK, OldAlone, \A q \in OldRunIds : OldRun(q), Posted,
         NEW r \in OldRunIds, NEW to,
         oldPar' = [oldPar EXCEPT ![r] = to], oldChi' = oldChi,
         \A q \in OldRunIds : q # r => oldCell'[q] = oldCell[q],
         oldPar[r] \notin {"none", "wait", "exited"}, to # "none",
         named'[1] > 0 => named[1] > 0, OldRun(r)'
  PROVE  FibGoal
<1>1. oldPar'[r] = to /\ ParOthers(r)
  BY DEF OldTypeOK, ParOthers
<1>2. OldAlone'
  BY <1>1 DEF OldAlone, ParOthers
<1>3. \A q \in OldRunIds : OldRun(q)'
  <2>1. ASSUME NEW q \in OldRunIds, q # r PROVE OldRun(q)'
    <3>1. /\ oldPar'[q] = oldPar[q] /\ oldChi'[q] = oldChi[q]
          /\ oldCell'[q] = oldCell[q]
      BY <1>1, <2>1 DEF ParOthers
    <3>2. QED
      BY <3>1 DEF OldRun
  <2>2. QED
    BY <2>1
<1>4. Posted'
  BY <1>1 DEF Posted, ParOthers
<1>5. QED
  BY <1>2, <1>3, <1>4 DEF FibGoal

(* A step of the child of run r. *)
LEMMA FibChild ==
  ASSUME OldTypeOK, OldAlone, \A q \in OldRunIds : OldRun(q),
         NEW r \in OldRunIds, NEW to,
         oldChi' = [oldChi EXCEPT ![r] = to], oldPar' = oldPar,
         oldCell' = oldCell, OldRun(r)', Posted'
  PROVE  FibGoal
<1>1. oldChi'[r] = to /\ ChiOthers(r)
  BY DEF OldTypeOK, ChiOthers
<1>2. OldAlone'
  BY DEF OldAlone
<1>3. \A q \in OldRunIds : OldRun(q)'
  BY <1>1 DEF OldRun, ChiOthers
<1>4. QED
  BY <1>2, <1>3 DEF FibGoal

LEMMA OldFibStep ==
  ASSUME OldTypeOK, Token, OldFibInv, [OldNext]_oldVars
  PROVE  OldFibInv'
<1> SUFFICES ASSUME oldKilled' = 0
             PROVE  FibGoal
  BY DEF OldFibInv, FibGoal
<1>1. CASE UNCHANGED oldVars
  BY <1>1 DEF oldVars, OldFibInv, FibGoal, OldAlone, OldRun, Posted
<1>2. CASE OldNext
  <2>1. PICK r \in OldRunIds :
          \/ OldStart(r) \/ OldParent(r) \/ OldChild(r)
          \/ KillOldParent(r) \/ KillOldChild(r)
    BY <1>2 DEF OldNext
  <2>2. ~KillOldParent(r) /\ ~KillOldChild(r)
    BY DEF KillOldParent, KillOldChild, OldTypeOK
  <2>3. oldKilled = 0
    BY <2>1, <2>2 DEF OldStart, OldParent, OldChild, OldSegment, SemOpen, OldFork,
       OldWaitTurn, OldWrite, OldPostChild, OldWait, OldWaitFib, OldRead,
       OldPostParent, OldParGoto, OldChiGoto
  <2>4. OldAlone /\ (\A q \in OldRunIds : OldRun(q)) /\ Posted
    BY <2>3 DEF OldFibInv
  <2>5. OldRun(r) /\ oldPar[r] \in OldParSteps /\ oldChi[r] \in OldChiSteps
    BY <2>4 DEF OldTypeOK
  <2>6. /\ named \in [{1, 2} -> Nat \cup {-1}]
        /\ named[1] \in Nat \cup {-1} /\ named[2] \in Nat \cup {-1}
    BY DEF OldTypeOK
  <2>7. CASE OldStart(r)
    <3>1. /\ oldPar[r] = "none" /\ oldPar' = [oldPar EXCEPT ![r] = "shmget"]
          /\ oldChi' = oldChi /\ oldCell' = oldCell /\ named' = named
          /\ \A q \in 1 .. r - 1 : oldPar[q] \in OldEnded
      BY <2>7 DEF OldStart, OldParGoto
    <3>2. oldPar'[r] = "shmget" /\ ParOthers(r)
      BY <3>1 DEF OldTypeOK, ParOthers
    <3>3. \A q \in OldRunIds : q < r => oldPar[q] = "exited"
      <4>1. \A q \in OldRunIds : q < r => q \in 1 .. r - 1
        BY DEF OldRunIds
      <4>2. QED
        BY <2>4, <3>1, <4>1 DEF OldEnded, OldRun
    <3>4. OldAlone'
      <4>1. \A q \in OldRunIds : r < q => oldPar[q] = "none"
        BY <2>4, <3>1 DEF OldAlone
      <4>2. QED
        BY <2>4, <3>2, <3>3, <4>1 DEF OldAlone, ParOthers, OldRunIds
    <3>5. \A q \in OldRunIds : OldRun(q)'
      BY <2>4, <3>1, <3>2 DEF OldRun, ParOthers
    <3>6. Posted'
      BY <2>4, <3>1, <3>2 DEF Posted, ParOthers
    <3>7. QED
      BY <3>4, <3>5, <3>6 DEF FibGoal
  <2>8. CASE OldSegment(r)
    <3>1. /\ oldPar[r] = "shmget" /\ oldPar' = [oldPar EXCEPT ![r] = "sem1"]
          /\ oldChi' = oldChi /\ oldCell' = [oldCell EXCEPT ![r] = "0"]
          /\ named' = named
      BY <2>8 DEF OldSegment, OldParGoto
    <3>2. OldRun(r)' /\ \A q \in OldRunIds : q # r => oldCell'[q] = oldCell[q]
      BY <2>5, <3>1 DEF OldRun, OldTypeOK
    <3>3. QED
      BY <2>4, <3>1, <3>2, FibParent
  <2>9. CASE SemOpen(r, 1, 0, "sem1", "sem2")
    <3>1. /\ oldPar[r] = "sem1" /\ oldPar' = [oldPar EXCEPT ![r] = "sem2"]
          /\ oldChi' = oldChi /\ oldCell' = oldCell
          /\ named'[1] = IF named[1] = -1 THEN 0 ELSE named[1]
      BY <2>6, <2>9 DEF SemOpen, OldParGoto
    <3>2. OldRun(r)'
      BY <2>5, <3>1 DEF OldRun, OldTypeOK
    <3>3. named'[1] > 0 => named[1] > 0
      BY <2>6, <3>1
    <3>4. QED
      BY <2>4, <3>1, <3>2, <3>3, FibParent
  <2>10. CASE SemOpen(r, 2, 1, "sem2", "fork")
    <3>1. /\ oldPar[r] = "sem2" /\ oldPar' = [oldPar EXCEPT ![r] = "fork"]
          /\ oldChi' = oldChi /\ oldCell' = oldCell /\ named'[1] = named[1]
      BY <2>6, <2>10 DEF SemOpen, OldParGoto
    <3>2. OldRun(r)'
      BY <2>5, <3>1 DEF OldRun, OldTypeOK
    <3>3. QED
      BY <2>4, <3>1, <3>2, FibParent
  <2>11. CASE OldFork(r)
    <3>1. /\ oldPar[r] = "fork" /\ oldPar' = [oldPar EXCEPT ![r] = "wait sem2"]
          /\ oldChi' = [oldChi EXCEPT ![r] = "wait sem1"]
          /\ oldCell' = oldCell /\ named' = named
      BY <2>11 DEF OldFork, OldParGoto
    <3>2. /\ oldPar'[r] = "wait sem2" /\ ParOthers(r)
          /\ oldChi'[r] = "wait sem1" /\ ChiOthers(r)
      BY <3>1 DEF OldTypeOK, ParOthers, ChiOthers
    <3>3. OldAlone'
      BY <2>4, <3>1, <3>2 DEF OldAlone, ParOthers
    <3>4. \A q \in OldRunIds : OldRun(q)'
      <4>1. OldRun(r)'
        BY <3>1, <3>2 DEF OldRun
      <4>2. ASSUME NEW q \in OldRunIds, q # r PROVE OldRun(q)'
        <5>1. /\ oldPar'[q] = oldPar[q] /\ oldChi'[q] = oldChi[q]
              /\ oldCell'[q] = oldCell[q]
          BY <3>1, <3>2, <4>2 DEF ParOthers, ChiOthers
        <5>2. QED
          BY <2>4, <5>1 DEF OldRun
      <4>3. QED
        BY <4>1, <4>2
    <3>5. Posted'
      BY <2>4, <3>1, <3>2 DEF Posted, ParOthers, ChiOthers
    <3>6. QED
      BY <3>3, <3>4, <3>5 DEF FibGoal
  <2>12. CASE OldWaitTurn(r)
    <3>1. /\ oldPar[r] = "wait sem2" /\ oldPar' = [oldPar EXCEPT ![r] = "write"]
          /\ oldChi' = oldChi /\ oldCell' = oldCell
      BY <2>12 DEF OldWaitTurn, OldParGoto
    <3> named'[1] = named[1]
      <4>1. named' = [named EXCEPT ![2] = named[2] - 1]
        BY <2>12 DEF OldWaitTurn, sem_wait
      <4>2. QED
        BY <2>6, <4>1
    <3>2. OldRun(r)'
      BY <2>5, <3>1 DEF OldRun, OldTypeOK
    <3>3. QED
      BY <2>4, <3>1, <3>2, FibParent
  <2>13. CASE OldWrite(r)
    <3>1. /\ oldPar[r] = "write" /\ oldPar' = [oldPar EXCEPT ![r] = "post sem1"]
          /\ oldChi' = oldChi /\ oldCell' = [oldCell EXCEPT ![r] = "fib"]
          /\ named' = named
      BY <2>13 DEF OldWrite, OldParGoto
    <3>2. OldRun(r)' /\ \A q \in OldRunIds : q # r => oldCell'[q] = oldCell[q]
      BY <2>5, <3>1 DEF OldRun, OldTypeOK
    <3>3. QED
      BY <2>4, <3>1, <3>2, FibParent
  <2>14. CASE OldPostChild(r)
    <3>1. /\ oldPar[r] = "post sem1" /\ oldPar' = [oldPar EXCEPT ![r] = "wait"]
          /\ oldChi' = oldChi /\ oldCell' = oldCell
      BY <2>14 DEF OldPostChild, OldParGoto
    <3>2. oldPar'[r] = "wait" /\ ParOthers(r)
      BY <3>1 DEF OldTypeOK, ParOthers
    <3>3. oldChi[r] = "wait sem1"
      BY <2>5, <3>1 DEF OldRun, OldChiSteps, OldEnded
    <3>4. OldAlone'
      BY <2>4, <3>1, <3>2 DEF OldAlone, ParOthers
    <3>5. \A q \in OldRunIds : OldRun(q)'
      BY <2>4, <3>1, <3>2 DEF OldRun, ParOthers
    <3>6. Posted'
      BY <3>1, <3>2, <3>3 DEF Posted
    <3>7. QED
      BY <3>4, <3>5, <3>6 DEF FibGoal
  <2>15. CASE OldWait(r)
    <3>1. /\ oldPar[r] = "wait" /\ oldPar' = [oldPar EXCEPT ![r] = "exited"]
          /\ oldChi' = oldChi /\ oldCell' = oldCell /\ named' = named
          /\ oldChi[r] \in OldEnded
      BY <2>15 DEF OldWait, OldParGoto
    <3>2. oldPar'[r] = "exited" /\ ParOthers(r)
      BY <3>1 DEF OldTypeOK, ParOthers
    <3>3. oldChi[r] = "exited"
      BY <2>5, <3>1 DEF OldRun, OldEnded
    <3>4. OldAlone'
      BY <2>4, <3>1, <3>2 DEF OldAlone, ParOthers
    <3>5. \A q \in OldRunIds : OldRun(q)'
      BY <2>4, <3>1, <3>2, <3>3 DEF OldRun, ParOthers
    <3>6. Posted'
      BY <2>4, <3>1, <3>2, <3>3 DEF Posted, ParOthers
    <3>7. QED
      BY <3>4, <3>5, <3>6 DEF FibGoal
  <2>16. CASE OldWaitFib(r)
    <3>1. /\ oldChi[r] = "wait sem1" /\ oldChi' = [oldChi EXCEPT ![r] = "read"]
          /\ oldPar' = oldPar /\ oldCell' = oldCell
      BY <2>16 DEF OldWaitFib, OldChiGoto
    <3> /\ named[1] > 0 /\ named[1] \in Nat /\ named'[1] = named[1] - 1
      <4>1. named[1] > 0 /\ named' = [named EXCEPT ![1] = named[1] - 1]
        BY <2>16 DEF OldWaitFib, sem_wait
      <4>2. QED
        BY <2>6, <4>1
    <3>2. named[1] = 1
      <4>1. NamedValue(1) = named[1] /\ NamedValue(2) \in Nat
        BY <2>6 DEF NamedValue
      <4>2. Cardinality(OldReaders) \in Nat /\ Cardinality(OldWriters) \in Nat
        BY OldSetsFinite, FS_CardinalityType
      <4>3. /\ Cardinality(OldReaders) >= 0 /\ Cardinality(OldWriters) >= 0
            /\ NamedValue(2) >= 0
        BY <4>1, <4>2
      <4>4. named[1] + NamedValue(2) + Cardinality(OldWriters)
              + Cardinality(OldReaders) <= 1
        BY <4>1 DEF Token
      <4>5. QED
        BY <4>1, <4>2, <4>3, <4>4
    <3>3. Posted'
      <4>1. ~(named'[1] > 0)
        BY <3>2
      <4>2. QED
        BY <4>1 DEF Posted
    <3>4. oldPar[r] = "wait"
      <4>1. PICK q \in OldRunIds : oldPar[q] = "wait" /\ oldChi[q] = "wait sem1"
        BY <2>4, <3>1 DEF Posted
      <4>2. oldPar[r] \notin {"none", "exited"}
        BY <2>5, <3>1 DEF OldRun
      <4>3. ~(q < r) /\ ~(r < q)
        BY <2>4, <3>1, <4>1, <4>2 DEF OldAlone
      <4>4. r = q
        BY <4>3 DEF OldRunIds
      <4>5. QED
        BY <4>1, <4>4
    <3>5. oldChi'[r] = "read"
      BY <3>1 DEF OldTypeOK
    <3>6. OldRun(r)'
      BY <2>5, <3>1, <3>4, <3>5 DEF OldRun
    <3>7. QED
      BY <2>4, <3>1, <3>3, <3>6, FibChild
  <2>17. CASE OldRead(r)
    <3>1. /\ oldChi[r] = "read" /\ oldChi' = [oldChi EXCEPT ![r] = "post sem2"]
          /\ oldPar' = oldPar /\ oldCell' = oldCell /\ named' = named
      BY <2>17 DEF OldRead, OldChiGoto
    <3>2. oldChi'[r] = "post sem2" /\ ChiOthers(r)
      BY <3>1 DEF OldTypeOK, ChiOthers
    <3>3. OldRun(r)' /\ Posted'
      BY <2>4, <2>5, <3>1, <3>2 DEF OldRun, Posted, ChiOthers
    <3>4. QED
      BY <2>4, <3>1, <3>3, FibChild
  <2>18. CASE OldPostParent(r)
    <3>1. /\ oldChi[r] = "post sem2" /\ oldChi' = [oldChi EXCEPT ![r] = "exited"]
          /\ oldPar' = oldPar /\ oldCell' = oldCell
      BY <2>18 DEF OldPostParent, OldChiGoto
    <3> named'[1] = named[1]
      <4>1. named' = [named EXCEPT ![2] = named[2] + 1]
        BY <2>18 DEF OldPostParent, sem_post
      <4>2. QED
        BY <2>6, <4>1
    <3>2. oldChi'[r] = "exited" /\ ChiOthers(r)
      BY <3>1 DEF OldTypeOK, ChiOthers
    <3>3. OldRun(r)' /\ Posted'
      BY <2>4, <2>5, <3>1, <3>2 DEF OldRun, Posted, ChiOthers
    <3>4. QED
      BY <2>4, <3>1, <3>3, FibChild
  <2>19. QED
    BY <2>1, <2>2, <2>7, <2>8, <2>9, <2>10, <2>11, <2>12, <2>13, <2>14, <2>15, <2>16,
       <2>17, <2>18 DEF OldParent, OldChild
<1>3. QED
  BY <1>1, <1>2

----------------------------------------------------------------------------
(* The invariant, and what follows from it.                                *)

ForkedInv ==
  /\ ForkedTypeOK
  /\ LockInv /\ LoopInv /\ SegmentInv
  /\ CtlInv /\ Token

LEMMA ForkedInitHolds ==
  ASSUME ForkedInit
  PROVE  ForkedInv
<1>1. SemtestTypeOK
  <2>1. /\ 0 \in 0..Runs /\ 0 \in 0..MaxSigints /\ 0 \in 0..MaxKills
        /\ LOOP \in 0..LOOP /\ 0 \in Nat /\ 0 \in Int
    BY DEF KeyedLockAssumption, SemtestAssumption
  <2>2. "none" \in LockSteps
    BY TypeNames
  <2>3. /\ key = 0 /\ val = 0 /\ sigints = 0 /\ kills = 0
        /\ semid = [r \in RunIds |-> 0] /\ semadj = [p \in Procs |-> 0]
        /\ pc = [p \in Procs |-> "none"] /\ sigint = [p \in Procs |-> "none"]
        /\ loop = [p \in Procs |-> LOOP]
    BY DEF ForkedInit, LockInit, LoopInit, NoAdj
  <2>4. QED
    BY <2>1, <2>2, <2>3 DEF SemtestTypeOK, LockTypeOK
<1>2. Lab5TypeOK
  BY <1>1 DEF ForkedInit, SegmentInit, Lab5TypeOK, SemtestTypeOK
<1>3. OldTypeOK
  BY DEF ForkedInit, OldInit, OldTypeOK, OldParSteps, OldChiSteps
<1>4. CtlTypeOK /\ CtlInv
  <2>1. 0 \in 0..CtlSigints /\ 0 \in Nat /\ 0 \in Int
    BY DEF SemCtrlAssumption
  <2>2. /\ ctl = "sigaction" /\ context = "main" /\ again = FALSE
        /\ ctlSet = "none" /\ ctlVal = 0 /\ ctlAdj = 0 /\ ctrlCs = 0
    BY DEF ForkedInit, CtlInit
  <2>3. CtlTypeOK
    BY <2>1, <2>2 DEF CtlTypeOK, CtlSteps
  <2>4. QED
    BY <2>2, <2>3 DEF CtlInv
<1>5. \A p \in Procs : pc[p] = "none" /\ loop[p] = LOOP /\ semadj[p] = 0
  BY DEF ForkedInit, LockInit, LoopInit, NoAdj
<1>6. key = 0 /\ val = 0 /\ \A r \in RunIds : semid[r] = 0
  BY DEF ForkedInit, LockInit
<1>7. Shape
  <2>1. "none" \in ParentSteps /\ "none" \in ChildSteps
    BY StepNames
  <2>2. \A r \in RunIds : pc[Parent(r)] = "none" /\ pc[Child(r)] = "none"
    BY <1>5, ProcNames
  <2>3. \A r \in RunIds : semid[r] <= r
    BY <1>6, RunNames
  <2>4. QED
    BY <1>6, <2>1, <2>2, <2>3 DEF Shape
<1>8. KeyShape
  BY <1>6 DEF KeyShape
<1>9. Account
  BY <1>5, <1>6 DEF Account, Holds, HasSet
<1>10. LoopInv
  BY <1>5 DEF LoopInv
<1>11. SegmentInv
  BY <1>5, ProcNames DEF SegmentInv
<1>12. Token
  <2>1. \A r \in OldRunIds : oldPar[r] = "none" /\ oldChi[r] = "none"
    BY DEF ForkedInit, OldInit
  <2>2. OldWriters = {} /\ OldReaders = {}
    BY <2>1 DEF OldWriters, OldReaders
  <2>3. named[1] = -1 /\ named[2] = -1
    BY DEF ForkedInit, OldInit
  <2>4. NamedValue(1) = 0 /\ NamedValue(2) = 0
    BY <2>3 DEF NamedValue
  <2>5. Cardinality(OldWriters) = 0 /\ Cardinality(OldReaders) = 0
    BY <2>2, FS_EmptySet
  <2>6. QED
    BY <2>1, <2>3, <2>4, <2>5 DEF Token
<1>13. QED
  BY <1>1, <1>2, <1>3, <1>4, <1>7, <1>8, <1>9, <1>10, <1>11, <1>12
     DEF ForkedInv, ForkedTypeOK, LockInv

LEMMA ForkedStepHolds ==
  ASSUME Overlap = FALSE, ForkedInv, [ForkedNext]_forkedVars
  PROVE  ForkedInv'
<1>1. /\ LockTypeOK /\ SemtestTypeOK /\ Lab5TypeOK /\ OldTypeOK /\ CtlTypeOK
      /\ Shape /\ KeyShape /\ (~Abandoned => Account)
      /\ LoopInv /\ SegmentInv /\ CtlInv /\ Token
  BY DEF ForkedInv, ForkedTypeOK, LockInv, SemtestTypeOK
<1>2. LockMove
  BY <1>1, Moves
<1>3. LockTypeOK'
  BY <1>1, <1>2, LockType
<1>4. Shape' /\ KeyShape'
  BY <1>1, <1>2, ShapeStep, KeyStep
<1>5. (~Abandoned => Account)'
  BY <1>1, <1>2, AbandonStep, AccountStep
<1>6. loop' \in [Procs -> 0..LOOP] /\ LoopInv'
  BY <1>1, LoopStep
<1>7. /\ shared' \in [RunIds -> {"0", "fib"}]
      /\ segment' \in [RunIds -> {"none", "made", "removed"}]
  BY <1>1, SharedStep
<1>8. SegmentInv'
  BY <1>1, SegmentStep
<1>9. OldTypeOK' /\ Token'
  <2>1. [OldNext]_oldVars
    BY DEF ForkedNext, RunSemtest, RunLab5, RunLab5old, RunSemCtrl, forkedVars
  <2>2. QED
    BY <1>1, <2>1, OldStepHolds
<1>10. CtlTypeOK' /\ CtlInv'
  <2>1. [CtlNext]_ctlVars
    BY DEF ForkedNext, RunSemtest, RunLab5, RunLab5old, RunSemCtrl, forkedVars
  <2>2. QED
    BY <1>1, <2>1, CtlStepHolds
<1>11. QED
  BY <1>3, <1>4, <1>5, <1>6, <1>7, <1>8, <1>9, <1>10
     DEF ForkedInv, ForkedTypeOK, LockInv, SemtestTypeOK, Lab5TypeOK

LEMMA ForkedInvariant == Overlap = FALSE /\ ForkedSpec => []ForkedInv
<1> SUFFICES ASSUME Overlap = FALSE PROVE ForkedSpec => []ForkedInv
  OBVIOUS
<1>1. ForkedInit => ForkedInv
  BY ForkedInitHolds
<1>2. ForkedInv /\ [ForkedNext]_forkedVars => ForkedInv'
  BY ForkedStepHolds
<1>3. QED
  BY <1>1, <1>2, PTL DEF ForkedSpec

(* The variables of the four programs keep their types: no semaphore, no   *)
(* adjustment and no round counter leaves its range.                       *)
THEOREM ForkedTypeCorrect == Overlap = FALSE /\ ForkedSpec => []ForkedTypeOK
<1>1. ForkedInv => ForkedTypeOK
  BY DEF ForkedInv
<1>2. QED
  BY <1>1, ForkedInvariant, PTL

(* At most one of the processes that lock the same set is inside unless a  *)
(* parent abandoned its child (semtest.c l.95-97, lab5.c); in lab5old.c at *)
(* most one is between its sem_wait and its sem_post, whoever was killed.  *)
THEOREM ForkedExclusion == Overlap = FALSE /\ ForkedSpec => []ExclusionOnSet
<1>1. ForkedInv => ExclusionOnSet
  <2> SUFFICES ASSUME ForkedInv PROVE ExclusionOnSet
    OBVIOUS
  <2>1. ~Abandoned =>
          \A p, q \in Procs :
            Inside(p) /\ Inside(q) /\ HasSet(p) /\ HasSet(q) => p = q
    BY DEF ForkedInv, LockInv, Account, Holds
  <2>2. OldExclusion
    <3>1. named[1] \in Nat \cup {-1} /\ named[2] \in Nat \cup {-1}
      BY DEF ForkedInv, ForkedTypeOK, OldTypeOK
    <3>2. NamedValue(1) \in Nat /\ NamedValue(2) \in Nat
      BY <3>1 DEF NamedValue
    <3>3. Cardinality(OldWriters) \in Nat /\ Cardinality(OldReaders) \in Nat
      BY OldSetsFinite, FS_CardinalityType
    <3>4. NamedValue(1) + NamedValue(2) + Cardinality(OldWriters)
            + Cardinality(OldReaders) <= 1
      BY DEF ForkedInv, Token
    <3>5. QED
      BY <3>2, <3>3, <3>4 DEF OldExclusion
  <2>3. QED
    BY <2>1, <2>2 DEF ExclusionOnSet
<1>2. QED
  BY <1>1, ForkedInvariant, PTL

(* A semaphore that is up is up because a living process is inside         *)
(* (semtest.c l.108-110); that of sem_ctrl.c goes down when its process    *)
(* ends.                                                                   *)
THEOREM ForkedRelease == Overlap = FALSE /\ ForkedSpec => []LockedByTheLiving
<1>1. ForkedInv => LockedByTheLiving
  <2> SUFFICES ASSUME ForkedInv PROVE LockedByTheLiving
    OBVIOUS
  <2>1. ~Abandoned /\ val > 0 => \E p \in Procs : Inside(p) /\ HasSet(p)
    BY DEF ForkedInv, LockInv, Account, Holds
  <2>2. CtlReleased
    BY DEF ForkedInv, CtlInv, CtlReleased, CtlAlive
  <2>3. QED
    BY <2>1, <2>2 DEF LockedByTheLiving
<1>2. QED
  BY <1>1, ForkedInvariant, PTL

(* A set that is still there was used by no parent that ended by itself or *)
(* in its handler, and what a child of lab5 that exited used is gone.      *)
THEOREM ForkedCleanup == Overlap = FALSE /\ ForkedSpec => []NothingLeft
<1>1. ForkedInv => NothingLeft
  <2> SUFFICES ASSUME ForkedInv PROVE NothingLeft
    OBVIOUS
  <2>1. ASSUME NEW r \in RunIds, pc[Parent(r)] = "exited"
        PROVE  key = 0 \/ semid[r] # key
    BY <2>1 DEF ForkedInv, LockInv, KeyShape
  <2>2. ASSUME NEW r \in RunIds, pc[Child(r)] = "exited"
        PROVE  segment[r] # "made" \/ program # "lab5"
    BY <2>2 DEF ForkedInv, SegmentInv
  <2>3. CtlRemoved
    BY DEF ForkedInv, CtlInv, CtlRemoved
  <2>4. QED
    BY <2>1, <2>2, <2>3 DEF NothingLeft
<1>2. QED
  BY <1>1, ForkedInvariant, PTL

(* What a child reads adds this to the invariant. *)
ReadInv == LabInv /\ OldFibInv

LEMMA ReadInitHolds ==
  ASSUME ForkedInit
  PROVE  ReadInv
<1>1. LabInv
  <2>1. /\ \A p \in Procs : semadj[p] = 0
        /\ \A p \in Procs : pc[p] = "none"
        /\ val = 0
    BY DEF ForkedInit, LockInit, NoAdj
  <2>2. UndoInv
    BY <2>1 DEF UndoInv
  <2>3. \A r \in RunIds : ~Later(r)
    <3>1. \A r \in RunIds : pc[Parent(r)] = "none"
      BY <2>1, ProcNames
    <3>2. QED
      BY <3>1 DEF Later, BeforeSemget
  <2>4. QED
    BY <2>2, <2>3 DEF LabInv, CurrentRun
<1>2. OldFibInv
  <2>1. \A r \in OldRunIds : oldPar[r] = "none" /\ oldChi[r] = "none"
    BY DEF ForkedInit, OldInit
  <2>2. ~(named[1] > 0)
    <3>1. named[1] = -1
      BY DEF ForkedInit, OldInit
    <3>2. QED
      BY <3>1
  <2>3. QED
    BY <2>1, <2>2 DEF OldFibInv, OldAlone, OldRun, Posted
<1>3. QED
  BY <1>1, <1>2 DEF ReadInv

LEMMA ReadStepHolds ==
  ASSUME Overlap = FALSE, ForkedInv, ReadInv, [ForkedNext]_forkedVars
  PROVE  /\ ReadInv'
         /\ [\A r \in RunIds :
               Reads(r, "0") => pc[Parent(r)] \in {"assign", "grab"} \cup Ended]_lab5Vars
<1>1. /\ LockTypeOK /\ Lab5TypeOK /\ OldTypeOK /\ Shape /\ Token
      /\ LabInv /\ OldFibInv
  BY DEF ForkedInv, ForkedTypeOK, LockInv, SemtestTypeOK, ReadInv
<1>2. LabInv'
  BY <1>1, LabStep
<1>3. OldFibInv'
  <2>1. [OldNext]_oldVars
    BY DEF ForkedNext, RunSemtest, RunLab5, RunLab5old, RunSemCtrl, forkedVars
  <2>2. QED
    BY <1>1, <2>1, OldFibStep
<1>4. ASSUME NEW r \in RunIds, Reads(r, "0")
      PROVE  pc[Parent(r)] \in {"assign", "grab"} \cup Ended
  <2>1. /\ pc[Child(r)] = "inside" /\ pc'[Child(r)] = "remove segment"
        /\ shared[r] = "0"
    BY <1>4 DEF Reads
  <2>2. program = "lab5"
    BY <1>1, <2>1, LabOnlyReads
  <2>3. QED
    BY <1>1, <2>1, <2>2, LabReads
<1>5. QED
  BY <1>2, <1>3, <1>4 DEF ReadInv

(* The child of lab5.c reads a 0 only while its parent has not grabbed, or *)
(* once that parent has ended; the child of lab5old.c reads what its       *)
(* parent wrote until some process is killed, though the two semaphores    *)
(* keep their values from run to run (lab5old.c l.31-34).                  *)
THEOREM ForkedReads == Overlap = FALSE /\ ForkedSpec => ReadsFib
<1> SUFFICES ASSUME Overlap = FALSE PROVE ForkedSpec => ReadsFib
  OBVIOUS
<1> DEFINE Read == \A r \in RunIds :
                     Reads(r, "0") => pc[Parent(r)] \in {"assign", "grab"} \cup Ended
<1>1. ForkedInit => ReadInv
  BY ReadInitHolds
<1>2. ForkedInv /\ ReadInv /\ [ForkedNext]_forkedVars => ReadInv' /\ [Read]_lab5Vars
  BY ReadStepHolds
<1>3. ReadInv => OldReadsFib
  <2> SUFFICES ASSUME ReadInv, oldKilled = 0, NEW r \in OldRunIds,
                      oldChi[r] \in {"read", "post sem2", "exited"}
               PROVE  oldCell[r] = "fib"
    BY DEF OldReadsFib
  <2>1. OldRun(r)
    BY DEF ReadInv, OldFibInv
  <2>2. QED
    BY <2>1 DEF OldRun
<1>4. ReadsZeroOnlyFirst <=> [][Read]_lab5Vars
  BY DEF ReadsZeroOnlyFirst
<1>5. ForkedSpec => []ForkedInv
  BY ForkedInvariant
<1> HIDE DEF Read
<1>6. QED
  BY <1>1, <1>2, <1>3, <1>4, <1>5, PTL DEF ForkedSpec, ReadsFib
=============================================================================
