-------------------------------- MODULE Lab5 --------------------------------
(***************************************************************************)
(* 5/lab5.c: the parent writes fib(n) into a private segment, the child    *)
(* prints it; the semaphore is to make the child wait for the write.  The  *)
(* child never releases the semaphore: its exit undoes the grab.           *)
(*                                                                         *)
(* A removed segment stays usable by who attached it.                      *)
(***************************************************************************)
EXTENDS KeyedLock

VARIABLES
  shared,    \* the int in each run's segment: "0" or "fib"
  segment    \* each run's segment: "none", "made" or "removed"

lab5Vars == <<lockVars, shared, segment>>

SegmentInit ==
  /\ shared = [r \in RunIds |-> "0"]
  /\ segment = [r \in RunIds |-> "none"]

Lab5Init == LockInit /\ SegmentInit

KeepSegment == UNCHANGED <<shared, segment>>

Lab5Start(r) == Start(r, "shmget") /\ KeepSegment

(* shmget, shmat and *shared = 0 *)
MakeSegment(r) ==
  /\ Goto(Parent(r), "shmget", "sigaction")
  /\ segment' = [segment EXCEPT ![r] = "made"]
  /\ shared' = [shared EXCEPT ![r] = "0"]
  /\ UNCHANGED <<semVars, sigVars>>

WriteFib(r) ==
  /\ Goto(Parent(r), "inside", "release")
  /\ shared' = [shared EXCEPT ![r] = "fib"]
  /\ UNCHANGED <<semVars, sigVars, segment>>

ReadFib(r) ==
  /\ Goto(Child(r), "inside", "remove segment")
  /\ UNCHANGED <<semVars, sigVars, shared, segment>>

RemoveSegment(r) ==
  /\ Goto(Child(r), "remove segment", "undo")
  /\ segment' = [segment EXCEPT ![r] = "removed"]
  /\ UNCHANGED <<semVars, sigVars, shared>>

ChildUndo(r) ==
  /\ pc[Child(r)] = "undo"
  /\ Exit(Child(r), "exited")
  /\ UNCHANGED sigVars

(* mutant: released before the write *)
Lab5Parent_late(r) ==
  \/ Release(Parent(r), "inside", "release") /\ KeepSegment
  \/ /\ Goto(Parent(r), "release", "wait")
     /\ shared' = [shared EXCEPT ![r] = "fib"]
     /\ UNCHANGED <<semVars, sigVars, segment>>
  \/ MakeSegment(r)
  \/ (SetUp(r) \/ Grab(Parent(r)) \/ Wait(r) \/ Cleanup(r)) /\ KeepSegment

Lab5Parent(r) ==
  \/ MakeSegment(r)
  \/ WriteFib(r)
  \/ Release(Parent(r), "release", "wait") /\ KeepSegment
  \/ (SetUp(r) \/ Grab(Parent(r)) \/ Wait(r) \/ Cleanup(r)) /\ KeepSegment

Lab5Child(r) ==
  \/ ReadFib(r) \/ RemoveSegment(r)
  \/ (Grab(Child(r)) \/ ChildUndo(r)) /\ KeepSegment

Lab5Step(p) ==
  \/ p[2] = "parent" /\ Lab5Parent(p[1])
  \/ p[2] = "child" /\ Lab5Child(p[1])
  \/ TakeSigint(p) /\ KeepSegment

Lab5Next ==
  \/ \E r \in RunIds : Lab5Start(r)
  \/ \E p \in Procs : Lab5Step(p)
  \/ \E r \in RunIds : CtrlC(r) /\ KeepSegment
  \/ \E p \in Procs : Kill(p) /\ KeepSegment

Lab5Spec == Lab5Init /\ [][Lab5Next]_lab5Vars

----------------------------------------------------------------------------
Lab5TypeOK ==
  /\ LockTypeOK
  /\ shared \in [RunIds -> {"0", "fib"}]
  /\ segment \in [RunIds -> {"none", "made", "removed"}]

Reads(r, v) ==
  /\ pc[Child(r)] = "inside"
  /\ pc'[Child(r)] = "remove segment"
  /\ shared[r] = v

(* The child reads 0 only if it came before the parent did, or if the      *)
(* parent ended before it wrote.                                           *)
ReadsZeroOnlyFirst ==
  [][\A r \in RunIds :
       Reads(r, "0") => pc[Parent(r)] \in {"assign", "grab"} \cup Ended]_lab5Vars
=============================================================================
