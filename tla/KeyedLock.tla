----------------------------- MODULE KeyedLock ------------------------------
(***************************************************************************)
(* What 5/semtest.c and 5/lab5.c have in common: a parent makes a keyed    *)
(* semaphore set, sets it to 0 and forks; parent and child then lock it    *)
(* with the array {0, +1} and unlock it with -1, all under SEM_UNDO; the   *)
(* parent waits for the child and removes the set, and so does its handler *)
(* of SIGINT.                                                              *)
(*                                                                         *)
(* The set belongs to the key, not to a run of the program: a later run    *)
(* finds one that was left behind, a concurrent run shares it.  A set is   *)
(* named by the run that created it.  No result of semop or semctl is      *)
(* looked at, so a process whose set was removed goes on without it.       *)
(***************************************************************************)
EXTENDS Integers

CONSTANTS
  Runs,        \* how often the program is started
  Overlap,     \* may a run start before the parent of the last one ended?
  MaxSigints,  \* bound on the number of Ctrl-C
  MaxKills     \* bound on the number of processes killed

ASSUME KeyedLockAssumption ==
  /\ Runs \in Nat
  /\ Overlap \in BOOLEAN
  /\ MaxSigints \in Nat
  /\ MaxKills \in Nat

VARIABLES
  key,      \* the set the key names, 0 for none
  semid,    \* the semid of each run (parent and child have the same)
  val,      \* the value of semaphore 0 of the set
  semadj,   \* what the kernel will add to it when the process ends
  pc,       \* where each process is
  sigint,   \* does a SIGINT wait for the process: "none" or "pending"
  sigints,  \* number of Ctrl-C so far
  kills     \* number of kills so far

semVars == <<key, semid, val, semadj>>
sigVars == <<sigint, sigints, kills>>
lockVars == <<semVars, pc, sigVars>>

Parent(r) == <<r, "parent">>
Child(r)  == <<r, "child">>
RunIds == 1..Runs
Procs == RunIds \X {"parent", "child"}

NoHandler == {"shmget", "sigaction"}
ChildUnset == {"semget", "SETVAL", "fork", "assign"}
Ended == {"exited", "exit 77", "killed"}
LockSteps == {"none"} \cup NoHandler \cup ChildUnset \cup Ended \cup
  {"grab", "inside", "release", "wait", "rmid", "remove segment", "undo", "exit"}

Running(p) == pc[p] \notin {"none"} \cup Ended

(* the child global: 0 in the child, and in the parent until l.242 of      *)
(* semtest.c (l.132 of lab5.c) has stored what fork returned               *)
ChildIsZero(p) == p[2] = "child" \/ pc[p] \in ChildUnset

HasSet(p) == key # 0 /\ semid[p[1]] = key

NoAdj == [p \in Procs |-> 0]

LockInit ==
  /\ key = 0
  /\ semid = [r \in RunIds |-> 0]
  /\ val = 0
  /\ semadj = NoAdj
  /\ pc = [p \in Procs |-> "none"]
  /\ sigint = [p \in Procs |-> "none"]
  /\ sigints = 0
  /\ kills = 0

Goto(p, from, to) == pc[p] = from /\ pc' = [pc EXCEPT ![p] = to]

----------------------------------------------------------------------------
(* Setting up.                                                             *)

(* The shell starts the next run when the parents before it ended; in      *)
(* a second terminal it need not wait.                                     *)
Start(r, first) ==
  /\ Goto(Parent(r), "none", first)
  /\ \A q \in 1..(r - 1) :
       pc[Parent(q)] \in Ended \/ (Overlap /\ pc[Parent(q)] # "none")
  /\ UNCHANGED <<semVars, sigVars>>

InstallHandler(r) ==
  /\ Goto(Parent(r), "sigaction", "semget")
  /\ UNCHANGED <<semVars, sigVars>>

(* a new set, or the one that is there *)
Semget(r) ==
  /\ Goto(Parent(r), "semget", "SETVAL")
  /\ key' = IF key = 0 THEN r ELSE key
  /\ semid' = [semid EXCEPT ![r] = key']
  /\ UNCHANGED <<val, semadj, sigVars>>

(* SETVAL 0 clears the adjustments of every process. *)
SetVal(r) ==
  /\ Goto(Parent(r), "SETVAL", "fork")
  /\ IF HasSet(Parent(r))
     THEN val' = 0 /\ semadj' = NoAdj
     ELSE UNCHANGED <<val, semadj>>
  /\ UNCHANGED <<key, semid, sigVars>>

Fork(r) ==
  /\ pc[Parent(r)] = "fork"
  /\ pc' = [pc EXCEPT ![Parent(r)] = "assign", ![Child(r)] = "grab"]
  /\ UNCHANGED <<semVars, sigVars>>

AssignChild(r) ==
  /\ Goto(Parent(r), "assign", "grab")
  /\ UNCHANGED <<semVars, sigVars>>

SetUp(r) ==
  \/ InstallHandler(r) \/ Semget(r) \/ SetVal(r) \/ Fork(r) \/ AssignChild(r)

----------------------------------------------------------------------------
(* Locking.                                                                *)

Add(p, n) ==
  /\ val' = val + n
  /\ semadj' = [semadj EXCEPT ![p] = @ - n]

(* mutant: one operation, +1, without the wait for zero *)
Grab_no_wait(p) ==
  /\ Goto(p, "grab", "inside")
  /\ IF HasSet(p) THEN Add(p, 1) ELSE UNCHANGED <<val, semadj>>
  /\ UNCHANGED <<key, semid, sigVars>>

Grab(p) ==
  /\ Goto(p, "grab", "inside")
  /\ IF HasSet(p) THEN val = 0 /\ Add(p, 1) ELSE UNCHANGED <<val, semadj>>
  /\ UNCHANGED <<key, semid, sigVars>>

(* mutant: released without SEM_UNDO *)
Release_no_undo(p, from, to) ==
  /\ Goto(p, from, to)
  /\ IF HasSet(p) THEN val > 0 /\ val' = val - 1 ELSE UNCHANGED val
  /\ UNCHANGED <<key, semid, semadj, sigVars>>

Release(p, from, to) ==
  /\ Goto(p, from, to)
  /\ IF HasSet(p) THEN val > 0 /\ Add(p, -1) ELSE UNCHANGED <<val, semadj>>
  /\ UNCHANGED <<key, semid, sigVars>>

----------------------------------------------------------------------------
(* Ending.                                                                 *)

(* mutant: no SEM_UNDO at all *)
Exit_no_undo(p, how) ==
  /\ pc' = [pc EXCEPT ![p] = how]
  /\ UNCHANGED semVars

(* mutant: the value may become negative *)
Exit_no_floor(p, how) ==
  /\ pc' = [pc EXCEPT ![p] = how]
  /\ val' = val + semadj[p]
  /\ semadj' = [semadj EXCEPT ![p] = 0]
  /\ UNCHANGED <<key, semid>>

(* The kernel adds the adjustment, not below zero. *)
Exit(p, how) ==
  /\ pc' = [pc EXCEPT ![p] = how]
  /\ val' = IF val + semadj[p] > 0 THEN val + semadj[p] ELSE 0
  /\ semadj' = [semadj EXCEPT ![p] = 0]
  /\ UNCHANGED <<key, semid>>

(* IPC_RMID, then exit: nothing is left to undo *)
RemoveAndExit(p) ==
  IF HasSet(p)
  THEN /\ pc' = [pc EXCEPT ![p] = "exited"]
       /\ key' = 0 /\ val' = 0 /\ semadj' = NoAdj
       /\ UNCHANGED semid
  ELSE Exit(p, "exited")

Wait(r) ==
  /\ Goto(Parent(r), "wait", "rmid")
  /\ pc[Child(r)] \in Ended
  /\ UNCHANGED <<semVars, sigVars>>

(* mutant: no IPC_RMID *)
Cleanup_forgets(r) ==
  /\ pc[Parent(r)] = "rmid"
  /\ Exit(Parent(r), "exited")
  /\ UNCHANGED sigVars

Cleanup(r) ==
  /\ pc[Parent(r)] = "rmid"
  /\ RemoveAndExit(Parent(r))
  /\ UNCHANGED sigVars

(* The terminal signals the parent and, if there is one, the child. *)
CtrlC(r) ==
  /\ sigints < MaxSigints
  /\ Running(Parent(r))
  /\ sigints' = sigints + 1
  /\ sigint' = [p \in Procs |->
                  IF p[1] = r /\ Running(p) THEN "pending" ELSE sigint[p]]
  /\ UNCHANGED <<semVars, pc, kills>>

sigint_handler(p) ==
  /\ pc[p] \notin NoHandler
  /\ IF ChildIsZero(p) THEN Exit(p, "exit 77") ELSE RemoveAndExit(p)

DefaultAction(p) == pc[p] \in NoHandler /\ Exit(p, "killed")

(* The signal interrupts whatever the process does or waits for. *)
TakeSigint(p) ==
  /\ sigint[p] = "pending" /\ Running(p)
  /\ sigint_handler(p) \/ DefaultAction(p)
  /\ sigint' = [sigint EXCEPT ![p] = "none"]
  /\ UNCHANGED <<sigints, kills>>

(* external: SIGKILL *)
Kill(p) ==
  /\ kills < MaxKills
  /\ Running(p)
  /\ kills' = kills + 1
  /\ Exit(p, "killed")
  /\ UNCHANGED <<sigint, sigints>>

----------------------------------------------------------------------------
(* Properties of both programs.                                            *)

LockTypeOK ==
  /\ key \in 0..Runs
  /\ semid \in [RunIds -> 0..Runs]
  /\ val \in Nat
  /\ semadj \in [Procs -> Int]
  /\ pc \in [Procs -> LockSteps]
  /\ sigint \in [Procs -> {"none", "pending"}]
  /\ sigints \in 0..MaxSigints
  /\ kills \in 0..MaxKills

Inside(p) == pc[p] \in {"inside", "release", "remove segment", "undo"}

(* a parent that ended without waiting for its child or removing the set   *)
Abandoned == \E r \in RunIds :
  pc[Parent(r)] \in {"exit 77", "killed"} /\ pc[Child(r)] # "none"
=============================================================================
