------------------------------- MODULE Lab5old -------------------------------
(***************************************************************************)
(* 5/lab5old.c: the earlier lab5, run again and again.  Two named POSIX    *)
(* semaphores order the child's read after the parent's write.  They are   *)
(* never unlinked, O_CREAT gives a value only to one that is new, and the  *)
(* sem_destroy of the end does nothing to a named one: a run starts with   *)
(* the values the last one left, and a child whose parent was killed still *)
(* waits on them.  The segment is private to the run.                      *)
(***************************************************************************)
EXTENDS Integers, FiniteSets

CONSTANTS
  OldRuns,      \* how often the program is started
  OldKills      \* bound on the number of processes killed

ASSUME Lab5oldAssumption == OldRuns \in Nat \ {0} /\ OldKills \in Nat

VARIABLES
  oldPar,     \* where the parent of each run is
  oldChi,     \* where its child is
  named,      \* the values of the named semaphores, -1 before they exist
  oldCell,    \* the int in each run's segment: "0" or "fib"
  oldKilled   \* number of kills so far

oldVars == <<oldPar, oldChi, named, oldCell, oldKilled>>

OldRunIds == 1 .. OldRuns
OldEnded == {"exited", "killed"}
OldParSteps ==
  {"none", "shmget", "sem1", "sem2", "fork", "wait sem2", "write",
   "post sem1", "wait"} \cup OldEnded
OldChiSteps == {"none", "wait sem1", "read", "post sem2"} \cup OldEnded

OldInit ==
  /\ oldPar = [r \in OldRunIds |-> "none"]
  /\ oldChi = [r \in OldRunIds |-> "none"]
  /\ named = [i \in {1, 2} |-> -1]
  /\ oldCell = [r \in OldRunIds |-> "0"]
  /\ oldKilled = 0

OldParGoto(r, from, to) ==
  /\ oldPar[r] = from
  /\ oldPar' = [oldPar EXCEPT ![r] = to]
  /\ UNCHANGED oldKilled

OldChiGoto(r, from, to) ==
  /\ oldChi[r] = from
  /\ oldChi' = [oldChi EXCEPT ![r] = to]
  /\ UNCHANGED <<oldPar, oldCell, oldKilled>>

sem_post(i) == named' = [named EXCEPT ![i] = @ + 1]
sem_wait(i) == named[i] > 0 /\ named' = [named EXCEPT ![i] = @ - 1]

----------------------------------------------------------------------------
(* The shell starts a run when the parents before it have ended. *)
OldStart(r) ==
  /\ OldParGoto(r, "none", "shmget")
  /\ \A q \in 1 .. r - 1 : oldPar[q] \in OldEnded
  /\ UNCHANGED <<oldChi, named, oldCell>>

OldSegment(r) ==
  /\ OldParGoto(r, "shmget", "sem1")
  /\ oldCell' = [oldCell EXCEPT ![r] = "0"]
  /\ UNCHANGED <<oldChi, named>>

(* mutant: every run gives the semaphore its first value *)
SemOpen_always(r, i, n, from, to) ==
  /\ OldParGoto(r, from, to)
  /\ named' = [named EXCEPT ![i] = n]
  /\ UNCHANGED <<oldChi, oldCell>>

SemOpen(r, i, n, from, to) ==
  /\ OldParGoto(r, from, to)
  /\ named' = [named EXCEPT ![i] = IF @ = -1 THEN n ELSE @]
  /\ UNCHANGED <<oldChi, oldCell>>

OldFork(r) ==
  /\ OldParGoto(r, "fork", "wait sem2")
  /\ oldChi' = [oldChi EXCEPT ![r] = "wait sem1"]
  /\ UNCHANGED <<named, oldCell>>

OldWaitTurn(r) ==
  /\ sem_wait(2)
  /\ OldParGoto(r, "wait sem2", "write")
  /\ UNCHANGED <<oldChi, oldCell>>

OldWrite(r) ==
  /\ OldParGoto(r, "write", "post sem1")
  /\ oldCell' = [oldCell EXCEPT ![r] = "fib"]
  /\ UNCHANGED <<oldChi, named>>

OldPostChild(r) ==
  /\ sem_post(1)
  /\ OldParGoto(r, "post sem1", "wait")
  /\ UNCHANGED <<oldChi, oldCell>>

OldWait(r) ==
  /\ oldChi[r] \in OldEnded
  /\ OldParGoto(r, "wait", "exited")
  /\ UNCHANGED <<oldChi, named, oldCell>>

OldParent(r) ==
  \/ OldSegment(r)
  \/ SemOpen(r, 1, 0, "sem1", "sem2")
  \/ SemOpen(r, 2, 1, "sem2", "fork")
  \/ OldFork(r) \/ OldWaitTurn(r) \/ OldWrite(r) \/ OldPostChild(r)
  \/ OldWait(r)

OldWaitFib(r) == sem_wait(1) /\ OldChiGoto(r, "wait sem1", "read")

OldRead(r) == OldChiGoto(r, "read", "post sem2") /\ UNCHANGED named

OldPostParent(r) == sem_post(2) /\ OldChiGoto(r, "post sem2", "exited")

OldChild(r) == OldWaitFib(r) \/ OldRead(r) \/ OldPostParent(r)

----------------------------------------------------------------------------
(* external: SIGKILL of a parent or a child; POSIX semaphores undo nothing *)

KillOldParent(r) ==
  /\ oldKilled < OldKills
  /\ oldPar[r] \notin OldEnded \cup {"none"}
  /\ oldPar' = [oldPar EXCEPT ![r] = "killed"]
  /\ oldKilled' = oldKilled + 1
  /\ UNCHANGED <<oldChi, named, oldCell>>

KillOldChild(r) ==
  /\ oldKilled < OldKills
  /\ oldChi[r] \notin OldEnded \cup {"none"}
  /\ oldChi' = [oldChi EXCEPT ![r] = "killed"]
  /\ oldKilled' = oldKilled + 1
  /\ UNCHANGED <<oldPar, named, oldCell>>

OldNext ==
  \E r \in OldRunIds :
    \/ OldStart(r) \/ OldParent(r) \/ OldChild(r)
    \/ KillOldParent(r) \/ KillOldChild(r)

OldSpec == OldInit /\ [][OldNext]_oldVars

----------------------------------------------------------------------------
(* Properties.                                                             *)

OldTypeOK ==
  /\ oldPar \in [OldRunIds -> OldParSteps]
  /\ oldChi \in [OldRunIds -> OldChiSteps]
  /\ named \in [{1, 2} -> Nat \cup {-1}]
  /\ oldCell \in [OldRunIds -> {"0", "fib"}]
  /\ oldKilled \in Nat

OldWriters == {r \in OldRunIds : oldPar[r] \in {"write", "post sem1"}}
OldReaders == {r \in OldRunIds : oldChi[r] \in {"read", "post sem2"}}

(* Whoever was killed, of all the runs that share the two names at most    *)
(* one process is between its sem_wait and its sem_post (l.88-98, l.106-109).*)
OldExclusion == Cardinality(OldWriters) + Cardinality(OldReaders) <= 1

(* l.31-34 of the header: the child reads what its parent wrote; it may    *)
(* read 0 only once a process was killed.                                  *)
OldReadsFib ==
  oldKilled = 0 =>
    \A r \in OldRunIds : oldChi[r] \in {"read", "post sem2", "exited"} =>
                           oldCell[r] = "fib"

(* Until a process is killed every run that was started ends.              *)
OldRunsEnd ==
  \A r \in OldRunIds :
    (oldPar[r] # "none") ~>
      (\/ oldKilled > 0
       \/ oldPar[r] = "exited" /\ oldChi[r] = "exited")
=============================================================================
