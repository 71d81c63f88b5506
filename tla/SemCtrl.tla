------------------------------- MODULE SemCtrl -------------------------------
(***************************************************************************)
(* 5/sem_ctrl.c (and its copy in 6): one process grabs the semaphore of a  *)
(* key, tries a second time without waiting, sends itself a SIGINT whose   *)
(* handler releases, and removes the set.  Ctrl-C may come at any time;    *)
(* the handler runs with SIGINT blocked, and its semop of -1 sleeps while  *)
(* the value is 0.  The set outlives a process that is killed.             *)
(***************************************************************************)
EXTENDS Integers

CONSTANT CtlSigints      \* bound on the number of Ctrl-C in a run

ASSUME SemCtrlAssumption == CtlSigints \in Nat

VARIABLES
  ctl,        \* where main() is
  context,    \* what runs: "main" or "handler"
  again,      \* does a SIGINT wait for the handler to return
  ctlSet,     \* does the set of the key exist: "none" or "live"
  ctlVal,     \* its value
  ctlAdj,     \* the adjustment of the process
  ctrlCs      \* number of Ctrl-C in this run

ctlVars == <<ctl, context, again, ctlSet, ctlVal, ctlAdj, ctrlCs>>

CtlSteps == {"sigaction", "semget", "release[0]", "SETVAL", "grab", "try",
             "kill", "rmid", "exited", "killed"}
CtlAlive == ctl \notin {"exited", "killed"}

(* release is all zeroes, a wait for zero, until main() fills it *)
ReleaseSet == ctl \notin {"sigaction", "semget", "release[0]"}

CtlInit ==
  /\ ctl = "sigaction" /\ context = "main" /\ again = FALSE
  /\ ctlSet = "none" /\ ctlVal = 0 /\ ctlAdj = 0
  /\ ctrlCs = 0

CtlGoto(from, to) ==
  /\ ctl = from /\ context = "main"
  /\ ctl' = to
  /\ UNCHANGED <<again, ctrlCs>>

CtlStep(from, to) == CtlGoto(from, to) /\ UNCHANGED context

----------------------------------------------------------------------------
CtlSigaction ==
  /\ CtlStep("sigaction", "semget")
  /\ UNCHANGED <<ctlSet, ctlVal, ctlAdj>>

CtlSemget ==
  /\ CtlStep("semget", "release[0]")
  /\ ctlSet' = "live"
  /\ ctlVal' = IF ctlSet = "none" THEN 0 ELSE ctlVal
  /\ UNCHANGED ctlAdj

CtlFillRelease ==
  /\ CtlStep("release[0]", "SETVAL")
  /\ UNCHANGED <<ctlSet, ctlVal, ctlAdj>>

CtlSetVal ==
  /\ CtlStep("SETVAL", "grab")
  /\ ctlVal' = 0 /\ ctlAdj' = 0
  /\ UNCHANGED ctlSet

(* {0, +1}: the value is 0 here, so the first grab never sleeps *)
CtlAdd(n) == ctlVal' = ctlVal + n /\ ctlAdj' = ctlAdj - n

CtlGrab ==
  /\ ctlVal = 0
  /\ CtlStep("grab", "try")
  /\ CtlAdd(1)
  /\ UNCHANGED ctlSet

(* IPC_NOWAIT: it fails, unless a Ctrl-C has released the semaphore *)
CtlTry ==
  /\ CtlStep("try", "kill")
  /\ IF ctlVal = 0 THEN CtlAdd(1) ELSE UNCHANGED <<ctlVal, ctlAdj>>
  /\ UNCHANGED ctlSet

(* kill(getpid(), SIGINT): the handler runs before kill returns *)
CtlKillSelf ==
  /\ CtlGoto("kill", "rmid")
  /\ context' = "handler"
  /\ UNCHANGED <<ctlSet, ctlVal, ctlAdj>>

CtlRmid ==
  /\ CtlStep("rmid", "exited")
  /\ ctlSet' = "none" /\ ctlVal' = 0 /\ ctlAdj' = 0

CtlMain ==
  \/ CtlSigaction \/ CtlSemget \/ CtlFillRelease \/ CtlSetVal
  \/ CtlGrab \/ CtlTry \/ CtlKillSelf \/ CtlRmid

(* ctrlc_handler: its semop succeeds, and it returns to main() or, when    *)
(* another SIGINT came in the meantime, runs once more.                    *)
CtlHandler ==
  /\ context = "handler"
  /\ IF ReleaseSet THEN ctlVal > 0 /\ CtlAdd(-1)
     ELSE UNCHANGED <<ctlVal, ctlAdj>>
  /\ context' = IF again THEN "handler" ELSE "main"
  /\ again' = FALSE
  /\ UNCHANGED <<ctl, ctlSet, ctrlCs>>

----------------------------------------------------------------------------
(* The process ends by a signal: SEM_UNDO, not below zero. *)
CtlDies ==
  /\ ctl' = "killed" /\ context' = "main" /\ again' = FALSE
  /\ ctlVal' = IF ctlVal + ctlAdj < 0 THEN 0 ELSE ctlVal + ctlAdj
  /\ ctlAdj' = 0
  /\ UNCHANGED ctlSet

CtlCtrlC ==
  /\ CtlAlive /\ ctrlCs < CtlSigints
  /\ ctrlCs' = ctrlCs + 1
  /\ IF ctl = "sigaction" THEN CtlDies
     ELSE /\ context' = "handler"
          /\ again' = (context = "handler")
          /\ UNCHANGED <<ctl, ctlSet, ctlVal, ctlAdj>>

(* external: SIGKILL *)
CtlKill == CtlAlive /\ CtlDies /\ UNCHANGED ctrlCs

CtlRerun ==
  /\ ~CtlAlive
  /\ ctl' = "sigaction"
  /\ ctrlCs' = 0
  /\ UNCHANGED <<context, again, ctlSet, ctlVal, ctlAdj>>

CtlNext == CtlMain \/ CtlHandler \/ CtlCtrlC \/ CtlKill \/ CtlRerun

CtlSpec == CtlInit /\ [][CtlNext]_ctlVars

----------------------------------------------------------------------------
(* Properties.                                                             *)

CtlTypeOK ==
  /\ ctl \in CtlSteps
  /\ context \in {"main", "handler"}
  /\ again \in BOOLEAN
  /\ ctlSet \in {"none", "live"}
  /\ ctlVal \in Nat /\ ctlAdj \in Int
  /\ ctrlCs \in 0 .. CtlSigints

(* The semaphore is never taken twice, not even by the second grab after a *)
(* Ctrl-C, and never stays taken by a process that ended.                  *)
CtlReleased == ctlVal <= 1 /\ (ctlVal = 1 => CtlAlive)

(* A run that ends by itself removed its set.                              *)
CtlRemoved == ctl = "exited" => ctlSet = "none"

(* A run ends, unless a Ctrl-C found nothing to release, or took what the  *)
(* SIGINT of l.145 was to release: then the handler sleeps for ever.       *)
CtlEnds ==
  []<>(\/ ~CtlAlive
       \/ context = "handler" /\ ctlVal = 0 /\ ctrlCs > 0)
=============================================================================
