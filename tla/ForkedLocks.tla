---------------------------- MODULE ForkedLocks -----------------------------
(***************************************************************************)
(* The programs of directory 5 that are run again and again, with Ctrl-C   *)
(* and kills, on semaphores that outlive them, one of which is run:        *)
(* semtest and lab5 on a keyed set, lab5old on named semaphores, sem_ctrl  *)
(* alone on a keyed set.                                                   *)
(***************************************************************************)
EXTENDS Semtest, Lab5, Lab5old, SemCtrl

VARIABLE program     \* the program that is run

forkedVars == <<program, lockVars, loop, shared, segment, oldVars, ctlVars>>

ForkedInit ==
  /\ program \in {"semtest", "lab5", "lab5old", "sem_ctrl"}
  /\ LockInit /\ LoopInit /\ SegmentInit
  /\ OldInit /\ CtlInit

RunSemtest(A) ==
  /\ program = "semtest" /\ A
  /\ UNCHANGED <<program, shared, segment, oldVars, ctlVars>>
RunLab5(A) ==
  program = "lab5" /\ A /\ UNCHANGED <<program, loop, oldVars, ctlVars>>
RunLab5old(A) ==
  /\ program = "lab5old" /\ A
  /\ UNCHANGED <<program, lockVars, loop, shared, segment, ctlVars>>
RunSemCtrl(A) ==
  /\ program = "sem_ctrl" /\ A
  /\ UNCHANGED <<program, lockVars, loop, shared, segment, oldVars>>

ForkedNext ==
  \/ RunSemtest(SemtestNext) \/ RunLab5(Lab5Next)
  \/ RunLab5old(OldNext) \/ RunSemCtrl(CtlNext)

ForkedStep(p) == RunSemtest(SemtestStep(p)) \/ RunLab5(Lab5Step(p))

ForkedSpec ==
  /\ ForkedInit
  /\ [][ForkedNext]_forkedVars
  /\ \A p \in Procs : WF_forkedVars(ForkedStep(p))
  /\ \A r \in OldRunIds :
       /\ WF_forkedVars(RunLab5old(OldParent(r)))
       /\ WF_forkedVars(RunLab5old(OldChild(r)))
  /\ WF_forkedVars(RunSemCtrl(CtlMain \/ CtlHandler))

----------------------------------------------------------------------------
(* The variables of all programs keep their types.                         *)
ForkedTypeOK == SemtestTypeOK /\ Lab5TypeOK /\ OldTypeOK /\ CtlTypeOK

(* Run after run, whatever child is killed and whatever Ctrl-C interrupts, *)
(* at most one of the processes that lock the same set is inside, as long  *)
(* as no parent abandoned its child; in lab5old even then.                 *)
ExclusionOnSet ==
  /\ ~Abandoned =>
       \A p, q \in Procs :
         Inside(p) /\ Inside(q) /\ HasSet(p) /\ HasSet(q) => p = q
  /\ OldExclusion

(* l.108-110 of semtest.c: nobody is locked out by a holder that ended.    *)
(* The semaphore is up only while a process that lives is inside; that of  *)
(* sem_ctrl is never taken twice and never left taken.                     *)
LockedByTheLiving ==
  /\ ~Abandoned /\ val > 0 => \E p \in Procs : Inside(p) /\ HasSet(p)
  /\ CtlReleased

(* A set that is still there was used by no parent that ended by itself or *)
(* in its handler (l.290 and l.312 of semtest.c, whose header says in      *)
(* l.10-11 that the program does not remove it); not so a parent that      *)
(* takes itself for the child (l.304-306): that set stays ("exit 77").     *)
(* And a segment of lab5 outlives only a run in which a process was ended  *)
(* by a signal.                                                            *)
NothingLeft ==
  /\ \A r \in RunIds : pc[Parent(r)] = "exited" =>
       /\ key = 0 \/ semid[r] # key
       /\ pc[Child(r)] = "exited" => segment[r] # "made" \/ program # "lab5"
  /\ CtlRemoved

(* What the child reads: in lab5 a 0 only if it came before the parent, in *)
(* lab5old a 0 only once some process was killed.                          *)
ReadsFib == ReadsZeroOnlyFirst /\ []OldReadsFib

(* Every run that was started ends, whoever of it is interrupted or killed,*)
(* unless a parent abandoned its child (semtest, lab5), a process was      *)
(* killed (lab5old), or a Ctrl-C took the release (sem_ctrl).              *)
RunsEnd ==
  /\ \A r \in RunIds :
       Running(Parent(r)) ~>
         Abandoned \/ {pc[Parent(r)], pc[Child(r)]} \subseteq {"none"} \cup Ended
  /\ program = "lab5old" => OldRunsEnd
  /\ program = "sem_ctrl" => CtlEnds
=============================================================================
