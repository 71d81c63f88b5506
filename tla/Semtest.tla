------------------------------ MODULE Semtest -------------------------------
(***************************************************************************)
(* 5/semtest.c: parent and child each pass the critical section eight      *)
(* times.  The critical section is a nap.                                  *)
(***************************************************************************)
EXTENDS KeyedLock

CONSTANT LOOP      \* loop of the file (8)

ASSUME SemtestAssumption == LOOP \in Nat \ {0}

VARIABLE loop      \* the rounds each process has left

semtestVars == <<lockVars, loop>>

LoopInit == loop = [p \in Procs |-> LOOP]

SemtestInit == LockInit /\ LoopInit

EndRound(p) ==
  /\ loop' = [loop EXCEPT ![p] = @ - 1]
  /\ Release(p, "inside", IF loop[p] > 1 THEN "grab"
                          ELSE IF p[2] = "parent" THEN "wait" ELSE "exit")

SemtestStart(r) == Start(r, "sigaction") /\ UNCHANGED loop

ChildExit(p) == pc[p] = "exit" /\ Exit(p, "exited") /\ UNCHANGED sigVars

SemtestStep(p) ==
  \/ EndRound(p)
  \/ /\ \/ p[2] = "parent" /\ (SetUp(p[1]) \/ Wait(p[1]) \/ Cleanup(p[1]))
        \/ Grab(p)
        \/ ChildExit(p)
        \/ TakeSigint(p)
     /\ UNCHANGED loop

SemtestNext ==
  \/ \E r \in RunIds : SemtestStart(r)
  \/ \E p \in Procs : SemtestStep(p)
  \/ \E r \in RunIds : CtrlC(r) /\ UNCHANGED loop
  \/ \E p \in Procs : Kill(p) /\ UNCHANGED loop

SemtestSpec == SemtestInit /\ [][SemtestNext]_semtestVars

----------------------------------------------------------------------------
SemtestTypeOK == LockTypeOK /\ loop \in [Procs -> 0..LOOP]

(* l.95-97: "The program can be run several times simultaneously, but it   *)
(* ensures that only one process is in the critical section at a time."    *)
OneInCritical ==
  \A p, q \in Procs : Inside(p) /\ Inside(q) => p = q
=============================================================================
