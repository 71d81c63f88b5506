-------------------------------- MODULE Relay --------------------------------
(***************************************************************************)
(* 9/lab9.c: five threads, created in reverse order, pass a baton that is  *)
(* the value of one semaphore.  Thread i grabs i+1 units and gives i+2 to  *)
(* the next one (the last gives 1); both under SEM_UNDO.  At the end the   *)
(* process, or a child it forks, becomes ipcrm and removes the set.        *)
(*                                                                         *)
(* The set has a key: a run that is killed leaves it to the next one.      *)
(***************************************************************************)
EXTENDS Integers, Sequences

CONSTANTS
  RUNNERS,      \* the number of threads (5)
  MAX_TURNS,    \* rounds of each (1)
  RelayKills    \* bound on the number of times the process is killed

ASSUME RelayAssumption ==
  RUNNERS \in Nat \ {0} /\ MAX_TURNS \in Nat /\ RelayKills \in Nat

Runner == 0 .. RUNNERS - 1

VARIABLES
  relay,      \* where main() is
  thr,        \* where each thread is
  turn,       \* the rounds each has ended
  forkFlag,   \* the argument: 0 execs, 1 forks, others have cpid = 0
  ipcrm,      \* the child that execs ipcrm: "none", "forked", "ended"
  batonSet,   \* does the keyed set exist: "none" or "live"
  baton,      \* the value of the semaphore
  batonAdj,   \* the adjustment of the process
  printed,    \* the numbers the threads printed
  relayKilled \* number of kills so far

relayVars == <<relay, thr, turn, forkFlag, ipcrm, batonSet, baton, batonAdj,
               printed, relayKilled>>

RelaySteps == {"semget", "SETVAL", "create", "join", "exec or fork", "wait",
               "ended", "killed"}
RunnerSteps == {"new", "grab", "print", "release", "exit"}

RelayInit ==
  /\ relay = "semget"
  /\ thr = [i \in Runner |-> "new"]
  /\ turn = [i \in Runner |-> 0]
  /\ forkFlag \in 0 .. 2
  /\ ipcrm = "none"
  /\ batonAdj = 0
  /\ printed = <<>>
  /\ batonSet = "none"
  /\ baton = 0
  /\ relayKilled = 0

RelayAlive == relay \notin {"ended", "killed"}

----------------------------------------------------------------------------
(* main()                                                                  *)

RelayGoto(from, to) ==
  /\ relay = from
  /\ relay' = to
  /\ UNCHANGED <<forkFlag, printed, turn, relayKilled>>

BatonGet ==
  /\ RelayGoto("semget", "SETVAL")
  /\ batonSet' = "live"
  /\ baton' = IF batonSet = "none" THEN 0 ELSE baton
  /\ UNCHANGED <<thr, ipcrm, batonAdj>>

BatonSet ==
  /\ RelayGoto("SETVAL", "create")
  /\ baton' = 1
  /\ batonAdj' = 0
  /\ UNCHANGED <<thr, ipcrm, batonSet>>

RunnerLoop(n) == IF n < MAX_TURNS THEN "grab" ELSE "exit"

(* for (i=4; i>=0; i--) *)
CreateRunner(i) ==
  /\ thr[i] = "new"
  /\ \A j \in Runner : j > i => thr[j] # "new"
  /\ RelayGoto("create", IF i = 0 THEN "join" ELSE "create")
  /\ thr' = [thr EXCEPT ![i] = RunnerLoop(0)]
  /\ UNCHANGED <<ipcrm, batonSet, baton, batonAdj>>

JoinRunners ==
  /\ \A i \in Runner : thr[i] = "exit"
  /\ RelayGoto("join", "exec or fork")
  /\ UNCHANGED <<thr, ipcrm, batonSet, baton, batonAdj>>

(* ipcrm -s semid *)
ExecIpcrm ==
  /\ forkFlag # 1
  /\ RelayGoto("exec or fork", "ended")
  /\ batonSet' = "none"
  /\ UNCHANGED <<thr, ipcrm, baton, batonAdj>>

ForkIpcrm ==
  /\ forkFlag = 1
  /\ RelayGoto("exec or fork", "wait")
  /\ ipcrm' = "forked"
  /\ UNCHANGED <<thr, batonSet, baton, batonAdj>>

WaitIpcrm ==
  /\ ipcrm = "ended"
  /\ RelayGoto("wait", "ended")
  /\ UNCHANGED <<thr, ipcrm, batonSet, baton, batonAdj>>

RelayMain ==
  \/ BatonGet \/ BatonSet
  \/ \E i \in Runner : CreateRunner(i)
  \/ JoinRunners
  \/ ExecIpcrm \/ ForkIpcrm \/ WaitIpcrm

ChildIpcrm ==
  /\ ipcrm = "forked"
  /\ ipcrm' = "ended"
  /\ batonSet' = "none"
  /\ UNCHANGED <<relay, thr, turn, forkFlag, baton, batonAdj, printed,
                 relayKilled>>

----------------------------------------------------------------------------
(* thrfunc()                                                               *)

RunnerGoto(i, from, to) ==
  /\ RelayAlive
  /\ thr[i] = from
  /\ thr' = [thr EXCEPT ![i] = to]
  /\ UNCHANGED <<relay, forkFlag, ipcrm, batonSet, relayKilled>>

baton_grab(i) == -(i + 1)
baton_release(i) == IF i = RUNNERS - 1 THEN 1 ELSE i + 2

BatonOp(n) ==
  /\ baton + n >= 0
  /\ baton' = baton + n
  /\ batonAdj' = batonAdj - n

(* mutant: every thread grabs one unit *)
GrabBaton_one(i) ==
  /\ RunnerGoto(i, "grab", "print")
  /\ BatonOp(-1)
  /\ UNCHANGED <<turn, printed>>

GrabBaton(i) ==
  /\ RunnerGoto(i, "grab", "print")
  /\ BatonOp(baton_grab(i))
  /\ UNCHANGED <<turn, printed>>

PrintNumber(i) ==
  /\ RunnerGoto(i, "print", "release")
  /\ printed' = Append(printed, i)
  /\ UNCHANGED <<turn, baton, batonAdj>>

ReleaseBaton(i) ==
  /\ RunnerGoto(i, "release", RunnerLoop(turn[i] + 1))
  /\ BatonOp(baton_release(i))
  /\ turn' = [turn EXCEPT ![i] = @ + 1]
  /\ UNCHANGED printed

thrfunc(i) == GrabBaton(i) \/ PrintNumber(i) \/ ReleaseBaton(i)

----------------------------------------------------------------------------
(* The process (with its child) is killed; SEM_UNDO never takes a value    *)
(* below zero.                                                             *)
KillRelay ==
  /\ RelayAlive
  /\ relayKilled < RelayKills
  /\ relay' = "killed"
  /\ ipcrm' = "none"
  /\ baton' = IF baton + batonAdj < 0 THEN 0 ELSE baton + batonAdj
  /\ relayKilled' = relayKilled + 1
  /\ UNCHANGED <<thr, turn, forkFlag, batonSet, batonAdj, printed>>

RerunRelay ==
  /\ relay = "killed"
  /\ relay' = "semget"
  /\ thr' = [i \in Runner |-> "new"]
  /\ turn' = [i \in Runner |-> 0]
  /\ forkFlag' \in 0 .. 2
  /\ batonAdj' = 0
  /\ printed' = <<>>
  /\ UNCHANGED <<ipcrm, batonSet, baton, relayKilled>>

RelayNext ==
  \/ RelayMain
  \/ ChildIpcrm
  \/ \E i \in Runner : thrfunc(i)
  \/ KillRelay
  \/ RerunRelay

RelaySpec == RelayInit /\ [][RelayNext]_relayVars

----------------------------------------------------------------------------
(* Properties.                                                             *)

RelayTypeOK ==
  /\ relay \in RelaySteps
  /\ thr \in [Runner -> RunnerSteps]
  /\ turn \in [Runner -> Nat]
  /\ forkFlag \in 0 .. 2
  /\ ipcrm \in {"none", "forked", "ended"}
  /\ batonSet \in {"none", "live"}
  /\ baton \in Nat
  /\ batonAdj \in Int
  /\ printed \in Seq(Runner)
  /\ relayKilled \in Nat

(* l.47-49: with one turn each the numbers come out in order although the  *)
(* threads were created, and may wake up, in any other, also in a run on   *)
(* the set of a killed one; and when the program has ended all the numbers *)
(* are out and the set is removed.                                         *)
BatonInOrder ==
  /\ MAX_TURNS = 1 => \A k \in 1 .. Len(printed) : printed[k] = k - 1
  /\ relay = "ended" => Len(printed) = RUNNERS * MAX_TURNS /\ batonSet = "none"

(* A run that is not killed reaches its end.                               *)
RelayEnds == []<>~RelayAlive
=============================================================================
