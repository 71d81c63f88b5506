-------------------------------- MODULE Mine --------------------------------
(***************************************************************************)
(* 6/mine.c: the otter (main) and the seagull (a thread) take turns by two *)
(* semaphores, each grabbing with the array {other =0, own -1} and handing *)
(* over with {other +1}.  Every sembuf is local and constant, and every    *)
(* operation is under SEM_UNDO.                                            *)
(*                                                                         *)
(* The set has a key: it outlives a process that is killed, and the next   *)
(* run finds it.  On a death the kernel adds each semaphore's adjustment   *)
(* (minus the operations performed since the last SETVAL).                 *)
(***************************************************************************)
EXTENDS Integers

CONSTANTS
  FISH,       \* LIMIT of the file (10): rounds of each
  MaxKills    \* bound on the number of times the process is killed

ASSUME MineAssumption == FISH \in Nat /\ MaxKills \in Nat

OTTER == 0
SEAGULL == 1
Sems == {OTTER, SEAGULL}
Rival(me) == 1 - me
MineSteps == {"new", "semget", "SETVAL 0", "SETVAL 1", "create",
              "grab", "write", "yours", "exit"}

VARIABLES
  alive,      \* "running", "killed" or "ended"
  at,         \* where the otter (main) and the seagull are
  rounds,     \* the count of each
  set,        \* does the keyed semaphore set exist: "none" or "live"
  val,        \* the semaphore values
  semadj,     \* the adjustments of the process
  kills       \* number of times a process was killed

mineVars == <<alive, at, rounds, set, val, semadj, kills>>

Start == [me \in Sems |-> IF me = OTTER THEN "semget" ELSE "new"]
Zeros == [s \in Sems |-> 0]

MineInit ==
  /\ alive = "running"
  /\ at = Start
  /\ rounds = Zeros
  /\ set = "none"
  /\ val = Zeros
  /\ semadj = Zeros
  /\ kills = 0

MineGoto(me, from, to) ==
  /\ alive = "running"
  /\ at[me] = from
  /\ at' = [at EXCEPT ![me] = to]
  /\ UNCHANGED <<alive, kills>>

MineLoop(n) == IF n = FISH THEN "exit" ELSE "grab"

----------------------------------------------------------------------------
(* the set of the key: created with zeroes, or the one already there *)
Semget ==
  /\ MineGoto(OTTER, "semget", "SETVAL 0")
  /\ set' = "live"
  /\ val' = IF set = "none" THEN Zeros ELSE val
  /\ UNCHANGED <<rounds, semadj>>

(* mutant: a run relies on the values it finds *)
SetVal_skipped(s, n, from, to) ==
  /\ MineGoto(OTTER, from, to)
  /\ UNCHANGED <<rounds, set, val, semadj>>

(* SETVAL also clears the adjustments of the semaphore. *)
SetVal(s, n, from, to) ==
  /\ MineGoto(OTTER, from, to)
  /\ val' = [val EXCEPT ![s] = n]
  /\ semadj' = [semadj EXCEPT ![s] = 0]
  /\ UNCHANGED <<rounds, set>>

CreateSeagull ==
  /\ alive = "running"
  /\ at[OTTER] = "create"
  /\ at' = [me \in Sems |-> MineLoop(0)]
  /\ UNCHANGED <<alive, rounds, set, val, semadj, kills>>

(* mutant: IPC_NOWAIT, and the result is not looked at *)
GrabMine_nowait(me) ==
  /\ MineGoto(me, "grab", "write")
  /\ \/ /\ val[Rival(me)] = 0 /\ val[me] >= 1
        /\ val' = [val EXCEPT ![me] = @ - 1]
        /\ semadj' = [semadj EXCEPT ![me] = @ + 1]
     \/ /\ val[Rival(me)] # 0 \/ val[me] < 1
        /\ UNCHANGED <<val, semadj>>
  /\ UNCHANGED <<rounds, set>>

GrabMine(me) ==
  /\ MineGoto(me, "grab", "write")
  /\ val[Rival(me)] = 0 /\ val[me] >= 1
  /\ val' = [val EXCEPT ![me] = @ - 1]
  /\ semadj' = [semadj EXCEPT ![me] = @ + 1]
  /\ UNCHANGED <<rounds, set>>

Write(me) ==
  /\ MineGoto(me, "write", "yours")
  /\ rounds' = [rounds EXCEPT ![me] = @ + 1]
  /\ UNCHANGED <<set, val, semadj>>

(* mutant: yours without SEM_UNDO *)
GiveYours_no_undo(me) ==
  /\ MineGoto(me, "yours", MineLoop(rounds[me]))
  /\ val' = [val EXCEPT ![Rival(me)] = @ + 1]
  /\ UNCHANGED <<rounds, set, semadj>>

GiveYours(me) ==
  /\ MineGoto(me, "yours", MineLoop(rounds[me]))
  /\ val' = [val EXCEPT ![Rival(me)] = @ + 1]
  /\ semadj' = [semadj EXCEPT ![Rival(me)] = @ - 1]
  /\ UNCHANGED <<rounds, set>>

Animal(me) == GrabMine(me) \/ Write(me) \/ GiveYours(me)

(* pthread_join, IPC_RMID, and the end of the process *)
Cleanup ==
  /\ alive = "running"
  /\ \A me \in Sems : at[me] = "exit"
  /\ alive' = "ended"
  /\ set' = "none"
  /\ UNCHANGED <<at, rounds, val, semadj, kills>>

(* SEM_UNDO never takes a value below zero. *)
Kill ==
  /\ alive = "running"
  /\ kills < MaxKills
  /\ kills' = kills + 1
  /\ alive' = "killed"
  /\ val' = [s \in Sems |-> IF val[s] + semadj[s] < 0 THEN 0
                            ELSE val[s] + semadj[s]]
  /\ UNCHANGED <<at, rounds, set, semadj>>

(* the program is started again *)
Rerun ==
  /\ alive # "running"
  /\ alive' = "running"
  /\ at' = Start
  /\ rounds' = Zeros
  /\ semadj' = Zeros
  /\ UNCHANGED <<set, val, kills>>

MineMain ==
  \/ Semget
  \/ SetVal(OTTER, 1, "SETVAL 0", "SETVAL 1")
  \/ SetVal(SEAGULL, 0, "SETVAL 1", "create")
  \/ CreateSeagull
  \/ Cleanup

MineNext ==
  \/ MineMain
  \/ \E me \in Sems : Animal(me)
  \/ Kill
  \/ Rerun

MineSpec == MineInit /\ [][MineNext]_mineVars

MineFairSpec ==
  /\ MineSpec
  /\ WF_mineVars(MineMain)
  /\ \A me \in Sems : WF_mineVars(Animal(me))

----------------------------------------------------------------------------
(* Properties.                                                             *)

MineTypeOK ==
  /\ alive \in {"running", "killed", "ended"}
  /\ at \in [Sems -> MineSteps]
  /\ rounds \in [Sems -> 0..FISH]
  /\ set \in {"none", "live"}
  /\ val \in [Sems -> {0, 1}]
  /\ semadj \in [Sems -> Int]
  /\ kills \in 0..MaxKills

(* Otter and seagull write in strict alternation, in the first run and in  *)
(* every run that finds the set a killed one left.                         *)
MineTurns == INSTANCE Handoff WITH
  turns <- "kept",
  given <- rounds[OTTER],
  taken <- rounds[SEAGULL]

MineTakesTurns == MineTurns!Spec

(* However a process dies once the values are set, SEM_UNDO leaves the set *)
(* with the values a run begins with.                                      *)
UndoRestores ==
  alive = "killed" /\ at[OTTER] \notin {"semget", "SETVAL 0", "SETVAL 1"} =>
    val[OTTER] = 1 /\ val[SEAGULL] = 0

(* A run that is not killed comes to its end, whatever it found.           *)
MineEnds == alive = "running" ~> alive # "running"
=============================================================================
