------------------------------- MODULE Dining -------------------------------
(***************************************************************************)
(* 8/dining.c: the forks are mutexes.  A philosopher locks its left fork   *)
(* and tries the right one.  When that fails it unlocks the left fork,     *)
(* swaps the two and starts again; after two failures it blocks on the     *)
(* other fork with the first in its hand.                                  *)
(***************************************************************************)
EXTENDS Forks

CONSTANT LIMIT      \* times each philosopher gets to eat (5 in the file)

ASSUME DiningAssumption == LIMIT \in Nat \ {0}

VARIABLES
  at,           \* where each philosopher is
  forklft,      \* the fork it locks first in this attempt
  tries_left,   \* attempts before it blocks on the second fork
  turn_cnt,     \* turns left
  mutex,        \* the philosopher that has locked each fork, or free
  cnt           \* times each philosopher ate

diningVars == <<at, forklft, tries_left, turn_cnt, mutex, cnt>>

free == N
DiningSteps == {"new", "lock left", "right", "give up", "eat",
                "unlock right", "unlock left", "exit"}

forkrgt(p) == IF forklft[p] = Left(p) THEN Right(p) ELSE Left(p)

DiningInit ==
  /\ at = [p \in Phils |-> "new"]
  /\ forklft = [p \in Phils |-> Left(p)]
  /\ tries_left = [p \in Phils |-> 2]
  /\ turn_cnt = [p \in Phils |-> LIMIT]
  /\ mutex = [f \in Phils |-> free]
  /\ cnt = [p \in Phils |-> 0]

DiningGoto(p, from, to) ==
  /\ at[p] = from
  /\ at' = [at EXCEPT ![p] = to]

(* main() creates the threads in the order of their numbers *)
CreatePhil(p) ==
  /\ \A q \in 0..(p-1) : at[q] # "new"
  /\ DiningGoto(p, "new", "lock left")
  /\ UNCHANGED <<forklft, tries_left, turn_cnt, mutex, cnt>>

LockLeft(p) ==
  /\ DiningGoto(p, "lock left", "right")
  /\ mutex[forklft[p]] = free
  /\ mutex' = [mutex EXCEPT ![forklft[p]] = p]
  /\ UNCHANGED <<forklft, tries_left, turn_cnt, cnt>>

(* trylock succeeds, or the lock of the third attempt is granted *)
GetRight(p) ==
  /\ DiningGoto(p, "right", "eat")
  /\ mutex[forkrgt(p)] = free
  /\ mutex' = [mutex EXCEPT ![forkrgt(p)] = p]
  /\ UNCHANGED <<forklft, tries_left, turn_cnt, cnt>>

(* mutant: no attempt is the last one *)
TryRightFails_forever(p) ==
  /\ mutex[forkrgt(p)] # free
  /\ DiningGoto(p, "right", "give up")
  /\ UNCHANGED <<forklft, tries_left, turn_cnt, mutex, cnt>>

(* mutant: a failed trylock is taken for success *)
TryRightFails_eats(p) ==
  /\ tries_left[p] > 0
  /\ mutex[forkrgt(p)] # free
  /\ DiningGoto(p, "right", "eat")
  /\ UNCHANGED <<forklft, tries_left, turn_cnt, mutex, cnt>>

TryRightFails(p) ==
  /\ tries_left[p] > 0
  /\ mutex[forkrgt(p)] # free
  /\ DiningGoto(p, "right", "give up")
  /\ UNCHANGED <<forklft, tries_left, turn_cnt, mutex, cnt>>

(* mutant: the left fork stays locked *)
GiveUp_keeps(p) ==
  /\ DiningGoto(p, "give up", "lock left")
  /\ forklft' = [forklft EXCEPT ![p] = forkrgt(p)]
  /\ tries_left' = [tries_left EXCEPT ![p] = @ - 1]
  /\ UNCHANGED <<turn_cnt, mutex, cnt>>

GiveUp(p) ==
  /\ DiningGoto(p, "give up", "lock left")
  /\ mutex' = [mutex EXCEPT ![forklft[p]] = free]
  /\ forklft' = [forklft EXCEPT ![p] = forkrgt(p)]
  /\ tries_left' = [tries_left EXCEPT ![p] = @ - 1]
  /\ UNCHANGED <<turn_cnt, cnt>>

TakeTurn(p) ==
  /\ DiningGoto(p, "eat", "unlock right")
  /\ cnt' = [cnt EXCEPT ![p] = @ + 1]
  /\ UNCHANGED <<forklft, tries_left, turn_cnt, mutex>>

UnlockRight(p) ==
  /\ DiningGoto(p, "unlock right", "unlock left")
  /\ mutex' = [mutex EXCEPT ![forkrgt(p)] = free]
  /\ UNCHANGED <<forklft, tries_left, turn_cnt, cnt>>

UnlockLeft(p) ==
  /\ DiningGoto(p, "unlock left", IF turn_cnt[p] > 1 THEN "lock left" ELSE "exit")
  /\ mutex' = [mutex EXCEPT ![forklft[p]] = free]
  /\ turn_cnt' = [turn_cnt EXCEPT ![p] = @ - 1]
  /\ forklft' = [forklft EXCEPT ![p] = Left(p)]
  /\ tries_left' = [tries_left EXCEPT ![p] = 2]
  /\ UNCHANGED cnt

philfunc(p) ==
  \/ LockLeft(p) \/ GetRight(p) \/ TryRightFails(p) \/ GiveUp(p)
  \/ TakeTurn(p) \/ UnlockRight(p) \/ UnlockLeft(p)

DiningNext == \E p \in Phils : CreatePhil(p) \/ philfunc(p)

DiningSpec == DiningInit /\ [][DiningNext]_diningVars

DiningFairSpec ==
  /\ DiningSpec
  /\ \A p \in Phils :
       WF_diningVars(CreatePhil(p)) /\ WF_diningVars(philfunc(p))

----------------------------------------------------------------------------
(* Properties.                                                             *)

DiningTypeOK ==
  /\ at \in [Phils -> DiningSteps]
  /\ forklft \in [Phils -> Phils]
  /\ tries_left \in [Phils -> 0..2]
  /\ turn_cnt \in [Phils -> 0..LIMIT]
  /\ mutex \in [Phils -> Phils \cup {free}]
  /\ cnt \in [Phils -> 0..LIMIT]

(* Nobody eats with a fork that a neighbour uses.                          *)
DiningTable == INSTANCE Table WITH
  eating <- {p \in Phils : at[p] \in {"eat", "unlock right"}},
  meals  <- cnt
DiningKeepsTable == DiningTable!Spec

(* Header, l.4: "a solution to the dining philosophers problem", and l.32: *)
(* the counts are there "to verify no starvation".                         *)
EveryoneEats == <>(\A p \in Phils : cnt[p] = LIMIT)

(* Everyone blocks on the second fork with the first one locked. *)
FullCircle ==
  \A p \in Phils : at[p] = "right" /\ tries_left[p] = 0

(* Nothing but a full circle keeps them from eating: as long as one of     *)
(* them still tries, or has left the table, the others get their turns.    *)
EatsUnlessFullCircle == <>(FullCircle \/ \A p \in Phils : at[p] = "exit")
=============================================================================
