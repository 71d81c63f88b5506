-------------------------------- MODULE Lab8 --------------------------------
(***************************************************************************)
(* 8/lab8.c (and its copy 8/phil8.c): the forks are semaphores, and a      *)
(* philosopher holds a monitor semaphore from before it waits for its      *)
(* first fork until it has the second.  It takes the fork with the lower   *)
(* number first, puts the second down first, and leaves when it has eaten  *)
(* more than MAX times.                                                    *)
(***************************************************************************)
EXTENDS Forks

CONSTANT MAX      \* 100000 in the file

ASSUME Lab8Assumption == MAX \in Nat

VARIABLES
  main,      \* where main() is
  pc,        \* where each philosopher is
  monitor,   \* the value of the monitor semaphore
  forks,     \* the values of the fork semaphores
  eat        \* meals eaten by each

lab8Vars == <<main, pc, monitor, forks, eat>>

PhilSteps == {"new", "monitor", "first", "second", "post monitor", "eat",
              "put second", "put first", "done"}

(* the two forks, sorted *)
First(p)  == IF Left(p) < Right(p) THEN Left(p) ELSE Right(p)
Second(p) == IF Left(p) < Right(p) THEN Right(p) ELSE Left(p)

Lab8Init ==
  /\ main = "sem_init"
  /\ pc = [p \in Phils |-> "new"]
  /\ monitor = 0
  /\ forks = [f \in Phils |-> 0]
  /\ eat = [p \in Phils |-> 0]

SemInit ==
  /\ main = "sem_init" /\ main' = "create"
  /\ monitor' = 1
  /\ forks' = [f \in Phils |-> 1]
  /\ UNCHANGED <<pc, eat>>

(* the threads are created in the order of their numbers *)
Create(p) ==
  /\ main = "create"
  /\ pc[p] = "new" /\ \A q \in 0..(p-1) : pc[q] # "new"
  /\ pc' = [pc EXCEPT ![p] = "monitor"]
  /\ main' = IF p = N-1 THEN "join" ELSE "create"
  /\ UNCHANGED <<monitor, forks, eat>>

Join ==
  /\ main = "join" /\ main' = "exited"
  /\ \A p \in Phils : pc[p] = "done"
  /\ UNCHANGED <<pc, monitor, forks, eat>>

Lab8Main == SemInit \/ (\E p \in Phils : Create(p)) \/ Join

Goto(p, from, to) ==
  /\ pc[p] = from
  /\ pc' = [pc EXCEPT ![p] = to]
  /\ UNCHANGED main

(* sem_wait and sem_post on a fork *)
TakeFork(f) == forks[f] > 0 /\ forks' = [forks EXCEPT ![f] = @ - 1]
PutFork(f)  == forks' = [forks EXCEPT ![f] = @ + 1]

(* mutant: the monitor is not held while the forks are picked up *)
WaitMonitor_peek(p) ==
  /\ Goto(p, "monitor", "first")
  /\ monitor > 0
  /\ UNCHANGED <<monitor, forks, eat>>

WaitMonitor(p) ==
  /\ Goto(p, "monitor", "first")
  /\ monitor > 0
  /\ monitor' = monitor - 1
  /\ UNCHANGED <<forks, eat>>

PickFirst(p) ==
  /\ Goto(p, "first", "second")
  /\ TakeFork(First(p))
  /\ UNCHANGED <<monitor, eat>>

PickSecond(p) ==
  /\ Goto(p, "second", "post monitor")
  /\ TakeFork(Second(p))
  /\ UNCHANGED <<monitor, eat>>

PostMonitor(p) ==
  /\ Goto(p, "post monitor", "eat")
  /\ monitor' = monitor + 1
  /\ UNCHANGED <<forks, eat>>

Eat(p) ==
  /\ Goto(p, "eat", "put second")
  /\ eat' = [eat EXCEPT ![p] = @ + 1]
  /\ UNCHANGED <<monitor, forks>>

PutSecond(p) ==
  /\ Goto(p, "put second", "put first")
  /\ PutFork(Second(p))
  /\ UNCHANGED <<monitor, eat>>

(* mutant: the first fork is taken for the second one *)
PutFirst_second(p) ==
  /\ Goto(p, "put first", IF eat[p] > MAX THEN "done" ELSE "monitor")
  /\ PutFork(Second(p))
  /\ UNCHANGED <<monitor, eat>>

PutFirst(p) ==
  /\ Goto(p, "put first", IF eat[p] > MAX THEN "done" ELSE "monitor")
  /\ PutFork(First(p))
  /\ UNCHANGED <<monitor, eat>>

philosopher(p) ==
  \/ WaitMonitor(p) \/ PickFirst(p) \/ PickSecond(p) \/ PostMonitor(p)
  \/ Eat(p) \/ PutSecond(p) \/ PutFirst(p)

Lab8Next == Lab8Main \/ \E p \in Phils : philosopher(p)

Lab8Spec == Lab8Init /\ [][Lab8Next]_lab8Vars

----------------------------------------------------------------------------
(* Properties.                                                             *)

Lab8TypeOK ==
  /\ main \in {"sem_init", "create", "join", "exited"}
  /\ pc \in [Phils -> PhilSteps]
  /\ monitor \in Nat
  /\ forks \in [Phils -> Nat]
  /\ eat \in [Phils -> Nat]

Eating == {p \in Phils : pc[p] \in {"post monitor", "eat", "put second"}}
HasOnlyFirst == {p \in Phils : pc[p] \in {"second", "put first"}}

(* The forks a philosopher holds. *)
Holds(p) == IF p \in Eating THEN {First(p), Second(p)}
            ELSE IF p \in HasOnlyFirst THEN {First(p)} ELSE {}

(* Nobody eats with a fork that a neighbour uses.                          *)
Lab8Table == INSTANCE Table WITH eating <- Eating, meals <- eat
Lab8KeepsTable == Lab8Table!Spec

(* Why lab8 cannot deadlock: a philosopher that waits for a fork waits for *)
(* one whose holder waits for nothing.                                     *)
WaitsOnlyForEaters ==
  \A p, q \in Phils :
    \/ pc[p] = "first" /\ First(p) \in Holds(q)
    \/ pc[p] = "second" /\ Second(p) \in Holds(q)
    => pc[q] \notin {"monitor", "first", "second"}

(* All philosophers eat their fill and main() joins them.                  *)
Lab8Ends == <>(main = "exited")
=============================================================================
