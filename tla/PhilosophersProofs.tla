------------------------ MODULE PhilosophersProofs ------------------------
(***************************************************************************)
(* Proofs about lab8 and dining, for a table of any size and any number of *)
(* meals: nobody shares a fork and, in lab8, nobody waits in a circle;     *)
(* both keep the promise of Table.  That all eat in dining does not hold   *)
(* (five first forks close the circle).                                    *)
(***************************************************************************)
EXTENDS Philosophers, TLAPS

----------------------------------------------------------------------------
(* lab8.                                                                   *)

(* The forks of a philosopher are two different forks. *)
LEMMA Lab8TwoForks ==
  ASSUME NEW p \in Phils
  PROVE  /\ First(p) \in Phils /\ Second(p) \in Phils
         /\ First(p) # Second(p)
         /\ ForksOf(p) = {First(p), Second(p)}
BY ForksAssumption DEF Phils, First, Second, Left, Right, ForksOf

MainSteps == {"sem_init", "create", "join", "exited"}

LEMMA Lab8StepNames ==
  /\ {"new", "monitor", "first", "second", "post monitor", "eat", "put second",
      "put first", "done"} \subseteq PhilSteps
  /\ {"sem_init", "create", "join", "exited"} \subseteq MainSteps
BY DEF PhilSteps, MainSteps

(* The types, with the enumerations kept by name. *)
TypeInv ==
  /\ main \in MainSteps
  /\ pc \in [Phils -> PhilSteps]
  /\ monitor \in Nat
  /\ forks \in [Phils -> Nat]
  /\ eat \in [Phils -> Nat]

(* Every step of a philosopher moves its pc alone. *)
LEMMA PhilStep ==
  ASSUME TypeInv, NEW p \in Phils, philosopher(p)
  PROVE  /\ UNCHANGED main
         /\ \E to \in PhilSteps : pc' = [pc EXCEPT ![p] = to]
<1> USE Lab8StepNames DEF Goto
<1>1. CASE WaitMonitor(p)
  BY <1>1 DEF WaitMonitor
<1>2. CASE PickFirst(p)
  BY <1>2 DEF PickFirst
<1>3. CASE PickSecond(p)
  BY <1>3 DEF PickSecond
<1>4. CASE PostMonitor(p)
  BY <1>4 DEF PostMonitor
<1>5. CASE Eat(p)
  BY <1>5 DEF Eat
<1>6. CASE PutSecond(p)
  BY <1>6 DEF PutSecond
<1>7. CASE PutFirst(p)
  BY <1>7 DEF PutFirst
<1>8. QED
  BY <1>1, <1>2, <1>3, <1>4, <1>5, <1>6, <1>7 DEF philosopher

(* sem_wait and sem_post on a fork *)
LEMMA ForkTypes ==
  ASSUME forks \in [Phils -> Nat], NEW f \in Phils, TakeFork(f) \/ PutFork(f)
  PROVE  /\ forks' \in [Phils -> Nat]
         /\ \A g \in Phils : g # f => forks'[g] = forks[g]
         /\ TakeFork(f) => forks[f] > 0 /\ forks'[f] = forks[f] - 1
         /\ PutFork(f) => forks'[f] = forks[f] + 1
<1>1. forks[f] \in Nat
  OBVIOUS
<1>2. CASE TakeFork(f)
  <2>1. forks[f] > 0 /\ forks' = [forks EXCEPT ![f] = forks[f] - 1]
    BY <1>2 DEF TakeFork
  <2>2. forks[f] - 1 \in Nat
    BY <1>1, <2>1
  <2>3. PutFork(f) => forks'[f] = forks[f] + 1
    BY DEF PutFork
  <2>4. QED
    BY <2>1, <2>2, <2>3
<1>3. CASE PutFork(f)
  <2>1. forks' = [forks EXCEPT ![f] = forks[f] + 1]
    BY <1>3 DEF PutFork
  <2>2. TakeFork(f) => forks[f] > 0 /\ forks'[f] = forks[f] - 1
    BY DEF TakeFork
  <2>3. QED
    BY <1>1, <2>1, <2>2
<1>4. QED
  BY <1>2, <1>3

LEMMA TypeStep ==
  ASSUME TypeInv, [Lab8Next]_lab8Vars
  PROVE  TypeInv'
<1>1. CASE Lab8Main
  <2>1. main' \in MainSteps
    BY <1>1, Lab8StepNames DEF Lab8Main, SemInit, Create, Join
  <2>2. pc' \in [Phils -> PhilSteps]
    BY <1>1, Lab8StepNames DEF Lab8Main, SemInit, Create, Join, TypeInv
  <2>3. monitor' \in Nat /\ forks' \in [Phils -> Nat] /\ eat' \in [Phils -> Nat]
    BY <1>1 DEF Lab8Main, SemInit, Create, Join, TypeInv
  <2>4. QED
    BY <2>1, <2>2, <2>3 DEF TypeInv
<1>2. ASSUME NEW p \in Phils, philosopher(p) PROVE TypeInv'
  <2>1. main' \in MainSteps /\ pc' \in [Phils -> PhilSteps]
    BY <1>2, PhilStep DEF TypeInv
  <2>2. /\ monitor \in Nat /\ forks \in [Phils -> Nat] /\ eat \in [Phils -> Nat]
        /\ First(p) \in Phils /\ Second(p) \in Phils
        /\ monitor + 1 \in Nat /\ eat[p] + 1 \in Nat
    BY Lab8TwoForks DEF TypeInv
  <2>3. monitor' \in Nat /\ forks' \in [Phils -> Nat] /\ eat' \in [Phils -> Nat]
    <3>1. CASE WaitMonitor(p)
      BY <2>2, <3>1 DEF WaitMonitor
    <3>2. CASE PostMonitor(p)
      BY <2>2, <3>2 DEF PostMonitor
    <3>3. CASE PickFirst(p) \/ PutFirst(p)
      BY <2>2, <3>3, ForkTypes DEF PickFirst, PutFirst
    <3>4. CASE PickSecond(p) \/ PutSecond(p)
      BY <2>2, <3>4, ForkTypes DEF PickSecond, PutSecond
    <3>5. CASE Eat(p)
      BY <2>2, <3>5 DEF Eat
    <3>6. QED
      BY <1>2, <3>1, <3>2, <3>3, <3>4, <3>5 DEF philosopher
  <2>4. QED
    BY <2>1, <2>3 DEF TypeInv
<1>3. CASE UNCHANGED lab8Vars
  BY <1>3 DEF lab8Vars, TypeInv
<1>4. QED
  BY <1>1, <1>2, <1>3 DEF Lab8Next

(* The variables keep their types.                                         *)
THEOREM Lab8TypeCorrect == Lab8Spec => []Lab8TypeOK
<1>1. Lab8Init => TypeInv
  <2> SUFFICES ASSUME Lab8Init PROVE TypeInv
    OBVIOUS
  <2>1. main \in MainSteps /\ pc \in [Phils -> PhilSteps]
    BY Lab8StepNames DEF Lab8Init
  <2>2. QED
    BY <2>1 DEF Lab8Init, TypeInv
<1>2. TypeInv /\ [Lab8Next]_lab8Vars => TypeInv'
  BY TypeStep
<1>3. TypeInv => Lab8TypeOK
  BY DEF TypeInv, Lab8TypeOK, MainSteps
<1>4. QED
  BY <1>1, <1>2, <1>3, PTL DEF Lab8Spec

----------------------------------------------------------------------------
(* The monitor admits one philosopher, and a fork is in one hand.          *)

Critical == {"first", "second", "post monitor"}
Both     == {"post monitor", "eat", "put second"}
OnlyOne  == {"second", "put first"}

MonitorInv ==
  \A p, q \in Phils :
    pc[p] \in Critical => monitor = 0 /\ (pc[q] \in Critical => p = q)

ForkInv ==
  \A p, q \in Phils : \A f \in Phils :
    f \in Holds(p) => forks[f] = 0 /\ (f \in Holds(q) => p = q)

StartInv ==
  main = "sem_init" => \A p \in Phils : pc[p] = "new"

Inv ==
  /\ TypeInv
  /\ StartInv
  /\ main # "sem_init" => monitor <= 1 /\ \A f \in Phils : forks[f] <= 1
  /\ MonitorInv
  /\ ForkInv

(* What a philosopher holds, by its pc. *)
LEMMA HoldsByPc ==
  ASSUME NEW p \in Phils
  PROVE  /\ pc[p] \in Both => Holds(p) = {First(p), Second(p)}
         /\ pc[p] \in OnlyOne => Holds(p) = {First(p)}
         /\ pc[p] \notin Both \cup OnlyOne => Holds(p) = {}
BY DEF Holds, Eating, HasOnlyFirst, Both, OnlyOne

LEMMA HoldsByPcPrime ==
  ASSUME NEW p \in Phils
  PROVE  /\ pc'[p] \in Both => Holds(p)' = {First(p), Second(p)}
         /\ pc'[p] \in OnlyOne => Holds(p)' = {First(p)}
         /\ pc'[p] \notin Both \cup OnlyOne => Holds(p)' = {}
         /\ pc'[p] = pc[p] => Holds(p)' = Holds(p)
BY DEF Holds, Eating, HasOnlyFirst, Both, OnlyOne

(* The steps of a philosopher, in and out of the sets above. *)
LEMMA SetNames ==
  /\ {"new", "monitor", "eat", "put second", "put first", "done"} \cap Critical = {}
  /\ {"first", "second", "post monitor"} \subseteq Critical
  /\ {"post monitor", "eat", "put second"} \subseteq Both
  /\ {"new", "monitor", "first", "second", "put first", "done"} \cap Both = {}
  /\ {"second", "put first"} \subseteq OnlyOne
  /\ {"new", "monitor", "first", "post monitor", "eat", "put second", "done"}
       \cap OnlyOne = {}
BY DEF Critical, Both, OnlyOne

(* A step that keeps a philosopher's hands as they are keeps ForkInv. *)
LEMMA SameHands ==
  ASSUME ForkInv, UNCHANGED forks, \A p \in Phils : Holds(p)' = Holds(p)
  PROVE  ForkInv'
BY DEF ForkInv

(* Taking a fork that is there keeps ForkInv. *)
LEMMA Taken ==
  ASSUME TypeInv, ForkInv, NEW p \in Phils, NEW f \in Phils,
         forks[f] <= 1, TakeFork(f),
         Holds(p)' = Holds(p) \cup {f},
         \A q \in Phils : q # p => Holds(q)' = Holds(q)
  PROVE  ForkInv' /\ forks'[f] = 0
<1>1. /\ forks[f] > 0 /\ forks[f] \in Nat /\ forks'[f] = forks[f] - 1
      /\ \A g \in Phils : g # f => forks'[g] = forks[g]
  BY ForkTypes DEF TypeInv
<1>2. forks[f] # 0 /\ forks'[f] = 0
  BY <1>1
<1>3. \A q \in Phils : f \notin Holds(q)
  BY <1>2 DEF ForkInv
<1>4. QED
  BY <1>1, <1>2, <1>3 DEF ForkInv

(* Putting down a fork one holds keeps ForkInv. *)
LEMMA Put ==
  ASSUME TypeInv, ForkInv, NEW p \in Phils, NEW f \in Phils,
         f \in Holds(p), PutFork(f),
         Holds(p)' = Holds(p) \ {f},
         \A q \in Phils : q # p => Holds(q)' = Holds(q)
  PROVE  ForkInv' /\ forks'[f] = 1
<1>1. /\ forks'[f] = forks[f] + 1
      /\ \A g \in Phils : g # f => forks'[g] = forks[g]
  BY ForkTypes DEF TypeInv
<1>2. forks[f] = 0 /\ \A q \in Phils : f \in Holds(q) => q = p
  BY DEF ForkInv
<1>3. forks'[f] = 1
  BY <1>1, <1>2
<1>4. \A q \in Phils : f \notin Holds(q)'
  BY <1>2
<1>5. QED
  BY <1>1, <1>3, <1>4 DEF ForkInv

(* How each step of a philosopher changes what it holds. *)
LEMMA Hands ==
  ASSUME TypeInv, NEW p \in Phils
  PROVE  /\ philosopher(p) => \A q \in Phils : q # p => Holds(q)' = Holds(q)
         /\ WaitMonitor(p) \/ PostMonitor(p) \/ Eat(p) => Holds(p)' = Holds(p)
         /\ PickFirst(p) => Holds(p)' = Holds(p) \cup {First(p)}
         /\ PickSecond(p) => Holds(p)' = Holds(p) \cup {Second(p)}
         /\ PutSecond(p) => /\ Second(p) \in Holds(p)
                            /\ Holds(p)' = Holds(p) \ {Second(p)}
         /\ PutFirst(p) => /\ First(p) \in Holds(p)
                           /\ Holds(p)' = Holds(p) \ {First(p)}
<1>1. philosopher(p) => \A q \in Phils : q # p => Holds(q)' = Holds(q)
  BY PhilStep, HoldsByPcPrime DEF TypeInv
<1>2. \A from, to : Goto(p, from, to) => pc[p] = from /\ pc'[p] = to
  BY DEF Goto, TypeInv
<1>3. WaitMonitor(p) => Holds(p)' = Holds(p)
  <2> SUFFICES ASSUME WaitMonitor(p) PROVE Holds(p)' = Holds(p)
    OBVIOUS
  <2>1. pc[p] = "monitor" /\ pc'[p] = "first"
    BY <1>2 DEF WaitMonitor
  <2>2. Holds(p) = {} /\ Holds(p)' = {}
    BY <2>1, HoldsByPc, HoldsByPcPrime, SetNames
  <2>3. QED
    BY <2>2
<1>4. PostMonitor(p) => Holds(p)' = Holds(p)
  <2> SUFFICES ASSUME PostMonitor(p) PROVE Holds(p)' = Holds(p)
    OBVIOUS
  <2>1. pc[p] = "post monitor" /\ pc'[p] = "eat"
    BY <1>2 DEF PostMonitor
  <2>2. Holds(p) = {First(p), Second(p)} /\ Holds(p)' = {First(p), Second(p)}
    BY <2>1, HoldsByPc, HoldsByPcPrime, SetNames
  <2>3. QED
    BY <2>2
<1>5. Eat(p) => Holds(p)' = Holds(p)
  <2> SUFFICES ASSUME Eat(p) PROVE Holds(p)' = Holds(p)
    OBVIOUS
  <2>1. pc[p] = "eat" /\ pc'[p] = "put second"
    BY <1>2 DEF Eat
  <2>2. Holds(p) = {First(p), Second(p)} /\ Holds(p)' = {First(p), Second(p)}
    BY <2>1, HoldsByPc, HoldsByPcPrime, SetNames
  <2>3. QED
    BY <2>2
<1>6. PickFirst(p) => Holds(p)' = Holds(p) \cup {First(p)}
  <2> SUFFICES ASSUME PickFirst(p) PROVE Holds(p)' = Holds(p) \cup {First(p)}
    OBVIOUS
  <2>1. pc[p] = "first" /\ pc'[p] = "second"
    BY <1>2 DEF PickFirst
  <2>2. Holds(p) = {} /\ Holds(p)' = {First(p)}
    BY <2>1, HoldsByPc, HoldsByPcPrime, SetNames
  <2>3. QED
    BY <2>2
<1>7. PickSecond(p) => Holds(p)' = Holds(p) \cup {Second(p)}
  <2> SUFFICES ASSUME PickSecond(p) PROVE Holds(p)' = Holds(p) \cup {Second(p)}
    OBVIOUS
  <2>1. pc[p] = "second" /\ pc'[p] = "post monitor"
    BY <1>2 DEF PickSecond
  <2>2. Holds(p) = {First(p)}
    BY <2>1, HoldsByPc, SetNames
  <2>3. Holds(p)' = {First(p), Second(p)}
    BY <2>1, HoldsByPcPrime, SetNames
  <2>4. QED
    BY <2>2, <2>3
<1>8. PutSecond(p) => Second(p) \in Holds(p) /\ Holds(p)' = Holds(p) \ {Second(p)}
  <2> SUFFICES ASSUME PutSecond(p)
               PROVE  Second(p) \in Holds(p) /\ Holds(p)' = Holds(p) \ {Second(p)}
    OBVIOUS
  <2>1. pc[p] = "put second" /\ pc'[p] = "put first"
    BY <1>2 DEF PutSecond
  <2>2. Holds(p) = {First(p), Second(p)}
    BY <2>1, HoldsByPc, SetNames
  <2>3. Holds(p)' = {First(p)}
    BY <2>1, HoldsByPcPrime, SetNames
  <2>4. QED
    BY <2>2, <2>3, Lab8TwoForks
<1>9. PutFirst(p) => First(p) \in Holds(p) /\ Holds(p)' = Holds(p) \ {First(p)}
  BY <1>2, HoldsByPc, HoldsByPcPrime, SetNames DEF PutFirst
<1>10. WaitMonitor(p) \/ PostMonitor(p) \/ Eat(p) => Holds(p)' = Holds(p)
  BY <1>3, <1>4, <1>5
<1>11. QED
  BY <1>1, <1>6, <1>7, <1>8, <1>9, <1>10

(* No step of a philosopher takes a fork that is not there, or puts one    *)
(* back that is.                                                           *)
LEMMA ForkStep ==
  ASSUME Inv, NEW p \in Phils, philosopher(p), main # "sem_init"
  PROVE  ForkInv' /\ \A f \in Phils : forks'[f] <= 1
<1>1. TypeInv /\ ForkInv /\ \A f \in Phils : forks[f] <= 1
  BY DEF Inv
<1>2. First(p) \in Phils /\ Second(p) \in Phils
  BY Lab8TwoForks
<1>3. \A f \in Phils : TakeFork(f) \/ PutFork(f) =>
         \A g \in Phils : g # f => forks'[g] = forks[g]
  BY <1>1, ForkTypes DEF TypeInv
<1>4. CASE WaitMonitor(p) \/ PostMonitor(p) \/ Eat(p)
  <2>1. UNCHANGED forks
    BY <1>4 DEF WaitMonitor, PostMonitor, Eat
  <2>2. QED
    BY <1>1, <1>4, <2>1, Hands, SameHands
<1>5. ASSUME NEW f \in {First(p), Second(p)}, TakeFork(f),
             Holds(p)' = Holds(p) \cup {f}
      PROVE  ForkInv' /\ \A g \in Phils : forks'[g] <= 1
  <2>1. ForkInv' /\ forks'[f] = 0
    BY <1>1, <1>2, <1>5, Hands, Taken
  <2>2. \A g \in Phils : g = f \/ forks'[g] <= 1
    BY <1>1, <1>2, <1>3, <1>5
  <2>3. QED
    BY <2>1, <2>2
<1>6. ASSUME NEW f \in {First(p), Second(p)}, PutFork(f),
             f \in Holds(p), Holds(p)' = Holds(p) \ {f}
      PROVE  ForkInv' /\ \A g \in Phils : forks'[g] <= 1
  <2>1. ForkInv' /\ forks'[f] = 1
    BY <1>1, <1>2, <1>6, Hands, Put
  <2>2. \A g \in Phils : g = f \/ forks'[g] <= 1
    BY <1>1, <1>2, <1>3, <1>6
  <2>3. QED
    BY <2>1, <2>2
<1>7. CASE PickFirst(p)
  <2>1. TakeFork(First(p)) /\ Holds(p)' = Holds(p) \cup {First(p)}
    BY <1>1, <1>7, Hands DEF PickFirst
  <2>2. QED
    BY <1>5, <2>1
<1>8. CASE PickSecond(p)
  <2>1. TakeFork(Second(p)) /\ Holds(p)' = Holds(p) \cup {Second(p)}
    BY <1>1, <1>8, Hands DEF PickSecond
  <2>2. QED
    BY <1>5, <2>1
<1>9. CASE PutSecond(p)
  <2>1. /\ PutFork(Second(p)) /\ Second(p) \in Holds(p)
        /\ Holds(p)' = Holds(p) \ {Second(p)}
    BY <1>1, <1>9, Hands DEF PutSecond
  <2>2. QED
    BY <1>6, <2>1
<1>10. CASE PutFirst(p)
  <2>1. /\ PutFork(First(p)) /\ First(p) \in Holds(p)
        /\ Holds(p)' = Holds(p) \ {First(p)}
    BY <1>1, <1>10, Hands DEF PutFirst
  <2>2. QED
    BY <1>6, <2>1
<1>11. QED
  BY <1>4, <1>7, <1>8, <1>9, <1>10 DEF philosopher

(* The monitor is down exactly while somebody picks up forks. *)
LEMMA MonitorStep ==
  ASSUME Inv, NEW p \in Phils, philosopher(p), main # "sem_init"
  PROVE  MonitorInv' /\ monitor' <= 1
<1>1. TypeInv /\ MonitorInv /\ monitor <= 1 /\ monitor \in Nat
  BY DEF Inv, TypeInv
<1>2. \A from, to : Goto(p, from, to) =>
        /\ pc[p] = from /\ pc'[p] = to
        /\ \A q \in Phils : q # p => pc'[q] = pc[q]
  BY <1>1 DEF Goto, TypeInv
<1>3. ASSUME UNCHANGED monitor,
             \A q \in Phils : pc'[q] \in Critical => pc[q] \in Critical
      PROVE  MonitorInv' /\ monitor' <= 1
  BY <1>1, <1>3 DEF MonitorInv
<1>4. CASE WaitMonitor(p)
  <2>1. /\ monitor = 1 /\ monitor' = 0
        /\ \A q \in Phils : q # p => pc'[q] = pc[q]
    <3>1. monitor > 0 /\ monitor' = monitor - 1
      BY <1>4 DEF WaitMonitor
    <3>2. monitor = 1 /\ monitor' = 0
      BY <1>1, <3>1
    <3>3. QED
      BY <1>2, <1>4, <3>2 DEF WaitMonitor
  <2>2. \A q \in Phils : pc[q] \notin Critical
    BY <1>1, <2>1 DEF MonitorInv
  <2>3. QED
    BY <2>1, <2>2 DEF MonitorInv
<1>5. CASE PostMonitor(p)
  <2>1. /\ pc[p] = "post monitor" /\ pc'[p] = "eat" /\ monitor' = monitor + 1
        /\ \A q \in Phils : q # p => pc'[q] = pc[q]
    BY <1>2, <1>5 DEF PostMonitor
  <2>2. pc[p] \in Critical /\ pc'[p] \notin Critical
    BY <2>1, SetNames
  <2>3. monitor = 0 /\ \A q \in Phils : pc[q] \in Critical => q = p
    BY <1>1, <2>2 DEF MonitorInv
  <2>4. \A q \in Phils : pc'[q] \notin Critical
    BY <2>1, <2>2, <2>3
  <2>5. monitor' <= 1
    <3>1. monitor' = monitor + 1 /\ monitor = 0
      BY <2>1, <2>3
    <3>2. QED
      BY <3>1
  <2>6. QED
    BY <2>4, <2>5 DEF MonitorInv
<1>6. CASE PickFirst(p)
  BY <1>2, <1>3, <1>6, SetNames DEF PickFirst
<1>7. CASE PickSecond(p)
  BY <1>2, <1>3, <1>7, SetNames DEF PickSecond
<1>8. CASE Eat(p)
  BY <1>2, <1>3, <1>8, SetNames DEF Eat
<1>9. CASE PutSecond(p)
  BY <1>2, <1>3, <1>9, SetNames DEF PutSecond
<1>10. CASE PutFirst(p)
  BY <1>2, <1>3, <1>10, SetNames DEF PutFirst
<1>11. QED
  BY <1>4, <1>5, <1>6, <1>7, <1>8, <1>9, <1>10 DEF philosopher

LEMMA InvStep ==
  ASSUME Inv, [Lab8Next]_lab8Vars
  PROVE  Inv'
<1>1. TypeInv'
  BY TypeStep DEF Inv
<1>2. CASE Lab8Main
  <2>1. CASE SemInit
    <3>1. /\ main = "sem_init" /\ main' = "create" /\ UNCHANGED pc
          /\ monitor' = 1 /\ forks' = [f \in Phils |-> 1]
      BY <2>1 DEF SemInit
    <3>2. \A p \in Phils : pc'[p] = "new"
      BY <3>1 DEF Inv, StartInv
    <3>3. \A p \in Phils : pc'[p] \notin Critical /\ Holds(p)' = {}
      BY <3>2, HoldsByPcPrime, SetNames
    <3>4. monitor' <= 1 /\ \A f \in Phils : forks'[f] <= 1
      BY <3>1
    <3>5. QED
      BY <1>1, <3>1, <3>3, <3>4 DEF Inv, StartInv, MonitorInv, ForkInv
  <2>2. ASSUME NEW p \in Phils, Create(p) PROVE Inv'
    <3>1. /\ main = "create" /\ main' \in {"create", "join"}
          /\ pc[p] = "new" /\ pc' = [pc EXCEPT ![p] = "monitor"]
          /\ UNCHANGED <<monitor, forks>>
      BY <2>2 DEF Create
    <3>2. \A q \in Phils : /\ pc'[q] \in Critical => pc[q] \in Critical
                           /\ Holds(q)' = Holds(q)
      BY <3>1, SetNames, HoldsByPc, HoldsByPcPrime DEF Inv, TypeInv
    <3>3. ForkInv'
      BY <3>1, <3>2, SameHands DEF Inv
    <3>4. MonitorInv'
      BY <3>1, <3>2 DEF Inv, MonitorInv
    <3>5. main # "sem_init" /\ main' # "sem_init"
      BY <3>1
    <3>6. monitor' <= 1 /\ \A f \in Phils : forks'[f] <= 1
      BY <3>1, <3>5 DEF Inv
    <3>7. QED
      BY <1>1, <3>3, <3>4, <3>5, <3>6 DEF Inv, StartInv
  <2>3. CASE Join
    <3>1. /\ main = "join" /\ main' = "exited"
          /\ UNCHANGED <<pc, monitor, forks>>
      BY <2>3 DEF Join
    <3>2. ForkInv' /\ MonitorInv'
      BY <3>1, HoldsByPcPrime, SameHands DEF Inv, MonitorInv
    <3>3. QED
      BY <1>1, <3>1, <3>2 DEF Inv, StartInv
  <2>4. QED
    BY <1>2, <2>1, <2>2, <2>3 DEF Lab8Main
<1>3. ASSUME NEW p \in Phils, philosopher(p) PROVE Inv'
  <2>1. main' = main /\ main # "sem_init"
    <3>1. main' = main /\ pc[p] # "new"
      BY <1>3 DEF philosopher, WaitMonitor, PickFirst, PickSecond, PostMonitor,
                  Eat, PutSecond, PutFirst, Goto
    <3>2. QED
      BY <3>1 DEF Inv, StartInv
  <2>2. QED
    BY <1>1, <1>3, <2>1, ForkStep, MonitorStep DEF Inv, StartInv
<1>4. CASE UNCHANGED lab8Vars
  <2>1. UNCHANGED <<main, pc, monitor, forks>>
    BY <1>4 DEF lab8Vars
  <2>2. ForkInv' /\ MonitorInv'
    BY <2>1, HoldsByPcPrime, SameHands DEF Inv, MonitorInv
  <2>3. QED
    BY <1>1, <2>1, <2>2 DEF Inv, StartInv
<1>5. QED
  BY <1>2, <1>3, <1>4 DEF Lab8Next

LEMMA InvCorrect == Lab8Spec => []Inv
<1>1. Lab8Init => Inv
  <2> SUFFICES ASSUME Lab8Init PROVE Inv
    OBVIOUS
  <2>1. TypeInv
    <3>1. main \in MainSteps /\ pc \in [Phils -> PhilSteps]
      BY Lab8StepNames DEF Lab8Init
    <3>2. QED
      BY <3>1 DEF Lab8Init, TypeInv
  <2>2. main = "sem_init" /\ \A p \in Phils : pc[p] = "new"
    BY DEF Lab8Init
  <2>3. \A p \in Phils : pc[p] \notin Critical /\ Holds(p) = {}
    BY <2>2, HoldsByPc, SetNames
  <2>4. QED
    BY <2>1, <2>2, <2>3 DEF Inv, StartInv, MonitorInv, ForkInv
<1>2. Inv /\ [Lab8Next]_lab8Vars => Inv'
  BY InvStep
<1>3. QED
  BY <1>1, <1>2, PTL DEF Lab8Spec

(* A philosopher waits only for a fork whose holder waits for nothing:     *)
(* there is no circular wait, whatever the size of the table.              *)
THEOREM NoCircularWait == Lab8Spec => []WaitsOnlyForEaters
<1>1. Inv => WaitsOnlyForEaters
  <2> SUFFICES ASSUME Inv, NEW p \in Phils, NEW q \in Phils,
                      \/ pc[p] = "first" /\ First(p) \in Holds(q)
                      \/ pc[p] = "second" /\ Second(p) \in Holds(q)
               PROVE  pc[q] \notin {"monitor", "first", "second"}
    BY DEF WaitsOnlyForEaters
  <2>1. pc[p] \in Critical
    BY SetNames
  <2>2. pc[q] # "monitor" /\ pc[q] # "first"
    BY HoldsByPc, SetNames
  <2>3. ASSUME pc[q] = "second" PROVE FALSE
    <3>1. p = q
      BY <2>1, <2>3, SetNames DEF Inv, MonitorInv
    <3>2. Holds(p) = {First(p)} /\ First(p) # Second(p)
      BY <2>3, <3>1, HoldsByPc, SetNames, Lab8TwoForks
    <3>3. QED
      BY <2>3, <3>1, <3>2
  <2>4. QED
    BY <2>2, <2>3
<1>2. QED
  BY <1>1, InvCorrect, PTL

(* The philosophers with two forks follow Table: no two of them share one. *)
THEOREM Lab8Refinement == Lab8Spec => Lab8KeepsTable
<1>1. Lab8Init => Lab8Table!Init
  BY DEF Lab8Init, Lab8Table!Init, Eating, Lab8Table!Phils, Phils
<1>2. Inv /\ Inv' /\ [Lab8Next]_lab8Vars => [Lab8Table!Next]_<<Eating, eat>>
  <2> SUFFICES ASSUME Inv, Inv', [Lab8Next]_lab8Vars
               PROVE  Lab8Table!Next \/ UNCHANGED <<Eating, eat>>
    OBVIOUS
  <2>1. Lab8Table!Phils = Phils
    BY DEF Lab8Table!Phils, Phils
  <2>2. UNCHANGED pc => UNCHANGED Eating
    BY DEF Eating
  <2>3. ASSUME NEW p \in Phils, NEW from, NEW to, Goto(p, from, to)
        PROVE  /\ from \notin Both /\ to \notin Both => UNCHANGED Eating
               /\ from \in Both /\ to \in Both => UNCHANGED Eating /\ p \in Eating
               /\ from \notin Both /\ to \in Both =>
                    p \notin Eating /\ Eating' = Eating \cup {p}
               /\ from \in Both /\ to \notin Both =>
                    p \in Eating /\ Eating' = Eating \ {p}
    <3>1. pc[p] = from /\ pc'[p] = to /\ \A q \in Phils : q # p => pc'[q] = pc[q]
      BY <2>3 DEF Goto, Inv, TypeInv
    <3>2. /\ p \in Eating <=> from \in Both
          /\ p \in Eating' <=> to \in Both
          /\ \A q \in Phils : q # p => (q \in Eating' <=> q \in Eating)
          /\ Eating \subseteq Phils /\ Eating' \subseteq Phils
      BY <3>1 DEF Eating, Both
    <3>3. QED
      BY <3>2
  <2>4. CASE Lab8Main
    <3>1. CASE SemInit \/ Join
      BY <2>2, <3>1 DEF SemInit, Join
    <3>2. ASSUME NEW p \in Phils, Create(p) PROVE UNCHANGED <<Eating, eat>>
      <4>1. pc[p] = "new" /\ pc' = [pc EXCEPT ![p] = "monitor"] /\ UNCHANGED eat
        BY <3>2 DEF Create
      <4>2. \A q \in Phils : pc'[q] \in Both <=> pc[q] \in Both
        BY <4>1, SetNames DEF Inv, TypeInv
      <4>3. UNCHANGED Eating
        BY <4>2 DEF Eating, Both
      <4>4. QED
        BY <4>1, <4>3
    <3>3. QED
      BY <2>4, <3>1, <3>2 DEF Lab8Main
  <2>5. ASSUME NEW p \in Phils, philosopher(p)
        PROVE  Lab8Table!Next \/ UNCHANGED <<Eating, eat>>
    <3>1. CASE WaitMonitor(p)
      BY <2>3, <3>1, SetNames DEF WaitMonitor
    <3>2. CASE PickFirst(p)
      BY <2>3, <3>2, SetNames DEF PickFirst
    <3>3. CASE PostMonitor(p)
      BY <2>3, <3>3, SetNames DEF PostMonitor
    <3>4. CASE PutFirst(p)
      <4>1. "put first" \notin Both /\ "done" \notin Both /\ "monitor" \notin Both
        BY SetNames
      <4>2. QED
        BY <2>3, <3>4, <4>1 DEF PutFirst
    <3>5. CASE PickSecond(p)
      <4>1. p \notin Eating /\ Eating' = Eating \cup {p} /\ UNCHANGED eat
        BY <2>3, <3>5, SetNames DEF PickSecond
      <4>2. ASSUME NEW q \in Eating
            PROVE  Lab8Table!ForksOf(p) \cap Lab8Table!ForksOf(q) = {}
        <5>1. q \in Phils /\ q # p /\ q \in Eating' /\ p \in Eating'
          BY <4>1, <4>2 DEF Eating
        <5>2. /\ Holds(p)' = {First(p), Second(p)}
              /\ Holds(q)' = {First(q), Second(q)}
          BY <5>1 DEF Holds
        <5>3. Holds(p)' \cap Holds(q)' = {}
          BY <5>1, <5>2, Lab8TwoForks DEF Inv, ForkInv
        <5>4. /\ Lab8Table!ForksOf(p) = {First(p), Second(p)}
              /\ Lab8Table!ForksOf(q) = {First(q), Second(q)}
          BY <5>1, Lab8TwoForks DEF Lab8Table!ForksOf, Lab8Table!Left, Lab8Table!Right,
                                ForksOf, Left, Right
        <5>5. QED
          BY <5>2, <5>3, <5>4
      <4>3. QED
        BY <2>1, <4>1, <4>2 DEF Lab8Table!Next, Lab8Table!Begin
    <3>6. CASE Eat(p)
      <4>1. p \in Eating /\ UNCHANGED Eating /\ eat' = [eat EXCEPT ![p] = @ + 1]
        BY <2>3, <3>6, SetNames DEF Eat
      <4>2. QED
        BY <2>1, <4>1 DEF Lab8Table!Next, Lab8Table!Eat
    <3>7. CASE PutSecond(p)
      <4>1. p \in Eating /\ Eating' = Eating \ {p} /\ UNCHANGED eat
        <5>1. "put second" \in Both /\ "put first" \notin Both
          BY SetNames
        <5>2. Goto(p, "put second", "put first") /\ UNCHANGED eat
          BY <3>7 DEF PutSecond
        <5>3. QED
          BY <2>3, <5>1, <5>2
      <4>2. QED
        BY <2>1, <4>1 DEF Lab8Table!Next, Lab8Table!End
    <3>8. QED
      BY <2>5, <3>1, <3>2, <3>3, <3>4, <3>5, <3>6, <3>7 DEF philosopher
  <2>6. CASE UNCHANGED lab8Vars
    BY <2>2, <2>6 DEF lab8Vars
  <2>7. QED
    BY <2>4, <2>5, <2>6 DEF Lab8Next
<1>3. QED
  BY <1>1, <1>2, InvCorrect, PTL DEF Lab8Spec, Lab8KeepsTable, Lab8Table!Spec

----------------------------------------------------------------------------
(* dining.                                                                 *)

USE ForksAssumption, DiningAssumption

(* The steps with the first fork in the hand, and with both. *)
HasFirst == {"right", "give up", "eat", "unlock right", "unlock left"}
HasBoth == {"eat", "unlock right"}
Ate == {"unlock right", "unlock left"}

LEMMA DiningStepNames ==
  /\ {"new", "lock left", "exit"} \subseteq DiningSteps
  /\ HasFirst \subseteq DiningSteps /\ HasBoth \subseteq HasFirst /\ Ate \subseteq HasFirst
  /\ "right" \in HasFirst /\ "give up" \in HasFirst /\ "unlock left" \in HasFirst
  /\ "eat" \in HasBoth /\ "unlock right" \in HasBoth
  /\ "eat" \in HasFirst /\ "unlock right" \in HasFirst
  /\ "new" \notin HasFirst /\ "lock left" \notin HasFirst /\ "exit" \notin HasFirst
  /\ "new" \notin HasBoth /\ "lock left" \notin HasBoth /\ "exit" \notin HasBoth
  /\ "right" \notin HasBoth /\ "give up" \notin HasBoth /\ "unlock left" \notin HasBoth
  /\ "unlock right" \in Ate /\ "unlock left" \in Ate
  /\ "new" \notin Ate /\ "lock left" \notin Ate /\ "exit" \notin Ate
  /\ "right" \notin Ate /\ "give up" \notin Ate /\ "eat" \notin Ate
BY DEF DiningSteps, HasFirst, HasBoth, Ate

LEMMA Seats ==
  ASSUME NEW p \in Phils
  PROVE  /\ Left(p) \in Phils /\ Right(p) \in Phils /\ Left(p) # Right(p)
         /\ p # free /\ free \notin Phils
BY DEF Phils, Left, Right, free

LEMMA Except ==
  ASSUME NEW D, NEW R, NEW f \in [D -> R], NEW d, NEW r \in R
  PROVE  [f EXCEPT ![d] = r] \in [D -> R]
OBVIOUS

----------------------------------------------------------------------------
(* Each mutex names its holder.                                            *)
Hold(p) ==
  /\ forklft[p] \in ForksOf(p)
  /\ at[p] \in HasFirst => mutex[forklft[p]] = p
  /\ at[p] \in HasBoth => mutex[forkrgt(p)] = p

(* The turns left and the meals had.                                       *)
Count(p) ==
  /\ at[p] # "exit" => turn_cnt[p] >= 1
  /\ turn_cnt[p] <= LIMIT
  /\ at[p] = "give up" => tries_left[p] >= 1
  /\ at[p] \in Ate => cnt[p] + turn_cnt[p] = LIMIT + 1
  /\ at[p] \notin Ate => cnt[p] + turn_cnt[p] = LIMIT

Types ==
  /\ at \in [Phils -> DiningSteps]
  /\ forklft \in [Phils -> Phils]
  /\ tries_left \in [Phils -> 0..2]
  /\ turn_cnt \in [Phils -> Nat]
  /\ mutex \in [Phils -> Phils \cup {free}]
  /\ cnt \in [Phils -> Nat]

DiningInv ==
  /\ Types
  /\ \A p \in Phils : Hold(p)
  /\ \A p \in Phils : Count(p)

(* Both forks of p, in either order. *)
LEMMA DiningTwoForks ==
  ASSUME NEW p \in Phils, forklft[p] \in ForksOf(p)
  PROVE  /\ forkrgt(p) \in Phils /\ forkrgt(p) # forklft[p]
         /\ forkrgt(p) \in ForksOf(p)
         /\ ForksOf(p) = {forklft[p], forkrgt(p)}
BY Seats DEF ForksOf, forkrgt

(* A fork that was free or p's own is not in anybody else's hand: taking   *)
(* or leaving it changes nothing for the others.                           *)
LEMMA Others ==
  ASSUME Types, NEW p \in Phils, NEW q \in Phils, q # p,
         Hold(q), NEW f, NEW v, mutex[f] = free \/ mutex[f] = p,
         mutex' = [mutex EXCEPT ![f] = v],
         at'[q] = at[q], forklft'[q] = forklft[q]
  PROVE  Hold(q)'
<1>1. q # free
  BY Seats
<1>2. at[q] \in HasFirst => mutex'[forklft[q]] = q
  BY <1>1 DEF Hold, Types
<1>3. forkrgt(q)' = forkrgt(q) /\ forkrgt(q) \in Phils
  BY DiningTwoForks DEF Hold, forkrgt
<1>4. at[q] \in HasBoth => mutex'[forkrgt(q)] = q
  BY <1>1, <1>3 DEF Hold, Types
<1>5. at'[q] \in HasBoth => mutex'[forkrgt(q)'] = q
  BY <1>3, <1>4
<1>6. QED
  BY <1>2, <1>5 DEF Hold

(* What a step of p must show: its own part. *)
LEMMA StepKeeps ==
  ASSUME DiningInv, NEW p \in Phils, Types',
         \A q \in Phils : q # p => Hold(q)',
         \A q \in Phils : q # p => /\ at'[q] = at[q] /\ turn_cnt'[q] = turn_cnt[q]
                                   /\ tries_left'[q] = tries_left[q]
                                   /\ cnt'[q] = cnt[q],
         Hold(p)', Count(p)'
  PROVE  DiningInv'
<1>1. ASSUME NEW q \in Phils, q # p PROVE Count(q)'
  <2>1. /\ at'[q] = at[q] /\ turn_cnt'[q] = turn_cnt[q]
        /\ tries_left'[q] = tries_left[q] /\ cnt'[q] = cnt[q]
    BY <1>1
  <2>2. Count(q)
    BY DEF DiningInv
  <2>3. QED
    BY <2>1, <2>2 DEF Count
<1>2. QED
  BY <1>1 DEF DiningInv

----------------------------------------------------------------------------
(* The steps of a philosopher.                                             *)

USE DEF DiningInv

(* What DiningGoto says of each philosopher. *)
LEMMA DiningMove ==
  ASSUME Types, NEW p \in Phils, NEW from, NEW to \in DiningSteps,
         DiningGoto(p, from, to)
  PROVE  /\ at[p] = from /\ at'[p] = to
         /\ \A q \in Phils : q # p => at'[q] = at[q]
         /\ at' \in [Phils -> DiningSteps]
<1>1. at' \in [Phils -> DiningSteps]
  BY Except DEF DiningGoto, Types
<1>2. QED
  BY <1>1 DEF DiningGoto, Types

LEMMA CreateKeeps ==
  ASSUME DiningInv, NEW p \in Phils, CreatePhil(p)
  PROVE  DiningInv'
<1>1. DiningGoto(p, "new", "lock left")
      /\ UNCHANGED <<forklft, tries_left, turn_cnt, mutex, cnt>>
  BY DEF CreatePhil
<1>2. /\ at[p] = "new" /\ at'[p] = "lock left"
      /\ \A q \in Phils : q # p => at'[q] = at[q]
      /\ at' \in [Phils -> DiningSteps]
  BY <1>1, DiningMove, DiningStepNames
<1>3. Types'
  BY <1>1, <1>2 DEF Types
<1>4. \A q \in Phils : q # p => Hold(q)'
  BY <1>1, <1>2 DEF Hold, forkrgt
<1>5. Hold(p)' /\ Count(p)'
  BY <1>1, <1>2, DiningStepNames DEF Hold, Count
<1>6. QED
  BY <1>1, <1>2, <1>3, <1>4, <1>5, StepKeeps

LEMMA LockKeeps ==
  ASSUME DiningInv, NEW p \in Phils, LockLeft(p)
  PROVE  DiningInv'
<1>1. /\ DiningGoto(p, "lock left", "right")
      /\ mutex[forklft[p]] = free
      /\ mutex' = [mutex EXCEPT ![forklft[p]] = p]
      /\ UNCHANGED <<forklft, tries_left, turn_cnt, cnt>>
  BY DEF LockLeft
<1>2. /\ at[p] = "lock left" /\ at'[p] = "right"
      /\ \A q \in Phils : q # p => at'[q] = at[q]
      /\ at' \in [Phils -> DiningSteps]
  BY <1>1, DiningMove, DiningStepNames
<1>3. Types'
  <2>1. mutex' \in [Phils -> Phils \cup {free}]
    BY <1>1 DEF Types
  <2>2. QED
    BY <1>1, <1>2, <2>1 DEF Types
<1>4. \A q \in Phils : q # p => Hold(q)'
  BY <1>1, <1>2, Others
<1>5. Hold(p)'
  <2>1. mutex'[forklft'[p]] = p
    BY <1>1 DEF Types
  <2>2. QED
    BY <1>1, <1>2, <2>1, DiningStepNames DEF Hold
<1>6. Count(p)'
  BY <1>1, <1>2, DiningStepNames DEF Count
<1>7. QED
  BY <1>1, <1>2, <1>3, <1>4, <1>5, <1>6, StepKeeps

LEMMA GetKeeps ==
  ASSUME DiningInv, NEW p \in Phils, GetRight(p)
  PROVE  DiningInv'
<1>1. /\ DiningGoto(p, "right", "eat")
      /\ mutex[forkrgt(p)] = free
      /\ mutex' = [mutex EXCEPT ![forkrgt(p)] = p]
      /\ UNCHANGED <<forklft, tries_left, turn_cnt, cnt>>
  BY DEF GetRight
<1>2. /\ at[p] = "right" /\ at'[p] = "eat"
      /\ \A q \in Phils : q # p => at'[q] = at[q]
      /\ at' \in [Phils -> DiningSteps]
  BY <1>1, DiningMove, DiningStepNames
<1>3. Types'
  <2>1. mutex' \in [Phils -> Phils \cup {free}]
    BY <1>1 DEF Types
  <2>2. QED
    BY <1>1, <1>2, <2>1 DEF Types
<1>4. \A q \in Phils : q # p => Hold(q)'
  BY <1>1, <1>2, Others
<1>5. Hold(p)'
  <2>0. forklft[p] \in ForksOf(p) /\ mutex[forklft[p]] = p
    BY <1>2, DiningStepNames DEF Hold
  <2>1. /\ forklft[p] \in ForksOf(p) /\ mutex[forklft[p]] = p
        /\ forkrgt(p) \in Phils /\ forkrgt(p)' = forkrgt(p)
        /\ forkrgt(p) # forklft[p]
    BY <1>1, <2>0, DiningTwoForks DEF forkrgt
  <2>2. mutex'[forkrgt(p)] = p /\ mutex'[forklft[p]] = p
    BY <1>1, <2>1 DEF Types
  <2>3. QED
    BY <1>1, <2>1, <2>2 DEF Hold
<1>6. Count(p)'
  BY <1>1, <1>2, DiningStepNames DEF Count
<1>7. QED
  BY <1>1, <1>2, <1>3, <1>4, <1>5, <1>6, StepKeeps

LEMMA FailKeeps ==
  ASSUME DiningInv, NEW p \in Phils, TryRightFails(p)
  PROVE  DiningInv'
<1>1. /\ DiningGoto(p, "right", "give up")
      /\ tries_left[p] > 0
      /\ UNCHANGED <<forklft, tries_left, turn_cnt, mutex, cnt>>
  BY DEF TryRightFails
<1>2. /\ at[p] = "right" /\ at'[p] = "give up"
      /\ \A q \in Phils : q # p => at'[q] = at[q]
      /\ at' \in [Phils -> DiningSteps]
  BY <1>1, DiningMove, DiningStepNames
<1>3. Types'
  BY <1>1, <1>2 DEF Types
<1>4. \A q \in Phils : q # p => Hold(q)'
  BY <1>1, <1>2 DEF Hold, forkrgt
<1>5. Hold(p)'
  BY <1>1, <1>2, DiningStepNames DEF Hold
<1>6. Count(p)'
  <2>1. tries_left'[p] >= 1
    <3>1. tries_left[p] \in 0..2
      BY DEF Types
    <3>2. tries_left'[p] = tries_left[p] /\ tries_left[p] > 0
      BY <1>1
    <3>3. tries_left[p] >= 1
      BY <3>1, <3>2
    <3>4. QED
      BY <3>2, <3>3
  <2>2. QED
    BY <1>1, <1>2, <2>1, DiningStepNames DEF Count
<1>7. QED
  BY <1>1, <1>2, <1>3, <1>4, <1>5, <1>6, StepKeeps

LEMMA GiveUpKeeps ==
  ASSUME DiningInv, NEW p \in Phils, GiveUp(p)
  PROVE  DiningInv'
<1>1. /\ DiningGoto(p, "give up", "lock left")
      /\ mutex' = [mutex EXCEPT ![forklft[p]] = free]
      /\ forklft' = [forklft EXCEPT ![p] = forkrgt(p)]
      /\ tries_left' = [tries_left EXCEPT ![p] = @ - 1]
      /\ UNCHANGED <<turn_cnt, cnt>>
  BY DEF GiveUp
<1>2. /\ at[p] = "give up" /\ at'[p] = "lock left"
      /\ \A q \in Phils : q # p => at'[q] = at[q]
      /\ at' \in [Phils -> DiningSteps]
  BY <1>1, DiningMove, DiningStepNames
<1>3. mutex[forklft[p]] = p /\ forkrgt(p) \in Phils /\ forkrgt(p) \in ForksOf(p)
  BY <1>2, DiningStepNames, DiningTwoForks DEF Hold
<1>4. Types'
  <2>1. mutex' \in [Phils -> Phils \cup {free}]
    BY <1>1 DEF Types
  <2>2. forklft' \in [Phils -> Phils]
    BY <1>1, <1>3 DEF Types
  <2>3. tries_left' \in [Phils -> 0..2]
    <3>1. tries_left[p] \in 0..2 /\ tries_left[p] >= 1
      BY <1>2 DEF Types, Count
    <3>2. tries_left[p] - 1 \in 0..2
      BY <3>1
    <3>3. QED
      BY <1>1, <3>2, Except DEF Types
  <2>4. QED
    BY <1>1, <1>2, <2>1, <2>2, <2>3 DEF Types
<1>5. \A q \in Phils : q # p => forklft'[q] = forklft[q] /\ tries_left'[q] = tries_left[q]
  BY <1>1 DEF Types
<1>6. \A q \in Phils : q # p => Hold(q)'
  BY <1>1, <1>2, <1>3, <1>5, Others
<1>7. Hold(p)'
  <2>1. forklft'[p] = forkrgt(p)
    BY <1>1 DEF Types
  <2>2. QED
    BY <1>2, <1>3, <2>1, DiningStepNames DEF Hold
<1>8. Count(p)'
  BY <1>1, <1>2, DiningStepNames DEF Count
<1>9. QED
  BY <1>1, <1>2, <1>4, <1>5, <1>6, <1>7, <1>8, StepKeeps

LEMMA TakeKeeps ==
  ASSUME DiningInv, NEW p \in Phils, TakeTurn(p)
  PROVE  DiningInv'
<1>1. /\ DiningGoto(p, "eat", "unlock right")
      /\ cnt' = [cnt EXCEPT ![p] = @ + 1]
      /\ UNCHANGED <<forklft, tries_left, turn_cnt, mutex>>
  BY DEF TakeTurn
<1>2. /\ at[p] = "eat" /\ at'[p] = "unlock right"
      /\ \A q \in Phils : q # p => at'[q] = at[q]
      /\ at' \in [Phils -> DiningSteps]
  BY <1>1, DiningMove, DiningStepNames
<1>3. cnt[p] \in Nat /\ turn_cnt[p] \in Nat /\ cnt[p] + 1 \in Nat
  BY DEF Types
<1>4. /\ cnt' \in [Phils -> Nat] /\ cnt'[p] = cnt[p] + 1
      /\ \A q \in Phils : q # p => cnt'[q] = cnt[q]
  <2>1. cnt' \in [Phils -> Nat]
    BY <1>1, <1>3, Except DEF Types
  <2>2. QED
    BY <1>1, <2>1 DEF Types
<1>5. Types'
  BY <1>1, <1>2, <1>4 DEF Types
<1>6. \A q \in Phils : q # p => Hold(q)'
  BY <1>1, <1>2 DEF Hold, forkrgt
<1>7. Hold(p)'
  BY <1>1, <1>2, DiningStepNames DEF Hold, forkrgt
<1>8. Count(p)'
  <2>1. cnt[p] + turn_cnt[p] = LIMIT /\ turn_cnt[p] >= 1
    BY <1>2, DiningStepNames DEF Count
  <2>2. cnt'[p] + turn_cnt'[p] = LIMIT + 1
    <3>1. (cnt[p] + 1) + turn_cnt[p] = (cnt[p] + turn_cnt[p]) + 1
      BY <1>3
    <3>2. QED
      BY <1>1, <1>4, <2>1, <3>1
  <2>3. QED
    BY <1>1, <1>2, <2>1, <2>2, DiningStepNames DEF Count
<1>9. QED
  BY <1>1, <1>2, <1>4, <1>5, <1>6, <1>7, <1>8, StepKeeps

(* Putting the second fork back. *)
LEMMA RightKeeps ==
  ASSUME DiningInv, NEW p \in Phils, UnlockRight(p)
  PROVE  DiningInv'
<1>1. /\ DiningGoto(p, "unlock right", "unlock left")
      /\ mutex' = [mutex EXCEPT ![forkrgt(p)] = free]
      /\ UNCHANGED <<forklft, tries_left, turn_cnt, cnt>>
  BY DEF UnlockRight
<1>2. /\ at[p] = "unlock right" /\ at'[p] = "unlock left"
      /\ \A q \in Phils : q # p => at'[q] = at[q]
      /\ at' \in [Phils -> DiningSteps]
  BY <1>1, DiningMove, DiningStepNames
<1>3. /\ mutex[forkrgt(p)] = p /\ mutex[forklft[p]] = p
      /\ forkrgt(p) # forklft[p] /\ forklft[p] \in ForksOf(p)
  BY <1>2, DiningStepNames, DiningTwoForks DEF Hold
<1>4. Types'
  <2>1. mutex' \in [Phils -> Phils \cup {free}]
    BY <1>1 DEF Types
  <2>2. QED
    BY <1>1, <1>2, <2>1 DEF Types
<1>5. \A q \in Phils : q # p => Hold(q)'
  BY <1>1, <1>2, <1>3, Others
<1>6. Hold(p)'
  <2>1. mutex'[forklft[p]] = p
    BY <1>1, <1>3 DEF Types
  <2>2. QED
    BY <1>1, <1>2, <1>3, <2>1, DiningStepNames DEF Hold
<1>7. Count(p)'
  BY <1>1, <1>2, DiningStepNames DEF Count
<1>8. QED
  BY <1>1, <1>2, <1>4, <1>5, <1>6, <1>7, StepKeeps

(* Putting the first fork back ends the turn. *)
LEMMA LeftKeeps ==
  ASSUME DiningInv, NEW p \in Phils, UnlockLeft(p)
  PROVE  DiningInv'
<1> DEFINE to == IF turn_cnt[p] > 1 THEN "lock left" ELSE "exit"
<1>1. /\ DiningGoto(p, "unlock left", to)
      /\ mutex' = [mutex EXCEPT ![forklft[p]] = free]
      /\ turn_cnt' = [turn_cnt EXCEPT ![p] = @ - 1]
      /\ forklft' = [forklft EXCEPT ![p] = Left(p)]
      /\ tries_left' = [tries_left EXCEPT ![p] = 2]
      /\ UNCHANGED cnt
  BY DEF UnlockLeft
<1>2. /\ to \in DiningSteps /\ to \notin HasFirst /\ to \notin HasBoth /\ to \notin Ate
      /\ to # "give up"
      /\ to # "exit" => turn_cnt[p] > 1
  BY DiningStepNames
<1> HIDE DEF to
<1>3. /\ at[p] = "unlock left" /\ at'[p] = to
      /\ \A q \in Phils : q # p => at'[q] = at[q]
      /\ at' \in [Phils -> DiningSteps]
  BY <1>1, <1>2, DiningMove
<1>4. mutex[forklft[p]] = p
  BY <1>3, DiningStepNames DEF Hold
<1>5. /\ turn_cnt[p] \in Nat /\ turn_cnt[p] >= 1 /\ turn_cnt[p] - 1 \in Nat
      /\ cnt[p] \in Nat /\ cnt[p] + turn_cnt[p] = LIMIT + 1
  <2>1. turn_cnt[p] \in Nat /\ cnt[p] \in Nat
    BY DEF Types
  <2>2. turn_cnt[p] >= 1 /\ cnt[p] + turn_cnt[p] = LIMIT + 1
    BY <1>3, DiningStepNames DEF Count
  <2>3. QED
    BY <2>1, <2>2
<1>6. /\ turn_cnt' \in [Phils -> Nat] /\ turn_cnt'[p] = turn_cnt[p] - 1
      /\ tries_left' \in [Phils -> 0..2]
      /\ forklft' \in [Phils -> Phils] /\ forklft'[p] = Left(p)
      /\ mutex' \in [Phils -> Phils \cup {free}]
  <2>1. 2 \in 0..2
    OBVIOUS
  <2>2. turn_cnt' \in [Phils -> Nat] /\ tries_left' \in [Phils -> 0..2]
    BY <1>1, <1>5, <2>1, Except DEF Types
  <2>3. forklft' \in [Phils -> Phils] /\ mutex' \in [Phils -> Phils \cup {free}]
    BY <1>1, Seats, Except DEF Types
  <2>4. turn_cnt'[p] = turn_cnt[p] - 1 /\ forklft'[p] = Left(p)
    BY <1>1 DEF Types
  <2>5. QED
    BY <2>2, <2>3, <2>4
<1>7. Types'
  BY <1>1, <1>3, <1>6 DEF Types
<1>8. \A q \in Phils : q # p => /\ forklft'[q] = forklft[q]
                              /\ tries_left'[q] = tries_left[q]
                              /\ turn_cnt'[q] = turn_cnt[q]
  BY <1>1 DEF Types
<1>9. \A q \in Phils : q # p => Hold(q)'
  BY <1>1, <1>3, <1>4, <1>8, Others
<1>10. Hold(p)'
  BY <1>2, <1>3, <1>6 DEF Hold, ForksOf
<1>11. Count(p)'
  <2>1. (to # "exit" => turn_cnt'[p] >= 1) /\ turn_cnt'[p] <= LIMIT
    <3>1. turn_cnt[p] <= LIMIT
      BY DEF Count
    <3>2. turn_cnt'[p] = turn_cnt[p] - 1
      BY <1>6
    <3>3. turn_cnt[p] - 1 <= LIMIT
      BY <1>5, <3>1
    <3>4. turn_cnt[p] > 1 => turn_cnt[p] - 1 >= 1
      BY <1>5
    <3>5. QED
      BY <1>2, <3>2, <3>3, <3>4
  <2>2. cnt'[p] + turn_cnt'[p] = LIMIT
    <3>1. cnt'[p] = cnt[p] /\ turn_cnt'[p] = turn_cnt[p] - 1
      BY <1>1, <1>6
    <3>2. cnt[p] + (turn_cnt[p] - 1) = LIMIT
      BY <1>5
    <3>3. QED
      BY <3>1, <3>2
  <2>3. QED
    BY <1>2, <1>3, <2>1, <2>2 DEF Count
<1>12. QED
  BY <1>1, <1>3, <1>7, <1>8, <1>9, <1>10, <1>11, StepKeeps

----------------------------------------------------------------------------
(* The invariant is inductive.                                             *)
THEOREM DiningInductive == DiningSpec => []DiningInv
<1>1. DiningInit => DiningInv
  <2> SUFFICES ASSUME DiningInit PROVE DiningInv
    OBVIOUS
  <2>1. Types
    <3>1. at \in [Phils -> DiningSteps]
      BY DiningStepNames DEF DiningInit
    <3>2. forklft \in [Phils -> Phils] /\ mutex \in [Phils -> Phils \cup {free}]
      BY Seats DEF DiningInit
    <3>3. /\ tries_left \in [Phils -> 0..2] /\ turn_cnt \in [Phils -> Nat]
          /\ cnt \in [Phils -> Nat]
      BY DEF DiningInit
    <3>4. QED
      BY <3>1, <3>2, <3>3 DEF Types
  <2>2. ASSUME NEW p \in Phils PROVE Hold(p) /\ Count(p)
    <3>1. at[p] = "new" /\ forklft[p] = Left(p) /\ turn_cnt[p] = LIMIT /\ cnt[p] = 0
      BY DEF DiningInit
    <3>2. Hold(p)
      BY <3>1, DiningStepNames DEF Hold, ForksOf
    <3>3. turn_cnt[p] >= 1 /\ turn_cnt[p] <= LIMIT /\ cnt[p] + turn_cnt[p] = LIMIT
      BY <3>1
    <3>4. QED
      BY <3>1, <3>2, <3>3, DiningStepNames DEF Count
  <2>3. QED
    BY <2>1, <2>2
<1>2. DiningInv /\ [DiningNext]_diningVars => DiningInv'
  <2> SUFFICES ASSUME DiningInv, [DiningNext]_diningVars PROVE DiningInv'
    OBVIOUS
  <2>1. ASSUME NEW p \in Phils, CreatePhil(p) \/ philfunc(p) PROVE DiningInv'
    BY <2>1, CreateKeeps, LockKeeps, GetKeeps, FailKeeps, GiveUpKeeps, TakeKeeps,
       RightKeeps, LeftKeeps DEF philfunc
  <2>2. CASE UNCHANGED diningVars
    BY <2>2 DEF diningVars, Types, Hold, Count, forkrgt
  <2>3. QED
    BY <2>1, <2>2 DEF DiningNext
<1>3. QED
  BY <1>1, <1>2, PTL DEF DiningSpec

(* The variables keep their types: at most two attempts, at most LIMIT     *)
(* turns and meals.                                                        *)
THEOREM DiningTypeCorrect == DiningSpec => []DiningTypeOK
<1>1. DiningInv => DiningTypeOK
  <2> SUFFICES ASSUME DiningInv PROVE DiningTypeOK
    OBVIOUS
  <2>1. ASSUME NEW p \in Phils PROVE cnt[p] \in 0..LIMIT /\ turn_cnt[p] \in 0..LIMIT
    <3>1. cnt[p] \in Nat /\ turn_cnt[p] \in Nat
      BY DEF Types
    <3>2. CASE at[p] \in Ate
      <4>1. at[p] # "exit"
        BY <3>2, DiningStepNames
      <4>2. cnt[p] + turn_cnt[p] = LIMIT + 1 /\ turn_cnt[p] >= 1
        BY <3>2, <4>1 DEF Count
      <4>3. turn_cnt[p] <= LIMIT
        BY DEF Count
      <4>4. QED
        BY <3>1, <4>2, <4>3
    <3>3. CASE at[p] \notin Ate
      <4>1. cnt[p] + turn_cnt[p] = LIMIT
        BY <3>3 DEF Count
      <4>2. QED
        BY <3>1, <4>1
    <3>4. QED
      BY <3>2, <3>3
  <2>2. cnt \in [Phils -> 0..LIMIT] /\ turn_cnt \in [Phils -> 0..LIMIT]
    BY <2>1 DEF Types
  <2>3. QED
    BY <2>2 DEF Types, DiningTypeOK
<1>2. QED
  BY <1>1, DiningInductive, PTL

----------------------------------------------------------------------------
NowEating == {p \in Phils : at[p] \in {"eat", "unlock right"}}

(* Two that hold both forks hold different ones. *)
NoneShared ==
  \A p, q \in Phils : p # q /\ at[p] \in HasBoth /\ at[q] \in HasBoth =>
    ForksOf(p) \cap ForksOf(q) = {}

LEMMA Disjoint == DiningInv => NoneShared
<1> SUFFICES ASSUME DiningInv, NEW p \in Phils, NEW q \in Phils, p # q,
                    at[p] \in HasBoth, at[q] \in HasBoth
             PROVE  ForksOf(p) \cap ForksOf(q) = {}
  BY DEF NoneShared
<1>1. /\ ForksOf(p) = {forklft[p], forkrgt(p)}
      /\ ForksOf(q) = {forklft[q], forkrgt(q)}
  BY DiningTwoForks DEF Hold
<1>2. at[p] \in HasFirst /\ at[q] \in HasFirst
  BY DiningStepNames
<1>3. /\ mutex[forklft[p]] = p /\ mutex[forkrgt(p)] = p
      /\ mutex[forklft[q]] = q /\ mutex[forkrgt(q)] = q
  BY <1>2 DEF Hold
<1>4. QED
  BY <1>1, <1>3

(* What a step of p does to who eats. *)
LEMMA WhoEats ==
  ASSUME Types, NEW p \in Phils, NEW from, NEW to \in DiningSteps,
         DiningGoto(p, from, to)
  PROVE  /\ from \notin HasBoth /\ to \notin HasBoth => UNCHANGED NowEating
         /\ from \in HasBoth /\ to \in HasBoth => UNCHANGED NowEating /\ p \in NowEating
         /\ from \notin HasBoth /\ to \in HasBoth =>
              p \notin NowEating /\ NowEating' = NowEating \cup {p}
         /\ from \in HasBoth /\ to \notin HasBoth =>
              p \in NowEating /\ NowEating' = NowEating \ {p}
<1>1. at[p] = from /\ at'[p] = to /\ \A q \in Phils : q # p => at'[q] = at[q]
  BY DiningMove
<1>2. /\ p \in NowEating <=> from \in HasBoth
      /\ p \in NowEating' <=> to \in HasBoth
      /\ \A q \in Phils : q # p => (q \in NowEating' <=> q \in NowEating)
      /\ NowEating \subseteq Phils /\ NowEating' \subseteq Phils
  BY <1>1 DEF NowEating, HasBoth
<1>3. QED
  BY <1>2

(* Every step is a step of the table or a stutter: a philosopher begins to *)
(* eat with two forks that nobody else uses, eats, and ends.               *)
THEOREM DiningRefinement == DiningSpec => DiningKeepsTable
<1>1. DiningInit => DiningTable!Init
  BY DEF DiningInit, DiningTable!Init, DiningTable!Phils, Phils
<1>2. DiningInv /\ NoneShared' /\ [DiningNext]_diningVars =>
        [DiningTable!Next]_<<NowEating, cnt>>
  <2> SUFFICES ASSUME DiningInv, NoneShared', [DiningNext]_diningVars
               PROVE  DiningTable!Next \/ UNCHANGED <<NowEating, cnt>>
    OBVIOUS
  <2>1. /\ DiningTable!Phils = Phils
        /\ \A p : DiningTable!ForksOf(p) = ForksOf(p)
    BY DEF DiningTable!Phils, Phils, DiningTable!ForksOf, ForksOf,
       DiningTable!Left, Left, DiningTable!Right, Right
  <2>2. ASSUME NEW p \in Phils, CreatePhil(p) \/ philfunc(p)
        PROVE  DiningTable!Next \/ UNCHANGED <<NowEating, cnt>>
    <3>1. CASE CreatePhil(p) \/ LockLeft(p) \/ TryRightFails(p) \/ GiveUp(p)
      BY <3>1, WhoEats, DiningStepNames DEF CreatePhil, LockLeft, TryRightFails, GiveUp
    <3>2. CASE UnlockLeft(p)
      <4>1. "lock left" \in DiningSteps /\ "exit" \in DiningSteps
        BY DiningStepNames
      <4>2. "lock left" \notin HasBoth /\ "exit" \notin HasBoth /\ "unlock left" \notin HasBoth
        BY DiningStepNames
      <4>3. QED
        BY <3>2, <4>1, <4>2, WhoEats DEF UnlockLeft
    <3>3. CASE GetRight(p)
      <4>1. p \notin NowEating /\ NowEating' = NowEating \cup {p} /\ UNCHANGED cnt
        BY <3>3, WhoEats, DiningStepNames DEF GetRight
      <4>2. ASSUME NEW q \in NowEating PROVE ForksOf(p) \cap ForksOf(q) = {}
        <5>1. q \in Phils /\ q # p /\ q \in NowEating' /\ p \in NowEating'
          BY <4>1 DEF NowEating
        <5>2. at'[p] \in HasBoth /\ at'[q] \in HasBoth
          BY <5>1 DEF NowEating, HasBoth
        <5>3. QED
          BY <5>1, <5>2 DEF NoneShared
      <4>3. DiningTable!Begin(p)
        BY <2>1, <4>1, <4>2 DEF DiningTable!Begin, NowEating
      <4>4. QED
        BY <2>1, <4>3 DEF DiningTable!Next
    <3>4. CASE TakeTurn(p)
      <4>1. UNCHANGED NowEating /\ p \in NowEating
        BY <3>4, WhoEats, DiningStepNames DEF TakeTurn
      <4>2. DiningTable!Eat(p)
        BY <3>4, <4>1 DEF TakeTurn, DiningTable!Eat, NowEating
      <4>3. QED
        BY <2>1, <4>2 DEF DiningTable!Next
    <3>5. CASE UnlockRight(p)
      <4>1. p \in NowEating /\ NowEating' = NowEating \ {p} /\ UNCHANGED cnt
        BY <3>5, WhoEats, DiningStepNames DEF UnlockRight
      <4>2. DiningTable!End(p)
        BY <4>1 DEF DiningTable!End, NowEating
      <4>3. QED
        BY <2>1, <4>2 DEF DiningTable!Next
    <3>6. QED
      BY <2>2, <3>1, <3>2, <3>3, <3>4, <3>5 DEF philfunc
  <2>3. CASE UNCHANGED diningVars
    BY <2>3 DEF diningVars, NowEating
  <2>4. QED
    BY <2>2, <2>3 DEF DiningNext
<1>3. QED
  BY <1>1, <1>2, Disjoint, DiningInductive, PTL
     DEF DiningSpec, DiningKeepsTable, DiningTable!Spec, NowEating

----------------------------------------------------------------------------
(* Either program.  The one that does not run stutters.                    *)

LEMMA RunsAreTheirs == PhilSpec => Lab8Spec /\ DiningSpec
<1>1. PhilInit => Lab8Init /\ DiningInit
  BY DEF PhilInit
<1>2. [PhilNext]_philVars => [Lab8Next]_lab8Vars /\ [DiningNext]_diningVars
  BY DEF PhilNext, RunLab8, RunDining, philVars
<1>3. QED
  BY <1>1, <1>2, PTL DEF PhilSpec, Lab8Spec, DiningSpec

(* Whichever of the two programs runs, the variables of both keep their    *)
(* types: no semaphore or mutex and no meal count leaves its range.        *)
THEOREM PhilTypeCorrect == PhilSpec => []PhilTypeOK
<1>1. Lab8TypeOK /\ DiningTypeOK => PhilTypeOK
  BY DEF PhilTypeOK
<1>2. QED
  BY <1>1, RunsAreTheirs, Lab8TypeCorrect, DiningTypeCorrect, PTL
=============================================================================
