------------------------------- MODULE Table -------------------------------
(***************************************************************************)
(* What a solution to the dining philosophers promises: a philosopher eats *)
(* only with two forks that nobody else is using.                          *)
(***************************************************************************)
EXTENDS Forks

VARIABLES
  eating,    \* the philosophers with two forks
  meals      \* meals eaten by each

Init ==
  /\ eating = {}
  /\ meals = [p \in Phils |-> 0]

Begin(p) ==
  /\ p \notin eating
  /\ \A q \in eating : ForksOf(p) \cap ForksOf(q) = {}
  /\ eating' = eating \cup {p}
  /\ UNCHANGED meals

Eat(p) ==
  /\ p \in eating
  /\ meals' = [meals EXCEPT ![p] = @ + 1]
  /\ UNCHANGED eating

End(p) ==
  /\ p \in eating
  /\ eating' = eating \ {p}
  /\ UNCHANGED meals

Next == \E p \in Phils : Begin(p) \/ Eat(p) \/ End(p)

Spec == Init /\ [][Next]_<<eating, meals>>
=============================================================================
