------------------------------ MODULE Handoff ------------------------------
(***************************************************************************)
(* What two threads that take turns promise: every item one of them gives  *)
(* is taken once, before the next one is given.  Once the turn has been    *)
(* lost nothing is promised any more.  A new run starts from zero.         *)
(***************************************************************************)
EXTENDS Naturals

VARIABLES
  turns,     \* "kept" or "lost"
  given,     \* items given in this run
  taken      \* items taken in this run

Init == turns = "kept" /\ given = 0 /\ taken = 0

Give == given = taken /\ given' = given + 1 /\ UNCHANGED taken

Take == taken < given /\ taken' = taken + 1 /\ UNCHANGED given

NewRun == given' = 0 /\ taken' = 0

Next ==
  \/ turns = "kept" /\ turns' = "kept" /\ (Give \/ Take \/ NewRun)
  \/ turns' = "lost" /\ given' \in Nat /\ taken' \in Nat

Spec == Init /\ [][Next]_<<turns, given, taken>>
=============================================================================
