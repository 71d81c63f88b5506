---------------------------- MODULE Philosophers ----------------------------
(***************************************************************************)
(* The two dining programs of directory 8, one of which is run.            *)
(***************************************************************************)
EXTENDS Lab8, Dining

VARIABLE program     \* the program that is run

philVars == <<program, lab8Vars, diningVars>>

PhilInit ==
  /\ program \in {"lab8", "dining"}
  /\ Lab8Init
  /\ DiningInit

RunLab8(A)   == program = "lab8" /\ A /\ UNCHANGED <<program, diningVars>>
RunDining(A) == program = "dining" /\ A /\ UNCHANGED <<program, lab8Vars>>

PhilNext == RunLab8(Lab8Next) \/ RunDining(DiningNext)

PhilSpec ==
  /\ PhilInit
  /\ [][PhilNext]_philVars
  /\ WF_philVars(RunLab8(Lab8Main))
  /\ \A p \in Phils :
       /\ WF_philVars(RunLab8(philosopher(p)))
       /\ WF_philVars(RunDining(CreatePhil(p)))
       /\ WF_philVars(RunDining(philfunc(p)))

----------------------------------------------------------------------------
(* The variables of both programs keep their types.                        *)
PhilTypeOK == Lab8TypeOK /\ DiningTypeOK

(* lab8 always ends; dining ends unless everybody blocks in a full circle. *)
MealsEnd ==
  /\ program = "lab8" => Lab8Ends
  /\ program = "dining" => EatsUnlessFullCircle
=============================================================================
