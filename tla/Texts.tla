-------------------------------- MODULE Texts --------------------------------
(***************************************************************************)
(* The threads of c/xwinp1.c to xwinp4.c that move the texts of the parent *)
(* window.  In xwinp1 one thread moves one text; in xwinp2 two threads     *)
(* hand the turn over by two flags; in xwinp3 by one semaphore and the     *)
(* variable sem_value; in xwinp4 three threads mean to use two semaphores, *)
(* but the second assignment to each sembuf makes all of them operations   *)
(* on semaphore 1.                                                         *)
(*                                                                         *)
(* A text goes out to beyond FAR (140, or 160) and back to 0 (10), where   *)
(* its thread hands over; all texts share one direction.  Positions are    *)
(* counted in steps from where the text starts; two texts that move at the *)
(* same time may push each other further, and are held at 0 and FAR + 1.   *)
(* Moving a text with its tests is one step, and so is every semop and     *)
(* every store to a flag or a sem_value.  Drawing is left out.             *)
(***************************************************************************)
EXTENDS Integers

CONSTANT FAR      \* steps before a text turns round

ASSUME TextsAssumption == FAR \in Nat \ {0}

VARIABLES
  textProg,   \* the program
  texts,      \* the process: "running" or "exited"
  moveText,   \* g.move_text, toggled by key t
  pos,        \* the position of each text
  direction,  \* the sign of g.direction
  textAt,     \* where each thread is
  flag,       \* thread1 and thread2 (xwinp2)
  semval,     \* sem_value (xwinp3); sem_value1, sem_value2 (xwinp4)
  textSem,    \* the semaphore: its value
  textSet     \* does its set exist: "live" or "removed"

textVars == <<textProg, texts, moveText, pos, direction, textAt, flag, semval,
              textSem, textSet>>

TextPrograms == {"xwinp1", "xwinp2", "xwinp3", "xwinp4"}
TextThreads == 0 .. 2
Running1(i) ==
  \/ i = 0
  \/ i = 1 /\ textProg # "xwinp1"
  \/ i = 2 /\ textProg = "xwinp4"
TextSteps == {"start", "started", "loop", "move", "store 1", "store 2", "grab 1", "grab 2",
              "got 1", "got 2", "release 1", "release 2", "zero 1", "zero 2"}
Screen == 0 .. FAR + 1

TextsInit ==
  /\ textProg \in TextPrograms
  /\ texts = "running"
  /\ moveText = 0
  /\ pos = [i \in TextThreads |-> 0]
  /\ direction = 1
  /\ textAt = [i \in TextThreads |->
                 IF textProg = "xwinp3" THEN "start" ELSE "loop"]
  /\ flag = [i \in {0, 1} |-> 1 - i]
  /\ semval = [k \in {1, 2} |-> 0]
  /\ textSem = 0
  /\ textSet = "live"

TextGoto(i, from, to) ==
  /\ texts = "running" /\ Running1(i)
  /\ textAt[i] = from
  /\ textAt' = [textAt EXCEPT ![i] = to]
  /\ UNCHANGED <<textProg, texts, moveText, textSet>>

Sems12 == {1, 2}
KeepText == UNCHANGED <<pos, direction>>
KeepTurns == UNCHANGED <<flag, semval, textSem>>

----------------------------------------------------------------------------
(* Moving.                                                                 *)

(* one step out or back; at home the direction is turned and the thread    *)
(* goes on at "home" *)
Step(i, home) ==
  LET x == pos[i] + direction
  IN  /\ pos' = [pos EXCEPT ![i] = IF x < 0 THEN 0
                                   ELSE IF x > FAR THEN FAR + 1 ELSE x]
      /\ direction' = IF x > FAR \/ x < 0 THEN -direction ELSE direction
      /\ TextGoto(i, textAt[i], IF x < 0 THEN home ELSE "loop")

(* text 1 of xwinp4 only goes out, and hands over when it is there *)
StepOut(i) ==
  LET x == pos[i] + direction
  IN  /\ pos' = [pos EXCEPT ![i] = IF x > FAR THEN FAR
                                   ELSE IF x < 0 THEN 0 ELSE x]
      /\ UNCHANGED direction
      /\ TextGoto(i, textAt[i], IF x > FAR THEN "release 1" ELSE "loop")

(* text 3 of xwinp4, of which only matters that it moved, turns when text  *)
(* 2 is beyond FAR; it would hand over if text 2 were below 10, where no   *)
(* thread leaves text 2 *)
StepThird(i) ==
  /\ pos' = [pos EXCEPT ![i] = 1]
  /\ direction' = IF pos[1] > FAR THEN -direction ELSE direction
  /\ TextGoto(i, textAt[i], "loop")

----------------------------------------------------------------------------
(* xwinp1 *)
MoveOne ==
  /\ textProg = "xwinp1" /\ moveText = 1
  /\ textAt[0] = "loop" /\ Step(0, "loop")
  /\ KeepTurns

----------------------------------------------------------------------------
(* xwinp2: thread1 = 0; thread2 = 1 and thread1 = 1; thread2 = 0 *)

(* mutant: a thread does not look at its flag *)
MoveByFlag_not(i) ==
  /\ textProg = "xwinp2" /\ moveText = 1
  /\ textAt[i] = "loop" /\ Step(i, "store 1")
  /\ KeepTurns

MoveByFlag(i) ==
  /\ textProg = "xwinp2" /\ moveText = 1 /\ i \in {0, 1} /\ flag[i] = 1
  /\ textAt[i] = "loop" /\ Step(i, "store 1")
  /\ KeepTurns

StoreFlag(i, k, from, to) ==
  /\ TextGoto(i, from, to)
  /\ flag' = [flag EXCEPT ![k] = IF k = i THEN 0 ELSE 1]
  /\ KeepText /\ UNCHANGED <<semval, textSem>>

HandOver(i) ==
  \/ StoreFlag(i, 0, "store 1", "store 2")
  \/ StoreFlag(i, 1, "store 2", "loop")

----------------------------------------------------------------------------
(* xwinp3 and xwinp4: semop fails at once when the set is gone *)

SemAdd(n) ==
  IF textSet = "live" THEN textSem + n \in {0, 1} /\ textSem' = textSem + n
  ELSE UNCHANGED textSem

(* {0, +1} *)
TextGrab(i, k) ==
  /\ \/ k = 1 /\ TextGoto(i, "start", "started")
     \/ k = 1 /\ TextGoto(i, "grab 1", "got 1")
     \/ k = 2 /\ TextGoto(i, "grab 2", "got 2")
  /\ SemAdd(1)
  /\ KeepText /\ UNCHANGED <<flag, semval>>

TextGot(i, k) ==
  /\ \/ k = 1 /\ TextGoto(i, "started", "loop")
     \/ k = 1 /\ TextGoto(i, "got 1", "move")
     \/ k = 2 /\ TextGoto(i, "got 2", "move")
  /\ semval' = [semval EXCEPT ![k] = 1]
  /\ KeepText /\ UNCHANGED <<flag, textSem>>

(* if sem_value is 0, grab: xwinp4 looks at sem_value1, then sem_value2 *)
LookAtSemval(i) ==
  /\ textProg \in {"xwinp3", "xwinp4"}
  /\ TextGoto(i, "loop", IF semval[1] = 0 THEN "grab 1"
                         ELSE IF textProg = "xwinp4" /\ semval[2] = 0
                              THEN "grab 2" ELSE "move")
  /\ KeepText /\ KeepTurns

NotMoving(i) ==
  \/ moveText = 0
  \/ textProg = "xwinp4" /\ semval[IF i = 1 THEN 2 ELSE 1] # 1

MoveBySem(i) ==
  /\ textAt[i] = "move"
  /\ \/ NotMoving(i) /\ TextGoto(i, "move", "loop") /\ KeepText
     \/ ~NotMoving(i) /\ textProg = "xwinp3" /\ Step(i, "release 1")
     \/ ~NotMoving(i) /\ textProg = "xwinp4" /\ i = 0 /\ StepOut(i)
     \/ ~NotMoving(i) /\ textProg = "xwinp4" /\ i = 1 /\ Step(i, "release 2")
     \/ ~NotMoving(i) /\ textProg = "xwinp4" /\ i = 2 /\ StepThird(i)
  /\ KeepTurns

(* mutant: the release takes two *)
TextRelease_twice(i, k) ==
  /\ \/ k = 1 /\ TextGoto(i, "release 1", "zero 1")
     \/ k = 2 /\ TextGoto(i, "release 2", "zero 2")
  /\ textSem' = textSem - 2
  /\ KeepText /\ UNCHANGED <<flag, semval>>

TextRelease(i, k) ==
  /\ \/ k = 1 /\ TextGoto(i, "release 1", "zero 1")
     \/ k = 2 /\ TextGoto(i, "release 2", "zero 2")
  /\ SemAdd(-1)
  /\ KeepText /\ UNCHANGED <<flag, semval>>

TextZero(i, k) ==
  /\ \/ k = 1 /\ TextGoto(i, "zero 1", "loop")
     \/ k = 2 /\ TextGoto(i, "zero 2", "loop")
  /\ semval' = [semval EXCEPT ![k] = 0]
  /\ KeepText /\ UNCHANGED <<flag, textSem>>

----------------------------------------------------------------------------
TextThread(i) ==
  \/ i = 0 /\ MoveOne
  \/ MoveByFlag(i) \/ HandOver(i)
  \/ LookAtSemval(i) \/ MoveBySem(i)
  \/ \E k \in Sems12 :
       TextGrab(i, k) \/ TextGot(i, k) \/ TextRelease(i, k) \/ TextZero(i, k)

(* key t *)
ToggleMove ==
  /\ texts = "running"
  /\ moveText' = 1 - moveText
  /\ UNCHANGED <<textProg, texts, pos, direction, textAt, flag, semval,
                 textSem, textSet>>

(* Escape in xwinp3 and xwinp4 removes the set, also when the main loop    *)
(* then forgets it; so does the Escape of a child, whose semid is 0, if    *)
(* the set happens to have that identifier. *)
RemoveTextSet ==
  /\ texts = "running"
  /\ textProg \in {"xwinp3", "xwinp4"} /\ textSet = "live"
  /\ textSet' = "removed"
  /\ UNCHANGED <<textProg, texts, moveText, pos, direction, textAt, flag,
                 semval, textSem>>

TextsExit ==
  /\ texts = "running"
  /\ textProg \in {"xwinp3", "xwinp4"} => textSet = "removed"
  /\ texts' = "exited"
  /\ UNCHANGED <<textProg, moveText, pos, direction, textAt, flag, semval,
                 textSem, textSet>>

TextsNext ==
  \/ \E i \in TextThreads : TextThread(i)
  \/ ToggleMove \/ RemoveTextSet \/ TextsExit

TextsSpec == TextsInit /\ [][TextsNext]_textVars

----------------------------------------------------------------------------
(* Properties.                                                             *)

TextsTypeOK ==
  /\ textProg \in TextPrograms
  /\ texts \in {"running", "exited"}
  /\ moveText \in {0, 1}
  /\ pos \in [TextThreads -> Screen]
  /\ direction \in {-1, 1}
  /\ textAt \in [TextThreads -> TextSteps]
  /\ flag \in [{0, 1} -> {0, 1}]
  /\ semval \in [Sems12 -> {0, 1}]
  /\ textSem \in {0, 1}
  /\ textSet \in {"live", "removed"}

(* The texts take turns: in xwinp2 at most one is away from home, whatever *)
(* the two stores of a handover meet; and in xwinp4, as long as its set    *)
(* exists, the three threads make one step between them and then all sleep *)
(* on the semaphore that one of them holds.                                *)
OneTextAway ==
  /\ textProg = "xwinp2" => ~(pos[0] > 0 /\ pos[1] > 0)
  /\ textProg = "xwinp4" /\ textSet = "live" => pos[0] + pos[1] + pos[2] <= 1

(* Once t is on for good the text of xwinp1 goes out and home for ever; so *)
(* do both texts of xwinp2, unless a late thread2 = 0 (l.123) leaves both  *)
(* flags at 0.                                                             *)
Roams(i) == []<>(pos[i] > FAR) /\ []<>(pos[i] = 0)

TextsRoam ==
  <>[](moveText = 1 /\ texts = "running") =>
    /\ textProg = "xwinp1" => Roams(0)
    /\ textProg = "xwinp2" =>
         (Roams(0) /\ Roams(1)) \/ <>[](flag[0] = 0 /\ flag[1] = 0)
=============================================================================
