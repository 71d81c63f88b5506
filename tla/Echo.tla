--------------------------------- MODULE Echo ---------------------------------
(***************************************************************************)
(* 6/echo.c: main() fills the one-character buffer from a file while the   *)
(* thread it created prints the buffer, each as often as the other and     *)
(* with nothing between them.  A character is its position in the file, 0  *)
(* the blank main() stores first, -1 the zero byte the program starts      *)
(* with.  The single byte is read and written at once.                     *)
(***************************************************************************)
EXTENDS Integers

CONSTANT CHARS      \* LIMIT of the file (55)

ASSUME EchoAssumption == CHARS \in Nat

VARIABLES
  echoMain,   \* where main() is
  echoBuf,    \* buf[0]
  filled,     \* the count of main()
  consumer,   \* where the thread is
  putc,       \* the count of the thread
  lastPut     \* the character printed last, -1 also for none yet

echoVars == <<echoMain, echoBuf, filled, consumer, putc, lastPut>>

EchoInit ==
  /\ echoMain = "create" /\ consumer = "new"
  /\ echoBuf = -1
  /\ filled = 0 /\ putc = 0
  /\ lastPut = -1

----------------------------------------------------------------------------
EchoGoto(from, to) ==
  /\ echoMain = from
  /\ echoMain' = to
  /\ UNCHANGED <<putc, lastPut>>

CreateEcho ==
  /\ EchoGoto("create", "blank")
  /\ consumer' = "loop"
  /\ UNCHANGED <<echoBuf, filled>>

Blank ==
  /\ EchoGoto("blank", "fill")
  /\ echoBuf' = 0
  /\ UNCHANGED <<filled, consumer>>

Fill ==
  /\ filled < CHARS
  /\ EchoGoto("fill", "fill")
  /\ echoBuf' = filled + 1
  /\ filled' = filled + 1
  /\ UNCHANGED consumer

FillEnds ==
  /\ filled = CHARS
  /\ EchoGoto("fill", "join")
  /\ UNCHANGED <<echoBuf, filled, consumer>>

JoinEcho ==
  /\ consumer = "exit"
  /\ EchoGoto("join", "end")
  /\ UNCHANGED <<echoBuf, filled, consumer>>

EchoMain == CreateEcho \/ Blank \/ Fill \/ FillEnds \/ JoinEcho

Put ==
  /\ consumer = "loop" /\ putc < CHARS
  /\ lastPut' = echoBuf
  /\ putc' = putc + 1
  /\ UNCHANGED <<echoMain, echoBuf, filled, consumer>>

PutEnds ==
  /\ consumer = "loop" /\ putc = CHARS
  /\ consumer' = "exit"
  /\ UNCHANGED <<echoMain, echoBuf, filled, putc, lastPut>>

EchoConsumer == Put \/ PutEnds

EchoNext == EchoMain \/ EchoConsumer

EchoSpec == EchoInit /\ [][EchoNext]_echoVars

----------------------------------------------------------------------------
(* Properties.                                                             *)

EchoTypeOK ==
  /\ echoMain \in {"create", "blank", "fill", "join", "end"}
  /\ consumer \in {"new", "loop", "exit"}
  /\ echoBuf \in -1 .. CHARS /\ lastPut \in -1 .. CHARS
  /\ filled \in 0 .. CHARS /\ putc \in 0 .. CHARS

(* Characters are skipped and repeated (the header says so), but the thread *)
(* never goes back to an earlier one, and the program always ends.          *)
EchoGoesForward == lastPut <= echoBuf

EchoEnds == <>(echoMain = "end")
=============================================================================
