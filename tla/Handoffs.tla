------------------------------ MODULE Handoffs ------------------------------
(***************************************************************************)
(* The programs in which one thread or process hands something to another, *)
(* one of which is run: the turn and a character by two semaphores (lab6), *)
(* the turn (mine), a character by nothing at all (echo), a baton (lab9),  *)
(* messages (msg_send with msg_rcv), a number and a word by a segment and  *)
(* a queue that outlive the run (lab4, shared_mem), partial sums and bytes *)
(* by a mutex or a pipe (dotprod, lab10, pipetest).                        *)
(***************************************************************************)
EXTENDS Lab6, Mine, Echo, Relay, Mailbox, Cells, Pipes

VARIABLE program     \* the program, or programs, that are run

handoffVars == <<program, lab6Vars, mineVars, echoVars, relayVars, mailVars,
                 cellVars, pipeVars>>

HandoffsInit ==
  /\ program \in {"lab6", "mine", "echo", "lab9", "messages", "cells", "pipes"}
  /\ Lab6Init /\ MineInit /\ EchoInit /\ RelayInit
  /\ MailboxInit /\ CellsInit /\ PipesInit
  (* the choices of a program that is not run do not matter *)
  /\ program # "lab9" => forkFlag = 0
  /\ program # "cells" => cellProg = "lab4"
  /\ program # "pipes" => dotProg = "lab10"

RunLab6(A) ==
  /\ program = "lab6" /\ A
  /\ UNCHANGED <<program, mineVars, echoVars, relayVars, mailVars, cellVars,
                 pipeVars>>
RunMine(A) ==
  /\ program = "mine" /\ A
  /\ UNCHANGED <<program, lab6Vars, echoVars, relayVars, mailVars, cellVars,
                 pipeVars>>
RunEcho(A) ==
  /\ program = "echo" /\ A
  /\ UNCHANGED <<program, lab6Vars, mineVars, relayVars, mailVars, cellVars,
                 pipeVars>>
RunRelay(A) ==
  /\ program = "lab9" /\ A
  /\ UNCHANGED <<program, lab6Vars, mineVars, echoVars, mailVars, cellVars,
                 pipeVars>>
RunMessages(A) ==
  /\ program = "messages" /\ A
  /\ UNCHANGED <<program, lab6Vars, mineVars, echoVars, relayVars, cellVars,
                 pipeVars>>
RunCells(A) ==
  /\ program = "cells" /\ A
  /\ UNCHANGED <<program, lab6Vars, mineVars, echoVars, relayVars, mailVars,
                 pipeVars>>
RunPipes(A) ==
  /\ program = "pipes" /\ A
  /\ UNCHANGED <<program, lab6Vars, mineVars, echoVars, relayVars, mailVars,
                 cellVars>>

HandoffsNext ==
  \/ RunLab6(Lab6Next)
  \/ RunMine(MineNext)
  \/ RunEcho(EchoNext)
  \/ RunRelay(RelayNext)
  \/ RunMessages(MailboxNext)
  \/ RunCells(CellsNext)
  \/ RunPipes(PipesNext)

HandoffsSpec ==
  /\ HandoffsInit
  /\ [][HandoffsNext]_handoffVars
  /\ WF_handoffVars(RunLab6(Main))
  /\ \A t \in Threads : WF_handoffVars(RunLab6(Thread(t)))
  /\ WF_handoffVars(RunMine(MineMain))
  /\ \A me \in Sems : WF_handoffVars(RunMine(Animal(me)))
  /\ WF_handoffVars(RunEcho(EchoMain))
  /\ WF_handoffVars(RunEcho(EchoConsumer))
  /\ WF_handoffVars(RunRelay(RelayMain))
  /\ WF_handoffVars(RunRelay(ChildIpcrm))
  /\ \A i \in Runner : WF_handoffVars(RunRelay(thrfunc(i)))
  /\ \A p \in Senders : WF_handoffVars(RunMessages(msg_send(p)))
  /\ \A p \in Receivers : WF_handoffVars(RunMessages(msg_rcv(p)))
  /\ WF_handoffVars(RunCells(CellParent))
  /\ WF_handoffVars(RunCells(CellChild))
  /\ WF_handoffVars(RunPipes(Boss))
  /\ \A w \in Workers : WF_handoffVars(RunPipes(dotprod(w)))
  /\ WF_handoffVars(RunPipes(Kid))

----------------------------------------------------------------------------
(* The variables of all programs keep their types.                         *)
HandoffsTypeOK ==
  /\ Lab6TypeOK /\ MineTypeOK /\ EchoTypeOK /\ RelayTypeOK
  /\ MailboxTypeOK /\ CellsTypeOK /\ PipesTypeOK

(* What comes out is what went in.  Messages and typed words (MsgRcv of    *)
(* msg_rcv.c l.95, the log of lab4.c l.53-57) are those that were sent, at *)
(* most once, and those of another run only under the stated conditions;   *)
(* the consumer of echo.c never goes back to an earlier character.         *)
OnlyWhatWasSent == EachMessageOnce /\ LogsThisRun /\ EchoGoesForward

(* Lab6 gets past its joins unless a sembuf was clobbered; lab4 ends       *)
(* unless nothing it can use was typed; receivers wait only for a message  *)
(* nobody will send; all the others end.                                   *)
HandoffsEnd ==
  /\ program = "lab6" => JoinsUnlessClobbered
  /\ program = "mine" => MineEnds
  /\ program = "echo" => EchoEnds
  /\ program = "lab9" => RelayEnds
  /\ program = "messages" => MailSettles
  /\ program = "cells" => CellsEnd
  /\ program = "pipes" => PipesEnd
=============================================================================
