--------------------------- MODULE SignalPrograms ---------------------------
(***************************************************************************)
(* The programs that live by signals, each run by itself: what their       *)
(* handlers, masks and waits are there for.                                *)
(***************************************************************************)
EXTENDS StartStop, ForkWait, ParentChild, SelfSignals

signalVars == <<program, savedmask, kernelVars>>

SignalProgramsInit ==
  \/ StartStopInit
  \/ savedmask = {} /\ (ForkWaitInit \/ ParentChildInit \/ SelfInit)

Fixed == UNCHANGED <<program, samask>>
StartStopRuns(A) == program = "startstop" /\ A /\ Fixed
OtherRuns(A) == program # "startstop" /\ A /\ Fixed /\ UNCHANGED savedmask

SignalSteps ==
  \/ StartStopRuns(StartStopStep)
  \/ OtherRuns(ForkWaitStep \/ ParentChildStep \/ SelfStep)
  \/ OtherRuns(\E p \in Procs : Deliver(p))

SignalProgramsNext ==
  \/ SignalSteps
  \/ StartStopRuns(\E s \in HandlerMask : Send(s) /\ UNCHANGED savedmask)
  \/ OtherRuns(CtrlC \/ Keys)

(* The scheduler lets a process that can run take a step; keys and kills   *)
(* from outside need not come.                                             *)
StepOf(p) == SignalSteps /\ proc'[p] # proc[p]
SignalProgramsSpec ==
  /\ SignalProgramsInit
  /\ [][SignalProgramsNext]_signalVars
  /\ \A p \in Procs : WF_signalVars(StepOf(p))

----------------------------------------------------------------------------
(* No process goes to sleep in sigsuspend after the signal it waits for    *)
(* was handled: paused is tested, and my_flag is, with the signals blocked.*)
NoLostWakeup ==
  proc.parent.pc = "sigsuspend" =>
    /\ program = "startstop" => paused = 1
    /\ program = "sighand1" => proc.parent.mem = 0

(* l.201-204 of startstop.c, "you will not be interrupted"; l.10-11 of     *)
(* handler_masks.c, a Ctrl-C in the handler waits for its end; l.79 of     *)
(* sighand1.c.  None of these pieces of code is ever under another handler.*)
Uninterrupted ==
  \A p \in Procs : \A i \in DOMAIN proc[p].frames :
    proc[p].frames[i].pc \notin
      {"usr1_critical", "usr2_critical", "usr2_restore", "leave", "my_handler",
       "myhandler(INT)", "myhandler(TSTP)", "sigint_handler", "sigusr1_handler"}

(* What the waits return and the processes write, in this order and        *)
(* nothing else.  A stop and a continue are both seen, because waitpid in  *)
(* l.104 and l.112 of fork-wait.c has no WNOHANG and blocks, against the   *)
(* comment "non-blocking" beside it; a TERM that is blocked never kills;   *)
(* an orphan is not given back; and what lab2 prints as its child's exit   *)
(* code (l.61) is the parent's own n, 0 too when a signal ended the child. *)
Expected ==
  CASE program = "fork_wait" -> {<<<<"stopped">>, <<"continued">>, <<"killed", "HUP">>>>}
    [] program = "fork1" -> {<<<<"killed", "ALRM">>>>}
    [] program = "fork2" -> {<<<<"before", 100>>, <<"child", 100>>, <<"child", 15>>,
                               <<"killed", "ALRM">>, <<"parent", 100>>>>}
    [] program = "fork3" -> {<<<<"exited", 77>>>>}
    [] program = "fork4" -> {<<a, b>> : a \in {"parent", "init"}, b \in {"parent", "init"}}
                              \ {<<"init", "parent">>}
    [] program = "lab2" -> {<<IF n > 0 THEN <<"exited", n>> ELSE <<"killed", "SEGV">>,
                              <<"exited", n>>>> : n \in {proc.parent.mem}}
    [] program = "lab3" -> {<<"hello", "Signal Received", "world", <<"exited", 0>>>>}
    [] program = "sighand3" -> {<<<<"killed", "TERM">>>>, <<<<"exited", 33>>>>}
    [] OTHER -> {reports}

WaitReports ==
  \E e \in Expected : Len(reports) <= Len(e) /\ reports = SubSeq(e, 1, Len(reports))

(* A program that waits for a signal ends only for it: sighand1 and        *)
(* handler_masks after a Ctrl-C, sigset after its second SIGTERM alone,    *)
(* sigmask only without a Ctrl-C (l.48), alarm when its timer was set, and *)
(* fgets of sighand2 fails only without SA_RESTART.                        *)
EndsBecause ==
  proc.parent.event = <<"exited", 0>> =>
    /\ program \in {"sighand1", "handler_masks"} => proc.parent.mem \in 1 .. sends
    /\ program = "sigset" => proc.parent.mem = 1
    /\ program = "sigmask" => sends = 0
    /\ program = "alarm" => proc.parent.mem = 1
    /\ program = "sighand2" /\ reports = <<"EINTR">> => proc.parent.mem = 0 /\ sends > 0

(* A USR2 that arrives after the process paused makes it go on or end.     *)
Resumes == program = "startstop" /\ paused = 1 /\ "USR2" \in proc.parent.pending
             ~> paused = 0 \/ ~Lives(proc.parent)

(* Whatever the order of signals, stops and keys, parent and child end,    *)
(* and the paused process goes on (sigset2's child runs on after its       *)
(* parent).  A Ctrl-C at sighand3 while its child is stopped is no         *)
(* exception, though l.25-28 call it a deadlock: the parent's handler      *)
(* returns (l.127), and main() continues, terminates and reaps the child.  *)
SignalsEnd ==
  /\ Resumes
  /\ program \in {"fork_wait", "fork1", "fork2", "fork3", "fork4", "lab2",
                  "lab3", "sighand3", "sigset"}
       ~> ~Lives(proc.parent) /\ ~Lives(proc.child)
=============================================================================
