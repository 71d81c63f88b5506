----------------------------- MODULE ParentChild ----------------------------
(***************************************************************************)
(* Programs whose parent and child signal each other: lab3.c and           *)
(* sighand3.c of directory 3, sigset2.c of directory 4.  The calls of      *)
(* sleep are left out, as any of them may be longer or shorter than what   *)
(* the other process does meanwhile.                                       *)
(***************************************************************************)
EXTENDS Signals

ParentChildInit ==
  \/ /\ program = "lab3" /\ SignalsInit("sigprocmask", 0)
     /\ samask = [s \in Sigs |-> IF s = "USR1" THEN All \ {"USR1"} ELSE {}]
  \/ /\ program = "sighand3" /\ SignalsInit("sigaction", 0)
     /\ samask = [s \in Sigs |-> IF s = "INT" THEN All ELSE {}]
  \/ /\ program = "sigset2" /\ SignalsInit("fork", 0)
     /\ samask = [s \in Sigs |-> {}]

SuspendMask_full == All              \* mutant: sigdelset forgotten
SuspendMask == All \ {"USR1"}        \* sigfillset, sigdelset
sigusr1_handler == Return("child", "sigusr1_handler") /\ Say("Signal Received")

lab3 ==
  \/ Do("parent", "sigprocmask", Moved(Blocking(proc.parent, All), "sigaction")) /\ Same
  \/ SigAction("parent", "sigaction", "USR1", "sigusr1_handler", "fork")
  \/ Fork("fork", "term", "hello") /\ Same
  \/ Go("child", "hello", "suspend") /\ Say("hello")
  \/ Do("child", "suspend", Suspended(proc.child, SuspendMask, "world")) /\ Same
  \/ sigusr1_handler
  \/ Go("child", "world", "end") /\ Say("world")
  \/ Exit("child", "end", 0) /\ Same
  \/ KillChild("term", "TERM", "usr1")
  \/ KillChild("usr1", "USR1", "wait")
  \/ Wait("wait", "exit") \/ ParentEnds

(* mem is the global cpid: 0 in the child, and in the parent until it has  *)
(* stored what fork returned                                               *)
sigint_handler(p) ==
  /\ IF proc[p].mem = 0 THEN Exit(p, "sigint_handler", 33)
                        ELSE Return(p, "sigint_handler")
  /\ Same

sighand3 ==
  \/ SigAction("parent", "sigaction", "INT", "sigint_handler", "fork")
  \/ Fork("fork", "cpid", "loop") /\ Same
  \/ Do("parent", "cpid", Moved(Storing(proc.parent, 1), "stop")) /\ Same
  \/ KillChild("stop", "STOP", "cont")
  \/ KillChild("cont", "CONT", "term")
  \/ KillChild("term", "TERM", "wait")
  \/ Wait("wait", "exit") \/ ParentEnds
  \/ \E p \in Procs : sigint_handler(p)

handler(p) ==
  Return(p, "handler") /\ Say(IF p = "parent" THEN "I just died" ELSE "OK What is it?")

sigset2Parent ==
  \/ Do("parent", "block", Moved(Blocking(proc.parent, {"CHLD"}), "action")) /\ Same
  \/ SigAction("parent", "action", "CHLD", "handler", "hup")
  \/ KillChild("hup", "HUP", "pending")
  \/ /\ Do("parent", "pending",
           Moved(IF "CHLD" \in proc.parent.pending
                 THEN SetMask(proc.parent, proc.parent.mask \ {"CHLD"})
                 ELSE proc.parent, "exit"))
     /\ Same
  \/ ParentEnds

sigset2Child ==
  \/ SigAction("child", "child_action", "HUP", "handler", "chld")
  \/ /\ At("child", "chld") /\ Same
     /\ proc' = [parent |-> Raised(proc.parent, "CHLD"),
                 child |-> Moved(proc.child, "loop")]

sigset2 ==
  \/ Fork("fork", "block", "child_action") /\ Same
  \/ sigset2Parent \/ sigset2Child
  \/ \E p \in Procs : handler(p)

ParentChildStep ==
  \/ program = "lab3" /\ lab3
  \/ program = "sighand3" /\ sighand3
  \/ program = "sigset2" /\ sigset2

(* Ctrl-C reaches every process of the terminal                            *)
CtrlC == program \in {"lab3", "sighand3"} /\ Key("INT")
=============================================================================
