----------------------------- MODULE SelfSignals ----------------------------
(***************************************************************************)
(* Programs of one process that wait for a signal, block one or send one   *)
(* to themselves: sighand1.c, sighand2.c, handler_masks.c and sigmask.c of *)
(* directory 3, sigset.c of directory 4, alarm.c of directory 2.           *)
(***************************************************************************)
EXTENDS Signals

Mask(s, m) == samask = [t \in Sigs |-> IF t = s THEN m ELSE {}]

SelfInit ==
  \/ /\ program = "sighand1" /\ SignalsInit("sigprocmask", 0)
     /\ samask = [s \in Sigs |-> All]
  \/ program = "handler_masks" /\ SignalsInit("sigaction", 0) /\ Mask("INT", {"INT"})
  \/ program = "sigset" /\ SignalsInit("sigprocmask", 0) /\ Mask("TERM", All)
  \/ program = "sigmask" /\ SignalsInit("block", 0) /\ Mask("INT", {})
  \/ /\ program \in {"alarm", "sighand2"} /\ Mask("INT", {})
     /\ \E argument \in {0, 1} : SignalsInit("sigaction", argument)

self == proc.parent
Count(l) == Do("parent", l, Storing(Returned(self), self.mem + 1))
Block(l, m, next) == Do("parent", l, Moved(Blocking(self, m), next)) /\ Same
Unblock(l, m, next) == Do("parent", l, Moved(SetMask(self, self.mask \ m), next)) /\ Same
KillSelf(l, s, next) == Do("parent", l, Raised(Moved(self, next), s)) /\ Same

(* l.94-100: sigsuspend with nothing blocked until my_flag is set          *)
myhandler ==
  /\ \/ Return("parent", "myhandler(TSTP)")
     \/ Count("myhandler(INT)")
  /\ Same
sighand1 ==
  \/ Block("sigprocmask", All, "sigaction1")
  \/ SigAction("parent", "sigaction1", "TSTP", "myhandler(TSTP)", "sigaction2")
  \/ SigAction("parent", "sigaction2", "INT", "myhandler(INT)", "suspend")
  \/ Do("parent", "suspend", Suspended(self, {}, "my_flag")) /\ Same
  \/ Go("parent", "my_flag", IF self.mem > 0 THEN "exit" ELSE "suspend") /\ Same
  \/ myhandler
  \/ ParentEnds

(* got_ctrlC is counted at once; the first handler then sleeps             *)
my_handler ==
  \/ Do("parent", "my_handler", Moved(Storing(self, self.mem + 1), "leave"))
  \/ Return("parent", "leave")
handler_masks ==
  \/ SigAction("parent", "sigaction", "INT", "my_handler", "loop")
  \/ Go("parent", "loop", IF self.mem > 0 THEN "exit" ELSE "loop") /\ Same
  \/ my_handler /\ Same
  \/ ParentEnds

Discard_handles == Handling(self, "TERM", "my_handler")   \* mutant
Discard == Handling(self, "TERM", "ignore")               \* l.101-106
sigset ==
  \/ Block("sigprocmask", {"TERM"}, "kill1")
  \/ KillSelf("kill1", "TERM", "pending")
  \/ Do("parent", "pending", Moved(IF "TERM" \in self.pending
                                   THEN Discard ELSE self, "unblock")) /\ Same
  \/ Unblock("unblock", {"TERM"}, "handler")
  \/ SigAction("parent", "handler", "TERM", "my_handler", "kill2")
  \/ KillSelf("kill2", "TERM", "exit")
  \/ Count("my_handler") /\ Same
  \/ ParentEnds

sigmask ==
  \/ Block("block", {"INT"}, "unblock")
  \/ Unblock("unblock", {"INT"}, "exit")
  \/ ParentEnds       \* prints "never executed if Ctrl-C is hit"

(* mem is the argument nsecs; alarm(0) sets no timer                       *)
alarm ==
  \/ SigAction("parent", "sigaction", "ALRM", "sigalrm_handler",
               IF self.mem > 0 THEN "timer" ELSE "loop")
  \/ KillSelf("timer", "ALRM", "loop")       \* at any time after alarm()
  \/ Exit("parent", "sigalrm_handler", 0) /\ Same

(* mem is the argument my_flag: SA_RESTART or not; a Ctrl-C before the     *)
(* read has begun, at "printf", leaves it alone                            *)
sighand2_handler ==
  /\ At("parent", "sighand2_handler") /\ Same
  /\ LET r == Returned(self)
     IN Become("parent", IF r.pc = "fgets" /\ r.mem = 0 THEN Moved(r, "EINTR") ELSE r)
sighand2 ==
  \/ SigAction("parent", "sigaction", "INT", "sighand2_handler", "printf")
  \/ Go("parent", "printf", "fgets") /\ Same
  \/ Go("parent", "fgets", "exit") /\ Say("line")     \* a line is entered
  \/ Go("parent", "EINTR", "exit") /\ Say("EINTR")
  \/ sighand2_handler
  \/ ParentEnds

SelfStep ==
  \/ program = "sighand1" /\ sighand1
  \/ program = "handler_masks" /\ handler_masks
  \/ program = "sigset" /\ sigset
  \/ program = "sigmask" /\ sigmask
  \/ program = "alarm" /\ alarm
  \/ program = "sighand2" /\ sighand2

Keys ==
  \/ program \in {"sighand1", "handler_masks", "sigmask", "sighand2"} /\ Key("INT")
  \/ program = "sighand1" /\ Key("TSTP")
=============================================================================
