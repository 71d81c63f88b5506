------------------------------ MODULE ForkWait ------------------------------
(***************************************************************************)
(* Directory 2: a parent that forks one child and reaps it.  fork-wait.c   *)
(* stops, continues and hangs up its child; in fork1.c and fork2.c the     *)
(* child ends by its own alarm; fork3.c leaves a zombie for a while,       *)
(* fork4.c an orphan; lab2.c computes fib(n) in the child.                 *)
(***************************************************************************)
EXTENDS Signals

ForkWaitInit ==
  /\ samask = [s \in Sigs |-> {}]
  /\ \/ program \in {"fork_wait", "fork1", "fork3", "fork4"} /\ SignalsInit("fork", 0)
     \/ program = "fork2" /\ SignalsInit("open", 100)
     \/ program = "lab2" /\ \E n \in {0, 5}, l \in {"fork", "usage"} : SignalsInit(l, n)

fork_wait_no_wait ==     \* mutant: continues the child before it saw it stop
  \/ Fork("fork", "stop", "loop") /\ Same
  \/ KillChild("stop", "STOP", "cont")
  \/ KillChild("cont", "CONT", "waitpid2")
  \/ WaitAny("waitpid2", "hup")
  \/ KillChild("hup", "HUP", "wait")
  \/ Wait("wait", "exit") \/ ParentEnds

fork_wait ==
  \/ Fork("fork", "stop", "loop") /\ Same
  \/ KillChild("stop", "STOP", "waitpid1")
  \/ WaitAny("waitpid1", "cont")
  \/ KillChild("cont", "CONT", "waitpid2")
  \/ WaitAny("waitpid2", "hup")
  \/ KillChild("hup", "HUP", "wait")
  \/ Wait("wait", "exit") \/ ParentEnds

(* alarm(n): the timer rings while the child pauses or loops               *)
AlarmRings ==
  At("child", "pause") /\ Become("child", Raised(proc.child, "ALRM")) /\ Same

fork1 ==
  \/ Fork("fork", "wait", "alarm") /\ Same
  \/ Go("child", "alarm", "pause") /\ Same
  \/ AlarmRings
  \/ Wait("wait", "exit") \/ ParentEnds

(* The log file is shared, the three variables are copies                  *)
fork2 ==
  \/ Go("parent", "open", "fork") /\ Say(<<"before", proc.parent.mem>>)
  \/ Fork("fork", "wait", "old") /\ Same
  \/ Go("child", "old", "new") /\ Say(<<"child", proc.child.mem>>)
  \/ /\ Do("child", "new", Moved(Storing(proc.child, 15), "pause"))
     /\ Say(<<"child", 15>>)
  \/ AlarmRings
  \/ Wait("wait", "report")
  \/ Go("parent", "report", "exit") /\ Say(<<"parent", proc.parent.mem>>)
  \/ ParentEnds

fork3 ==
  \/ Fork("fork", "wait", "work") /\ Same
  \/ Exit("child", "work", 77) /\ Same
  \/ Wait("wait", "exit") \/ ParentEnds

(* getppid(): an orphan is inherited by init                               *)
getppid == IF Lives(proc.parent) THEN "parent" ELSE "init"

fork4 ==
  \/ Fork("fork", "exit", "ppid1") /\ Same       \* the parent does not wait
  \/ Go("child", "ppid1", "ppid2") /\ Say(getppid)
  \/ Go("child", "ppid2", "end") /\ Say(getppid)
  \/ Exit("child", "end", 0) /\ Same
  \/ ParentEnds

(* fib recurses without end below 1 and overflows the stack; the parent    *)
(* prints its own n for the exit code                                      *)
fib ==
  IF proc.child.mem < 1
  THEN Do("child", "fib", Raised(proc.child, "SEGV"))
  ELSE Exit("child", "fib", proc.child.mem % 256)

lab2 ==
  \/ Exit("parent", "usage", 1) /\ Same
  \/ Fork("fork", "wait", "fib") /\ Same
  \/ fib /\ Same
  \/ Wait("wait", "report")
  \/ Go("parent", "report", "exit") /\ Say(<<"exited", proc.parent.mem>>)
  \/ ParentEnds

ForkWaitStep ==
  \/ program = "fork_wait" /\ fork_wait
  \/ program = "fork1" /\ fork1
  \/ program = "fork2" /\ fork2
  \/ program = "fork3" /\ fork3
  \/ program = "fork4" /\ fork4
  \/ program = "lab2" /\ lab2
=============================================================================
