------------------------------ MODULE StartStop -----------------------------
(***************************************************************************)
(* startstop.c: SIGUSR1 pauses the process inside its handler, SIGUSR2     *)
(* lets it go on, SIGINT ends it.  The sa_mask of the three actions is     *)
(* never set (l.129-140): each may hold any signals, of which those of     *)
(* HandlerMask matter; that of SIGINT does not, its handler exits.         *)
(***************************************************************************)
EXTENDS Signals

VARIABLE savedmask   \* the global both handlers save their mask in

paused == proc.parent.mem
HandlerMask == {"USR1", "USR2", "INT"}

StartStopInit ==
  /\ program = "startstop" /\ SignalsInit("sigaction1", 0)
  /\ savedmask = {}
  /\ \E m1, m2 \in SUBSET HandlerMask :
       samask = [s \in Sigs |-> CASE s = "USR1" -> m1 [] s = "USR2" -> m2 [] OTHER -> {}]

RegisterHandlers ==
  /\ \/ SigAction("parent", "sigaction1", "USR1", "usr1_handler", "sigaction2")
     \/ SigAction("parent", "sigaction2", "USR2", "usr2_handler", "sigaction3")
     \/ SigAction("parent", "sigaction3", "INT", "ctlc_handler", "loop")
  /\ UNCHANGED savedmask

(* Mutants: nothing is blocked; sigsuspend with the handler's mask.        *)
BlockAndSave_open(l, next) ==
  /\ Go("parent", l, next) /\ savedmask' = proc.parent.mask /\ Same
sigsuspend_blocked ==
  /\ Do("parent", "usr1_sigsuspend", Suspended(proc.parent, HandlerMask, "usr1_while"))
  /\ Same /\ UNCHANGED savedmask

(* sigprocmask(SIG_BLOCK, &handlermask, &savedmask)                        *)
BlockAndSave(l, next) ==
  /\ Do("parent", l, Moved(Blocking(proc.parent, HandlerMask), next))
  /\ savedmask' = proc.parent.mask /\ Same
Restore(l) ==
  Do("parent", l, Moved(SetMask(proc.parent, savedmask), "return"))
    /\ Same /\ UNCHANGED savedmask
SetPaused(l, v, next) ==
  Do("parent", l, Moved(Storing(proc.parent, v), next)) /\ Same /\ UNCHANGED savedmask
Oops(l) == Go("parent", l, "return") /\ Same /\ UNCHANGED savedmask

TestPaused ==
  /\ Go("parent", "usr1_while", IF paused = 1 THEN "usr1_sigsuspend" ELSE "usr1_restore")
  /\ Same /\ UNCHANGED savedmask
sigsuspend ==
  /\ Do("parent", "usr1_sigsuspend", Suspended(proc.parent, {}, "usr1_while"))
  /\ Same /\ UNCHANGED savedmask

usr1_handler ==
  \/ paused = 1 /\ Oops("usr1_handler")
  \/ paused = 0 /\ BlockAndSave("usr1_handler", "usr1_critical")
  \/ SetPaused("usr1_critical", 1, "usr1_while")
  \/ TestPaused \/ sigsuspend
  \/ Restore("usr1_restore")

usr2_handler ==
  \/ paused = 0 /\ Oops("usr2_handler")
  \/ paused = 1 /\ BlockAndSave("usr2_handler", "usr2_critical")
  \/ SetPaused("usr2_critical", 0, "usr2_restore")
  \/ Restore("usr2_restore")

HandlerReturns == Return("parent", "return") /\ Same /\ UNCHANGED savedmask
ctlc_handler == Exit("parent", "ctlc_handler", 0) /\ Same /\ UNCHANGED savedmask

StartStopStep ==
  \/ RegisterHandlers \/ usr1_handler \/ usr2_handler
  \/ HandlerReturns \/ ctlc_handler
  \/ Deliver("parent") /\ UNCHANGED savedmask

StartStopNext ==
  \/ StartStopStep
  \/ \E s \in HandlerMask : Send(s) /\ UNCHANGED savedmask
=============================================================================
