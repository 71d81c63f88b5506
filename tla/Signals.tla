------------------------------- MODULE Signals ------------------------------
(***************************************************************************)
(* What the signal programs of directories 2, 3 and 4 ask of the kernel:   *)
(* generation, masks, delivery, handler frames, sigsuspend, stop and       *)
(* continue, exit and wait.  A program is a parent and, after its fork, a  *)
(* child.  The operators on a process record r return the record after the *)
(* call; the actions of the programs are built from them.                  *)
(*                                                                         *)
(* A process takes no step of its own while a signal is deliverable: the   *)
(* kernel delivers before it returns to the program, and a signal that is  *)
(* sent while the program computes is one that is sent a little later.     *)
(***************************************************************************)
EXTENDS Naturals, Sequences

CONSTANT MaxSends    \* signals sent from outside, at the keyboard or by kill(1)
ASSUME SendsAssumption == MaxSends \in Nat

VARIABLES
  program,   \* the program that is run
  proc,      \* the record of each process
  samask,    \* sa_mask of each signal's handler
  reports,   \* what the waits returned and the program wrote, in order
  sends      \* signals sent from outside

kernelVars == <<proc, samask, reports, sends>>

Procs == {"parent", "child"}
Sigs == {"USR1", "USR2", "INT", "TERM", "HUP", "CHLD", "ALRM", "SEGV", "TSTP", "STOP", "CONT"}
All == Sigs \ {"STOP"}                \* what sigfillset can block
Stops == {"STOP", "TSTP"}
IgnoredByDefault == {"CHLD", "CONT"}

Started(l, m) ==
  [life |-> "running", pc |-> l, mask |-> {}, pending |-> {}, frames |-> <<>>,
   action |-> [s \in Sigs |-> "default"], event |-> <<>>, mem |-> m]

SignalsInit(l, m) ==
  /\ proc = [p \in Procs |-> [Started(l, m) EXCEPT
               !.life = IF p = "parent" THEN "running" ELSE "none"]]
  /\ reports = <<>> /\ sends = 0

Ignored(r) == {s \in Sigs : \/ r.action[s] = "ignore"
                            \/ r.action[s] = "default" /\ s \in IgnoredByDefault}
Deliverable(r) == r.pending \ r.mask
Lives(r) == r.life \in {"running", "stopped"}
At(p, l) == /\ proc[p].life = "running" /\ proc[p].pc = l
            /\ Deliverable(proc[p]) = {}

Raised(r, s) ==
  CASE ~Lives(r)                       -> r
    [] Lives(r) /\ s = "CONT"          ->
         [r EXCEPT !.life = "running", !.pending = @ \ Stops,
                   !.event = IF r.life = "stopped" THEN <<"continued">> ELSE @]
    [] Lives(r) /\ s \in Ignored(r) \ (r.mask \cup {"CONT"}) -> r
    [] OTHER                           -> [r EXCEPT !.pending = @ \cup {s}]

Moved(r, l) == [r EXCEPT !.pc = l]
Blocking(r, m) == [r EXCEPT !.mask = @ \cup m]
SetMask(r, m) == [r EXCEPT !.mask = m]
Handling(r, s, handler) == [r EXCEPT !.action[s] = handler,
                              !.pending = IF handler = "ignore" THEN @ \ {s} ELSE @]
Suspended_no_frame(r, m, next) == [r EXCEPT !.pc = "sigsuspend", !.mask = m]   \* mutant
(* sigsuspend(&m): the frame keeps the mask that is restored on return     *)
Suspended(r, m, next) ==
  [r EXCEPT !.pc = "sigsuspend", !.mask = m,
            !.frames = Append(@, [pc |-> next, mask |-> r.mask])]
Interrupted(r, s) ==
  [r EXCEPT !.pending = @ \ {s}, !.pc = r.action[s],
            !.mask = @ \cup samask[s] \cup {s},
            !.frames = IF r.pc = "sigsuspend" THEN @
                       ELSE Append(@, [pc |-> r.pc, mask |-> r.mask])]
Returned(r) ==
  LET top == r.frames[Len(r.frames)]
  IN [r EXCEPT !.pc = top.pc, !.mask = top.mask,
               !.frames = SubSeq(@, 1, Len(@) - 1)]
Ended(r, status) == [r EXCEPT !.life = "zombie", !.event = status, !.pending = {}]

(* the int that handlers and forks tell apart: paused, my_flag, cpid...    *)
Storing(r, v) == [r EXCEPT !.mem = v]

Become(p, r) == proc' = [proc EXCEPT ![p] = r]
Tell(p, r) ==   \* p changes to r, and its parent is told
  proc' = IF p = "child"
          THEN [proc EXCEPT !.child = r, !.parent = Raised(@, "CHLD")]
          ELSE [proc EXCEPT !.parent = r]

(* One step of the program text, from l                                    *)
Do(p, l, r) == At(p, l) /\ Become(p, r)
Go(p, l, next) == Do(p, l, Moved(proc[p], next))
Same == UNCHANGED <<reports, sends>>
SigAction(p, l, s, handler, next) ==
  Do(p, l, Moved(Handling(proc[p], s, handler), next)) /\ Same
Say(x) == reports' = Append(reports, x) /\ UNCHANGED sends
Return(p, l) == Do(p, l, Returned(proc[p]))
Exit(p, l, code) == At(p, l) /\ Tell(p, Ended(proc[p], <<"exited", code>>))
KillChild(l, s, next) ==
  At("parent", l) /\ Same /\
    proc' = [proc EXCEPT !.parent = Moved(@, next), !.child = Raised(@, s)]
Fork(l, inParent, inChild) ==
  At("parent", l) /\
    proc' = [proc EXCEPT !.parent = Moved(@, inParent),
               !.child = [Moved(proc.parent, inChild) EXCEPT !.pending = {}]]

(* wait(&status), and waitpid with WUNTRACED|WCONTINUED, which also        *)
(* returns for a child that stopped or continued since the last report     *)
Reap(l, next, alsoStops) ==
  /\ At("parent", l) /\ UNCHANGED sends
  /\ \/ proc.child.life = "zombie"
     \/ alsoStops /\ proc.child.event # <<>>
  /\ reports' = Append(reports, proc.child.event)
  /\ proc' = [proc EXCEPT !.parent = Moved(@, next), !.child.event = <<>>,
                !.child.life = IF @ = "zombie" THEN "reaped" ELSE @]
Wait(l, next) == Reap(l, next, FALSE)
WaitAny(l, next) == Reap(l, next, TRUE)
ParentEnds == Exit("parent", "exit", 0) /\ Same

Deliver(p) ==
  /\ proc[p].life = "running"
  /\ \E s \in Deliverable(proc[p]) :
       CASE proc[p].action[s] = "default" /\ s \in Stops ->
              Tell(p, [proc[p] EXCEPT !.life = "stopped", !.event = <<"stopped">>,
                                      !.pending = @ \ {s}])
         [] proc[p].action[s] = "default" /\ s \in IgnoredByDefault ->
              Become(p, [proc[p] EXCEPT !.pending = @ \ {s}])
         [] proc[p].action[s] = "default" /\ s \notin Stops \cup IgnoredByDefault ->
              Tell(p, Ended(proc[p], <<"killed", s>>))
         [] OTHER -> Become(p, Interrupted(proc[p], s))
  /\ Same

(* A signal from outside: kill(1) to the parent, or a key of the terminal, *)
(* whose signal goes to both processes                                     *)
Outside(A) == /\ sends < MaxSends /\ sends' = sends + 1
              /\ Lives(proc.parent) /\ A /\ UNCHANGED reports
Send(s) == Outside(proc' = [proc EXCEPT !.parent = Raised(@, s)])
Key(s) == Outside(proc' = [p \in Procs |-> Raised(proc[p], s)])

SignalsTypeOK ==
  \A p \in Procs :
    LET r == proc[p] IN
    /\ r.life \in {"none", "running", "stopped", "zombie", "reaped"}
    /\ r.mask \subseteq All /\ r.pending \subseteq Sigs
    /\ \A i \in DOMAIN r.frames : r.frames[i].mask \subseteq All
    /\ r.pc = "sigsuspend" => r.frames # <<>>
=============================================================================
