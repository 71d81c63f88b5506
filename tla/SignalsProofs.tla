---------------------------- MODULE SignalsProofs ----------------------------
(***************************************************************************)
(* Proofs about SignalPrograms, for any number of signals from outside:    *)
(* the types, that nothing is lost between a test and its sigsuspend, that *)
(* critical code of handlers is not interrupted, why the programs of one   *)
(* process end, and in which order those of two report.                    *)
(*                                                                         *)
(* Of every process it is shown that its record is good: where it would be *)
(* wrong to be interrupted it has blocked the signals it handles, and so   *)
(* has every mask that a frame restores.  Good is preserved by each of the *)
(* kernel's operators; the programs are combinations of those.             *)
(* EndsInv and PlotInv add, per program, what its end and its reports need *)
(* of earlier steps.                                                       *)
(***************************************************************************)
EXTENDS SignalPrograms, SequenceTheorems, TLAPS

Lifes == {"none", "running", "stopped", "zombie", "reaped"}
Fields == {"life", "pc", "mask", "pending", "frames", "action", "event", "mem"}

(* Where handlers are, by program. *)
HandlersOf(prog) ==
  CASE prog = "startstop" ->
         {"usr1_handler", "usr1_critical", "usr1_while", "usr1_sigsuspend",
          "usr1_restore", "usr2_handler", "usr2_critical", "usr2_restore",
          "return", "ctlc_handler"}
    [] prog = "lab3" -> {"sigusr1_handler"}
    [] prog = "sighand3" -> {"sigint_handler"}
    [] prog = "sigset2" -> {"handler"}
    [] prog = "sighand1" -> {"myhandler(TSTP)", "myhandler(INT)"}
    [] prog = "handler_masks" -> {"my_handler", "leave"}
    [] prog = "sigset" -> {"my_handler"}
    [] prog = "alarm" -> {"sigalrm_handler"}
    [] prog = "sighand2" -> {"sighand2_handler"}
    [] OTHER -> {}

(* The signals a program has handlers for. *)
HandledBy(prog) ==
  CASE prog = "startstop" -> {"USR1", "USR2", "INT"}
    [] prog = "lab3" -> {"USR1"}
    [] prog \in {"sighand3", "handler_masks", "sighand2"} -> {"INT"}
    [] prog = "sigset2" -> {"CHLD", "HUP"}
    [] prog = "sighand1" -> {"TSTP", "INT"}
    [] prog = "sigset" -> {"TERM"}
    [] prog = "alarm" -> {"ALRM"}
    [] OTHER -> {}

(* What is never under another handler, and where no signal that is        *)
(* handled may be delivered.                                               *)
Critical ==
  {"usr1_critical", "usr2_critical", "usr2_restore", "leave", "my_handler",
   "myhandler(INT)", "myhandler(TSTP)", "sigint_handler", "sigusr1_handler"}
Ready == {"sigaction1", "sigaction2", "suspend"}     \* of sighand1
BlockedIn(prog) ==
  Critical \cup {"usr1_while", "usr1_sigsuspend", "usr1_restore", "my_flag"}
           \cup (IF prog = "sighand1" THEN Ready ELSE {})

IsSeq(frames) == \E S : frames \in Seq(S)

GoodFrame(prog, f) ==
  /\ f.mask \subseteq All
  /\ f.pc \notin Critical \cup {"sigsuspend", "usr1_sigsuspend"}
  /\ prog = "sighand1" => f.pc \notin Ready \cup {"sigprocmask"}
  /\ f.pc \in BlockedIn(prog) => HandledBy(prog) \subseteq f.mask

(* A record, wherever its process is; sm is samask. *)
Sane(prog, sm, r) ==
  /\ DOMAIN r = Fields
  /\ r.life \in Lifes /\ r.mem \in Nat
  /\ r.mask \subseteq All /\ r.pending \subseteq Sigs
  /\ r.action \in [Sigs -> {"default", "ignore"} \cup HandlersOf(prog)]
  /\ \A s \in Sigs :
       /\ r.action[s] \in HandlersOf(prog) =>
            s \in HandledBy(prog) /\ r.action[s] # "usr1_sigsuspend"
       /\ r.action[s] \in BlockedIn(prog) => HandledBy(prog) \subseteq sm[s] \cup {s}
       /\ r.action[s] = "ignore" => prog = "sigset" /\ s = "TERM" /\ s \notin r.pending
  /\ IsSeq(r.frames)
  /\ \A i \in DOMAIN r.frames :
       /\ GoodFrame(prog, r.frames[i])
       /\ r.frames[i].pc \in HandlersOf(prog) => i # 1

(* A record whose process may be at l. *)
Fits(prog, r, l) ==
  /\ l \in HandlersOf(prog) \cup {"sigsuspend"} => r.frames # <<>>
  /\ l \in BlockedIn(prog) => HandledBy(prog) \subseteq r.mask
  /\ l \notin {"unblock", "handler"} => \A s \in Sigs : r.action[s] # "ignore"
  /\ prog = "startstop" /\ l \in {"usr1_sigsuspend", "sigsuspend"} => r.mem = 1
  /\ prog = "sighand1" =>
       /\ l = "sigprocmask" => \A s \in Sigs : r.action[s] = "default"
       /\ l \in Ready \cup {"sigprocmask", "sigsuspend"} => r.mem = 0

Good(prog, sm, r) == Sane(prog, sm, r) /\ Fits(prog, r, r.pc)

----------------------------------------------------------------------------
(* The operators on records.                                               *)

LEMMA FieldsAfter ==
  ASSUME NEW r, DOMAIN r = Fields, NEW x
  PROVE  /\ DOMAIN Moved(r, x) = Fields /\ Moved(r, x).pc = x
         /\ Moved(r, x).life = r.life /\ Moved(r, x).mem = r.mem
         /\ Moved(r, x).mask = r.mask /\ Moved(r, x).pending = r.pending
         /\ Moved(r, x).frames = r.frames /\ Moved(r, x).action = r.action
         /\ Moved(r, x).event = r.event
BY DEF Fields, Moved

LEMMA SaneMoved ==
  ASSUME NEW prog, NEW sm, NEW r, NEW l, Sane(prog, sm, r)
  PROVE  Sane(prog, sm, Moved(r, l))
BY FieldsAfter DEF Sane

LEMMA GoodMoved ==
  ASSUME NEW prog, NEW sm, NEW r, NEW l, Sane(prog, sm, r), Fits(prog, r, l)
  PROVE  Good(prog, sm, Moved(r, l))
<1>1. DOMAIN r = Fields 
  BY DEF Sane, Fits
<1>2. Sane(prog, sm, Moved(r, l))
  BY <1>1, SaneMoved
<1>3. Fits(prog, Moved(r, l), l) /\ Moved(r, l).pc = l
  BY <1>1, FieldsAfter DEF Fits
<1>4. QED
  BY <1>2, <1>3 DEF Good

LEMMA MaskFields ==
  ASSUME NEW r, DOMAIN r = Fields, NEW m
  PROVE  /\ SetMask(r, m).mask = m
         /\ SetMask(r, m).frames = r.frames /\ SetMask(r, m).action = r.action
         /\ SetMask(r, m).mem = r.mem
BY DEF Fields, SetMask

LEMMA SaneMask ==
  ASSUME NEW prog, NEW sm, NEW r, Sane(prog, sm, r), NEW m, m \subseteq All
  PROVE  Sane(prog, sm, SetMask(r, m))
<1> DEFINE q == SetMask(r, m)
<1>1. /\ DOMAIN q = Fields /\ q.pc = r.pc /\ q.life = r.life /\ q.mem = r.mem
      /\ q.mask = m /\ q.pending = r.pending
      /\ q.frames = r.frames /\ q.action = r.action
  BY DEF Sane, Fields, SetMask
<1> HIDE DEF q
<1>2. Sane(prog, sm, q)
  BY <1>1 DEF Sane
<1>3. QED
  BY <1>2 DEF q

LEMMA BlockingIsMask ==
  ASSUME NEW r, DOMAIN r = Fields, NEW m
  PROVE  Blocking(r, m) = SetMask(r, r.mask \cup m)
BY DEF Blocking, SetMask, Fields

LEMMA SaneBlocking ==
  ASSUME NEW prog, NEW sm, NEW r, Sane(prog, sm, r), NEW m, m \subseteq All
  PROVE  Sane(prog, sm, Blocking(r, m))
<1>1. DOMAIN r = Fields /\ r.mask \cup m \subseteq All
  BY DEF Sane
<1>2. Sane(prog, sm, SetMask(r, r.mask \cup m))
  BY <1>1, SaneMask
<1>3. QED
  BY <1>1, <1>2, BlockingIsMask

LEMMA SaneStoring ==
  ASSUME NEW prog, NEW sm, NEW r, NEW v \in Nat, Sane(prog, sm, r)
  PROVE  /\ Sane(prog, sm, Storing(r, v))
         /\ Storing(r, v).mem = v /\ Storing(r, v).mask = r.mask
         /\ Storing(r, v).frames = r.frames /\ Storing(r, v).action = r.action
         /\ Storing(r, v).pc = r.pc
<1> DEFINE q == Storing(r, v)
<1>1. /\ DOMAIN q = Fields /\ q.pc = r.pc /\ q.life = r.life /\ q.mem = v
      /\ q.mask = r.mask /\ q.pending = r.pending
      /\ q.frames = r.frames /\ q.action = r.action
  BY DEF Sane, Fields, Storing
<1> HIDE DEF q
<1>2. Sane(prog, sm, q)
  BY <1>1 DEF Sane
<1>3. QED
  BY <1>1, <1>2 DEF q

LEMMA HandlerNames ==
  ASSUME NEW prog
  PROVE  HandlersOf(prog) \cap {"default", "ignore", "sigsuspend"} = {}
BY DEF HandlersOf

(* A handler that prog has is installed. *)
LEMMA SaneHandling ==
  ASSUME NEW prog, NEW sm, NEW r, Sane(prog, sm, r),
         NEW t \in HandledBy(prog), t \in Sigs,
         NEW h \in HandlersOf(prog), h # "usr1_sigsuspend",
         h \in BlockedIn(prog) => HandledBy(prog) \subseteq sm[t] \cup {t}
  PROVE  /\ Sane(prog, sm, Handling(r, t, h))
         /\ Handling(r, t, h).mask = r.mask /\ Handling(r, t, h).frames = r.frames
         /\ Handling(r, t, h).mem = r.mem
         /\ \A s \in Sigs : Handling(r, t, h).action[s] = IF s = t THEN h ELSE r.action[s]
<1> DEFINE q == Handling(r, t, h)
<1>1. h # "ignore" /\ h # "default"
  BY HandlerNames
<1>2. /\ DOMAIN q = Fields /\ q.pc = r.pc /\ q.life = r.life /\ q.mem = r.mem
      /\ q.mask = r.mask /\ q.pending = r.pending /\ q.frames = r.frames
      /\ q.action = [r.action EXCEPT ![t] = h]
  BY <1>1 DEF Sane, Fields, Handling
<1> HIDE DEF q
<1>3. /\ q.action \in [Sigs -> {"default", "ignore"} \cup HandlersOf(prog)]
      /\ \A s \in Sigs : q.action[s] = IF s = t THEN h ELSE r.action[s]
  BY <1>2 DEF Sane
<1>4. Sane(prog, sm, q)
  BY <1>1, <1>2, <1>3 DEF Sane
<1>5. QED
  BY <1>2, <1>3, <1>4 DEF q

(* A frame on top of the others: they stay where they are. *)
LEMMA SanePushed ==
  ASSUME NEW prog, NEW sm, NEW r, Sane(prog, sm, r),
         NEW f, GoodFrame(prog, f),
         f.pc \in HandlersOf(prog) => r.frames # <<>>,
         NEW q, DOMAIN q = Fields, q.life = r.life, q.mem = r.mem,
         q.mask \subseteq All, q.pending \subseteq r.pending, q.action = r.action,
         q.frames = Append(r.frames, f)
  PROVE  Sane(prog, sm, q) /\ q.frames # <<>>
<1>1. PICK S : r.frames \in Seq(S)
  BY DEF Sane, IsSeq
<1> DEFINE T == S \cup {f}
<1> HIDE DEF T
<1>7. r.frames \in Seq(T) /\ f \in T
  BY <1>1, SeqMonotonic DEF T
<1>2. /\ q.frames \in Seq(T) /\ Len(q.frames) = Len(r.frames) + 1
      /\ q.frames[Len(r.frames) + 1] = f
      /\ \A i \in 1 .. Len(r.frames) : q.frames[i] = r.frames[i]
  BY <1>7, AppendProperties
<1>3. /\ Len(r.frames) \in Nat /\ DOMAIN r.frames = 1 .. Len(r.frames)
      /\ DOMAIN q.frames = 1 .. Len(r.frames) + 1
      /\ r.frames # <<>> => Len(r.frames) # 0
  BY <1>7, <1>2, LenProperties, EmptySeq
<1>4. ASSUME NEW i \in DOMAIN q.frames
      PROVE  /\ GoodFrame(prog, q.frames[i])
             /\ q.frames[i].pc \in HandlersOf(prog) => i # 1
  <2>1. CASE i = Len(r.frames) + 1
    BY <1>2, <1>3, <2>1
  <2>2. CASE i \in DOMAIN r.frames
    BY <1>2, <1>3, <2>2 DEF Sane
  <2>3. QED
    BY <1>3, <2>1, <2>2
<1>5. q.frames # <<>>
  BY <1>2, <1>3, EmptySeq
<1>6. QED
  BY <1>2, <1>4, <1>5 DEF Sane, IsSeq

LEMMA GoodSuspended ==
  ASSUME NEW prog, NEW sm, NEW r, NEW m \in SUBSET All, NEW l, Sane(prog, sm, r),
         GoodFrame(prog, [pc |-> l, mask |-> r.mask]),
         l \in HandlersOf(prog) => r.frames # <<>>,
         \A s \in Sigs : r.action[s] # "ignore",
         prog = "startstop" => r.mem = 1,
         prog = "sighand1" => r.mem = 0
  PROVE  Good(prog, sm, Suspended(r, m, l))
<1> DEFINE q == Suspended(r, m, l)
           f == [pc |-> l, mask |-> r.mask]
<1>1. /\ DOMAIN q = Fields /\ q.pc = "sigsuspend" /\ q.life = r.life
      /\ q.mem = r.mem /\ q.mask = m /\ q.pending = r.pending
      /\ q.frames = Append(r.frames, f) /\ q.action = r.action
  BY DEF Sane, Fields, Suspended
<1>2. f.pc = l
  OBVIOUS
<1> HIDE DEF q, f
<1>3. GoodFrame(prog, f)
  BY DEF f
<1>4. Sane(prog, sm, q) /\ q.frames # <<>>
  BY <1>1, <1>2, <1>3, SanePushed
<1>5. "sigsuspend" \notin BlockedIn(prog)
  BY DEF BlockedIn, Critical, Ready
<1>6. Fits(prog, q, "sigsuspend")
  BY <1>1, <1>4, <1>5 DEF Fits
<1>7. QED
  BY <1>1, <1>4, <1>6 DEF Good, q

LEMMA GoodReturned ==
  ASSUME NEW prog, NEW sm, NEW r, Sane(prog, sm, r), r.frames # <<>>,
         \A s \in Sigs : r.action[s] # "ignore"
  PROVE  /\ Good(prog, sm, Returned(r))
         /\ Returned(r).mem = r.mem
         /\ Returned(r).pc \notin Critical \cup {"sigsuspend", "usr1_sigsuspend"}
         /\ prog = "sighand1" => Returned(r).pc \notin Ready \cup {"sigprocmask"}
         /\ Returned(r).pc \in HandlersOf(prog) => Returned(r).frames # <<>>
         /\ Returned(r).action = r.action
<1> DEFINE n == Len(r.frames)
           top == r.frames[n]
           q == Returned(r)
<1>1. /\ DOMAIN q = Fields /\ q.pc = top.pc /\ q.life = r.life
      /\ q.mem = r.mem /\ q.mask = top.mask /\ q.pending = r.pending
      /\ q.frames = SubSeq(r.frames, 1, n - 1) /\ q.action = r.action
  BY DEF Sane, Fields, Returned
<1> PICK S : r.frames \in Seq(S)
  BY DEF Sane, IsSeq
<1>2. /\ n \in Nat /\ n # 0 /\ DOMAIN r.frames = 1 .. n
  BY LenProperties, EmptySeq DEF Sane
<1>3. n \in DOMAIN r.frames /\ n - 1 \in Nat /\ n - 1 <= n /\ (n # 1 => n - 1 # 0)
      /\ 1 .. n - 1 \subseteq DOMAIN r.frames
  BY <1>2
<1>4. GoodFrame(prog, top)
      /\ (top.pc \in HandlersOf(prog) => n # 1)
  BY <1>2, <1>3 DEF Sane
<1>5. /\ q.frames \in Seq(S) /\ DOMAIN q.frames = 1 .. n - 1
      /\ Len(q.frames) = n - 1
      /\ \A i \in 1 .. n - 1 : q.frames[i] = r.frames[i]
  <2>1. \A i \in 1 .. n - 1 : r.frames[i] \in S
    BY <1>2, <1>3
  <2>2. q.frames = [i \in 1 .. n - 1 |-> r.frames[i]]
    BY <1>1, <1>2, <1>3
  <2>3. q.frames \in Seq(S)
    BY <1>3, <2>1, <2>2
  <2>4. QED
    BY <1>3, <2>2, <2>3, LenProperties
<1> HIDE DEF q, top, n
<1>6. q.pc \in HandlersOf(prog) => q.frames # <<>>
  BY <1>1, <1>3, <1>4, <1>5, EmptySeq
<1>7. Sane(prog, sm, q)
  <2>1. q.mask \subseteq All
    BY <1>1, <1>4 DEF GoodFrame
  <2>2. \A i \in DOMAIN q.frames :
          /\ GoodFrame(prog, q.frames[i])
          /\ q.frames[i].pc \in HandlersOf(prog) => i # 1
    BY <1>3, <1>5 DEF Sane
  <2>3. QED
    BY <1>1, <1>5, <2>1, <2>2 DEF Sane, IsSeq
<1>8. Fits(prog, q, q.pc)
  BY <1>1, <1>4, <1>6, <1>7 DEF Fits, GoodFrame, Sane
<1>9. QED
  BY <1>1, <1>4, <1>6, <1>7, <1>8 DEF Good, GoodFrame, q

(* A handled signal is delivered: where the process is, it is not blocked, *)
(* and so may be put under a frame.                                        *)
LEMMA GoodInterrupted ==
  ASSUME NEW prog, NEW r, Good(prog, samask, r),
         NEW s \in Sigs, s \in r.pending, s \notin r.mask, s # "STOP",
         r.action[s] \in HandlersOf(prog), samask[s] \subseteq All
  PROVE  Good(prog, samask, Interrupted(r, s))
<1> DEFINE q == Interrupted(r, s)
           f == [pc |-> r.pc, mask |-> r.mask]
           h == r.action[s]
<1>1. /\ DOMAIN q = Fields /\ q.pc = h /\ q.life = r.life /\ q.mem = r.mem
      /\ q.mask = r.mask \cup samask[s] \cup {s} /\ q.pending = r.pending \ {s}
      /\ q.frames = IF r.pc = "sigsuspend" THEN r.frames ELSE Append(r.frames, f)
      /\ q.action = r.action
  BY DEF Good, Sane, Fields, Interrupted
<1>2. f.pc = r.pc /\ f.mask = r.mask
  OBVIOUS
<1> HIDE DEF q, f
<1>3. /\ s \in HandledBy(prog) /\ h # "usr1_sigsuspend" /\ h # "sigsuspend"
      /\ h # "default" /\ h # "ignore"
      /\ h \in BlockedIn(prog) => HandledBy(prog) \subseteq q.mask
  BY <1>1, HandlerNames DEF Good, Sane
<1>4. q.mask \subseteq All /\ q.pending \subseteq r.pending
  BY <1>1 DEF Good, Sane, All
<1>5. \A t \in Sigs : r.action[t] # "ignore"
  BY <1>3 DEF Good, Sane, HandledBy
<1>6. Sane(prog, samask, q) /\ q.frames # <<>>
  <2>1. CASE r.pc = "sigsuspend"
    <3>1. q.frames = r.frames /\ r.frames # <<>>
      BY <1>1, <2>1 DEF Good, Fits
    <3>2. Sane(prog, samask, q)
      BY <1>1, <1>4, <3>1 DEF Good, Sane
    <3>3. QED
      BY <3>1, <3>2
  <2>2. CASE r.pc # "sigsuspend"
    <3>1. r.pc \notin BlockedIn(prog) /\ (prog = "sighand1" => r.pc # "sigprocmask")
      BY <1>3 DEF Good, Fits
    <3>2. GoodFrame(prog, f)
      BY <1>2, <2>2, <3>1 DEF GoodFrame, BlockedIn, Good, Sane
    <3>3. f.pc \in HandlersOf(prog) => r.frames # <<>>
      BY <1>2 DEF Good, Fits
    <3>4. Sane(prog, samask, r) /\ q.frames = Append(r.frames, f)
      BY <1>1, <2>2 DEF Good
    <3>5. QED
      BY <1>1, <1>4, <3>2, <3>3, <3>4, SanePushed
  <2>3. QED
    BY <2>1, <2>2
<1>7. prog = "sighand1" => h \notin Ready \cup {"sigprocmask"}
  BY DEF HandlersOf, Ready
<1>8. Fits(prog, q, h)
  BY <1>1, <1>3, <1>5, <1>6, <1>7 DEF Fits
<1>9. QED
  BY <1>1, <1>6, <1>8 DEF Good, q

LEMMA GoodEnded ==
  ASSUME NEW prog, NEW sm, NEW r, NEW x, Good(prog, sm, r)
  PROVE  Good(prog, sm, Ended(r, x))
<1> DEFINE q == Ended(r, x)
<1>1. /\ DOMAIN q = Fields /\ q.pc = r.pc /\ q.life = "zombie" /\ q.mem = r.mem
      /\ q.mask = r.mask /\ q.pending = {} /\ q.frames = r.frames
      /\ q.action = r.action
  BY DEF Good, Sane, Fields, Ended
<1> HIDE DEF q
<1>2. Sane(prog, sm, q)
  BY <1>1 DEF Good, Sane, Lifes
<1>3. Fits(prog, q, q.pc)
  BY <1>1 DEF Good, Fits
<1>4. QED
  BY <1>2, <1>3 DEF Good, q

LEMMA RaisedFields ==
  ASSUME NEW r, DOMAIN r = Fields, NEW s \in Sigs,
         r.life \in Lifes, r.pending \subseteq Sigs
  PROVE  /\ DOMAIN Raised(r, s) = Fields /\ Raised(r, s).pc = r.pc
         /\ Raised(r, s).life \in Lifes /\ Raised(r, s).mem = r.mem
         /\ Raised(r, s).mask = r.mask
         /\ Raised(r, s).pending \subseteq r.pending \cup {s}
         /\ Raised(r, s).frames = r.frames /\ Raised(r, s).action = r.action
<1> DEFINE q == Raised(r, s)
<1>1. CASE ~Lives(r)
  <2>1. q = r
    BY <1>1 DEF Raised
  <2>2. QED
    BY <2>1
<1>2. CASE Lives(r) /\ s = "CONT"
  <2>1. q = [r EXCEPT !.life = "running", !.pending = @ \ Stops,
                      !.event = IF r.life = "stopped" THEN <<"continued">> ELSE @]
    BY <1>2 DEF Raised
  <2>2. QED
    BY <2>1 DEF Fields, Lifes
<1>3. CASE Lives(r) /\ s # "CONT" /\ s \in Ignored(r) \ (r.mask \cup {"CONT"})
  <2>1. q = r
    BY <1>3 DEF Raised
  <2>2. QED
    BY <2>1
<1>4. CASE Lives(r) /\ s # "CONT" /\ s \notin Ignored(r) \ (r.mask \cup {"CONT"})
  <2>1. q = [r EXCEPT !.pending = @ \cup {s}]
    BY <1>4 DEF Raised
  <2>2. QED
    BY <2>1 DEF Fields
<1>5. QED
  BY <1>1, <1>2, <1>3, <1>4

LEMMA GoodRaised ==
  ASSUME NEW prog, NEW sm, NEW r, NEW s \in Sigs, Good(prog, sm, r),
         r.action[s] # "ignore"
  PROVE  Good(prog, sm, Raised(r, s))
<1> DEFINE q == Raised(r, s)
<1>1. /\ DOMAIN q = Fields /\ q.pc = r.pc /\ q.life \in Lifes /\ q.mem = r.mem
      /\ q.mask = r.mask /\ q.pending \subseteq r.pending \cup {s}
      /\ q.frames = r.frames /\ q.action = r.action
  BY RaisedFields DEF Good, Sane
<1> HIDE DEF q
<1>2. Sane(prog, sm, q)
  BY <1>1 DEF Good, Sane
<1>3. Fits(prog, q, q.pc)
  BY <1>1 DEF Good, Fits
<1>4. QED
  BY <1>2, <1>3 DEF Good, q

(* What a wait, a fork, a stop or an ignored delivery change besides.      *)
LEMMA GoodSame ==
  ASSUME NEW prog, NEW sm, NEW r, NEW q, Good(prog, sm, r),
         DOMAIN q = Fields, q.pc = r.pc, q.life \in Lifes, q.mem = r.mem,
         q.mask = r.mask, q.pending \subseteq r.pending, q.frames = r.frames,
         q.action = r.action
  PROVE  Good(prog, sm, q)
<1>1. Sane(prog, sm, q)
  BY DEF Good, Sane
<1>2. Fits(prog, q, q.pc)
  BY DEF Good, Fits
<1>3. QED
  BY <1>1, <1>2 DEF Good

----------------------------------------------------------------------------
(* The steps of processes.                                                 *)

Sound ==
  /\ DOMAIN proc = Procs
  /\ \A p \in Procs : Good(program, samask, proc[p])
  /\ samask \in [Sigs -> SUBSET All]
  /\ program = "sighand1" => \A s \in Sigs : samask[s] = All
  /\ savedmask \subseteq All

Kept ==
  /\ DOMAIN proc' = Procs
  /\ \A p \in Procs : Good(program, samask, proc'[p])

(* Places where nothing is asked of the record. *)
Plain(l) ==
  l \notin HandlersOf(program) \cup BlockedIn(program) \cup {"sigsuspend", "sigprocmask"}

LEMMA BothProcs == "parent" \in Procs /\ "child" \in Procs
BY DEF Procs

LEMMA FitsPlain ==
  ASSUME NEW sm, NEW r, Sane(program, sm, r), NEW l, Plain(l),
         program # "sigset" \/ \A s \in Sigs : r.action[s] # "ignore"
  PROVE  Fits(program, r, l)
BY DEF Sane, Fits, Plain, BlockedIn, HandlersOf

LEMMA KeptBecome ==
  ASSUME Sound, NEW p \in Procs, NEW q, Good(program, samask, q),
         proc' = [proc EXCEPT ![p] = q]
  PROVE  Kept
BY DEF Sound, Kept

LEMMA KeptBoth ==
  ASSUME Sound, NEW q, NEW c, Good(program, samask, q), Good(program, samask, c),
         proc' = [proc EXCEPT !.parent = q, !.child = c]
  PROVE  Kept
BY DEF Sound, Kept, Procs

LEMMA NeverIgnored ==
  ASSUME Sound, NEW p \in Procs, NEW s \in Sigs,
         program # "sigset" \/ s # "TERM"
  PROVE  proc[p].action[s] # "ignore"
BY DEF Sound, Good, Sane

LEMMA KeptTell ==
  ASSUME Sound, NEW p \in Procs, NEW q, Good(program, samask, q), Tell(p, q)
  PROVE  Kept
<1>1. CASE p = "child"
  <2>1. "CHLD" \in Sigs /\ Good(program, samask, proc.parent)
    BY BothProcs DEF Sigs, Sound
  <2>2. Good(program, samask, Raised(proc.parent, "CHLD"))
    BY <2>1, BothProcs, NeverIgnored, GoodRaised
  <2>3. proc' = [proc EXCEPT !.parent = Raised(proc.parent, "CHLD"), !.child = q]
    BY <1>1 DEF Tell, Sound, Procs
  <2>4. QED
    BY <2>2, <2>3, KeptBoth
<1>2. CASE p # "child"
  <2>1. proc' = [proc EXCEPT ![p] = q]
    BY <1>2 DEF Tell, Procs
  <2>2. QED
    BY <2>1, KeptBecome
<1>3. QED
  BY <1>1, <1>2

LEMMA KeptGo ==
  ASSUME Sound, NEW p \in Procs, NEW l, NEW next, Go(p, l, next), Plain(next),
         program # "sigset"
  PROVE  Kept
<1>1. Sane(program, samask, proc[p]) /\ proc' = [proc EXCEPT ![p] = Moved(proc[p], next)]
  BY DEF Go, Do, Become, Sound, Good
<1>2. Fits(program, proc[p], next)
  BY <1>1, FitsPlain
<1>3. Good(program, samask, Moved(proc[p], next))
  BY <1>1, <1>2, GoodMoved
<1>4. QED
  BY <1>1, <1>3, KeptBecome

LEMMA KeptExit ==
  ASSUME Sound, NEW p \in Procs, NEW l, NEW code, Exit(p, l, code)
  PROVE  Kept
<1>1. Good(program, samask, proc[p]) /\ Tell(p, Ended(proc[p], <<"exited", code>>))
  BY DEF Exit, Sound
<1>2. Good(program, samask, Ended(proc[p], <<"exited", code>>))
  BY <1>1, GoodEnded
<1>3. QED
  BY <1>1, <1>2, KeptTell

LEMMA KeptFork ==
  ASSUME Sound, NEW l, NEW x, NEW y, Fork(l, x, y), Plain(x), Plain(y),
         program # "sigset"
  PROVE  Kept
<1> DEFINE q == Moved(proc.parent, y)
           c == [q EXCEPT !.pending = {}]
<1>1. Sane(program, samask, proc.parent)
  BY BothProcs DEF Sound, Good
<1>2. Fits(program, proc.parent, x) /\ Fits(program, proc.parent, y)
  BY <1>1, FitsPlain
<1>3. Good(program, samask, Moved(proc.parent, x)) /\ Good(program, samask, q)
  BY <1>1, <1>2, GoodMoved
<1>4. proc' = [proc EXCEPT !.parent = Moved(proc.parent, x), !.child = c]
  BY DEF Fork
<1> HIDE DEF q
<1>5. DOMAIN q = Fields /\ q.life \in Lifes
  BY <1>3 DEF Good, Sane
<1>6. /\ DOMAIN c = Fields /\ c.pc = q.pc /\ c.life = q.life /\ c.mem = q.mem
      /\ c.mask = q.mask /\ c.pending = {} /\ c.frames = q.frames
      /\ c.action = q.action
  BY <1>5 DEF Fields
<1> HIDE DEF c
<1>7. Good(program, samask, c)
  BY <1>3, <1>5, <1>6, GoodSame
<1>8. QED
  BY <1>3, <1>4, <1>7, KeptBoth

LEMMA KeptKillChild ==
  ASSUME Sound, NEW l, NEW s \in Sigs, NEW next, KillChild(l, s, next), Plain(next),
         program # "sigset"
  PROVE  Kept
<1>1. Sane(program, samask, proc.parent) /\ Good(program, samask, proc.child)
  BY BothProcs DEF Sound, Good
<1>2. Fits(program, proc.parent, next)
  BY <1>1, FitsPlain
<1>3. Good(program, samask, Moved(proc.parent, next))
  BY <1>1, <1>2, GoodMoved
<1>4. Good(program, samask, Raised(proc.child, s))
  BY <1>1, BothProcs, NeverIgnored, GoodRaised
<1>5. proc' = [proc EXCEPT !.parent = Moved(proc.parent, next),
                           !.child = Raised(proc.child, s)]
  BY DEF KillChild
<1>6. QED
  BY <1>3, <1>4, <1>5, KeptBoth

LEMMA KeptReap ==
  ASSUME Sound, NEW l, NEW next, NEW alsoStops, Reap(l, next, alsoStops),
         Plain(next), program # "sigset"
  PROVE  Kept
<1> DEFINE r == proc.child
           c == [r EXCEPT !.event = <<>>,
                          !.life = IF @ = "zombie" THEN "reaped" ELSE @]
<1>1. Sane(program, samask, proc.parent) /\ Good(program, samask, r)
  BY BothProcs DEF Sound, Good
<1>2. Fits(program, proc.parent, next)
  BY <1>1, FitsPlain
<1>3. Good(program, samask, Moved(proc.parent, next))
  BY <1>1, <1>2, GoodMoved
<1>4. proc' = [proc EXCEPT !.parent = Moved(proc.parent, next), !.child = c]
  BY DEF Reap, Sound, Procs
<1> HIDE DEF r
<1>5. DOMAIN r = Fields /\ r.life \in Lifes
  BY <1>1 DEF Good, Sane
<1>6. /\ DOMAIN c = Fields /\ c.pc = r.pc /\ c.life \in Lifes /\ c.mem = r.mem
      /\ c.mask = r.mask /\ c.pending = r.pending /\ c.frames = r.frames
      /\ c.action = r.action
  BY <1>5 DEF Fields, Lifes
<1> HIDE DEF c
<1>7. Good(program, samask, c)
  BY <1>1, <1>6, GoodSame
<1>8. QED
  BY <1>3, <1>4, <1>7, KeptBoth

LEMMA KeptSigAction ==
  ASSUME Sound, NEW p \in Procs, NEW l, NEW s \in Sigs, NEW h, NEW next,
         SigAction(p, l, s, h, next),
         s \in HandledBy(program), h \in HandlersOf(program), h # "usr1_sigsuspend",
         h \in BlockedIn(program) => HandledBy(program) \subseteq samask[s] \cup {s},
         \/ Plain(next)
         \/ /\ program = "sighand1" /\ next \in Ready
            /\ proc[p].mem = 0 /\ HandledBy(program) \subseteq proc[p].mask
  PROVE  Kept
<1> DEFINE r == proc[p]
           q == Handling(r, s, h)
<1>1. Sane(program, samask, r) /\ proc' = [proc EXCEPT ![p] = Moved(q, next)]
  BY DEF SigAction, Do, Become, Sound, Good
<1>2. /\ Sane(program, samask, q) /\ q.mask = r.mask /\ q.mem = r.mem
      /\ \A t \in Sigs : q.action[t] = IF t = s THEN h ELSE r.action[t]
  BY <1>1, SaneHandling
<1>3. \A t \in Sigs : q.action[t] # "ignore"
  <2>1. h # "ignore"
    BY HandlerNames
  <2>2. program = "sigset" => s = "TERM"
    BY DEF HandledBy
  <2>3. \A t \in Sigs : r.action[t] = "ignore" => program = "sigset" /\ t = "TERM"
    BY <1>1 DEF Sane
  <2>4. QED
    BY <1>2, <2>1, <2>2, <2>3
<1> HIDE DEF q, r
<1>4. Fits(program, q, next)
  <2>1. CASE Plain(next)
    BY <1>2, <1>3, <2>1, FitsPlain
  <2>2. CASE /\ program = "sighand1" /\ next \in Ready
             /\ r.mem = 0 /\ HandledBy(program) \subseteq r.mask
    BY <1>2, <1>3, <2>2 DEF Fits, Ready, HandlersOf
  <2>3. QED
    BY <2>1, <2>2 DEF r
<1>5. Good(program, samask, Moved(q, next))
  BY <1>2, <1>4, GoodMoved
<1>6. QED
  BY <1>1, <1>5, KeptBecome

(* The handler's frame is under it, with what the process was about to do. *)
LEMMA AtHandler ==
  ASSUME Sound, NEW p \in Procs, NEW l, At(p, l), l \in HandlersOf(program)
  PROVE  /\ Sane(program, samask, proc[p]) /\ proc[p].frames # <<>>
         /\ \A s \in Sigs : proc[p].action[s] # "ignore"
<1>1. Good(program, samask, proc[p]) /\ proc[p].pc = l
  BY DEF Sound, At
<1>2. program = "sigset" => l \notin {"unblock", "handler"}
  BY DEF HandlersOf
<1>3. QED
  BY <1>1, <1>2 DEF Good, Sane, Fits

LEMMA KeptReturn ==
  ASSUME Sound, NEW p \in Procs, NEW l, Return(p, l), l \in HandlersOf(program)
  PROVE  Kept
<1>1. At(p, l) /\ proc' = [proc EXCEPT ![p] = Returned(proc[p])]
  BY DEF Return, Do, Become
<1>2. /\ Sane(program, samask, proc[p]) /\ proc[p].frames # <<>>
      /\ \A s \in Sigs : proc[p].action[s] # "ignore"
  BY <1>1, AtHandler
<1>3. Good(program, samask, Returned(proc[p]))
  BY <1>2, GoodReturned
<1>4. QED
  BY <1>1, <1>3, KeptBecome

LEMMA KeptDeliver ==
  ASSUME Sound, NEW p \in Procs, Deliver(p)
  PROVE  Kept
<1> DEFINE r == proc[p]
<1>1. PICK s \in Deliverable(r) :
        CASE r.action[s] = "default" /\ s \in Stops ->
               Tell(p, [r EXCEPT !.life = "stopped", !.event = <<"stopped">>,
                                 !.pending = @ \ {s}])
          [] r.action[s] = "default" /\ s \in IgnoredByDefault ->
               Become(p, [r EXCEPT !.pending = @ \ {s}])
          [] r.action[s] = "default" /\ s \notin Stops \cup IgnoredByDefault ->
               Tell(p, Ended(r, <<"killed", s>>))
          [] OTHER -> Become(p, Interrupted(r, s))
  BY DEF Deliver
<1>2. /\ Good(program, samask, r) /\ s \in Sigs /\ s \in r.pending /\ s \notin r.mask
      /\ DOMAIN r = Fields
  BY <1>1 DEF Sound, Deliverable, Good, Sane
<1>3. CASE r.action[s] = "default" /\ s \in Stops
  <2> DEFINE q == [r EXCEPT !.life = "stopped", !.event = <<"stopped">>,
                            !.pending = @ \ {s}]
  <2>1. Tell(p, q)
    BY <1>1, <1>3 DEF Stops, IgnoredByDefault
  <2>2. /\ DOMAIN q = Fields /\ q.pc = r.pc /\ q.life \in Lifes /\ q.mem = r.mem
        /\ q.mask = r.mask /\ q.pending \subseteq r.pending /\ q.frames = r.frames
        /\ q.action = r.action
    BY <1>2 DEF Fields, Lifes
  <2> HIDE DEF q, r
  <2>3. Good(program, samask, q)
    BY <1>2, <2>2, GoodSame
  <2>4. QED
    BY <2>1, <2>3, KeptTell
<1>4. CASE r.action[s] = "default" /\ s \in IgnoredByDefault /\ s \notin Stops
  <2> DEFINE q == [r EXCEPT !.pending = @ \ {s}]
  <2>1. proc' = [proc EXCEPT ![p] = q]
    BY <1>1, <1>4 DEF Become
  <2>2. /\ DOMAIN q = Fields /\ q.pc = r.pc /\ q.life \in Lifes /\ q.mem = r.mem
        /\ q.mask = r.mask /\ q.pending \subseteq r.pending /\ q.frames = r.frames
        /\ q.action = r.action
    BY <1>2 DEF Fields, Good, Sane
  <2> HIDE DEF q, r
  <2>3. Good(program, samask, q)
    BY <1>2, <2>2, GoodSame
  <2>4. QED
    BY <2>1, <2>3, KeptBecome
<1>5. CASE r.action[s] = "default" /\ s \notin Stops \cup IgnoredByDefault
  <2>1. Tell(p, Ended(r, <<"killed", s>>))
    BY <1>1, <1>5
  <2>2. Good(program, samask, Ended(r, <<"killed", s>>))
    BY <1>2, GoodEnded
  <2>3. QED
    BY <2>1, <2>2, KeptTell
<1>6. CASE r.action[s] # "default"
  <2>1. proc' = [proc EXCEPT ![p] = Interrupted(r, s)]
    BY <1>1, <1>6 DEF Become
  <2>2. r.action[s] \in HandlersOf(program) /\ s # "STOP"
    <3>1. r.action[s] # "ignore"
      BY <1>2 DEF Good, Sane
    <3>2. r.action[s] \in HandlersOf(program)
      BY <1>2, <1>6, <3>1 DEF Good, Sane
    <3>3. s \in HandledBy(program)
      BY <1>2, <3>2 DEF Good, Sane
    <3>4. QED
      BY <3>2, <3>3 DEF HandledBy
  <2>3. samask[s] \subseteq All
    BY <1>2 DEF Sound
  <2>4. Good(program, samask, Interrupted(r, s))
    BY <1>2, <2>2, <2>3, GoodInterrupted
  <2>5. QED
    BY <2>1, <2>4, KeptBecome
<1>7. QED
  BY <1>3, <1>4, <1>5, <1>6

(* A signal from outside, to one process or to both. *)
LEMMA KeptSend ==
  ASSUME Sound, NEW s \in Sigs, Send(s) \/ Key(s), program # "sigset"
  PROVE  Kept
<1>1. \A p \in Procs : Good(program, samask, Raised(proc[p], s))
  BY NeverIgnored, GoodRaised DEF Sound
<1>2. CASE Send(s)
  <2>1. proc' = [proc EXCEPT !["parent"] = Raised(proc.parent, s)]
    BY <1>2 DEF Send, Outside
  <2>2. QED
    BY <1>1, <2>1, BothProcs, KeptBecome
<1>3. CASE Key(s)
  <2>1. proc' = [p \in Procs |-> Raised(proc[p], s)]
    BY <1>3 DEF Key, Outside
  <2>2. QED
    BY <1>1, <2>1 DEF Kept
<1>4. QED
  BY <1>2, <1>3

----------------------------------------------------------------------------
(* Directory 2: no handlers at all.                                        *)

LEMMA ForkWaitKeeps ==
  ASSUME Sound, ForkWaitStep
  PROVE  Kept
<1> DEFINE places ==
      {"loop", "stop", "waitpid1", "cont", "waitpid2", "hup", "wait", "exit",
       "alarm", "pause", "fork", "old", "new", "report", "work", "ppid1",
       "ppid2", "end", "fib"}
<1>1. program \in {"fork_wait", "fork1", "fork2", "fork3", "fork4", "lab2"}
  BY DEF ForkWaitStep
<1>2. HandlersOf(program) = {} /\ program # "sigset" /\ program # "sighand1"
  BY <1>1 DEF HandlersOf
<1>3. \A l \in places : Plain(l)
  BY <1>2 DEF Plain, BlockedIn, Critical
<1>4. {"STOP", "CONT", "HUP", "ALRM", "SEGV"} \subseteq Sigs
  BY DEF Sigs
<1>5. ASSUME NEW l, Wait(l, "exit") \/ Wait(l, "report") \/ WaitAny(l, "cont") \/ WaitAny(l, "hup")
      PROVE  Kept
  BY <1>2, <1>3, <1>5, KeptReap DEF Wait, WaitAny
<1>6. ASSUME ParentEnds PROVE Kept
  BY <1>6, BothProcs, KeptExit DEF ParentEnds
<1>7. ASSUME NEW s \in {"ALRM", "SEGV"}, proc' = [proc EXCEPT !["child"] = Raised(proc.child, s)]
      PROVE  Kept
  <2>1. Good(program, samask, Raised(proc.child, s)) /\ s \in Sigs
    BY <1>2, <1>4, BothProcs, NeverIgnored, GoodRaised DEF Sound
  <2>2. QED
    BY <1>7, <2>1, BothProcs, KeptBecome
<1>8. ASSUME AlarmRings PROVE Kept
  BY <1>7, <1>8 DEF AlarmRings, Become
<1>9. CASE program = "fork_wait" /\ fork_wait
  <2>1. ASSUME NEW l, NEW s \in Sigs, NEW next \in places, KillChild(l, s, next)
        PROVE  Kept
    BY <1>2, <1>3, <2>1, KeptKillChild
  <2>2. CASE Fork("fork", "stop", "loop")
    BY <1>2, <1>3, <2>2, KeptFork
  <2>3. CASE KillChild("stop", "STOP", "waitpid1") \/ KillChild("cont", "CONT", "waitpid2")
               \/ KillChild("hup", "HUP", "wait")
    BY <1>4, <2>1, <2>3
  <2>4. QED
    BY <1>5, <1>6, <1>9, <2>2, <2>3 DEF fork_wait
<1>10. CASE program = "fork1" /\ fork1
  <2>1. CASE Fork("fork", "wait", "alarm")
    BY <1>2, <1>3, <2>1, KeptFork
  <2>2. CASE Go("child", "alarm", "pause")
    BY <1>2, <1>3, <2>2, BothProcs, KeptGo
  <2>3. QED
    BY <1>5, <1>6, <1>8, <1>10, <2>1, <2>2 DEF fork1
<1>11. CASE program = "fork2" /\ fork2
  <2>1. CASE Fork("fork", "wait", "old")
    BY <1>2, <1>3, <2>1, KeptFork
  <2>2. CASE Go("parent", "open", "fork") \/ Go("child", "old", "new")
               \/ Go("parent", "report", "exit")
    BY <1>2, <1>3, <2>2, BothProcs, KeptGo
  <2>3. CASE Do("child", "new", Moved(Storing(proc.child, 15), "pause"))
    <3>1. Sane(program, samask, Storing(proc.child, 15))
      BY BothProcs, SaneStoring DEF Sound, Good
    <3>2. Good(program, samask, Moved(Storing(proc.child, 15), "pause"))
      BY <1>2, <1>3, <3>1, FitsPlain, GoodMoved
    <3>3. QED
      BY <2>3, <3>2, BothProcs, KeptBecome DEF Do, Become
  <2>4. QED
    BY <1>5, <1>6, <1>8, <1>11, <2>1, <2>2, <2>3 DEF fork2
<1>12. CASE program = "fork3" /\ fork3
  <2>1. CASE Fork("fork", "wait", "work")
    BY <1>2, <1>3, <2>1, KeptFork
  <2>2. CASE Exit("child", "work", 77)
    BY <2>2, BothProcs, KeptExit
  <2>3. QED
    BY <1>5, <1>6, <1>12, <2>1, <2>2 DEF fork3
<1>13. CASE program = "fork4" /\ fork4
  <2>1. CASE Fork("fork", "exit", "ppid1")
    BY <1>2, <1>3, <2>1, KeptFork
  <2>2. CASE Go("child", "ppid1", "ppid2") \/ Go("child", "ppid2", "end")
    BY <1>2, <1>3, <2>2, BothProcs, KeptGo
  <2>3. CASE Exit("child", "end", 0)
    BY <2>3, BothProcs, KeptExit
  <2>4. QED
    BY <1>6, <1>13, <2>1, <2>2, <2>3 DEF fork4
<1>14. CASE program = "lab2" /\ lab2
  <2>1. CASE Fork("fork", "wait", "fib")
    BY <1>2, <1>3, <2>1, KeptFork
  <2>2. CASE Exit("parent", "usage", 1)
    BY <2>2, BothProcs, KeptExit
  <2>3. CASE Go("parent", "report", "exit")
    BY <1>2, <1>3, <2>3, BothProcs, KeptGo
  <2>4. CASE fib
    <3>1. \/ proc' = [proc EXCEPT !["child"] = Raised(proc.child, "SEGV")]
          \/ Exit("child", "fib", proc.child.mem % 256)
      BY <2>4, Zenon DEF fib, Do, Become
    <3>2. QED
      BY <1>7, <3>1, BothProcs, KeptExit
  <2>5. QED
    BY <1>5, <1>6, <1>14, <2>1, <2>2, <2>3, <2>4 DEF lab2
<1>15. QED
  BY <1>9, <1>10, <1>11, <1>12, <1>13, <1>14 DEF ForkWaitStep

----------------------------------------------------------------------------
(* startstop: from usr1_critical to usr1_restore the three signals are     *)
(* blocked, but in sigsuspend, whose frame blocks them again.              *)

LEMMA KeptMoved ==
  ASSUME Sound, NEW p \in Procs, NEW l, NEW q, NEW next,
         Do(p, l, Moved(q, next)), Sane(program, samask, q), Fits(program, q, next)
  PROVE  Kept
<1>1. proc' = [proc EXCEPT ![p] = Moved(q, next)]
  BY DEF Do, Become
<1>2. QED
  BY <1>1, GoodMoved, KeptBecome

LEMMA StartStopKeeps ==
  ASSUME Sound, program = "startstop",
         StartStopStep \/ \E s \in HandlerMask : Send(s) /\ UNCHANGED savedmask
  PROVE  Kept /\ savedmask' \subseteq All
<1> DEFINE r == proc.parent
<1>1. /\ HandlersOf(program) =
           {"usr1_handler", "usr1_critical", "usr1_while", "usr1_sigsuspend",
            "usr1_restore", "usr2_handler", "usr2_critical", "usr2_restore",
            "return", "ctlc_handler"}
      /\ HandledBy(program) = {"USR1", "USR2", "INT"}
      /\ BlockedIn(program) = Critical \cup {"usr1_while", "usr1_sigsuspend",
                                             "usr1_restore", "my_flag"}
  BY DEF HandlersOf, HandledBy, BlockedIn
<1>2. HandlerMask = {"USR1", "USR2", "INT"} /\ HandlerMask \subseteq All
      /\ HandlerMask \subseteq Sigs
  BY DEF HandlerMask, All, Sigs
<1>3. /\ Good(program, samask, r) /\ Sane(program, samask, r) /\ r.mask \subseteq All
      /\ savedmask \subseteq All /\ "parent" \in Procs
  BY BothProcs DEF Sound, Good, Sane
<1>4. ASSUME NEW l \in HandlersOf(program), At("parent", l)
      PROVE  /\ r.pc = l /\ r.frames # <<>> /\ \A s \in Sigs : r.action[s] # "ignore"
             /\ l \in BlockedIn(program) => HandledBy(program) \subseteq r.mask
             /\ l = "usr1_sigsuspend" => r.mem = 1
  <2>1. r.pc = l
    BY <1>4 DEF At
  <2>2. r.frames # <<>> /\ \A s \in Sigs : r.action[s] # "ignore"
    BY <1>3, <1>4, AtHandler
  <2>3. QED
    BY <1>3, <2>1, <2>2 DEF Good, Fits
<1>5. CASE RegisterHandlers
  <2>1. Plain("sigaction2") /\ Plain("sigaction3") /\ Plain("loop")
    BY <1>1 DEF Plain, Critical
  <2>2. {"usr1_handler", "usr2_handler", "ctlc_handler"} \cap BlockedIn(program) = {}
    BY <1>1 DEF Critical
  <2>3. ASSUME NEW l, NEW s \in HandlerMask, NEW next, Plain(next),
               NEW h \in {"usr1_handler", "usr2_handler", "ctlc_handler"},
               SigAction("parent", l, s, h, next)
        PROVE  Kept
    <3>1. /\ s \in HandledBy(program) /\ s \in Sigs /\ h \in HandlersOf(program)
          /\ h # "usr1_sigsuspend" /\ h \notin BlockedIn(program)
      BY <1>1, <1>2, <2>2
    <3>2. QED
      BY <1>3, <2>3, <3>1, KeptSigAction
  <2>4. Kept
    BY <1>2, <1>5, <2>1, <2>3 DEF RegisterHandlers
  <2>5. QED
    BY <1>3, <1>5, <2>4 DEF RegisterHandlers
<1>6. ASSUME NEW l \in HandlersOf(program), Oops(l)
      PROVE  Kept /\ savedmask' \subseteq All
  <2>1. Do("parent", l, Moved(r, "return")) /\ savedmask' = savedmask
    BY <1>6 DEF Oops, Go
  <2>2. Fits(program, r, "return")
    BY <1>1, <1>4, <2>1 DEF Fits, Do, Critical
  <2>3. QED
    BY <1>3, <2>1, <2>2, KeptMoved
<1>7. ASSUME NEW l \in HandlersOf(program), NEW next \in {"usr1_critical", "usr2_critical"},
             BlockAndSave(l, next)
      PROVE  Kept /\ savedmask' \subseteq All
  <2> DEFINE q == Blocking(r, HandlerMask)
  <2>1. Do("parent", l, Moved(q, next)) /\ savedmask' = r.mask
    BY <1>7 DEF BlockAndSave
  <2>2. Sane(program, samask, q) /\ q.mask = r.mask \cup HandlerMask
        /\ q.frames = r.frames /\ q.action = r.action
    <3>1. DOMAIN r = Fields /\ r.mask \cup HandlerMask \subseteq All
      BY <1>2, <1>3 DEF Sane
    <3>2. q = SetMask(r, r.mask \cup HandlerMask)
      BY <3>1, BlockingIsMask
    <3>3. QED
      BY <1>3, <3>1, <3>2, SaneMask, MaskFields
  <2> HIDE DEF q
  <2>3. Fits(program, q, next)
    BY <1>1, <1>2, <1>4, <2>1, <2>2 DEF Fits, Do
  <2>4. QED
    BY <1>3, <2>1, <2>2, <2>3, KeptMoved
<1>8. ASSUME NEW l \in {"usr1_critical", "usr2_critical"}, NEW v \in {0, 1},
             NEW next \in {"usr1_while", "usr2_restore"}, SetPaused(l, v, next)
      PROVE  Kept /\ savedmask' \subseteq All
  <2> DEFINE q == Storing(r, v)
  <2>1. Do("parent", l, Moved(q, next)) /\ savedmask' = savedmask
    BY <1>8 DEF SetPaused
  <2>2. v \in Nat
    OBVIOUS
  <2>3. Sane(program, samask, q) /\ q.mask = r.mask
        /\ q.frames = r.frames /\ q.action = r.action
    BY <1>3, <2>2, SaneStoring
  <2> HIDE DEF q
  <2>4. l \in HandlersOf(program) /\ l \in BlockedIn(program)
    BY <1>1 DEF Critical
  <2>5. Fits(program, q, next)
    BY <1>1, <1>4, <2>1, <2>3, <2>4 DEF Fits, Do
  <2>6. QED
    BY <1>3, <2>1, <2>3, <2>5, KeptMoved
<1>9. CASE TestPaused
  <2>1. \/ Do("parent", "usr1_while", Moved(r, "usr1_sigsuspend")) /\ r.mem = 1
        \/ Do("parent", "usr1_while", Moved(r, "usr1_restore"))
    BY <1>9 DEF TestPaused, Go, paused
  <2>2. /\ At("parent", "usr1_while") /\ "usr1_while" \in HandlersOf(program)
        /\ "usr1_while" \in BlockedIn(program) /\ savedmask' = savedmask
    BY <1>1, <1>9 DEF TestPaused, Go, Do
  <2>3. r.mem = 1 => Fits(program, r, "usr1_sigsuspend")
    BY <1>1, <1>4, <2>2 DEF Fits
  <2>4. Fits(program, r, "usr1_restore")
    BY <1>1, <1>4, <2>2 DEF Fits
  <2>5. QED
    BY <1>3, <2>1, <2>2, <2>3, <2>4, KeptMoved
<1>10. CASE sigsuspend
  <2>1. /\ At("parent", "usr1_sigsuspend") /\ savedmask' = savedmask
        /\ proc' = [proc EXCEPT !["parent"] = Suspended(r, {}, "usr1_while")]
    BY <1>10 DEF sigsuspend, Do, Become
  <2>2. /\ r.frames # <<>> /\ \A s \in Sigs : r.action[s] # "ignore"
        /\ HandledBy(program) \subseteq r.mask /\ r.mem = 1
    BY <1>1, <1>4, <2>1
  <2>3. GoodFrame(program, [pc |-> "usr1_while", mask |-> r.mask])
    BY <1>3, <2>2 DEF GoodFrame, Critical
  <2>4. {} \in SUBSET All
    OBVIOUS
  <2>5. Good(program, samask, Suspended(r, {}, "usr1_while"))
    BY <1>3, <2>2, <2>3, <2>4, GoodSuspended
  <2>6. QED
    BY <1>3, <2>1, <2>5, KeptBecome
<1>11. ASSUME NEW l \in HandlersOf(program), Restore(l)
       PROVE  Kept /\ savedmask' \subseteq All
  <2> DEFINE q == SetMask(r, savedmask)
  <2>1. Do("parent", l, Moved(q, "return")) /\ savedmask' = savedmask
    BY <1>11 DEF Restore
  <2>2. Sane(program, samask, q) /\ q.frames = r.frames /\ q.action = r.action
    <3>1. DOMAIN r = Fields
      BY <1>3 DEF Sane
    <3>2. QED
      BY <1>3, <3>1, SaneMask, MaskFields
  <2> HIDE DEF q
  <2>3. Fits(program, q, "return")
    BY <1>1, <1>4, <2>1, <2>2 DEF Fits, Do, Critical
  <2>4. QED
    BY <1>3, <2>1, <2>2, <2>3, KeptMoved
<1>12. CASE HandlerReturns \/ ctlc_handler \/ (Deliver("parent") /\ UNCHANGED savedmask)
  <2>1. savedmask' = savedmask
    BY <1>12 DEF HandlerReturns, ctlc_handler
  <2>2. "return" \in HandlersOf(program)
    BY <1>1
  <2>3. Return("parent", "return") \/ Exit("parent", "ctlc_handler", 0) \/ Deliver("parent")
    BY <1>12, Zenon DEF HandlerReturns, ctlc_handler
  <2>4. QED
    BY <1>3, <2>1, <2>2, <2>3, KeptReturn, KeptExit, KeptDeliver
<1>13. CASE \E s \in HandlerMask : Send(s) /\ UNCHANGED savedmask
  BY <1>2, <1>3, <1>13, KeptSend
<1>14. CASE usr1_handler
  <2>1. {"usr1_handler", "usr1_restore"} \subseteq HandlersOf(program)
    BY <1>1
  <2>2. QED
    BY <1>6, <1>7, <1>8, <1>9, <1>10, <1>11, <1>14, <2>1 DEF usr1_handler
<1>15. CASE usr2_handler
  <2>1. {"usr2_handler", "usr2_restore"} \subseteq HandlersOf(program)
    BY <1>1
  <2>2. QED
    BY <1>6, <1>7, <1>8, <1>11, <1>15, <2>1 DEF usr2_handler
<1>16. QED
  BY <1>5, <1>12, <1>13, <1>14, <1>15 DEF StartStopStep

----------------------------------------------------------------------------
(* A parent and a child that signal each other.                            *)

LEMMA KeptPlain ==
  ASSUME Sound, NEW p \in Procs, NEW l, NEW q, NEW next,
         Do(p, l, Moved(q, next)), Sane(program, samask, q), Plain(next),
         program # "sigset"
  PROVE  Kept
BY FitsPlain, KeptMoved

LEMMA ParentChildKeeps ==
  ASSUME Sound, ParentChildStep
  PROVE  Kept
<1> DEFINE places ==
      {"sigaction", "fork", "term", "hello", "suspend", "world", "end", "usr1",
       "wait", "exit", "cpid", "loop", "stop", "cont", "block", "action", "hup",
       "pending", "child_action", "chld"}
<1>1. program \in {"lab3", "sighand3", "sigset2"}
  BY DEF ParentChildStep
<1>2. program # "sigset" /\ program # "sighand1" /\ program # "startstop"
  BY <1>1
<1>3. \A l \in places : Plain(l)
  BY <1>1 DEF Plain, BlockedIn, Critical, HandlersOf
<1>4. {"STOP", "CONT", "TERM", "HUP", "USR1", "CHLD", "INT"} \subseteq Sigs
  BY DEF Sigs
<1>5. \A p \in Procs : /\ Good(program, samask, proc[p])
                       /\ Sane(program, samask, proc[p])
  BY DEF Sound, Good
<1>6. ASSUME NEW l, NEW s \in Sigs, NEW next \in places, KillChild(l, s, next)
      PROVE  Kept
  BY <1>2, <1>3, <1>6, KeptKillChild
<1>7. ASSUME Wait("wait", "exit") \/ ParentEnds PROVE Kept
  BY <1>2, <1>3, <1>7, BothProcs, KeptReap, KeptExit DEF Wait, ParentEnds
<1>8. CASE program = "lab3" /\ lab3
  <2>1. CASE Do("parent", "sigprocmask", Moved(Blocking(proc.parent, All), "sigaction"))
    <3>1. Sane(program, samask, Blocking(proc.parent, All))
      BY <1>5, BothProcs, SaneBlocking
    <3>2. QED
      BY <1>2, <1>3, <2>1, <3>1, BothProcs, KeptPlain
  <2>2. CASE SigAction("parent", "sigaction", "USR1", "sigusr1_handler", "fork")
    <3>1. HandledBy(program) = {"USR1"} /\ "sigusr1_handler" \in HandlersOf(program)
      BY <1>8 DEF HandledBy, HandlersOf
    <3>2. QED
      BY <1>3, <1>4, <2>2, <3>1, BothProcs, KeptSigAction
  <2>3. CASE Fork("fork", "term", "hello")
    BY <1>2, <1>3, <2>3, KeptFork
  <2>4. CASE Go("child", "hello", "suspend") \/ Go("child", "world", "end")
    BY <1>2, <1>3, <2>4, BothProcs, KeptGo
  <2>5. CASE Do("child", "suspend", Suspended(proc.child, SuspendMask, "world"))
    <3>1. SuspendMask \in SUBSET All
      BY DEF SuspendMask
    <3>2. /\ \A s \in Sigs : proc.child.action[s] # "ignore"
          /\ Sane(program, samask, proc.child) /\ proc.child.mask \subseteq All
      BY <1>2, <1>5, BothProcs DEF Sane
    <3>3. /\ GoodFrame(program, [pc |-> "world", mask |-> proc.child.mask])
          /\ "world" \notin HandlersOf(program)
      BY <1>2, <1>3, <3>2 DEF GoodFrame, Plain, Critical
    <3>4. Good(program, samask, Suspended(proc.child, SuspendMask, "world"))
      BY <1>2, <3>1, <3>2, <3>3, GoodSuspended
    <3>5. QED
      BY <2>5, <3>4, BothProcs, KeptBecome DEF Do, Become
  <2>6. CASE sigusr1_handler
    <3>1. "sigusr1_handler" \in HandlersOf(program)
      BY <1>8 DEF HandlersOf
    <3>2. QED
      BY <2>6, <3>1, BothProcs, KeptReturn DEF sigusr1_handler
  <2>7. CASE Exit("child", "end", 0)
    BY <2>7, BothProcs, KeptExit
  <2>8. CASE KillChild("term", "TERM", "usr1") \/ KillChild("usr1", "USR1", "wait")
    BY <1>4, <1>6, <2>8
  <2>9. QED
    BY <1>7, <1>8, <2>1, <2>2, <2>3, <2>4, <2>5, <2>6, <2>7, <2>8 DEF lab3
<1>9. CASE program = "sighand3" /\ sighand3
  <2>1. HandledBy(program) = {"INT"} /\ "sigint_handler" \in HandlersOf(program)
    BY <1>9 DEF HandledBy, HandlersOf
  <2>2. CASE SigAction("parent", "sigaction", "INT", "sigint_handler", "fork")
    BY <1>3, <1>4, <2>1, <2>2, BothProcs, KeptSigAction
  <2>3. CASE Fork("fork", "cpid", "loop")
    BY <1>2, <1>3, <2>3, KeptFork
  <2>4. CASE Do("parent", "cpid", Moved(Storing(proc.parent, 1), "stop"))
    <3>1. Sane(program, samask, Storing(proc.parent, 1))
      BY <1>5, BothProcs, SaneStoring
    <3>2. QED
      BY <1>2, <1>3, <2>4, <3>1, BothProcs, KeptPlain
  <2>5. CASE \/ KillChild("stop", "STOP", "cont") \/ KillChild("cont", "CONT", "term")
             \/ KillChild("term", "TERM", "wait")
    BY <1>4, <1>6, <2>5
  <2>6. ASSUME NEW p \in Procs, sigint_handler(p) PROVE Kept
    BY <2>1, <2>6, KeptExit, KeptReturn DEF sigint_handler
  <2>7. QED
    BY <1>7, <1>9, <2>2, <2>3, <2>4, <2>5, <2>6 DEF sighand3
<1>10. CASE program = "sigset2" /\ sigset2
  <2>1. /\ HandledBy(program) = {"CHLD", "HUP"} /\ "handler" \in HandlersOf(program)
        /\ "handler" \notin BlockedIn(program)
    BY <1>10 DEF HandledBy, HandlersOf, BlockedIn, Critical
  <2>2. CASE Fork("fork", "block", "child_action")
    BY <1>2, <1>3, <2>2, KeptFork
  <2>3. CASE Do("parent", "block", Moved(Blocking(proc.parent, {"CHLD"}), "action"))
    <3>1. {"CHLD"} \subseteq All
      BY DEF All, Sigs
    <3>2. Sane(program, samask, Blocking(proc.parent, {"CHLD"}))
      BY <1>5, <3>1, BothProcs, SaneBlocking
    <3>3. QED
      BY <1>2, <1>3, <2>3, <3>2, BothProcs, KeptPlain
  <2>4. CASE \/ SigAction("parent", "action", "CHLD", "handler", "hup")
             \/ SigAction("child", "child_action", "HUP", "handler", "chld")
    BY <1>3, <1>4, <2>1, <2>4, BothProcs, KeptSigAction
  <2>5. CASE KillChild("hup", "HUP", "pending")
    BY <1>4, <1>6, <2>5
  <2>6. CASE Do("parent", "pending",
                Moved(IF "CHLD" \in proc.parent.pending
                      THEN SetMask(proc.parent, proc.parent.mask \ {"CHLD"})
                      ELSE proc.parent, "exit"))
    <3>1. proc.parent.mask \ {"CHLD"} \subseteq All
      BY <1>5, BothProcs DEF Sane
    <3>2. Sane(program, samask, SetMask(proc.parent, proc.parent.mask \ {"CHLD"}))
      BY <1>5, <3>1, BothProcs, SaneMask
    <3>3. \/ Do("parent", "pending",
                Moved(SetMask(proc.parent, proc.parent.mask \ {"CHLD"}), "exit"))
          \/ Do("parent", "pending", Moved(proc.parent, "exit"))
      BY <2>6
    <3>4. QED
      BY <1>2, <1>3, <1>5, <3>2, <3>3, BothProcs, KeptPlain
  <2>7. CASE sigset2Child
    <3>1. CASE SigAction("child", "child_action", "HUP", "handler", "chld")
      BY <2>4, <3>1
    <3>2. CASE proc' = [parent |-> Raised(proc.parent, "CHLD"),
                        child |-> Moved(proc.child, "loop")]
      <4>1. Good(program, samask, Raised(proc.parent, "CHLD"))
        BY <1>2, <1>4, <1>5, BothProcs, NeverIgnored, GoodRaised
      <4>2. Good(program, samask, Moved(proc.child, "loop"))
        BY <1>2, <1>3, <1>5, BothProcs, FitsPlain, GoodMoved
      <4>3. QED
        BY <3>2, <4>1, <4>2 DEF Kept, Procs
    <3>3. QED
      BY <2>7, <3>1, <3>2 DEF sigset2Child
  <2>8. CASE sigset2Parent
    BY <1>7, <2>3, <2>4, <2>5, <2>6, <2>8 DEF sigset2Parent
  <2>9. ASSUME NEW p \in Procs, handler(p) PROVE Kept
    BY <2>1, <2>9, KeptReturn DEF handler
  <2>10. QED
    BY <1>10, <2>2, <2>7, <2>8, <2>9 DEF sigset2
<1>11. QED
  BY <1>8, <1>9, <1>10 DEF ParentChildStep

----------------------------------------------------------------------------
(* Programs of one process.                                                *)

LEMMA SelfAt ==
  ASSUME Sound, NEW l, At("parent", l)
  PROVE  /\ Good(program, samask, self) /\ Sane(program, samask, self)
         /\ Fits(program, self, l)
BY BothProcs DEF Sound, Good, At, self

LEMMA KeptCount ==
  ASSUME Sound, NEW l \in HandlersOf(program), Count(l), program # "startstop"
  PROVE  Kept
<1> DEFINE r == Returned(self)
           q == Storing(r, self.mem + 1)
<1>1. At("parent", l) /\ proc' = [proc EXCEPT !["parent"] = q]
  BY DEF Count, Do, Become, self
<1>2. /\ Sane(program, samask, self) /\ self.frames # <<>>
      /\ \A s \in Sigs : self.action[s] # "ignore"
  BY <1>1, BothProcs, AtHandler DEF self
<1>3. /\ Good(program, samask, r) /\ r.pc # "sigsuspend"
      /\ program = "sighand1" => r.pc \notin Ready \cup {"sigprocmask"}
  BY <1>2, GoodReturned
<1> HIDE DEF r
<1>4. self.mem + 1 \in Nat
  BY <1>2 DEF Sane
<1>5. /\ Sane(program, samask, q) /\ q.mask = r.mask
      /\ q.frames = r.frames /\ q.action = r.action /\ q.pc = r.pc
  BY <1>3, <1>4, SaneStoring DEF Good
<1> HIDE DEF q
<1>6. Fits(program, q, q.pc)
  BY <1>3, <1>5 DEF Good, Fits
<1>7. QED
  BY <1>1, <1>5, <1>6, BothProcs, KeptBecome DEF Good

LEMMA KeptBlock ==
  ASSUME Sound, NEW l, NEW m, m \subseteq All, NEW next, Plain(next),
         Block(l, m, next) \/ Unblock(l, m, next),
         program # "sigset" \/ l \notin {"unblock", "handler"}
  PROVE  Kept
<1>1. At("parent", l)
  BY DEF Block, Unblock, Do
<1>2. Sane(program, samask, self) /\ \A s \in Sigs : self.action[s] # "ignore"
  BY <1>1, SelfAt DEF Sane, Fits
<1>3. self.mask \ m \subseteq All /\ DOMAIN self = Fields
  BY <1>2 DEF Sane
<1>4. ASSUME NEW q, Sane(program, samask, q), q.action = self.action,
             Do("parent", l, Moved(q, next))
      PROVE  Kept
  BY <1>2, <1>4, BothProcs, FitsPlain, KeptMoved
<1>5. CASE Block(l, m, next)
  <2>1. Sane(program, samask, Blocking(self, m))
    BY <1>2, SaneBlocking
  <2>2. Blocking(self, m).action = self.action
    <3>1. Blocking(self, m) = SetMask(self, self.mask \cup m)
      BY <1>3, BlockingIsMask
    <3>2. SetMask(self, self.mask \cup m).action = self.action
      BY <1>3, MaskFields
    <3>3. QED
      BY <3>1, <3>2
  <2>3. Do("parent", l, Moved(Blocking(self, m), next))
    BY <1>5 DEF Block
  <2>4. QED
    BY <1>4, <2>1, <2>2, <2>3
<1>6. CASE Unblock(l, m, next)
  <2>1. Sane(program, samask, SetMask(self, self.mask \ m))
    BY <1>2, <1>3, SaneMask
  <2>2. SetMask(self, self.mask \ m).action = self.action
    BY <1>3, MaskFields
  <2>3. Do("parent", l, Moved(SetMask(self, self.mask \ m), next))
    BY <1>6 DEF Unblock
  <2>4. QED
    BY <1>4, <2>1, <2>2, <2>3
<1>7. QED
  BY <1>5, <1>6

LEMMA KeptKillSelf ==
  ASSUME Sound, NEW l, NEW s \in Sigs, NEW next, Plain(next), KillSelf(l, s, next),
         program # "sigset" \/ l \notin {"unblock", "handler"}
  PROVE  Kept
<1>1. At("parent", l) /\ proc' = [proc EXCEPT !["parent"] = Raised(Moved(self, next), s)]
  BY DEF KillSelf, Do, Become
<1>2. Sane(program, samask, self) /\ \A t \in Sigs : self.action[t] # "ignore"
  BY <1>1, SelfAt DEF Sane, Fits
<1>3. Good(program, samask, Moved(self, next))
  BY <1>2, FitsPlain, GoodMoved
<1>4. Moved(self, next).action = self.action
  BY <1>2, FieldsAfter DEF Sane
<1>5. Good(program, samask, Raised(Moved(self, next), s))
  BY <1>2, <1>3, <1>4, GoodRaised
<1>6. QED
  BY <1>1, <1>5, BothProcs, KeptBecome

(* sighand1 has everything blocked, but in sigsuspend. *)
LEMMA Sighand1Keeps ==
  ASSUME Sound, program = "sighand1", sighand1
  PROVE  Kept
<1>1. /\ HandlersOf(program) = {"myhandler(TSTP)", "myhandler(INT)"}
      /\ HandledBy(program) = {"TSTP", "INT"}
      /\ Ready \subseteq BlockedIn(program) /\ "my_flag" \in BlockedIn(program)
  BY DEF HandlersOf, HandledBy, BlockedIn
<1>2. {"TSTP", "INT"} \subseteq Sigs /\ {"TSTP", "INT"} \subseteq All
  BY DEF Sigs, All
<1>3. ASSUME NEW l, At("parent", l)
      PROVE  /\ Sane(program, samask, self) /\ Fits(program, self, l)
             /\ \A s \in Sigs : self.action[s] # "ignore"
  BY <1>3, SelfAt DEF Sane
<1>4. CASE Block("sigprocmask", All, "sigaction1")
  <2> DEFINE q == Blocking(self, All)
  <2>1. Do("parent", "sigprocmask", Moved(q, "sigaction1"))
    BY <1>4 DEF Block
  <2>2. /\ Sane(program, samask, self) /\ Fits(program, self, "sigprocmask")
        /\ \A s \in Sigs : self.action[s] # "ignore"
    BY <1>3, <2>1 DEF Do
  <2>3. DOMAIN self = Fields /\ self.mem = 0
    BY <2>2 DEF Sane, Fits
  <2>4. q = SetMask(self, self.mask \cup All)
    BY <2>3, BlockingIsMask
  <2>5. q.mask = self.mask \cup All /\ q.action = self.action /\ q.mem = 0
    BY <2>3, <2>4, MaskFields
  <2>6. Sane(program, samask, q)
    BY <2>2, SaneBlocking
  <2> HIDE DEF q
  <2>7. Fits(program, q, "sigaction1")
    BY <1>1, <1>2, <2>2, <2>5 DEF Fits
  <2>8. QED
    BY <2>1, <2>6, <2>7, BothProcs, KeptMoved
<1>5. ASSUME NEW l \in {"sigaction1", "sigaction2"}, NEW s \in {"TSTP", "INT"},
             NEW h \in {"myhandler(TSTP)", "myhandler(INT)"},
             NEW next \in {"sigaction2", "suspend"}, SigAction("parent", l, s, h, next)
      PROVE  Kept
  <2>1. Fits(program, self, l)
    BY <1>3, <1>5 DEF SigAction, Do
  <2>2. l \in Ready /\ next \in Ready
    BY DEF Ready
  <2>3. proc["parent"].mem = 0 /\ HandledBy(program) \subseteq proc["parent"].mask
    BY <1>1, <2>1, <2>2 DEF Fits, self
  <2>4. s \in HandledBy(program) /\ s \in Sigs /\ h \in HandlersOf(program)
        /\ h # "usr1_sigsuspend" /\ HandledBy(program) \subseteq samask[s] \cup {s}
    BY <1>1, <1>2 DEF Sound
  <2>5. QED
    BY <1>5, <2>2, <2>3, <2>4, BothProcs, KeptSigAction
<1>6. CASE Do("parent", "suspend", Suspended(self, {}, "my_flag"))
  <2>1. /\ Sane(program, samask, self) /\ Fits(program, self, "suspend")
        /\ \A s \in Sigs : self.action[s] # "ignore"
        /\ proc' = [proc EXCEPT !["parent"] = Suspended(self, {}, "my_flag")]
    BY <1>3, <1>6 DEF Do, Become
  <2>2. self.mem = 0 /\ HandledBy(program) \subseteq self.mask /\ self.mask \subseteq All
    BY <1>1, <2>1 DEF Fits, Ready, Sane
  <2>3. GoodFrame(program, [pc |-> "my_flag", mask |-> self.mask])
    BY <2>2 DEF GoodFrame, Critical, Ready
  <2>4. {} \in SUBSET All /\ "my_flag" \notin HandlersOf(program)
    BY <1>1
  <2>5. Good(program, samask, Suspended(self, {}, "my_flag"))
    BY <2>1, <2>2, <2>3, <2>4, GoodSuspended
  <2>6. QED
    BY <2>1, <2>5, BothProcs, KeptBecome
<1>7. CASE Go("parent", "my_flag", IF self.mem > 0 THEN "exit" ELSE "suspend")
  <2>1. /\ At("parent", "my_flag")
        /\ \/ Do("parent", "my_flag", Moved(self, "exit"))
           \/ Do("parent", "my_flag", Moved(self, "suspend")) /\ ~(self.mem > 0)
    BY <1>7, Zenon DEF Go, Do, self
  <2>2. /\ Sane(program, samask, self) /\ Fits(program, self, "my_flag")
        /\ \A s \in Sigs : self.action[s] # "ignore"
    BY <1>3, <2>1
  <2>3. Fits(program, self, "exit")
    BY <1>1, <2>2 DEF Fits, BlockedIn, Critical, Ready
  <2>4. ~(self.mem > 0) => Fits(program, self, "suspend")
    <3>1. ~(self.mem > 0) => self.mem = 0
      <4>1. self.mem \in Nat
        BY <2>2 DEF Sane
      <4>2. QED
        BY ONLY <4>1
    <3>2. HandledBy(program) \subseteq self.mask
      BY <1>1, <2>2 DEF Fits
    <3>3. QED
      BY <1>1, <2>2, <3>1, <3>2 DEF Fits
  <2>5. QED
    BY <2>1, <2>2, <2>3, <2>4, BothProcs, KeptMoved
<1>8. CASE myhandler
  BY <1>1, <1>8, BothProcs, KeptReturn, KeptCount DEF myhandler
<1>9. CASE ParentEnds
  BY <1>9, BothProcs, KeptExit DEF ParentEnds
<1>10. QED
  BY <1>4, <1>5, <1>6, <1>7, <1>8, <1>9 DEF sighand1

(* sigset discards a pending SIGTERM by ignoring it for a moment. *)
LEMMA SigsetKeeps ==
  ASSUME Sound, program = "sigset", sigset
  PROVE  Kept
<1>1. /\ HandlersOf(program) = {"my_handler"} /\ HandledBy(program) = {"TERM"}
      /\ \A l \in {"kill1", "pending", "unblock", "handler", "kill2", "exit"} : Plain(l)
  BY DEF HandlersOf, HandledBy, Plain, BlockedIn, Critical
<1>2. "TERM" \in Sigs /\ {"TERM"} \subseteq All
  BY DEF Sigs, All
<1>3. CASE Block("sigprocmask", {"TERM"}, "kill1")
  BY <1>1, <1>2, <1>3, KeptBlock
<1>4. CASE KillSelf("kill1", "TERM", "pending") \/ KillSelf("kill2", "TERM", "exit")
  BY <1>1, <1>2, <1>4, KeptKillSelf
<1>5. CASE Do("parent", "pending", Moved(IF "TERM" \in self.pending
                                         THEN Discard ELSE self, "unblock"))
  <2> DEFINE q == Discard
             r == self
  <2>1. Sane(program, samask, r) /\ \A s \in Sigs : r.action[s] # "ignore"
    BY <1>5, SelfAt DEF Do, Sane, Fits
  <2>2. /\ DOMAIN q = Fields /\ q.pc = r.pc /\ q.life = r.life /\ q.mem = r.mem
        /\ q.mask = r.mask /\ q.pending = r.pending \ {"TERM"}
        /\ q.frames = r.frames /\ q.action = [r.action EXCEPT !["TERM"] = "ignore"]
    BY <2>1 DEF Sane, Fields, Discard, Handling
  <2> HIDE DEF q, r
  <2>3. /\ q.action \in [Sigs -> {"default", "ignore"} \cup HandlersOf(program)]
        /\ q.action["TERM"] = "ignore"
        /\ \A s \in Sigs \ {"TERM"} : q.action[s] = r.action[s]
    BY <1>2, <2>1, <2>2 DEF Sane
  <2>4. "ignore" \notin HandlersOf(program) \cup BlockedIn(program)
    BY <1>1 DEF BlockedIn, Critical
  <2>5. Sane(program, samask, q)
    BY <2>1, <2>2, <2>3, <2>4 DEF Sane
  <2>6. Fits(program, q, "unblock") /\ Fits(program, r, "unblock")
    BY <1>1 DEF Fits, Plain
  <2>7. \/ Do("parent", "pending", Moved(q, "unblock"))
        \/ Do("parent", "pending", Moved(r, "unblock"))
    BY <1>5 DEF q, r
  <2>8. QED
    BY <2>1, <2>5, <2>6, <2>7, BothProcs, KeptMoved
<1>6. CASE Unblock("unblock", {"TERM"}, "handler")
  <2> DEFINE q == SetMask(self, self.mask \ {"TERM"})
  <2>1. Do("parent", "unblock", Moved(q, "handler"))
    BY <1>6 DEF Unblock
  <2>2. Sane(program, samask, self)
    BY <2>1, SelfAt DEF Do
  <2>3. self.mask \ {"TERM"} \subseteq All
    BY <2>2 DEF Sane
  <2>4. Sane(program, samask, q)
    BY <2>2, <2>3, SaneMask
  <2> HIDE DEF q
  <2>5. Fits(program, q, "handler")
    BY <1>1 DEF Fits, Plain
  <2>6. QED
    BY <2>1, <2>4, <2>5, BothProcs, KeptMoved
<1>7. CASE SigAction("parent", "handler", "TERM", "my_handler", "kill2")
  BY <1>1, <1>2, <1>7, BothProcs, KeptSigAction
<1>8. CASE Count("my_handler")
  BY <1>1, <1>8, KeptCount
<1>9. CASE ParentEnds
  BY <1>9, BothProcs, KeptExit DEF ParentEnds
<1>10. QED
  BY <1>3, <1>4, <1>5, <1>6, <1>7, <1>8, <1>9 DEF sigset

LEMMA SelfKeeps ==
  ASSUME Sound, SelfStep
  PROVE  Kept
<1>1. {"INT", "ALRM"} \subseteq Sigs /\ {"INT"} \subseteq All
  BY DEF Sigs, All
<1>2. ASSUME ParentEnds PROVE Kept
  BY <1>2, BothProcs, KeptExit DEF ParentEnds
<1>3. CASE program = "handler_masks" /\ handler_masks
  <2>1. /\ HandlersOf(program) = {"my_handler", "leave"} /\ HandledBy(program) = {"INT"}
        /\ \A l \in {"loop", "exit"} : Plain(l)
        /\ {"my_handler", "leave"} \subseteq BlockedIn(program)
    BY <1>3 DEF HandlersOf, HandledBy, Plain, BlockedIn, Critical
  <2>2. CASE SigAction("parent", "sigaction", "INT", "my_handler", "loop")
    BY <1>1, <1>3, <2>1, <2>2, BothProcs, KeptSigAction
  <2>3. CASE Go("parent", "loop", IF self.mem > 0 THEN "exit" ELSE "loop")
    <3>1. Go("parent", "loop", "exit") \/ Go("parent", "loop", "loop")
      BY <2>3, Zenon
    <3>2. QED
      BY <1>3, <2>1, <3>1, BothProcs, KeptGo
  <2>4. CASE my_handler
    <3>1. CASE Do("parent", "my_handler", Moved(Storing(self, self.mem + 1), "leave"))
      <4> DEFINE q == Storing(self, self.mem + 1)
      <4>1. /\ Sane(program, samask, self) /\ Fits(program, self, "my_handler")
            /\ self.mem \in Nat /\ \A s \in Sigs : self.action[s] # "ignore"
        BY <1>3, <3>1, SelfAt DEF Do, Sane
      <4>2. self.mem + 1 \in Nat
        BY <4>1
      <4>3. /\ Sane(program, samask, q) /\ q.mask = self.mask
            /\ q.frames = self.frames /\ q.action = self.action
        BY <4>1, <4>2, SaneStoring
      <4> HIDE DEF q
      <4>4. Fits(program, q, "leave")
        BY <1>3, <2>1, <4>1, <4>3 DEF Fits
      <4>5. QED
        BY <3>1, <4>3, <4>4, BothProcs, KeptMoved DEF q
    <3>2. CASE Return("parent", "leave")
      BY <2>1, <3>2, BothProcs, KeptReturn
    <3>3. QED
      BY <2>4, <3>1, <3>2 DEF my_handler
  <2>5. QED
    BY <1>2, <1>3, <2>2, <2>3, <2>4 DEF handler_masks
<1>4. CASE program = "sigmask" /\ sigmask
  <2>1. \A l \in {"unblock", "exit"} : Plain(l)
    BY <1>4 DEF HandlersOf, Plain, BlockedIn, Critical
  <2>2. CASE Block("block", {"INT"}, "unblock") \/ Unblock("unblock", {"INT"}, "exit")
    BY <1>1, <1>4, <2>1, <2>2, KeptBlock
  <2>3. QED
    BY <1>2, <1>4, <2>2 DEF sigmask
<1>5. CASE program = "alarm" /\ alarm
  <2>1. /\ HandlersOf(program) = {"sigalrm_handler"} /\ HandledBy(program) = {"ALRM"}
        /\ \A l \in {"timer", "loop"} : Plain(l)
        /\ "sigalrm_handler" \notin BlockedIn(program)
    BY <1>5 DEF HandlersOf, HandledBy, Plain, BlockedIn, Critical
  <2>2. CASE SigAction("parent", "sigaction", "ALRM", "sigalrm_handler",
                       IF self.mem > 0 THEN "timer" ELSE "loop")
    <3>1. \/ SigAction("parent", "sigaction", "ALRM", "sigalrm_handler", "timer")
          \/ SigAction("parent", "sigaction", "ALRM", "sigalrm_handler", "loop")
      BY <2>2, Zenon
    <3>2. QED
      BY <1>1, <1>5, <2>1, <3>1, BothProcs, KeptSigAction
  <2>3. CASE KillSelf("timer", "ALRM", "loop")
    BY <1>1, <1>5, <2>1, <2>3, KeptKillSelf
  <2>4. CASE Exit("parent", "sigalrm_handler", 0)
    BY <2>4, BothProcs, KeptExit
  <2>5. QED
    BY <1>5, <2>2, <2>3, <2>4 DEF alarm
<1>6. CASE program = "sighand2" /\ sighand2
  <2>1. /\ HandlersOf(program) = {"sighand2_handler"} /\ HandledBy(program) = {"INT"}
        /\ \A l \in {"printf", "fgets", "exit", "EINTR"} : Plain(l)
        /\ "sighand2_handler" \notin BlockedIn(program)
    BY <1>6 DEF HandlersOf, HandledBy, Plain, BlockedIn, Critical
  <2>2. CASE SigAction("parent", "sigaction", "INT", "sighand2_handler", "printf")
    BY <1>1, <1>6, <2>1, <2>2, BothProcs, KeptSigAction
  <2>3. CASE \/ Go("parent", "printf", "fgets") \/ Go("parent", "fgets", "exit")
             \/ Go("parent", "EINTR", "exit")
    BY <1>6, <2>1, <2>3, BothProcs, KeptGo
  <2>4. CASE sighand2_handler
    <3> DEFINE r == Returned(self)
    <3>1. /\ At("parent", "sighand2_handler")
          /\ \/ proc' = [proc EXCEPT !["parent"] = r]
             \/ proc' = [proc EXCEPT !["parent"] = Moved(r, "EINTR")]
      BY <2>4 DEF sighand2_handler, Become
    <3>2. /\ Sane(program, samask, self) /\ self.frames # <<>>
          /\ \A s \in Sigs : self.action[s] # "ignore"
      BY <2>1, <3>1, BothProcs, AtHandler DEF self
    <3>3. Good(program, samask, r)
      BY <3>2, GoodReturned
    <3> HIDE DEF r
    <3>4. Good(program, samask, Moved(r, "EINTR"))
      BY <1>6, <2>1, <3>3, FitsPlain, GoodMoved DEF Good
    <3>5. QED
      BY <3>1, <3>3, <3>4, BothProcs, KeptBecome
  <2>5. QED
    BY <1>2, <1>6, <2>2, <2>3, <2>4 DEF sighand2
<1>7. QED
  BY <1>3, <1>4, <1>5, <1>6, Sighand1Keeps, SigsetKeeps DEF SelfStep

----------------------------------------------------------------------------
(* The whole specification.                                                *)

(* A process that starts handles nothing and has nothing blocked.          *)
LEMMA GoodStarted ==
  ASSUME NEW prog, NEW sm, NEW v \in Lifes, NEW n \in Nat, NEW l,
         l \notin HandlersOf(prog) \cup BlockedIn(prog) \cup {"sigsuspend"},
         prog = "sighand1" => n = 0
  PROVE  Good(prog, sm, [Started(l, n) EXCEPT !.life = v])
<1> DEFINE q == [Started(l, n) EXCEPT !.life = v]
<1>1. /\ DOMAIN q = Fields /\ q.pc = l /\ q.life = v /\ q.mem = n
      /\ q.mask = {} /\ q.pending = {} /\ q.frames = <<>>
      /\ q.action = [s \in Sigs |-> "default"]
  BY DEF Started, Fields
<1> HIDE DEF q
<1>2. /\ q.action \in [Sigs -> {"default", "ignore"} \cup HandlersOf(prog)]
      /\ \A s \in Sigs : q.action[s] = "default"
  BY <1>1
<1>3. "default" \notin HandlersOf(prog) \cup BlockedIn(prog)
  BY HandlerNames DEF BlockedIn, Critical, Ready
<1>4. IsSeq(q.frames) /\ DOMAIN q.frames = {}
  <2>1. q.frames \in Seq({})
    BY <1>1
  <2>2. DOMAIN q.frames = {}
    BY <1>1
  <2>3. QED
    BY <2>1, <2>2 DEF IsSeq
<1>5. Sane(prog, sm, q)
  BY <1>1, <1>2, <1>3, <1>4 DEF Sane
<1>6. Fits(prog, q, l)
  BY <1>1, <1>2 DEF Fits, BlockedIn
<1>7. QED
  BY <1>1, <1>5, <1>6 DEF Good, q

LEMMA SoundStarted ==
  ASSUME NEW n \in Nat, NEW l, SignalsInit(l, n),
         l \notin HandlersOf(program) \cup BlockedIn(program) \cup {"sigsuspend"},
         program = "sighand1" => n = 0 /\ \A s \in Sigs : samask[s] = All,
         samask \in [Sigs -> SUBSET All], savedmask = {}
  PROVE  Sound
<1>1. DOMAIN proc = Procs
  BY DEF SignalsInit
<1>2. ASSUME NEW p \in Procs PROVE Good(program, samask, proc[p])
  <2>1. \E v \in Lifes : proc[p] = [Started(l, n) EXCEPT !.life = v]
    BY DEF SignalsInit, Lifes
  <2>2. QED
    BY <2>1, GoodStarted
<1>3. QED
  BY <1>1, <1>2 DEF Sound

LEMMA SoundInit == SignalProgramsInit => Sound
<1> SUFFICES ASSUME SignalProgramsInit PROVE Sound
  OBVIOUS
<1>1. /\ {} \subseteq All /\ All \subseteq All /\ All \ {"USR1"} \subseteq All
      /\ {"INT"} \subseteq All /\ HandlerMask \subseteq All
  BY DEF All, Sigs, HandlerMask
<1>2. 0 \in Nat /\ 1 \in Nat /\ 5 \in Nat /\ 100 \in Nat
  OBVIOUS
<1>3. CASE StartStopInit
  <2>1. program = "startstop" /\ SignalsInit("sigaction1", 0) /\ savedmask = {}
    BY <1>3 DEF StartStopInit
  <2>2. samask \in [Sigs -> SUBSET All]
    BY <1>1, <1>3 DEF StartStopInit
  <2>3. "sigaction1" \notin HandlersOf(program) \cup BlockedIn(program) \cup {"sigsuspend"}
    BY <2>1 DEF HandlersOf, BlockedIn, Critical
  <2>4. QED
    BY <1>2, <2>1, <2>2, <2>3, SoundStarted
<1>4. CASE savedmask = {} /\ ForkWaitInit
  <2>1. samask \in [Sigs -> SUBSET All]
    BY <1>1, <1>4 DEF ForkWaitInit
  <2>2. program \in {"fork_wait", "fork1", "fork2", "fork3", "fork4", "lab2"}
    BY <1>4 DEF ForkWaitInit
  <2>3. \E n \in {0, 5, 100}, l \in {"fork", "open", "usage"} : SignalsInit(l, n)
    BY <1>4 DEF ForkWaitInit
  <2>4. \A l \in {"fork", "open", "usage"} :
          l \notin HandlersOf(program) \cup BlockedIn(program) \cup {"sigsuspend"}
    BY <2>2 DEF HandlersOf, BlockedIn, Critical
  <2>5. QED
    BY <1>2, <1>4, <2>1, <2>2, <2>3, <2>4, SoundStarted
<1>5. CASE savedmask = {} /\ ParentChildInit
  <2>1. samask \in [Sigs -> SUBSET All]
    BY <1>1, <1>5 DEF ParentChildInit
  <2>2. program \in {"lab3", "sighand3", "sigset2"}
    BY <1>5 DEF ParentChildInit
  <2>3. \E l \in {"sigprocmask", "sigaction", "fork"} : SignalsInit(l, 0)
    BY <1>5 DEF ParentChildInit
  <2>4. \A l \in {"sigprocmask", "sigaction", "fork"} :
          l \notin HandlersOf(program) \cup BlockedIn(program) \cup {"sigsuspend"}
    BY <2>2 DEF HandlersOf, BlockedIn, Critical
  <2>5. QED
    BY <1>2, <1>5, <2>1, <2>2, <2>3, <2>4, SoundStarted
<1>6. CASE savedmask = {} /\ SelfInit
  <2>1. samask \in [Sigs -> SUBSET All]
    BY <1>1, <1>6 DEF SelfInit, Mask
  <2>2. program \in {"sighand1", "handler_masks", "sigset", "sigmask", "alarm", "sighand2"}
    BY <1>6 DEF SelfInit
  <2>3. \E n \in {0, 1}, l \in {"sigprocmask", "sigaction", "block"} :
          SignalsInit(l, n) /\ (program = "sighand1" => n = 0)
    BY <1>6 DEF SelfInit
  <2>4. program = "sighand1" => \A s \in Sigs : samask[s] = All
    BY <1>6 DEF SelfInit
  <2>5. \A l \in {"sigprocmask", "sigaction", "block"} :
          l \notin HandlersOf(program) \cup BlockedIn(program) \cup {"sigsuspend"}
    BY <2>2 DEF HandlersOf, BlockedIn, Critical, Ready
  <2>6. QED
    BY <1>2, <1>6, <2>1, <2>3, <2>4, <2>5, SoundStarted
<1>7. QED
  BY <1>3, <1>4, <1>5, <1>6 DEF SignalProgramsInit

LEMMA SoundAfter ==
  ASSUME Sound, Kept, Fixed, savedmask' \subseteq All
  PROVE  Sound'
BY DEF Sound, Kept, Fixed

LEMMA SoundStep == Sound /\ [SignalProgramsNext]_signalVars => Sound'
<1> SUFFICES ASSUME Sound, [SignalProgramsNext]_signalVars PROVE Sound'
  OBVIOUS
<1>1. CASE \/ StartStopRuns(StartStopStep)
           \/ StartStopRuns(\E s \in HandlerMask : Send(s) /\ UNCHANGED savedmask)
  BY <1>1, StartStopKeeps, SoundAfter DEF StartStopRuns
<1>2. ASSUME Kept, Fixed, UNCHANGED savedmask PROVE Sound'
  BY <1>2, SoundAfter DEF Sound
<1>3. CASE OtherRuns(ForkWaitStep \/ ParentChildStep \/ SelfStep)
  BY <1>2, <1>3, ForkWaitKeeps, ParentChildKeeps, SelfKeeps DEF OtherRuns
<1>4. CASE OtherRuns(\E p \in Procs : Deliver(p))
  BY <1>2, <1>4, KeptDeliver DEF OtherRuns
<1>5. CASE OtherRuns(CtrlC \/ Keys)
  <2>1. \E s \in {"INT", "TSTP"} : Key(s) /\ program # "sigset"
    BY <1>5 DEF OtherRuns, CtrlC, Keys
  <2>2. {"INT", "TSTP"} \subseteq Sigs
    BY DEF Sigs
  <2>3. QED
    BY <1>2, <1>5, <2>1, <2>2, KeptSend DEF OtherRuns
<1>6. CASE UNCHANGED signalVars
  BY <1>6 DEF signalVars, kernelVars, Sound
<1>7. QED
  BY <1>1, <1>3, <1>4, <1>5, <1>6 DEF SignalProgramsNext, SignalSteps

LEMMA AlwaysSound == SignalProgramsSpec => []Sound
BY SoundInit, SoundStep, PTL DEF SignalProgramsSpec

(* Lives, masks and pending signals are what the kernel allows: SIGSTOP is *)
(* never blocked, by whatever mask a handler, a sigsuspend or a return     *)
(* installs, and a process in sigsuspend has the frame that gives its old  *)
(* mask back.                                                              *)
THEOREM SignalsTypeCorrect == SignalProgramsSpec => []SignalsTypeOK
<1>1. Sound => SignalsTypeOK
  BY DEF Sound, Good, Sane, Fits, GoodFrame, SignalsTypeOK, Lifes
<1>2. QED
  BY <1>1, AlwaysSound, PTL

(* startstop.c l.212-219 and sighand1.c l.94-101: between the test of      *)
(* paused, or of my_flag, and the sigsuspend that follows it no signal is  *)
(* handled that would have changed it, however many are sent.              *)
THEOREM NoWakeupIsLost == SignalProgramsSpec => []NoLostWakeup
<1>1. Sound => NoLostWakeup
  BY BothProcs DEF Sound, Good, Fits, NoLostWakeup, paused
<1>2. QED
  BY <1>1, AlwaysSound, PTL

(* Code that its program says is not interrupted, in handlers and in the   *)
(* part of them that changes paused, never has another handler above it:   *)
(* the masks that protect it come from sigaction, from sigprocmask and     *)
(* from the frames that are restored.                                      *)
THEOREM NotInterrupted == SignalProgramsSpec => []Uninterrupted
<1>1. Sound => Uninterrupted
  BY DEF Sound, Good, Sane, GoodFrame, Critical, Uninterrupted
<1>2. QED
  BY <1>1, AlwaysSound, PTL
----------------------------------------------------------------------------
(* Why programs of one process end.  Until it ends, the reason is there in *)
(* what has been counted, is pending or lies under a handler.              *)

OneProcess == {"sighand1", "handler_masks", "sigset", "sigmask", "alarm", "sighand2"}

FramePcs(r) == {r.frames[i].pc : i \in DOMAIN r.frames}
Places(r) == {r.pc} \cup FramePcs(r)

(* Every Ctrl-C that was counted, is being counted or is pending was sent, *)
(* and the loop is left only after one was counted.                        *)
Counter(prog) == IF prog = "sighand1" THEN "myhandler(INT)" ELSE "my_handler"
IsCounting(prog, r) == r.pc = Counter(prog)
IsPending(r) == "INT" \in r.pending
IsLeaving(r) == "exit" \in Places(r)
Owed(prog, r) ==
  (IF IsCounting(prog, r) THEN 1 ELSE 0) + (IF IsPending(r) THEN 1 ELSE 0)
OnlyINT(prog, r) == \A s \in Sigs : r.action[s] = Counter(prog) => s = "INT"
Counted(prog, r, n) ==
  r.mem + Owed(prog, r) <= n /\ (IsLeaving(r) => r.mem > 0) /\ OnlyINT(prog, r)

(* sigset: a first SIGTERM is discarded while it is blocked; of the second *)
(* the program knows by its handler, which runs before the last step.      *)
BeforeTerm == {"sigprocmask", "unblock", "handler", "kill1", "kill2"}
SecondTerm(r) ==
  /\ r.pc \in BeforeTerm \cup {"pending", "my_handler", "exit"}
  /\ r.pending \subseteq {"TERM"}
  /\ r.pc \in BeforeTerm \cup {"my_handler"} => r.pending = {}
  /\ r.pc \in {"kill1", "pending"} => "TERM" \in r.mask
  /\ r.pc \in {"handler", "kill2"} => "TERM" \notin r.mask
  /\ r.pc \in {"kill2", "my_handler", "exit"} => r.action["TERM"] = "my_handler"
  /\ r.pc # "exit" => r.mem = 0
  /\ r.pc = "exit" => \/ r.pending = {} /\ r.mem = 1
                      \/ r.pending # {} /\ r.mem = 0 /\ "TERM" \notin r.mask
  /\ FramePcs(r) \subseteq {"exit"}

(* sigmask: a Ctrl-C stays pending until it kills. *)
KeptPending(r, n) ==
  /\ n > 0 => "INT" \in r.pending
  /\ r.pc = "exit" => "INT" \notin r.mask

(* alarm: only a timer that was set sends SIGALRM. *)
TimerSet(r) ==
  /\ r.pending \subseteq {"ALRM"}
  /\ r.pc \in {"timer", "sigalrm_handler"} \/ r.pending # {} => r.mem = 1
  /\ r.mem \in {0, 1}

(* sighand2: fgets fails when a Ctrl-C came and SA_RESTART was not set. *)
Failed(r, n, reps) ==
  /\ reps \in Seq({"line", "EINTR"})
  /\ r.pending \subseteq {"INT"}
  /\ r.pending # {} \/ "sighand2_handler" \in Places(r) => n > 0
  /\ "EINTR" \in Places(r) \/ reps = <<"EINTR">> => r.mem = 0 /\ n > 0

Reason(prog, r, n, reps) ==
  /\ prog \in {"sighand1", "handler_masks"} => Counted(prog, r, n)
  /\ prog = "sigset" => SecondTerm(r)
  /\ prog = "sigmask" => KeptPending(r, n)
  /\ prog = "alarm" => TimerSet(r)
  /\ prog = "sighand2" => Failed(r, n, reps)

(* What EndsBecause asks when the process exits. *)
Due(prog, r, n, reps) ==
  /\ prog \in {"sighand1", "handler_masks"} => r.mem \in 1 .. n
  /\ prog = "sigset" => r.mem = 1
  /\ prog = "sigmask" => n = 0
  /\ prog = "alarm" => r.mem = 1
  /\ prog = "sighand2" /\ reps = <<"EINTR">> => r.mem = 0 /\ n > 0

EndsInv ==
  program \in OneProcess =>
    /\ proc.child.life = "none"
    /\ Lives(proc.parent) =>
         /\ proc.parent.event # <<"exited", 0>>
         /\ Reason(program, proc.parent, sends, reports)
    /\ sends \in Nat /\ EndsBecause

(* q is r after a call that neither ends nor stops it. *)
GoesOn(r, q) == q.life = r.life /\ q.event = r.event

LEMMA EndsAlive ==
  ASSUME Sound, EndsInv, program \in OneProcess, program' = program,
         NEW q, proc' = [proc EXCEPT !["parent"] = q],
         q.event # <<"exited", 0>>, sends' \in Nat,
         Lives(q) => Reason(program, q, sends', reports')
  PROVE  EndsInv'
<1>1. proc'["parent"] = q /\ proc'["child"] = proc["child"]
  BY BothProcs DEF Sound
<1>2. proc'.parent.event # <<"exited", 0>> /\ proc'.child.life = "none"
  BY <1>1 DEF EndsInv
<1>3. EndsBecause'
  BY <1>2 DEF EndsBecause
<1>4. QED
  BY <1>1, <1>2, <1>3 DEF EndsInv, Lives

LEMMA EndsExit ==
  ASSUME Sound, EndsInv, program \in OneProcess, program' = program,
         NEW l, Exit("parent", l, 0), Same,
         Due(program, self, sends, reports)
  PROVE  EndsInv'
<1> DEFINE q == Ended(self, <<"exited", 0>>)
<1>1. proc' = [proc EXCEPT !["parent"] = q]
  BY DEF Exit, Tell, self
<1>2. DOMAIN self = Fields
  BY BothProcs DEF Sound, Good, Sane, self
<1>3. q.life = "zombie" /\ q.mem = self.mem
  BY <1>2 DEF Ended, Fields
<1> HIDE DEF q
<1>4. proc'["parent"] = q /\ proc'["child"] = proc["child"]
  BY <1>1, BothProcs DEF Sound
<1>5. proc'.parent.mem = self.mem /\ proc'.child.life = "none" /\ ~Lives(proc'.parent)
  BY <1>3, <1>4 DEF EndsInv, Lives
<1>6. EndsBecause'
  BY <1>5 DEF EndsBecause, Due, Same
<1>7. QED
  BY <1>5, <1>6 DEF EndsInv, Same, Lives

LEMMA Living ==
  ASSUME Sound, EndsInv, program \in OneProcess, NEW l, At("parent", l)
  PROVE  /\ Reason(program, self, sends, reports) /\ self.pc = l /\ Lives(self)
         /\ Deliverable(self) = {} /\ self.event # <<"exited", 0>>
         /\ sends \in Nat /\ self.mem \in Nat
         /\ Good(program, samask, self) /\ DOMAIN self = Fields
BY BothProcs DEF At, EndsInv, Lives, self, Sound, Good, Sane

(* A step of the program text that goes on. *)
LEMMA EndsDo ==
  ASSUME Sound, EndsInv, program \in OneProcess, program' = program,
         NEW l, NEW q, Do("parent", l, q), GoesOn(self, q), sends' = sends,
         Reason(program, q, sends, reports')
  PROVE  EndsInv'
<1>1. At("parent", l) /\ proc' = [proc EXCEPT !["parent"] = q]
  BY DEF Do, Become
<1>2. q.event # <<"exited", 0>> /\ sends' \in Nat
  BY <1>1, Living DEF GoesOn
<1>3. QED
  BY <1>1, <1>2, EndsAlive

----------------------------------------------------------------------------
(* All that the operators change. *)

LEMMA MovedAll ==
  ASSUME NEW r, DOMAIN r = Fields, NEW l
  PROVE  /\ GoesOn(r, Moved(r, l)) /\ Moved(r, l).pc = l
         /\ Moved(r, l).mem = r.mem /\ Moved(r, l).mask = r.mask
         /\ Moved(r, l).pending = r.pending /\ Moved(r, l).action = r.action
         /\ FramePcs(Moved(r, l)) = FramePcs(r) /\ DOMAIN Moved(r, l) = Fields
BY FieldsAfter DEF GoesOn, FramePcs

LEMMA MaskAll ==
  ASSUME NEW r, DOMAIN r = Fields, NEW m
  PROVE  /\ GoesOn(r, SetMask(r, m)) /\ SetMask(r, m).pc = r.pc
         /\ SetMask(r, m).mem = r.mem /\ SetMask(r, m).mask = m
         /\ SetMask(r, m).pending = r.pending /\ SetMask(r, m).action = r.action
         /\ FramePcs(SetMask(r, m)) = FramePcs(r) /\ DOMAIN SetMask(r, m) = Fields
BY DEF GoesOn, FramePcs, SetMask, Fields

LEMMA StoringAll ==
  ASSUME NEW r, DOMAIN r = Fields, NEW v
  PROVE  /\ GoesOn(r, Storing(r, v)) /\ Storing(r, v).pc = r.pc
         /\ Storing(r, v).mem = v /\ Storing(r, v).mask = r.mask
         /\ Storing(r, v).pending = r.pending /\ Storing(r, v).action = r.action
         /\ FramePcs(Storing(r, v)) = FramePcs(r) /\ DOMAIN Storing(r, v) = Fields
BY DEF GoesOn, FramePcs, Storing, Fields

LEMMA HandlingAll ==
  ASSUME NEW prog, NEW sm, NEW r, Sane(prog, sm, r), NEW s \in Sigs, NEW h
  PROVE  /\ GoesOn(r, Handling(r, s, h)) /\ Handling(r, s, h).pc = r.pc
         /\ Handling(r, s, h).mem = r.mem /\ Handling(r, s, h).mask = r.mask
         /\ h # "ignore" => Handling(r, s, h).pending = r.pending
         /\ h = "ignore" => Handling(r, s, h).pending = r.pending \ {s}
         /\ \A t \in Sigs : Handling(r, s, h).action[t] = IF t = s THEN h ELSE r.action[t]
         /\ FramePcs(Handling(r, s, h)) = FramePcs(r)
         /\ DOMAIN Handling(r, s, h) = Fields
<1> DEFINE q == Handling(r, s, h)
<1>1. /\ DOMAIN q = Fields /\ q.pc = r.pc /\ q.life = r.life /\ q.mem = r.mem
      /\ q.mask = r.mask /\ q.event = r.event /\ q.frames = r.frames
      /\ q.pending = (IF h = "ignore" THEN r.pending \ {s} ELSE r.pending)
      /\ q.action = [r.action EXCEPT ![s] = h]
  BY DEF Handling, Sane, Fields
<1> HIDE DEF q
<1>2. \A t \in Sigs : q.action[t] = IF t = s THEN h ELSE r.action[t]
  BY <1>1 DEF Sane
<1>3. GoesOn(r, q) /\ FramePcs(q) = FramePcs(r)
  BY <1>1 DEF GoesOn, FramePcs
<1>4. QED
  BY <1>1, <1>2, <1>3 DEF q

(* A signal that is not ignored, and is neither CONT nor CHLD. *)
LEMMA RaisedAll ==
  ASSUME NEW r, DOMAIN r = Fields, Lives(r), NEW s \in Sigs \ {"CONT", "CHLD"},
         r.action[s] # "ignore"
  PROVE  /\ GoesOn(r, Raised(r, s)) /\ Raised(r, s).pc = r.pc
         /\ Raised(r, s).mem = r.mem /\ Raised(r, s).mask = r.mask
         /\ Raised(r, s).pending = r.pending \cup {s}
         /\ Raised(r, s).action = r.action
         /\ FramePcs(Raised(r, s)) = FramePcs(r)
<1>1. s \notin Ignored(r)
  BY DEF Ignored, IgnoredByDefault
<1>2. Raised(r, s) = [r EXCEPT !.pending = @ \cup {s}]
  BY <1>1 DEF Raised
<1>3. QED
  BY <1>2 DEF GoesOn, FramePcs, Fields

LEMMA FramesPushed ==
  ASSUME NEW r, IsSeq(r.frames), NEW f, NEW q, q.frames = Append(r.frames, f)
  PROVE  FramePcs(q) = FramePcs(r) \cup {f.pc}
<1>1. PICK S : r.frames \in Seq(S)
  BY DEF IsSeq
<1> DEFINE T == S \cup {f}
<1> HIDE DEF T
<1>2. r.frames \in Seq(T) /\ f \in T
  BY <1>1, SeqMonotonic DEF T
<1>3. /\ q.frames \in Seq(T) /\ Len(q.frames) = Len(r.frames) + 1
      /\ q.frames[Len(r.frames) + 1] = f
      /\ \A i \in 1 .. Len(r.frames) : q.frames[i] = r.frames[i]
  BY <1>2, AppendProperties
<1>4. /\ Len(r.frames) \in Nat /\ DOMAIN r.frames = 1 .. Len(r.frames)
      /\ DOMAIN q.frames = 1 .. Len(r.frames) + 1
  BY <1>2, <1>3, LenProperties
<1>5. DOMAIN q.frames = DOMAIN r.frames \cup {Len(r.frames) + 1}
  BY <1>4
<1>6. QED
  BY <1>3, <1>4, <1>5 DEF FramePcs

LEMMA SuspendedAll ==
  ASSUME NEW r, DOMAIN r = Fields, IsSeq(r.frames), NEW m, NEW l
  PROVE  /\ GoesOn(r, Suspended(r, m, l)) /\ Suspended(r, m, l).pc = "sigsuspend"
         /\ Suspended(r, m, l).mem = r.mem /\ Suspended(r, m, l).pending = r.pending
         /\ Suspended(r, m, l).action = r.action
         /\ FramePcs(Suspended(r, m, l)) = FramePcs(r) \cup {l}
<1> DEFINE q == Suspended(r, m, l)
           f == [pc |-> l, mask |-> r.mask]
<1>1. /\ q.pc = "sigsuspend" /\ q.life = r.life /\ q.mem = r.mem
      /\ q.pending = r.pending /\ q.event = r.event
      /\ q.frames = Append(r.frames, f) /\ q.action = r.action
  BY DEF Suspended, Fields
<1>2. f.pc = l
  OBVIOUS
<1> HIDE DEF q, f
<1>3. FramePcs(q) = FramePcs(r) \cup {l}
  BY <1>1, <1>2, FramesPushed
<1>4. QED
  BY <1>1, <1>3 DEF GoesOn, q

(* A return takes the program counter out of a frame. *)
LEMMA ReturnedAll ==
  ASSUME NEW r, DOMAIN r = Fields, IsSeq(r.frames), r.frames # <<>>
  PROVE  /\ GoesOn(r, Returned(r)) /\ Returned(r).pc \in FramePcs(r)
         /\ Returned(r).mem = r.mem /\ Returned(r).pending = r.pending
         /\ Returned(r).action = r.action /\ FramePcs(Returned(r)) \subseteq FramePcs(r)
         /\ DOMAIN Returned(r) = Fields
<1> DEFINE n == Len(r.frames)
           q == Returned(r)
<1>1. /\ DOMAIN q = Fields /\ q.pc = r.frames[n].pc /\ q.life = r.life
      /\ q.mem = r.mem /\ q.event = r.event /\ q.pending = r.pending
      /\ q.frames = SubSeq(r.frames, 1, n - 1) /\ q.action = r.action
  BY DEF Fields, Returned
<1> PICK S : r.frames \in Seq(S)
  BY DEF IsSeq
<1>2. /\ n \in Nat /\ n # 0 /\ DOMAIN r.frames = 1 .. n
  BY LenProperties, EmptySeq
<1>3. n \in DOMAIN r.frames /\ n - 1 \in Nat /\ 1 .. n - 1 \subseteq DOMAIN r.frames
  BY <1>2
<1>4. q.frames = [i \in 1 .. n - 1 |-> r.frames[i]]
  BY <1>1, <1>2, <1>3
<1> HIDE DEF q, n
<1>5. q.pc \in FramePcs(r) /\ FramePcs(q) \subseteq FramePcs(r)
  BY <1>1, <1>3, <1>4 DEF FramePcs
<1>6. QED
  BY <1>1, <1>5 DEF GoesOn, q

----------------------------------------------------------------------------
(* Signals are delivered, and keys are hit. *)

(* A stop, or a signal that is ignored by default. *)
Shed(r, q, s) ==
  /\ q.pc = r.pc /\ q.mem = r.mem /\ q.mask = r.mask /\ q.action = r.action
  /\ FramePcs(q) = FramePcs(r) /\ q.pending = r.pending \ {s}
  /\ r.action[s] = "default" /\ s \in Stops \cup IgnoredByDefault
(* A handler is entered. *)
Caught(r, q, s) ==
  /\ q.pc = r.action[s] /\ q.mem = r.mem /\ q.action = r.action
  /\ FramePcs(q) \subseteq Places(r) /\ q.pending = r.pending \ {s}
  /\ r.action[s] \in HandlersOf(program) /\ s \in HandledBy(program)

LEMMA OneDelivered ==
  ASSUME Sound, EndsInv, program \in OneProcess, program' = program,
         NEW p \in Procs, Deliver(p),
         \A s \in Sigs :
           /\ Lives(self) /\ s \in self.pending \ self.mask
           /\ Shed(self, proc'["parent"], s) \/ Caught(self, proc'["parent"], s)
           => Reason(program, proc'["parent"], sends, reports)
  PROVE  EndsInv'
<1> DEFINE r == self
<1>1. p = "parent" /\ Lives(r) /\ sends \in Nat /\ r.event # <<"exited", 0>>
  BY DEF Deliver, EndsInv, Procs, Lives, self
<1>2. Good(program, samask, r) /\ DOMAIN r = Fields /\ IsSeq(r.frames)
  BY BothProcs DEF Sound, Good, Sane, self
<1>3. PICK s \in Deliverable(r) :
        CASE r.action[s] = "default" /\ s \in Stops ->
               Tell("parent", [r EXCEPT !.life = "stopped", !.event = <<"stopped">>,
                                        !.pending = @ \ {s}])
          [] r.action[s] = "default" /\ s \in IgnoredByDefault ->
               Become("parent", [r EXCEPT !.pending = @ \ {s}])
          [] r.action[s] = "default" /\ s \notin Stops \cup IgnoredByDefault ->
               Tell("parent", Ended(r, <<"killed", s>>))
          [] OTHER -> Become("parent", Interrupted(r, s))
  BY <1>1 DEF Deliver, self
<1>4. s \in Sigs /\ s \in r.pending \ r.mask /\ UNCHANGED <<reports, sends>>
  BY <1>2, <1>3 DEF Deliverable, Good, Sane, Deliver, Same
<1>5. \A q : proc' = [proc EXCEPT !["parent"] = q] => proc'["parent"] = q
  BY BothProcs DEF Sound
<1> HIDE DEF r
<1>6. ASSUME NEW q, proc' = [proc EXCEPT !["parent"] = q], q.event # <<"exited", 0>>,
             Shed(r, q, s) \/ Caught(r, q, s)
      PROVE  EndsInv'
  <2>1. Reason(program, q, sends, reports)
    BY <1>1, <1>4, <1>5, <1>6 DEF r
  <2>2. QED
    BY <1>1, <1>4, <1>6, <2>1, EndsAlive
<1>7. CASE r.action[s] = "default" /\ s \in Stops
  <2> DEFINE q == [r EXCEPT !.life = "stopped", !.event = <<"stopped">>,
                            !.pending = @ \ {s}]
  <2>1. Tell("parent", q)
    BY <1>3, <1>7 DEF Stops, IgnoredByDefault
  <2>2. proc' = [proc EXCEPT !["parent"] = q]
    BY <2>1 DEF Tell
  <2>3. q.event = <<"stopped">> /\ Shed(r, q, s)
    BY <1>2, <1>7 DEF Fields, Shed, FramePcs
  <2> HIDE DEF q
  <2>4. q.event # <<"exited", 0>>
    BY <2>3
  <2>5. QED
    BY <1>6, <2>2, <2>3, <2>4
<1>8. CASE r.action[s] = "default" /\ s \in IgnoredByDefault /\ s \notin Stops
  <2> DEFINE q == [r EXCEPT !.pending = @ \ {s}]
  <2>1. proc' = [proc EXCEPT !["parent"] = q]
    BY <1>3, <1>8 DEF Become
  <2>2. q.event = r.event /\ Shed(r, q, s)
    BY <1>2, <1>8 DEF Fields, Shed, FramePcs
  <2> HIDE DEF q
  <2>3. QED
    BY <1>1, <1>6, <2>1, <2>2 DEF r
<1>9. CASE r.action[s] = "default" /\ s \notin Stops \cup IgnoredByDefault
  <2> DEFINE q == Ended(r, <<"killed", s>>)
  <2>1. proc' = [proc EXCEPT !["parent"] = q]
    BY <1>3, <1>9 DEF Tell
  <2>2. q.event = <<"killed", s>> /\ q.life = "zombie"
    BY <1>2 DEF Fields, Ended
  <2> HIDE DEF q
  <2>3. q.event # <<"exited", 0>> /\ ~Lives(q)
    BY <2>2 DEF Lives
  <2>4. QED
    BY <1>1, <1>4, <2>1, <2>3, EndsAlive
<1>10. CASE r.action[s] # "default"
  <2> DEFINE q == Interrupted(r, s)
             f == [pc |-> r.pc, mask |-> r.mask]
  <2>1. proc' = [proc EXCEPT !["parent"] = q]
    BY <1>3, <1>10 DEF Become
  <2>2. /\ q.event = r.event /\ q.pc = r.action[s] /\ q.mem = r.mem
        /\ q.action = r.action /\ q.pending = r.pending \ {s}
        /\ q.frames = IF r.pc = "sigsuspend" THEN r.frames ELSE Append(r.frames, f)
    BY <1>2 DEF Fields, Interrupted
  <2>3. f.pc = r.pc
    OBVIOUS
  <2> HIDE DEF q, f
  <2>4. FramePcs(q) \subseteq Places(r)
    <3>1. CASE r.pc = "sigsuspend"
      BY <2>2, <3>1 DEF FramePcs, Places
    <3>2. CASE r.pc # "sigsuspend"
      BY <1>2, <2>2, <2>3, <3>2, FramesPushed DEF Places
    <3>3. QED
      BY <3>1, <3>2
  <2>5. r.action[s] \in HandlersOf(program) /\ s \in HandledBy(program)
    <3>1. r.action[s] # "ignore"
      BY <1>2, <1>4 DEF Good, Sane
    <3>2. r.action[s] \in HandlersOf(program)
      BY <1>2, <1>4, <1>10, <3>1 DEF Good, Sane
    <3>3. QED
      BY <1>2, <1>4, <3>2 DEF Good, Sane
  <2>6. Caught(r, q, s)
    BY <2>2, <2>4, <2>5 DEF Caught
  <2>7. QED
    BY <1>1, <1>6, <2>1, <2>2, <2>6 DEF r
<1>11. QED
  BY <1>7, <1>8, <1>9, <1>10

(* A key of the terminal: the child, which is not there, does not get it. *)
Hit(r, q, s) ==
  /\ q.pc = r.pc /\ q.mem = r.mem /\ q.mask = r.mask /\ q.action = r.action
  /\ FramePcs(q) = FramePcs(r) /\ q.pending = r.pending \cup {s}

LEMMA OneKey ==
  ASSUME Sound, EndsInv, program \in OneProcess, program' = program,
         NEW s \in {"INT", "TSTP"}, Key(s), program # "sigset",
         Lives(self) /\ Hit(self, proc'["parent"], s) =>
           Reason(program, proc'["parent"], sends + 1, reports)
  PROVE  EndsInv'
<1> DEFINE q == Raised(self, s)
<1>1. /\ Lives(self) /\ sends' = sends + 1 /\ reports' = reports
      /\ proc' = [p \in Procs |-> Raised(proc[p], s)]
  BY DEF Key, Outside, self
<1>2. sends \in Nat /\ ~Lives(proc["child"]) /\ self.event # <<"exited", 0>>
  BY <1>1 DEF EndsInv, Lives, self
<1>3. DOMAIN self = Fields /\ s \in Sigs \ {"CONT", "CHLD"} /\ self.action[s] # "ignore"
  <2>1. s \in Sigs /\ s \notin {"CONT", "CHLD"}
    BY DEF Sigs
  <2>2. QED
    BY <2>1, BothProcs, NeverIgnored DEF Sound, Good, Sane, self
<1>4. Raised(proc["child"], s) = proc["child"]
  BY <1>2 DEF Raised
<1>5. proc' = [proc EXCEPT !["parent"] = q]
  BY <1>1, <1>4, BothProcs DEF Sound, self, Procs
<1>6. proc'["parent"] = q
  BY <1>5, BothProcs DEF Sound
<1>7. GoesOn(self, q) /\ Hit(self, q, s)
  BY <1>1, <1>3, RaisedAll DEF Hit
<1> HIDE DEF q
<1>8. q.event # <<"exited", 0>>
  BY <1>2, <1>7 DEF GoesOn
<1>9. Reason(program, q, sends', reports')
  BY <1>1, <1>6, <1>7
<1>10. sends' \in Nat
  BY <1>1, <1>2
<1>11. QED
  BY <1>5, <1>8, <1>9, <1>10, EndsAlive

----------------------------------------------------------------------------
(* The two programs that count. *)

LEMMA CountedSame ==
  ASSUME NEW prog, NEW n \in Nat, NEW r, NEW q, Counted(prog, r, n),
         r.mem \in Nat, q.mem = r.mem, IsPending(q) => IsPending(r),
         OnlyINT(prog, q), ~IsCounting(prog, q),
         IsLeaving(q) => IsLeaving(r) \/ r.mem > 0
  PROVE  Counted(prog, q, n)
<1>1. r.mem + Owed(prog, r) <= n
  BY DEF Counted
<1>2. q.mem + Owed(prog, q) <= n
  BY <1>1 DEF Owed
<1>3. IsLeaving(q) => q.mem > 0
  BY DEF Counted
<1>4. QED
  BY <1>2, <1>3 DEF Counted

LEMMA CountedOne ==
  ASSUME NEW prog, NEW n \in Nat, NEW r, NEW q, Counted(prog, r, n),
         r.mem \in Nat, q.mem = r.mem + 1, IsPending(q) => IsPending(r),
         OnlyINT(prog, q), IsCounting(prog, r), ~IsCounting(prog, q)
  PROVE  Counted(prog, q, n)
<1>1. r.mem + Owed(prog, r) <= n
  BY DEF Counted
<1>2. q.mem + Owed(prog, q) <= n
  BY <1>1 DEF Owed
<1>3. q.mem > 0
  OBVIOUS
<1>4. QED
  BY <1>2, <1>3 DEF Counted

LEMMA CountedDelivered ==
  ASSUME NEW prog, prog = program, prog \in {"sighand1", "handler_masks"},
         NEW n \in Nat, NEW r, NEW q, Counted(prog, r, n), r.mem \in Nat,
         NEW s \in Sigs, s \in r.pending, Shed(r, q, s) \/ Caught(r, q, s)
  PROVE  Counted(prog, q, n)
<1>1. r.mem + Owed(prog, r) <= n /\ OnlyINT(prog, r) /\ (IsLeaving(r) => r.mem > 0)
  BY DEF Counted
<1>2. q.mem = r.mem /\ OnlyINT(prog, q)
  BY <1>1 DEF Shed, Caught, OnlyINT
<1>3. IsPending(q) => IsPending(r)
  BY DEF IsPending, Shed, Caught
<1>4. s = "INT" => IsPending(r) /\ ~IsPending(q)
  BY DEF IsPending, Shed, Caught
<1>5. s # "INT" /\ IsCounting(prog, q) => IsCounting(prog, r)
  BY <1>1 DEF IsCounting, OnlyINT, Shed, Caught
<1>6. q.mem + Owed(prog, q) <= n
  BY <1>1, <1>2, <1>3, <1>4, <1>5 DEF Owed
<1>7. IsLeaving(q) => IsLeaving(r)
  <2>1. Shed(r, q, s) => Places(q) = Places(r)
    BY DEF Shed, Places
  <2>2. Caught(r, q, s) => Places(q) \subseteq Places(r) \cup HandlersOf(prog)
    BY DEF Caught, Places
  <2>3. "exit" \notin HandlersOf(prog)
    BY DEF HandlersOf
  <2>4. QED
    BY <2>1, <2>2, <2>3 DEF IsLeaving
<1>8. QED
  BY <1>1, <1>2, <1>6, <1>7 DEF Counted

LEMMA CountedHit ==
  ASSUME NEW prog, NEW n \in Nat, NEW r, NEW q, Counted(prog, r, n), r.mem \in Nat,
         NEW s, Hit(r, q, s)
  PROVE  Counted(prog, q, n + 1)
<1>1. r.mem + Owed(prog, r) <= n /\ OnlyINT(prog, r) /\ (IsLeaving(r) => r.mem > 0)
  BY DEF Counted
<1>2. q.mem = r.mem /\ OnlyINT(prog, q) /\ (IsLeaving(q) => IsLeaving(r))
  BY <1>1 DEF Hit, OnlyINT, IsLeaving, Places
<1>3. IsCounting(prog, q) => IsCounting(prog, r)
  BY DEF Hit, IsCounting
<1>4. q.mem + Owed(prog, q) <= n + 1
  BY <1>1, <1>2, <1>3 DEF Owed
<1>5. QED
  BY <1>1, <1>2, <1>4 DEF Counted

(* A step that goes on, and leaves pending signals and the handlers alone. *)
LEMMA CountedStep ==
  ASSUME Sound, EndsInv, program \in {"sighand1", "handler_masks"}, program' = program,
         NEW l, NEW q, Do("parent", l, q), Same, GoesOn(self, q),
         q.pending = self.pending, OnlyINT(program, q), q.pc # Counter(program),
         \/ /\ q.mem = self.mem
            /\ "exit" \in Places(q) => "exit" \in Places(self) \/ self.mem > 0
         \/ q.mem = self.mem + 1 /\ l = Counter(program)
  PROVE  EndsInv'
<1>1. program \in OneProcess /\ At("parent", l) /\ sends' = sends /\ reports' = reports
  BY DEF OneProcess, Do, Same
<1>2. /\ Counted(program, self, sends) /\ self.pc = l
      /\ sends \in Nat /\ self.mem \in Nat
  BY <1>1, Living DEF Reason
<1>3. (IsPending(q) => IsPending(self)) /\ ~IsCounting(program, q)
  BY DEF IsPending, IsCounting
<1>4. Counted(program, q, sends)
  <2>1. CASE q.mem = self.mem /\ (IsLeaving(q) => IsLeaving(self) \/ self.mem > 0)
    BY <1>2, <1>3, <2>1, CountedSame
  <2>2. CASE q.mem = self.mem + 1 /\ l = Counter(program)
    <3>1. IsCounting(program, self)
      BY <1>2, <2>2 DEF IsCounting
    <3>2. QED
      BY <1>2, <1>3, <2>2, <3>1, CountedOne
  <2>3. QED
    BY <2>1, <2>2 DEF IsLeaving
<1>5. Reason(program, q, sends, reports')
  BY <1>4 DEF Reason
<1>6. QED
  BY <1>1, <1>5, EndsDo

LEMMA CountedAt ==
  ASSUME Sound, EndsInv, program \in {"sighand1", "handler_masks"}, NEW l, At("parent", l)
  PROVE  /\ DOMAIN self = Fields /\ OnlyINT(program, self) /\ self.pc = l
         /\ Sane(program, samask, self) /\ IsSeq(self.frames)
         /\ l \in HandlersOf(program) => self.frames # <<>>
<1>1. program \in OneProcess
  BY DEF OneProcess
<1>2. Reason(program, self, sends, reports) /\ self.pc = l /\ Good(program, samask, self)
  BY <1>1, Living
<1>3. OnlyINT(program, self)
  BY <1>2 DEF Reason, Counted
<1>4. QED
  BY <1>2, <1>3 DEF Good, Sane, Fits

LEMMA CountedMoved ==
  ASSUME Sound, EndsInv, program \in {"sighand1", "handler_masks"}, program' = program,
         NEW l, NEW next, Go("parent", l, next), Same, next # Counter(program),
         next = "exit" => self.mem > 0
  PROVE  EndsInv'
<1> DEFINE q == Moved(self, next)
<1>1. Do("parent", l, q) /\ At("parent", l)
  BY DEF Go, Do, self
<1>2. /\ GoesOn(self, q) /\ q.pending = self.pending /\ q.mem = self.mem
      /\ q.pc = next /\ q.action = self.action /\ FramePcs(q) = FramePcs(self)
  BY <1>1, CountedAt, MovedAll
<1> HIDE DEF q
<1>3. "exit" \in Places(q) => "exit" \in Places(self) \/ self.mem > 0
  BY <1>2 DEF Places
<1>4. OnlyINT(program, q)
  BY <1>1, <1>2, CountedAt DEF OnlyINT
<1>5. QED
  BY <1>1, <1>2, <1>3, <1>4, CountedStep

LEMMA CountedSigAction ==
  ASSUME Sound, EndsInv, program \in {"sighand1", "handler_masks"}, program' = program,
         NEW l, NEW s \in Sigs, NEW h, NEW next, SigAction("parent", l, s, h, next),
         h # "ignore", h = Counter(program) => s = "INT",
         next # Counter(program), next # "exit"
  PROVE  EndsInv'
<1> DEFINE r == Handling(self, s, h)
           q == Moved(r, next)
<1>1. Do("parent", l, q) /\ Same /\ At("parent", l)
  BY DEF SigAction, Do, self
<1>2. /\ DOMAIN r = Fields /\ GoesOn(self, r) /\ r.pending = self.pending
      /\ r.mem = self.mem /\ FramePcs(r) = FramePcs(self)
      /\ \A t \in Sigs : r.action[t] = IF t = s THEN h ELSE self.action[t]
  <2>1. Sane(program, samask, self)
    BY <1>1, CountedAt
  <2>2. /\ GoesOn(self, r) /\ r.mem = self.mem
        /\ h # "ignore" => r.pending = self.pending
        /\ \A t \in Sigs : r.action[t] = IF t = s THEN h ELSE self.action[t]
        /\ FramePcs(r) = FramePcs(self) /\ DOMAIN r = Fields
    BY <2>1, HandlingAll
  <2>3. QED
    BY <2>2
<1> HIDE DEF r
<1>3. /\ GoesOn(r, q) /\ q.pending = r.pending /\ q.mem = r.mem
      /\ q.pc = next /\ q.action = r.action /\ FramePcs(q) = FramePcs(r)
  BY <1>2, MovedAll
<1> HIDE DEF q
<1>4. "exit" \in Places(q) => "exit" \in Places(self)
  BY <1>2, <1>3 DEF Places
<1>5. OnlyINT(program, q)
  BY <1>1, <1>2, <1>3, CountedAt DEF OnlyINT
<1>6. GoesOn(self, q)
  BY <1>2, <1>3 DEF GoesOn
<1>7. QED
  BY <1>1, <1>2, <1>3, <1>4, <1>5, <1>6, CountedStep

(* What a handler returns to. *)
LEMMA CountedBack ==
  ASSUME Sound, EndsInv, program \in {"sighand1", "handler_masks"},
         NEW l \in HandlersOf(program), At("parent", l)
  PROVE  LET r == Returned(self)
         IN  /\ GoesOn(self, r) /\ r.mem = self.mem /\ r.pending = self.pending
             /\ DOMAIN r = Fields /\ OnlyINT(program, r) /\ r.pc # Counter(program)
             /\ "exit" \in Places(r) => "exit" \in Places(self)
<1> DEFINE r == Returned(self)
<1>1. /\ DOMAIN self = Fields /\ OnlyINT(program, self) /\ self.frames # <<>>
      /\ Sane(program, samask, self) /\ IsSeq(self.frames)
  BY CountedAt
<1>2. /\ GoesOn(self, r) /\ r.pc \in FramePcs(self) /\ r.mem = self.mem
      /\ r.pending = self.pending /\ r.action = self.action
      /\ FramePcs(r) \subseteq FramePcs(self) /\ DOMAIN r = Fields
  BY <1>1, ReturnedAll
<1>3. r.pc # Counter(program)
  <2>1. \A i \in DOMAIN self.frames : self.frames[i].pc \notin Critical
    BY <1>1 DEF Sane, GoodFrame
  <2>2. Counter(program) \in Critical
    BY DEF Counter, Critical
  <2>3. QED
    BY <1>2, <2>1, <2>2 DEF FramePcs
<1> HIDE DEF r
<1>4. OnlyINT(program, r) /\ ("exit" \in Places(r) => "exit" \in Places(self))
  BY <1>1, <1>2 DEF OnlyINT, Places
<1>5. QED
  BY <1>2, <1>3, <1>4 DEF r

LEMMA CountedReturn ==
  ASSUME Sound, EndsInv, program \in {"sighand1", "handler_masks"}, program' = program,
         NEW l \in HandlersOf(program), Return("parent", l), Same
  PROVE  EndsInv'
<1> DEFINE r == Returned(self)
<1>1. At("parent", l) /\ Do("parent", l, r)
  BY DEF Return, Do, self
<1>2. /\ GoesOn(self, r) /\ r.mem = self.mem /\ r.pending = self.pending
      /\ OnlyINT(program, r) /\ r.pc # Counter(program)
      /\ "exit" \in Places(r) => "exit" \in Places(self)
  BY <1>1, CountedBack
<1> HIDE DEF r
<1>3. QED
  BY <1>1, <1>2, CountedStep

LEMMA CountedCount ==
  ASSUME Sound, EndsInv, program = "sighand1", program' = program,
         Count("myhandler(INT)"), Same
  PROVE  EndsInv'
<1> DEFINE r == Returned(self)
           c == Storing(r, self.mem + 1)
           l == "myhandler(INT)"
<1>1. At("parent", l) /\ Do("parent", l, c)
  BY DEF Count, Do
<1>2. l \in HandlersOf(program) /\ l = Counter(program)
  BY DEF HandlersOf, Counter
<1>3. /\ GoesOn(self, r) /\ r.pending = self.pending /\ DOMAIN r = Fields
      /\ OnlyINT(program, r) /\ r.pc # Counter(program)
  BY <1>1, <1>2, CountedBack
<1> HIDE DEF r
<1>4. /\ GoesOn(r, c) /\ c.pc = r.pc /\ c.mem = self.mem + 1
      /\ c.pending = r.pending /\ c.action = r.action
  BY <1>3, StoringAll
<1> HIDE DEF c, l
<1>5. GoesOn(self, c) /\ OnlyINT(program, c)
  BY <1>3, <1>4 DEF GoesOn, OnlyINT
<1>6. QED
  BY <1>1, <1>2, <1>3, <1>4, <1>5, CountedStep

LEMMA CountedEnds ==
  ASSUME Sound, EndsInv, program \in {"sighand1", "handler_masks"}, program' = program,
         ParentEnds
  PROVE  EndsInv'
<1>1. Exit("parent", "exit", 0) /\ Same /\ program \in OneProcess
  BY DEF ParentEnds, OneProcess
<1>2. /\ Counted(program, self, sends) /\ self.pc = "exit"
      /\ sends \in Nat /\ self.mem \in Nat
  BY <1>1, Living DEF Reason, Exit
<1>3. self.mem > 0 /\ self.mem + Owed(program, self) <= sends
  BY <1>2 DEF Counted, IsLeaving, Places
<1>4. self.mem \in 1 .. sends
  BY <1>2, <1>3 DEF Owed
<1>5. Due(program, self, sends, reports)
  BY <1>4 DEF Due
<1>6. QED
  BY <1>1, <1>5, EndsExit

LEMMA Sighand1Ends ==
  ASSUME Sound, EndsInv, program = "sighand1", program' = program, sighand1
  PROVE  EndsInv'
<1>1. /\ HandlersOf(program) = {"myhandler(TSTP)", "myhandler(INT)"}
      /\ Counter(program) = "myhandler(INT)" /\ {"TSTP", "INT"} \subseteq Sigs
  BY DEF HandlersOf, Counter, Sigs
<1>2. CASE Block("sigprocmask", All, "sigaction1")
  <2> DEFINE r == SetMask(self, self.mask \cup All)
             q == Moved(r, "sigaction1")
  <2>1. At("parent", "sigprocmask") /\ Same
        /\ Do("parent", "sigprocmask", Moved(Blocking(self, All), "sigaction1"))
    BY <1>2 DEF Block, Do
  <2>2. DOMAIN self = Fields /\ OnlyINT(program, self)
    BY <2>1, CountedAt
  <2>3. Do("parent", "sigprocmask", q)
    BY <2>1, <2>2, BlockingIsMask
  <2>4. /\ GoesOn(self, r) /\ r.pending = self.pending /\ r.mem = self.mem
        /\ r.action = self.action /\ FramePcs(r) = FramePcs(self) /\ DOMAIN r = Fields
    BY <2>2, MaskAll
  <2> HIDE DEF r
  <2>5. /\ GoesOn(r, q) /\ q.pending = r.pending /\ q.mem = r.mem
        /\ q.pc = "sigaction1" /\ q.action = r.action /\ FramePcs(q) = FramePcs(r)
    BY <2>4, MovedAll
  <2> HIDE DEF q
  <2>6. GoesOn(self, q) /\ OnlyINT(program, q)
    BY <2>2, <2>4, <2>5 DEF GoesOn, OnlyINT
  <2>7. "exit" \in Places(q) => "exit" \in Places(self)
    BY <2>4, <2>5 DEF Places
  <2>8. QED
    BY <1>1, <2>1, <2>3, <2>4, <2>5, <2>6, <2>7, CountedStep
<1>3. CASE \/ SigAction("parent", "sigaction1", "TSTP", "myhandler(TSTP)", "sigaction2")
           \/ SigAction("parent", "sigaction2", "INT", "myhandler(INT)", "suspend")
  BY <1>1, <1>3, CountedSigAction
<1>4. CASE Do("parent", "suspend", Suspended(self, {}, "my_flag")) /\ Same
  <2> DEFINE q == Suspended(self, {}, "my_flag")
  <2>1. At("parent", "suspend")
    BY <1>4 DEF Do
  <2>2. DOMAIN self = Fields /\ OnlyINT(program, self) /\ IsSeq(self.frames)
    BY <2>1, CountedAt
  <2>3. /\ GoesOn(self, q) /\ q.pending = self.pending /\ q.mem = self.mem
        /\ q.pc = "sigsuspend" /\ q.action = self.action
        /\ FramePcs(q) = FramePcs(self) \cup {"my_flag"}
    BY <2>2, SuspendedAll
  <2> HIDE DEF q
  <2>4. OnlyINT(program, q) /\ ("exit" \in Places(q) => "exit" \in Places(self))
    BY <2>2, <2>3 DEF OnlyINT, Places
  <2>5. Do("parent", "suspend", q)
    BY <1>4 DEF q
  <2>6. QED
    BY <1>1, <1>4, <2>3, <2>4, <2>5, CountedStep
<1>5. CASE Go("parent", "my_flag", IF self.mem > 0 THEN "exit" ELSE "suspend") /\ Same
  <2>1. \/ Go("parent", "my_flag", "exit") /\ self.mem > 0
        \/ Go("parent", "my_flag", "suspend")
    BY <1>5
  <2>2. QED
    BY <1>1, <1>5, <2>1, CountedMoved
<1>6. CASE myhandler
  <2>1. CASE Return("parent", "myhandler(TSTP)") /\ Same
    <3>1. "myhandler(TSTP)" \in HandlersOf(program)
      BY <1>1
    <3>2. QED
      BY <2>1, <3>1, CountedReturn
  <2>2. CASE Count("myhandler(INT)") /\ Same
    BY <2>2, CountedCount
  <2>3. QED
    BY <1>6, <2>1, <2>2 DEF myhandler
<1>7. CASE ParentEnds
  BY <1>7, CountedEnds
<1>8. QED
  BY <1>2, <1>3, <1>4, <1>5, <1>6, <1>7 DEF sighand1

LEMMA HandlerMasksEnds ==
  ASSUME Sound, EndsInv, program = "handler_masks", program' = program, handler_masks
  PROVE  EndsInv'
<1>1. /\ HandlersOf(program) = {"my_handler", "leave"}
      /\ Counter(program) = "my_handler" /\ "INT" \in Sigs
  BY DEF HandlersOf, Counter, Sigs
<1>2. CASE SigAction("parent", "sigaction", "INT", "my_handler", "loop")
  BY <1>1, <1>2, CountedSigAction
<1>3. CASE Go("parent", "loop", IF self.mem > 0 THEN "exit" ELSE "loop") /\ Same
  <2>1. \/ Go("parent", "loop", "exit") /\ self.mem > 0
        \/ Go("parent", "loop", "loop")
    BY <1>3
  <2>2. QED
    BY <1>1, <1>3, <2>1, CountedMoved
<1>4. CASE Do("parent", "my_handler", Moved(Storing(self, self.mem + 1), "leave")) /\ Same
  <2> DEFINE r == Storing(self, self.mem + 1)
             q == Moved(r, "leave")
  <2>1. At("parent", "my_handler") /\ Do("parent", "my_handler", q)
    BY <1>4 DEF Do
  <2>2. DOMAIN self = Fields /\ OnlyINT(program, self)
    BY <2>1, CountedAt
  <2>3. /\ GoesOn(self, r) /\ r.pending = self.pending /\ r.mem = self.mem + 1
        /\ r.action = self.action /\ DOMAIN r = Fields
    BY <2>2, StoringAll
  <2> HIDE DEF r
  <2>4. /\ GoesOn(r, q) /\ q.pending = r.pending /\ q.mem = r.mem
        /\ q.pc = "leave" /\ q.action = r.action
    BY <2>3, MovedAll
  <2> HIDE DEF q
  <2>5. GoesOn(self, q) /\ OnlyINT(program, q)
    BY <2>2, <2>3, <2>4 DEF GoesOn, OnlyINT
  <2>6. QED
    BY <1>1, <1>4, <2>1, <2>3, <2>4, <2>5, CountedStep
<1>5. CASE Return("parent", "leave") /\ Same
  <2>1. "leave" \in HandlersOf(program)
    BY <1>1
  <2>2. QED
    BY <1>5, <2>1, CountedReturn
<1>6. CASE ParentEnds
  BY <1>6, CountedEnds
<1>7. QED
  BY <1>2, <1>3, <1>4, <1>5, <1>6 DEF handler_masks, my_handler

----------------------------------------------------------------------------
(* The others. *)

LEMMA SigsetStep ==
  ASSUME Sound, EndsInv, program = "sigset", program' = program,
         NEW l, NEW q, Do("parent", l, q), Same, GoesOn(self, q), SecondTerm(q)
  PROVE  EndsInv'
<1>1. program \in OneProcess /\ sends' = sends
  BY DEF OneProcess, Same
<1>2. Reason(program, q, sends, reports')
  BY DEF Reason
<1>3. QED
  BY <1>1, <1>2, EndsDo

LEMMA SigsetAt ==
  ASSUME Sound, EndsInv, program = "sigset", NEW l, At("parent", l)
  PROVE  /\ SecondTerm(self) /\ self.pc = l /\ Lives(self) /\ Deliverable(self) = {}
         /\ DOMAIN self = Fields /\ Sane(program, samask, self) /\ IsSeq(self.frames)
         /\ l \in HandlersOf(program) => self.frames # <<>>
         /\ l \notin {"unblock", "handler"} => self.action["TERM"] # "ignore"
<1>1. program \in OneProcess /\ "TERM" \in Sigs
  BY DEF OneProcess, Sigs
<1>2. /\ Reason(program, self, sends, reports) /\ self.pc = l /\ Lives(self)
      /\ Deliverable(self) = {} /\ Good(program, samask, self)
  BY <1>1, Living
<1>3. SecondTerm(self)
  BY <1>2 DEF Reason
<1>4. QED
  BY <1>1, <1>2, <1>3 DEF Good, Sane, Fits

LEMMA SigsetEnds ==
  ASSUME Sound, EndsInv, program = "sigset", program' = program, sigset
  PROVE  EndsInv'
<1>1. "TERM" \in Sigs \ {"CONT", "CHLD"}
  BY DEF Sigs
<1>2. ASSUME NEW l, NEW r, NEW next, Do("parent", l, Moved(r, next)), Same,
             GoesOn(self, r), DOMAIN r = Fields,
             \A q : /\ q.pc = next /\ q.mem = r.mem /\ q.mask = r.mask
                    /\ q.pending = r.pending /\ q.action = r.action
                    /\ FramePcs(q) = FramePcs(r)
                    => SecondTerm(q)
      PROVE  EndsInv'
  <2> DEFINE q == Moved(r, next)
  <2>1. /\ GoesOn(r, q) /\ q.pc = next /\ q.mem = r.mem /\ q.mask = r.mask
        /\ q.pending = r.pending /\ q.action = r.action
        /\ FramePcs(q) = FramePcs(r)
    BY <1>2, MovedAll
  <2>2. Do("parent", l, q)
    BY <1>2
  <2> HIDE DEF q
  <2>3. SecondTerm(q) /\ GoesOn(self, q)
    BY <1>2, <2>1 DEF GoesOn
  <2>4. QED
    BY <1>2, <2>2, <2>3, SigsetStep
<1>3. CASE Block("sigprocmask", {"TERM"}, "kill1")
  <2> DEFINE r == SetMask(self, self.mask \cup {"TERM"})
  <2>1. At("parent", "sigprocmask") /\ Same
        /\ Do("parent", "sigprocmask", Moved(Blocking(self, {"TERM"}), "kill1"))
    BY <1>3 DEF Block, Do
  <2>2. DOMAIN self = Fields /\ SecondTerm(self) /\ self.pc = "sigprocmask"
    BY <2>1, SigsetAt
  <2>3. Do("parent", "sigprocmask", Moved(r, "kill1"))
    BY <2>1, <2>2, BlockingIsMask
  <2>4. /\ GoesOn(self, r) /\ r.pending = self.pending /\ r.mem = self.mem
        /\ r.mask = self.mask \cup {"TERM"}
        /\ r.action = self.action /\ FramePcs(r) = FramePcs(self) /\ DOMAIN r = Fields
    BY <2>2, MaskAll
  <2> HIDE DEF r
  <2>5. \A q : /\ q.pc = "kill1" /\ q.mem = r.mem /\ q.mask = r.mask
               /\ q.pending = r.pending /\ q.action = r.action
               /\ FramePcs(q) = FramePcs(r)
               => SecondTerm(q)
    BY <2>2, <2>4 DEF SecondTerm, BeforeTerm
  <2>6. QED
    BY <1>2, <2>1, <2>3, <2>4, <2>5
<1>4. ASSUME NEW l, NEW next, KillSelf(l, "TERM", next),
             (l = "kill1" /\ next = "pending") \/ (l = "kill2" /\ next = "exit")
      PROVE  EndsInv'
  <2> DEFINE r == Moved(self, next)
             q == Raised(r, "TERM")
  <2>1. At("parent", l) /\ Same /\ Do("parent", l, q)
    BY <1>4 DEF KillSelf, Do
  <2>2. /\ DOMAIN self = Fields /\ SecondTerm(self) /\ self.pc = l /\ Lives(self)
        /\ self.action["TERM"] # "ignore"
    BY <1>4, <2>1, SigsetAt
  <2>3. /\ GoesOn(self, r) /\ r.pc = next /\ r.mem = self.mem /\ r.mask = self.mask
        /\ r.pending = self.pending /\ r.action = self.action
        /\ FramePcs(r) = FramePcs(self) /\ DOMAIN r = Fields
    BY <2>2, MovedAll
  <2> HIDE DEF r
  <2>4. Lives(r)
    BY <2>2, <2>3 DEF GoesOn, Lives
  <2>5. /\ GoesOn(r, q) /\ q.pc = r.pc /\ q.mem = r.mem /\ q.mask = r.mask
        /\ q.pending = r.pending \cup {"TERM"} /\ q.action = r.action
        /\ FramePcs(q) = FramePcs(r)
    BY <1>1, <2>2, <2>3, <2>4, RaisedAll
  <2> HIDE DEF q
  <2>6. GoesOn(self, q)
    BY <2>3, <2>5 DEF GoesOn
  <2>7. SecondTerm(q)
    BY <1>4, <2>2, <2>3, <2>5 DEF SecondTerm, BeforeTerm
  <2>8. QED
    BY <2>1, <2>6, <2>7, SigsetStep
<1>5. CASE /\ Do("parent", "pending", Moved(IF "TERM" \in self.pending
                                            THEN Discard ELSE self, "unblock"))
           /\ Same
  <2>1. /\ DOMAIN self = Fields /\ SecondTerm(self) /\ self.pc = "pending"
        /\ Sane(program, samask, self)
    BY <1>5, SigsetAt DEF Do
  <2>2. CASE "TERM" \in self.pending
    <3> DEFINE r == Handling(self, "TERM", "ignore")
    <3>1. Do("parent", "pending", Moved(r, "unblock"))
      BY <1>5, <2>2 DEF Discard
    <3>2. /\ GoesOn(self, r) /\ r.mem = self.mem /\ r.pending = self.pending \ {"TERM"}
          /\ FramePcs(r) = FramePcs(self) /\ DOMAIN r = Fields
      BY <1>1, <2>1, HandlingAll
    <3> HIDE DEF r
    <3>3. \A q : /\ q.pc = "unblock" /\ q.mem = r.mem /\ q.mask = r.mask
                 /\ q.pending = r.pending /\ q.action = r.action
                 /\ FramePcs(q) = FramePcs(r)
                 => SecondTerm(q)
      BY <2>1, <3>2 DEF SecondTerm, BeforeTerm
    <3>4. QED
      BY <1>2, <1>5, <3>1, <3>2, <3>3
  <2>3. CASE "TERM" \notin self.pending
    <3>1. Do("parent", "pending", Moved(self, "unblock")) /\ GoesOn(self, self)
      BY <1>5, <2>3 DEF GoesOn
    <3>2. self.pending = {}
      BY <2>1, <2>3 DEF SecondTerm
    <3>3. \A q : /\ q.pc = "unblock" /\ q.mem = self.mem /\ q.mask = self.mask
                 /\ q.pending = self.pending /\ q.action = self.action
                 /\ FramePcs(q) = FramePcs(self)
                 => SecondTerm(q)
      BY <2>1, <3>2 DEF SecondTerm, BeforeTerm
    <3>4. QED
      BY <1>2, <1>5, <2>1, <3>1, <3>3
  <2>4. QED
    BY <2>2, <2>3
<1>6. CASE Unblock("unblock", {"TERM"}, "handler")
  <2> DEFINE r == SetMask(self, self.mask \ {"TERM"})
  <2>1. /\ At("parent", "unblock") /\ Same /\ Do("parent", "unblock", Moved(r, "handler"))
    BY <1>6 DEF Unblock, Do
  <2>2. DOMAIN self = Fields /\ SecondTerm(self) /\ self.pc = "unblock"
    BY <2>1, SigsetAt
  <2>3. /\ GoesOn(self, r) /\ r.pending = self.pending /\ r.mem = self.mem
        /\ r.mask = self.mask \ {"TERM"}
        /\ r.action = self.action /\ FramePcs(r) = FramePcs(self) /\ DOMAIN r = Fields
    BY <2>2, MaskAll
  <2> HIDE DEF r
  <2>4. \A q : /\ q.pc = "handler" /\ q.mem = r.mem /\ q.mask = r.mask
               /\ q.pending = r.pending /\ q.action = r.action
               /\ FramePcs(q) = FramePcs(r)
               => SecondTerm(q)
    BY <2>2, <2>3 DEF SecondTerm, BeforeTerm
  <2>5. QED
    BY <1>2, <2>1, <2>3, <2>4
<1>7. CASE SigAction("parent", "handler", "TERM", "my_handler", "kill2")
  <2> DEFINE r == Handling(self, "TERM", "my_handler")
  <2>1. At("parent", "handler") /\ Same /\ Do("parent", "handler", Moved(r, "kill2"))
    BY <1>7 DEF SigAction, Do, self
  <2>2. /\ DOMAIN self = Fields /\ SecondTerm(self) /\ self.pc = "handler"
        /\ Sane(program, samask, self)
    BY <2>1, SigsetAt
  <2>3. /\ GoesOn(self, r) /\ r.mem = self.mem /\ r.pending = self.pending
        /\ r.mask = self.mask /\ r.action["TERM"] = "my_handler"
        /\ FramePcs(r) = FramePcs(self) /\ DOMAIN r = Fields
    BY <1>1, <2>2, HandlingAll
  <2> HIDE DEF r
  <2>4. \A q : /\ q.pc = "kill2" /\ q.mem = r.mem /\ q.mask = r.mask
               /\ q.pending = r.pending /\ q.action = r.action
               /\ FramePcs(q) = FramePcs(r)
               => SecondTerm(q)
    BY <2>2, <2>3 DEF SecondTerm, BeforeTerm
  <2>5. QED
    BY <1>2, <2>1, <2>3, <2>4
<1>8. CASE Count("my_handler") /\ Same
  <2> DEFINE r == Returned(self)
             q == Storing(r, self.mem + 1)
  <2>1. At("parent", "my_handler") /\ Do("parent", "my_handler", q)
    BY <1>8 DEF Count, Do
  <2>2. "my_handler" \in HandlersOf(program)
    BY DEF HandlersOf
  <2>3. /\ DOMAIN self = Fields /\ SecondTerm(self) /\ self.pc = "my_handler"
        /\ IsSeq(self.frames) /\ self.frames # <<>>
    BY <2>1, <2>2, SigsetAt
  <2>4. /\ GoesOn(self, r) /\ r.pc \in FramePcs(self) /\ r.pending = self.pending
        /\ r.action = self.action /\ FramePcs(r) \subseteq FramePcs(self)
        /\ DOMAIN r = Fields
    BY <2>3, ReturnedAll
  <2> HIDE DEF r
  <2>5. /\ GoesOn(r, q) /\ q.pc = r.pc /\ q.mem = self.mem + 1
        /\ q.pending = r.pending /\ q.action = r.action /\ FramePcs(q) = FramePcs(r)
    BY <2>4, StoringAll
  <2> HIDE DEF q
  <2>6. q.mem = 1
    <3>1. self.mem = 0
      BY <2>3 DEF SecondTerm
    <3>2. QED
      BY <2>5, <3>1
  <2>7. GoesOn(self, q) /\ q.pc = "exit"
    BY <2>3, <2>4, <2>5 DEF GoesOn, SecondTerm
  <2>8. SecondTerm(q)
    BY <2>3, <2>4, <2>5, <2>6, <2>7 DEF SecondTerm, BeforeTerm
  <2>9. QED
    BY <1>8, <2>1, <2>7, <2>8, SigsetStep
<1>9. CASE ParentEnds
  <2>1. Exit("parent", "exit", 0) /\ Same /\ program \in OneProcess
    BY <1>9 DEF ParentEnds, OneProcess
  <2>2. SecondTerm(self) /\ self.pc = "exit" /\ Deliverable(self) = {}
    BY <2>1, SigsetAt DEF Exit
  <2>3. self.mem = 1
    BY <2>2 DEF SecondTerm, Deliverable
  <2>4. Due(program, self, sends, reports)
    BY <2>3 DEF Due
  <2>5. QED
    BY <2>1, <2>4, EndsExit
<1>10. CASE KillSelf("kill1", "TERM", "pending") \/ KillSelf("kill2", "TERM", "exit")
  <2>1. CASE KillSelf("kill1", "TERM", "pending")
    BY ONLY <1>4, <2>1
  <2>2. CASE KillSelf("kill2", "TERM", "exit")
    BY <1>4, <2>2
  <2>3. QED
    BY <1>10, <2>1, <2>2
<1>11. QED
  BY <1>3, <1>5, <1>6, <1>7, <1>8, <1>9, <1>10 DEF sigset

LEMMA SigsetDelivered ==
  ASSUME NEW r, NEW q, SecondTerm(r), program = "sigset",
         NEW s, s \in r.pending \ r.mask, Shed(r, q, s) \/ Caught(r, q, s)
  PROVE  SecondTerm(q)
<1>1. s = "TERM" /\ r.pc = "exit"
  BY DEF SecondTerm
<1>2. r.mem = 0 /\ r.action[s] = "my_handler" /\ r.pending = {"TERM"}
  BY <1>1 DEF SecondTerm
<1>3. Caught(r, q, s)
  BY <1>2 DEF Shed
<1>4. QED
  BY <1>1, <1>2, <1>3 DEF Caught, SecondTerm, Places, BeforeTerm

LEMMA SigmaskEnds ==
  ASSUME Sound, EndsInv, program = "sigmask", program' = program, sigmask
  PROVE  EndsInv'
<1>1. program \in OneProcess
  BY DEF OneProcess
<1>2. ASSUME NEW l, NEW m, NEW next, Do("parent", l, Moved(SetMask(self, m), next)), Same,
             next = "exit" => "INT" \notin m
      PROVE  EndsInv'
  <2> DEFINE r == SetMask(self, m)
             q == Moved(r, next)
  <2>1. KeptPending(self, sends) /\ DOMAIN self = Fields
    BY <1>1, <1>2, Living DEF Do, Reason
  <2>2. /\ GoesOn(self, r) /\ r.mask = m /\ r.pending = self.pending /\ DOMAIN r = Fields
    BY <2>1, MaskAll
  <2> HIDE DEF r
  <2>3. GoesOn(r, q) /\ q.pc = next /\ q.mask = r.mask /\ q.pending = r.pending
    BY <2>2, MovedAll
  <2>4. Do("parent", l, q)
    BY <1>2 DEF r
  <2> HIDE DEF q
  <2>5. KeptPending(q, sends) /\ GoesOn(self, q) /\ sends' = sends
    BY <1>2, <2>1, <2>2, <2>3 DEF KeptPending, GoesOn, Same
  <2>6. Reason(program, q, sends, reports')
    BY <2>5 DEF Reason
  <2>7. QED
    BY <1>1, <2>4, <2>5, <2>6, EndsDo
<1>3. CASE Block("block", {"INT"}, "unblock")
  <2>1. At("parent", "block") /\ Same
        /\ Do("parent", "block", Moved(Blocking(self, {"INT"}), "unblock"))
    BY <1>3 DEF Block, Do
  <2>2. Do("parent", "block", Moved(SetMask(self, self.mask \cup {"INT"}), "unblock"))
    BY <1>1, <2>1, Living, BlockingIsMask
  <2>3. QED
    BY <1>2, <2>1, <2>2
<1>4. CASE Unblock("unblock", {"INT"}, "exit")
  BY <1>2, <1>4 DEF Unblock
<1>5. CASE ParentEnds
  <2>1. Exit("parent", "exit", 0) /\ Same /\ At("parent", "exit")
    BY <1>5 DEF ParentEnds, Exit
  <2>2. /\ KeptPending(self, sends) /\ self.pc = "exit" /\ Deliverable(self) = {}
        /\ sends \in Nat
    BY <1>1, <2>1, Living DEF Reason
  <2>3. ~(sends > 0)
    BY <2>2 DEF KeptPending, Deliverable
  <2>4. sends = 0
    BY ONLY <2>2, <2>3
  <2>5. Due(program, self, sends, reports)
    BY <2>4 DEF Due
  <2>6. QED
    BY <1>1, <2>1, <2>5, EndsExit
<1>6. QED
  BY <1>3, <1>4, <1>5 DEF sigmask

LEMMA SigmaskDelivered ==
  ASSUME NEW r, NEW q, NEW n, KeptPending(r, n), program = "sigmask",
         NEW s, Shed(r, q, s) \/ Caught(r, q, s)
  PROVE  KeptPending(q, n)
<1>1. Shed(r, q, s)
  BY DEF Caught, HandlersOf
<1>2. s # "INT"
  BY <1>1 DEF Shed, Stops, IgnoredByDefault
<1>3. QED
  BY <1>1, <1>2 DEF Shed, KeptPending

LEMMA SigmaskHit ==
  ASSUME NEW r, NEW q, NEW n \in Nat, KeptPending(r, n), Hit(r, q, "INT")
  PROVE  KeptPending(q, n + 1)
BY DEF KeptPending, Hit

LEMMA AlarmEnds ==
  ASSUME Sound, EndsInv, program = "alarm", program' = program, alarm
  PROVE  EndsInv'
<1>1. program \in OneProcess /\ "ALRM" \in Sigs \ {"CONT", "CHLD"}
  BY DEF OneProcess, Sigs
<1>2. ASSUME NEW l, At("parent", l)
      PROVE  /\ TimerSet(self) /\ self.pc = l /\ Lives(self) /\ DOMAIN self = Fields
             /\ Sane(program, samask, self)
             /\ \A s \in Sigs : self.action[s] # "ignore"
  BY <1>1, <1>2, Living DEF Reason, Good, Sane
<1>3. ASSUME NEW l, NEW q, Do("parent", l, q), Same, GoesOn(self, q), TimerSet(q)
      PROVE  EndsInv'
  <2>1. Reason(program, q, sends, reports') /\ sends' = sends
    BY <1>3 DEF Reason, Same
  <2>2. QED
    BY <1>1, <1>3, <2>1, EndsDo
<1>4. CASE SigAction("parent", "sigaction", "ALRM", "sigalrm_handler",
                     IF self.mem > 0 THEN "timer" ELSE "loop")
  <2> DEFINE next == IF self.mem > 0 THEN "timer" ELSE "loop"
             r == Handling(self, "ALRM", "sigalrm_handler")
             q == Moved(r, next)
  <2>1. At("parent", "sigaction") /\ Same /\ Do("parent", "sigaction", q)
    BY <1>4 DEF SigAction, Do, self
  <2>2. TimerSet(self) /\ Sane(program, samask, self)
    BY <1>2, <2>1
  <2>3. /\ GoesOn(self, r) /\ r.mem = self.mem /\ r.pending = self.pending
        /\ DOMAIN r = Fields
    BY <1>1, <2>2, HandlingAll
  <2> HIDE DEF r
  <2>4. GoesOn(r, q) /\ q.pc = next /\ q.mem = r.mem /\ q.pending = r.pending
    BY <2>3, MovedAll
  <2> HIDE DEF q
  <2>5. next \in {"timer", "loop"} /\ (next = "timer" => self.mem = 1)
    <3>1. self.mem > 0 => self.mem = 1
      BY <2>2 DEF TimerSet
    <3>2. QED
      BY <3>1
  <2> HIDE DEF next
  <2>6. TimerSet(q) /\ GoesOn(self, q)
    BY <2>2, <2>3, <2>4, <2>5 DEF TimerSet, GoesOn
  <2>7. QED
    BY <1>3, <2>1, <2>6
<1>5. CASE KillSelf("timer", "ALRM", "loop")
  <2> DEFINE r == Moved(self, "loop")
             q == Raised(r, "ALRM")
  <2>1. At("parent", "timer") /\ Same /\ Do("parent", "timer", q)
    BY <1>5 DEF KillSelf, Do
  <2>2. /\ TimerSet(self) /\ self.pc = "timer" /\ Lives(self) /\ DOMAIN self = Fields
        /\ self.action["ALRM"] # "ignore"
    BY <1>1, <1>2, <2>1
  <2>3. /\ GoesOn(self, r) /\ r.pc = "loop" /\ r.mem = self.mem
        /\ r.pending = self.pending /\ r.action = self.action /\ DOMAIN r = Fields
    BY <2>2, MovedAll
  <2> HIDE DEF r
  <2>4. Lives(r)
    BY <2>2, <2>3 DEF GoesOn, Lives
  <2>5. /\ GoesOn(r, q) /\ q.pc = r.pc /\ q.mem = r.mem
        /\ q.pending = r.pending \cup {"ALRM"}
    BY <1>1, <2>2, <2>3, <2>4, RaisedAll
  <2> HIDE DEF q
  <2>6. TimerSet(q) /\ GoesOn(self, q)
    BY <2>2, <2>3, <2>5 DEF TimerSet, GoesOn
  <2>7. QED
    BY <1>3, <2>1, <2>6
<1>6. CASE Exit("parent", "sigalrm_handler", 0) /\ Same
  <2>1. self.mem = 1
    BY <1>2, <1>6 DEF Exit, TimerSet
  <2>2. Due(program, self, sends, reports)
    BY <2>1 DEF Due
  <2>3. QED
    BY <1>1, <1>6, <2>2, EndsExit
<1>7. QED
  BY <1>4, <1>5, <1>6 DEF alarm

LEMMA AlarmDelivered ==
  ASSUME NEW r, NEW q, TimerSet(r), NEW s, s \in r.pending \ r.mask,
         Shed(r, q, s) \/ Caught(r, q, s)
  PROVE  TimerSet(q)
<1>1. r.mem = 1 /\ q.mem = r.mem /\ q.pending \subseteq r.pending
  BY DEF TimerSet, Shed, Caught
<1>2. QED
  BY <1>1 DEF TimerSet

LEMMA Sighand2Ends ==
  ASSUME Sound, EndsInv, program = "sighand2", program' = program, sighand2
  PROVE  EndsInv'
<1>1. program \in OneProcess /\ "INT" \in Sigs
  BY DEF OneProcess, Sigs
<1>2. ASSUME NEW l, At("parent", l)
      PROVE  /\ Failed(self, sends, reports) /\ self.pc = l /\ DOMAIN self = Fields
             /\ Sane(program, samask, self) /\ IsSeq(self.frames)
             /\ l \in HandlersOf(program) => self.frames # <<>>
  BY <1>1, <1>2, Living DEF Reason, Good, Sane, Fits
<1>3. ASSUME NEW l, NEW q, Do("parent", l, q), GoesOn(self, q), sends' = sends,
             Failed(q, sends, reports')
      PROVE  EndsInv'
  <2>1. Reason(program, q, sends, reports')
    BY <1>3 DEF Reason
  <2>2. QED
    BY <1>1, <1>3, <2>1, EndsDo
<1>4. CASE SigAction("parent", "sigaction", "INT", "sighand2_handler", "printf")
  <2> DEFINE r == Handling(self, "INT", "sighand2_handler")
             q == Moved(r, "printf")
  <2>1. At("parent", "sigaction") /\ Same /\ Do("parent", "sigaction", q)
    BY <1>4 DEF SigAction, Do, self
  <2>2. Failed(self, sends, reports) /\ Sane(program, samask, self)
    BY <1>2, <2>1
  <2>3. /\ GoesOn(self, r) /\ r.mem = self.mem /\ r.pending = self.pending
        /\ FramePcs(r) = FramePcs(self) /\ DOMAIN r = Fields
    BY <1>1, <2>2, HandlingAll
  <2> HIDE DEF r
  <2>4. /\ GoesOn(r, q) /\ q.pc = "printf" /\ q.mem = r.mem /\ q.pending = r.pending
        /\ FramePcs(q) = FramePcs(r)
    BY <2>3, MovedAll
  <2> HIDE DEF q
  <2>5. Failed(q, sends, reports) /\ GoesOn(self, q)
    BY <2>2, <2>3, <2>4 DEF Failed, GoesOn, Places
  <2>6. QED
    BY <1>3, <2>1, <2>5 DEF Same
<1>5. ASSUME NEW l, NEW x \in {"line", "EINTR"}, Go("parent", l, "exit"), Say(x),
             x = "EINTR" => l = "EINTR"
      PROVE  EndsInv'
  <2> DEFINE q == Moved(self, "exit")
  <2>1. At("parent", l) /\ Do("parent", l, q) /\ sends' = sends
        /\ reports' = Append(reports, x)
    BY <1>5 DEF Go, Do, self, Say
  <2>2. Failed(self, sends, reports) /\ self.pc = l /\ DOMAIN self = Fields
    BY <1>2, <2>1
  <2>3. /\ GoesOn(self, q) /\ q.mem = self.mem /\ q.pending = self.pending
        /\ FramePcs(q) = FramePcs(self) /\ q.pc = "exit"
    BY <2>2, MovedAll
  <2> HIDE DEF q
  <2>4. /\ reports' \in Seq({"line", "EINTR"})
        /\ reports' = <<"EINTR">> => x = "EINTR"
    <3>1. reports \in Seq({"line", "EINTR"})
      BY <2>2 DEF Failed
    <3>2. /\ reports' \in Seq({"line", "EINTR"}) /\ Len(reports') = Len(reports) + 1
          /\ reports'[Len(reports) + 1] = x
      BY <2>1, <3>1, AppendProperties
    <3>3. reports' = <<"EINTR">> => Len(reports) + 1 = 1 /\ reports'[1] = "EINTR"
      BY <3>2
    <3>4. QED
      BY <3>2, <3>3
  <2>5. x = "EINTR" => self.mem = 0 /\ sends > 0
    BY <1>5, <2>2 DEF Failed, Places
  <2>6. Failed(q, sends, reports')
    BY <2>2, <2>3, <2>4, <2>5 DEF Failed, Places
  <2>7. QED
    BY <1>3, <2>1, <2>3, <2>6
<1>6. CASE sighand2_handler
  <2> DEFINE r == Returned(self)
             e == Moved(r, "EINTR")
             q == IF r.pc = "fgets" /\ r.mem = 0 THEN e ELSE r
  <2>1. At("parent", "sighand2_handler") /\ Same /\ Do("parent", "sighand2_handler", q)
    BY <1>6 DEF sighand2_handler, Do
  <2>2. "sighand2_handler" \in HandlersOf(program)
    BY DEF HandlersOf
  <2>3. /\ Failed(self, sends, reports) /\ self.pc = "sighand2_handler"
        /\ DOMAIN self = Fields /\ IsSeq(self.frames) /\ self.frames # <<>>
    BY <1>2, <2>1, <2>2
  <2>4. /\ GoesOn(self, r) /\ r.pc \in FramePcs(self) /\ r.mem = self.mem
        /\ r.pending = self.pending /\ FramePcs(r) \subseteq FramePcs(self)
        /\ DOMAIN r = Fields
    BY <2>3, ReturnedAll
  <2> HIDE DEF r
  <2>5. /\ GoesOn(r, e) /\ e.pc = "EINTR" /\ e.mem = r.mem /\ e.pending = r.pending
        /\ FramePcs(e) = FramePcs(r)
    BY <2>4, MovedAll
  <2> HIDE DEF e
  <2>6. sends > 0
    BY <2>3 DEF Failed, Places
  <2>7. GoesOn(self, q) /\ Failed(q, sends, reports)
    <3>1. CASE r.pc = "fgets" /\ r.mem = 0
      <4>1. q = e
        BY <3>1
      <4> HIDE DEF q
      <4>2. QED
        BY <2>3, <2>4, <2>5, <2>6, <3>1, <4>1 DEF Failed, Places, GoesOn
    <3>2. CASE ~(r.pc = "fgets" /\ r.mem = 0)
      <4>1. q = r
        BY <3>2
      <4> HIDE DEF q
      <4>2. QED
        BY <2>3, <2>4, <2>6, <4>1 DEF Failed, Places
    <3>3. QED
      BY <3>1, <3>2
  <2> HIDE DEF q
  <2>8. QED
    BY <1>3, <2>1, <2>7 DEF Same
<1>7. CASE ParentEnds
  <2>1. Exit("parent", "exit", 0) /\ Same /\ At("parent", "exit")
    BY <1>7 DEF ParentEnds, Exit
  <2>2. Failed(self, sends, reports)
    BY <1>2, <2>1
  <2>3. Due(program, self, sends, reports)
    BY <2>2 DEF Failed, Due
  <2>4. QED
    BY <1>1, <2>1, <2>3, EndsExit
<1>8. CASE \/ Go("parent", "fgets", "exit") /\ Say("line")
           \/ Go("parent", "EINTR", "exit") /\ Say("EINTR")
  BY <1>5, <1>8
<1>9. CASE Go("parent", "printf", "fgets") /\ Same
  <2> DEFINE q == Moved(self, "fgets")
  <2>1. At("parent", "printf") /\ Same /\ Do("parent", "printf", q)
    BY <1>9 DEF Go, Do, self
  <2>2. Failed(self, sends, reports) /\ DOMAIN self = Fields
    BY <1>2, <2>1
  <2>3. /\ GoesOn(self, q) /\ q.mem = self.mem /\ q.pending = self.pending
        /\ FramePcs(q) = FramePcs(self) /\ q.pc = "fgets"
    BY <2>2, MovedAll
  <2> HIDE DEF q
  <2>4. Failed(q, sends, reports)
    BY <2>2, <2>3 DEF Failed, Places
  <2>5. QED
    BY <1>3, <2>1, <2>3, <2>4 DEF Same
<1>10. QED
  BY <1>4, <1>6, <1>7, <1>8, <1>9 DEF sighand2

LEMMA Sighand2Delivered ==
  ASSUME NEW r, NEW q, NEW n, NEW reps, Failed(r, n, reps), program = "sighand2",
         NEW s, s \in r.pending \ r.mask, Shed(r, q, s) \/ Caught(r, q, s)
  PROVE  Failed(q, n, reps)
<1>1. n > 0 /\ q.mem = r.mem /\ q.pending \subseteq r.pending
  BY DEF Failed, Shed, Caught
<1>2. "EINTR" \in Places(q) => "EINTR" \in Places(r)
  BY DEF Shed, Caught, Places, HandlersOf
<1>3. QED
  BY <1>1, <1>2 DEF Failed

LEMMA Sighand2Hit ==
  ASSUME NEW r, NEW q, NEW n \in Nat, NEW reps, Failed(r, n, reps), Hit(r, q, "INT")
  PROVE  Failed(q, n + 1, reps)
BY DEF Failed, Hit, Places

----------------------------------------------------------------------------
(* All of them. *)

LEMMA EndsStep == Sound /\ EndsInv /\ [SignalProgramsNext]_signalVars => EndsInv'
<1> SUFFICES ASSUME Sound, EndsInv, [SignalProgramsNext]_signalVars PROVE EndsInv'
  OBVIOUS
<1>1. CASE UNCHANGED signalVars
  BY <1>1 DEF signalVars, kernelVars, EndsInv, EndsBecause, Reason, Counted, OnlyINT,
              KeptPending, Failed, SecondTerm, TimerSet, Lives, Owed
<1>2. CASE program \notin OneProcess /\ SignalProgramsNext
  BY <1>2 DEF SignalProgramsNext, SignalSteps, StartStopRuns, OtherRuns, Fixed, EndsInv
<1>3. CASE program \in OneProcess /\ SignalProgramsNext
  <2>1. program' = program
    BY <1>3 DEF SignalProgramsNext, SignalSteps, StartStopRuns, OtherRuns, Fixed
  <2>2. /\ program \notin {"startstop", "fork_wait", "fork1", "fork2", "fork3", "fork4",
                           "lab2", "lab3", "sighand3", "sigset2"}
    BY <1>3 DEF OneProcess
  <2>3. SelfStep \/ (\E p \in Procs : Deliver(p)) \/ Keys
    BY <1>3, <2>2 DEF SignalProgramsNext, SignalSteps, StartStopRuns, OtherRuns,
                      ForkWaitStep, ParentChildStep, CtrlC
  <2>4. CASE SelfStep
    BY <2>1, <2>4, Sighand1Ends, HandlerMasksEnds, SigsetEnds, SigmaskEnds, AlarmEnds,
       Sighand2Ends DEF SelfStep
  <2>5. Lives(self) => /\ Reason(program, self, sends, reports)
                       /\ sends \in Nat /\ self.mem \in Nat
    BY <1>3, BothProcs DEF EndsInv, self, Sound, Good, Sane
  <2>6. CASE \E p \in Procs : Deliver(p)
    <3> DEFINE q == proc'["parent"]
    <3>1. ASSUME NEW s \in Sigs, Lives(self), s \in self.pending \ self.mask,
                 Shed(self, q, s) \/ Caught(self, q, s)
          PROVE  Reason(program, q, sends, reports)
      BY <2>5, <3>1, CountedDelivered, SigsetDelivered, SigmaskDelivered, AlarmDelivered,
         Sighand2Delivered DEF Reason
    <3>2. QED
      BY <1>3, <2>1, <2>6, <3>1, OneDelivered
  <2>7. CASE Keys
    <3> DEFINE q == proc'["parent"]
    <3>1. PICK s \in {"INT", "TSTP"} :
             /\ Key(s) /\ program \in {"sighand1", "handler_masks", "sigmask", "sighand2"}
             /\ s = "TSTP" => program = "sighand1"
      BY <2>7 DEF Keys
    <3>2. ASSUME Lives(self), Hit(self, q, s)
          PROVE  Reason(program, q, sends + 1, reports)
      BY <2>5, <3>1, <3>2, CountedHit, SigmaskHit, Sighand2Hit DEF Reason
    <3>3. program # "sigset"
      BY <3>1
    <3>4. QED
      BY <1>3, <2>1, <3>1, <3>2, <3>3, OneKey
  <2>8. QED
    BY <2>3, <2>4, <2>6, <2>7
<1>4. QED
  BY <1>1, <1>2, <1>3

LEMMA EndsAtStart == SignalProgramsInit => EndsInv
<1> SUFFICES ASSUME SignalProgramsInit, program \in OneProcess PROVE EndsInv
  BY DEF EndsInv
<1>1. SelfInit
  BY DEF SignalProgramsInit, StartStopInit, ForkWaitInit, ParentChildInit, OneProcess
<1>2. PICK l, m :
        /\ SignalsInit(l, m)
        /\ program \in {"sighand1", "handler_masks"} =>
             m = 0 /\ l \in {"sigprocmask", "sigaction"}
        /\ program = "sigset" => m = 0 /\ l = "sigprocmask"
        /\ program = "sigmask" => m = 0 /\ l = "block"
        /\ program \in {"alarm", "sighand2"} => m \in {0, 1} /\ l = "sigaction"
  <2>1. CASE program = "sighand1" /\ SignalsInit("sigprocmask", 0)
    BY <2>1
  <2>2. CASE program = "handler_masks" /\ SignalsInit("sigaction", 0)
    BY <2>2
  <2>3. CASE program = "sigset" /\ SignalsInit("sigprocmask", 0)
    BY <2>3
  <2>4. CASE program = "sigmask" /\ SignalsInit("block", 0)
    BY <2>4
  <2>5. CASE program \in {"alarm", "sighand2"}
             /\ \E argument \in {0, 1} : SignalsInit("sigaction", argument)
    BY <2>5
  <2>6. QED
    BY <1>1, <2>1, <2>2, <2>3, <2>4, <2>5 DEF SelfInit
<1> DEFINE r == proc["parent"]
<1>3. /\ r = Started(l, m) \/ r = [Started(l, m) EXCEPT !.life = "running"]
      /\ proc["child"] = [Started(l, m) EXCEPT !.life = "none"]
      /\ reports = <<>> /\ sends = 0
  BY <1>2, BothProcs DEF SignalsInit
<1>4. /\ r.pc = l /\ r.mem = m /\ r.mask = {} /\ r.pending = {} /\ r.frames = <<>>
      /\ r.event = <<>> /\ r.action = [s \in Sigs |-> "default"]
      /\ proc["child"].life = "none"
  BY <1>3 DEF Started
<1> HIDE DEF r
<1>5. FramePcs(r) = {} /\ Places(r) = {l} /\ r.event # <<"exited", 0>>
  BY <1>4 DEF FramePcs, Places
<1>6. program \in {"sighand1", "handler_masks"} => Counted(program, r, 0)
  <2>1. OnlyINT(program, r)
    BY <1>4 DEF OnlyINT, Counter
  <2>2. program \in {"sighand1", "handler_masks"} =>
          ~IsCounting(program, r) /\ ~IsPending(r) /\ ~IsLeaving(r) /\ r.mem = 0
    BY <1>2, <1>4, <1>5 DEF IsCounting, IsPending, IsLeaving, Counter
  <2>3. QED
    BY <2>1, <2>2 DEF Counted, Owed
<1>7. program = "sigset" => SecondTerm(r)
  BY <1>2, <1>4, <1>5 DEF SecondTerm, BeforeTerm
<1>8. program = "sigmask" => KeptPending(r, 0)
  BY <1>2, <1>4 DEF KeptPending
<1>9. program = "alarm" => TimerSet(r)
  BY <1>2, <1>4 DEF TimerSet
<1>10. program = "sighand2" => Failed(r, 0, <<>>)
  <2>1. <<>> \in Seq({"line", "EINTR"}) /\ <<>> # <<"EINTR">>
    OBVIOUS
  <2>2. QED
    BY <1>2, <1>4, <1>5, <2>1 DEF Failed
<1>11. Reason(program, r, sends, reports)
  BY <1>3, <1>6, <1>7, <1>8, <1>9, <1>10 DEF Reason
<1>12. EndsBecause
  BY <1>5 DEF EndsBecause, r
<1>13. QED
  BY <1>3, <1>4, <1>5, <1>11, <1>12 DEF EndsInv, r

LEMMA AlwaysEndsInv == SignalProgramsSpec => []EndsInv
<1>1. Sound /\ Sound' /\ EndsInv /\ [SignalProgramsNext]_signalVars => EndsInv'
  BY EndsStep
<1>2. QED
  BY EndsAtStart, AlwaysSound, <1>1, PTL DEF SignalProgramsSpec

(* sighand1 and handler_masks leave their loops only after a Ctrl-C they   *)
(* counted, and count none that was not sent; sigset ends after its second *)
(* SIGTERM, which is the only one that is handled; sigmask's last line is  *)
(* never executed after a Ctrl-C; alarm ends by the timer it set; fgets of *)
(* sighand2 fails only when it was interrupted without SA_RESTART.         *)
THEOREM EndsForItsReason == SignalProgramsSpec => []EndsBecause
<1>1. EndsInv => EndsBecause
  BY DEF EndsInv, EndsBecause, OneProcess
<1>2. QED
  BY <1>1, AlwaysEndsInv, PTL
----------------------------------------------------------------------------
(* What the waits of the eight programs with a child report.  Their        *)
(* parents and children follow a plot: what the child has become and what  *)
(* is written is known from where each of them is.                         *)

(* The first k of the reports in e. *)
Told(e, reps, k) == k \in 0 .. Len(e) /\ reps = SubSeq(e, 1, k)

(* Programs without handlers, whose parent nobody signals. *)
Mild == {"fork_wait", "fork1", "fork2", "fork3", "fork4", "lab2"}
Undisturbed(p, c) ==
  /\ p.mask = {} /\ p.pending = {} /\ c.mask = {}
  /\ p.life = "zombie" \/ (p.life = "running" /\ p.event = <<>>)

(* Where a child is that has got s, and ends by it. *)
Runs(c) == c.life = "running" /\ c.pending = {} /\ c.event = <<>>
Gets(c, s) == c.life = "running" /\ c.pending = {s} /\ c.event = <<>>
Died(c, status) == c.life = "zombie" /\ c.event = status /\ c.pending = {}
KilledBy(c, s) == Gets(c, s) \/ Died(c, <<"killed", s>>)

HangUp == <<<<"stopped">>, <<"continued">>, <<"killed", "HUP">>>>
fork_wait_plot(p, c, reps) ==
  \/ p.pc = "fork" /\ c.life = "none" /\ Told(HangUp, reps, 0)
  \/ p.pc = "stop" /\ Runs(c) /\ Told(HangUp, reps, 0)
  \/ /\ p.pc = "waitpid1" /\ Told(HangUp, reps, 0)
     /\ \/ Gets(c, "STOP")
        \/ c.life = "stopped" /\ c.event = <<"stopped">> /\ c.pending = {}
  \/ /\ p.pc = "cont" /\ Told(HangUp, reps, 1)
     /\ c.life = "stopped" /\ c.event = <<>> /\ c.pending = {}
  \/ /\ p.pc = "waitpid2" /\ Told(HangUp, reps, 1)
     /\ c.life = "running" /\ c.event = <<"continued">> /\ c.pending = {}
  \/ p.pc = "hup" /\ Runs(c) /\ Told(HangUp, reps, 2)
  \/ p.pc = "wait" /\ KilledBy(c, "HUP") /\ Told(HangUp, reps, 2)
  \/ p.pc = "exit" /\ c.life = "reaped" /\ Told(HangUp, reps, 3)

Alarmed == <<<<"killed", "ALRM">>>>
fork1_plot(p, c, reps) ==
  \/ p.pc = "fork" /\ c.life = "none" /\ Told(Alarmed, reps, 0)
  \/ /\ p.pc = "wait" /\ Told(Alarmed, reps, 0)
     /\ (c.pc \in {"alarm", "pause"} /\ Runs(c)) \/ KilledBy(c, "ALRM")
  \/ p.pc = "exit" /\ c.life = "reaped" /\ Told(Alarmed, reps, 1)

Logged == <<<<"before", 100>>, <<"child", 100>>, <<"child", 15>>,
            <<"killed", "ALRM">>, <<"parent", 100>>>>
fork2_plot(p, c, reps) ==
  /\ p.mem = 100
  /\ \/ p.pc = "open" /\ c.life = "none" /\ Told(Logged, reps, 0)
     \/ p.pc = "fork" /\ c.life = "none" /\ Told(Logged, reps, 1)
     \/ /\ p.pc = "wait"
        /\ \/ c.pc = "old" /\ c.mem = 100 /\ Runs(c) /\ Told(Logged, reps, 1)
           \/ c.pc = "new" /\ Runs(c) /\ Told(Logged, reps, 2)
           \/ c.pc = "pause" /\ Runs(c) /\ Told(Logged, reps, 3)
           \/ c.pc = "pause" /\ KilledBy(c, "ALRM") /\ Told(Logged, reps, 3)
     \/ p.pc = "report" /\ c.life = "reaped" /\ Told(Logged, reps, 4)
     \/ p.pc = "exit" /\ c.life = "reaped" /\ Told(Logged, reps, 5)

Zombie == <<<<"exited", 77>>>>
fork3_plot(p, c, reps) ==
  \/ p.pc = "fork" /\ c.life = "none" /\ Told(Zombie, reps, 0)
  \/ p.pc = "wait" /\ (Runs(c) \/ Died(c, <<"exited", 77>>)) /\ Told(Zombie, reps, 0)
  \/ p.pc = "exit" /\ c.life = "reaped" /\ Told(Zombie, reps, 1)

(* fork4: the child that has no parent any more does not get one again. *)
Adopted(p, x) == x = "parent" \/ (x = "init" /\ ~Lives(p))
fork4_plot(p, c, reps) ==
  \/ p.pc = "fork" /\ c.life = "none" /\ reps = <<>>
  \/ /\ p.pc = "exit"
     /\ \/ c.pc = "ppid1" /\ Runs(c) /\ reps = <<>>
        \/ /\ c.pc = "ppid2" /\ Runs(c)
           /\ \E a \in {"parent", "init"} : Adopted(p, a) /\ reps = <<a>>
        \/ /\ c.pc = "end" /\ c.pending = {}
           /\ \E a, b \in {"parent", "init"} :
                Adopted(p, b) /\ (a = "init" => b = "init") /\ reps = <<a, b>>

OfFib(n) == IF n > 0 THEN <<"exited", n>> ELSE <<"killed", "SEGV">>
Fibs(n) == <<OfFib(n), <<"exited", n>>>>
lab2_plot(p, c, reps) ==
  /\ p.mem \in {0, 5}
  /\ \/ p.pc \in {"usage", "fork"} /\ c.life = "none" /\ Told(Fibs(p.mem), reps, 0)
     \/ /\ p.pc = "wait" /\ c.mem = p.mem /\ Told(Fibs(p.mem), reps, 0)
        /\ \/ Runs(c) \/ Died(c, OfFib(p.mem))
           \/ p.mem = 0 /\ Gets(c, "SEGV")
     \/ p.pc = "report" /\ c.life = "reaped" /\ Told(Fibs(p.mem), reps, 1)
     \/ p.pc = "exit" /\ c.life = "reaped" /\ Told(Fibs(p.mem), reps, 2)

(* lab3: a parent that has everything blocked, a child that lets one       *)
(* signal through, and only in sigsuspend.                                 *)
Greeting == <<"hello", "Signal Received", "world", <<"exited", 0>>>>
lab3_child(c, reps) ==
  /\ c.action["USR1"] = "sigusr1_handler"
  /\ c.pending \subseteq {"INT", "TERM", "USR1"}
  /\ c.pc \in {"suspend", "hello"} => c.mask = All /\ c.frames = <<>>
  /\ c.pc \in {"sigsuspend", "sigusr1_handler"} =>
       c.frames = <<[pc |-> "world", mask |-> All]>>
  /\ c.pc = "sigsuspend" => c.mask = SuspendMask
  /\ c.pc \in {"sigusr1_handler", "world", "end"} => c.mask = All
  /\ \/ /\ c.life = "running"
        /\ \/ c.pc = "hello" /\ Told(Greeting, reps, 0)
           \/ c.pc \in {"suspend", "sigsuspend", "sigusr1_handler"} /\ Told(Greeting, reps, 1)
           \/ c.pc = "world" /\ Told(Greeting, reps, 2)
           \/ c.pc = "end" /\ Told(Greeting, reps, 3)
     \/ /\ c.life = "zombie" /\ c.event = <<"exited", 0>> /\ Told(Greeting, reps, 3)
lab3_plot(p, c, reps) ==
  /\ p.life \in {"running", "zombie"} /\ p.pending \subseteq {"INT", "CHLD"}
  /\ \/ /\ p.pc = "sigprocmask" /\ c.life = "none" /\ p.frames = <<>>
        /\ Told(Greeting, reps, 0)
     \/ /\ p.pc \in {"sigaction", "fork"} /\ p.mask = All /\ c.life = "none"
        /\ p.pc = "fork" => p.action["USR1"] = "sigusr1_handler"
        /\ p.frames = <<>> /\ Told(Greeting, reps, 0)
     \/ p.pc \in {"term", "usr1", "wait"} /\ p.mask = All /\ lab3_child(c, reps)
     \/ p.pc = "exit" /\ p.mask = All /\ c.life = "reaped" /\ Told(Greeting, reps, 4)

(* sighand3: a Ctrl-C ends the child with 33, if TERM does not end it; the *)
(* parent returns from its handler only when it has stored cpid.           *)
Outcomes == {<<"killed", "TERM">>, <<"exited", 33>>}
Handled(p) ==
  /\ p.pc # "sigsuspend"
  /\ p.pc = "sigint_handler" => Len(p.frames) = 1
  /\ p.pc # "sigint_handler" => p.frames = <<>>
sighand3_child(c) ==
  /\ c.life \in {"running", "stopped", "zombie"} =>
       /\ c.action["INT"] = "sigint_handler" /\ c.mem = 0
       /\ c.pending \subseteq {"INT", "TERM", "STOP"}
  /\ c.life = "zombie" => c.event \in Outcomes
sighand3_parent(p, l, reps) ==       \* l is the life of the child
  /\ Places(p) \cap {"sigaction", "fork"} # {} => l = "none" /\ p.mem = 0
  /\ "fork" \in Places(p) => p.action["INT"] = "sigint_handler"
  /\ \/ reps = <<>>
     \/ /\ \E x \in Outcomes : reps = <<x>>
        /\ Places(p) \subseteq {"exit", "sigint_handler"}
sighand3_plot(p, c, reps) ==
  Handled(p) /\ sighand3_child(c) /\ sighand3_parent(p, c.life, reps)

Plot(prog, p, c, reps) ==
  /\ IsSeq(reps)
  /\ prog \in Mild => Undisturbed(p, c)
  /\ prog = "fork_wait" => fork_wait_plot(p, c, reps)
  /\ prog = "fork1" => fork1_plot(p, c, reps)
  /\ prog = "fork2" => fork2_plot(p, c, reps)
  /\ prog = "fork3" => fork3_plot(p, c, reps)
  /\ prog = "fork4" => fork4_plot(p, c, reps)
  /\ prog = "lab2" => lab2_plot(p, c, reps)
  /\ prog = "lab3" => lab3_plot(p, c, reps)
  /\ prog = "sighand3" => sighand3_plot(p, c, reps)

PlotInv == Plot(program, proc["parent"], proc["child"], reports)

----------------------------------------------------------------------------
(* The steps of two processes, field by field. *)

Rest(r, q) ==
  /\ q.life = r.life /\ q.event = r.event /\ q.mem = r.mem /\ q.mask = r.mask
  /\ q.pending = r.pending /\ q.action = r.action /\ q.frames = r.frames
Kept6(r, q) ==
  /\ q.pc = r.pc /\ q.mem = r.mem /\ q.mask = r.mask /\ q.pending = r.pending
  /\ q.action = r.action /\ q.frames = r.frames
Over(r, q, status) ==
  /\ q.life = "zombie" /\ q.event = status /\ q.pending = {}
  /\ q.pc = r.pc /\ q.mem = r.mem /\ q.mask = r.mask /\ q.action = r.action
  /\ q.frames = r.frames
Stands(r, l) == r.life = "running" /\ r.pc = l /\ Deliverable(r) = {}

LEMMA ProcFields ==
  ASSUME Sound
  PROVE  /\ DOMAIN proc = Procs /\ DOMAIN proc["parent"] = Fields
         /\ DOMAIN proc["child"] = Fields
BY BothProcs DEF Sound, Good, Sane

LEMMA MovedRest ==
  ASSUME NEW r, DOMAIN r = Fields, NEW l
  PROVE  Rest(r, Moved(r, l)) /\ Moved(r, l).pc = l
BY FieldsAfter DEF Rest

LEMMA GoFields ==
  ASSUME Sound, NEW x \in Procs, NEW y \in Procs, x # y, NEW l, NEW next, Go(x, l, next)
  PROVE  /\ Stands(proc[x], l) /\ proc'[x].pc = next /\ Rest(proc[x], proc'[x])
         /\ proc'[y] = proc[y]
<1>1. At(x, l) /\ proc' = [proc EXCEPT ![x] = Moved(proc[x], next)]
  BY DEF Go, Do, Become
<1>2. proc'[x] = Moved(proc[x], next) /\ proc'[y] = proc[y]
  BY <1>1 DEF Sound
<1>3. DOMAIN proc[x] = Fields
  BY DEF Sound, Good, Sane
<1>4. QED
  BY <1>1, <1>2, <1>3, MovedRest DEF Stands, At

LEMMA EndedOver ==
  ASSUME NEW r, DOMAIN r = Fields, NEW status
  PROVE  Over(r, Ended(r, status), status)
BY DEF Over, Ended, Fields

LEMMA ForkFields ==
  ASSUME Sound, NEW l, NEW x, NEW y, Fork(l, x, y)
  PROVE  LET p == proc["parent"]  p1 == proc'["parent"]  c1 == proc'["child"]
         IN  /\ Stands(p, l) /\ p1.pc = x /\ Rest(p, p1)
             /\ c1.pc = y /\ c1.pending = {} /\ c1.life = p.life
             /\ c1.event = p.event /\ c1.mem = p.mem /\ c1.mask = p.mask
             /\ c1.action = p.action /\ c1.frames = p.frames
<1> DEFINE p == proc["parent"]
           m == Moved(p, y)
           c == [m EXCEPT !.pending = {}]
<1>1. At("parent", l) /\ proc' = [proc EXCEPT !["parent"] = Moved(p, x), !["child"] = c]
  BY DEF Fork
<1>2. proc'["parent"] = Moved(p, x) /\ proc'["child"] = c /\ DOMAIN p = Fields
  BY <1>1, ProcFields, BothProcs
<1>3. Rest(p, m) /\ m.pc = y /\ DOMAIN m = Fields
  BY <1>2, MovedRest, FieldsAfter
<1> HIDE DEF m
<1>4. /\ c.pending = {} /\ c.pc = m.pc /\ c.life = m.life /\ c.event = m.event
      /\ c.mem = m.mem /\ c.mask = m.mask /\ c.action = m.action /\ c.frames = m.frames
  BY <1>3 DEF Fields
<1> HIDE DEF c
<1>5. Rest(p, Moved(p, x)) /\ Moved(p, x).pc = x
  BY <1>2, MovedRest
<1>6. QED
  BY <1>1, <1>2, <1>3, <1>4, <1>5 DEF Stands, At, Rest

LEMMA KillFields ==
  ASSUME Sound, NEW l, NEW s, NEW next, KillChild(l, s, next)
  PROVE  /\ Stands(proc["parent"], l) /\ proc'["parent"].pc = next
         /\ Rest(proc["parent"], proc'["parent"])
         /\ proc'["child"] = Raised(proc["child"], s)
         /\ reports' = reports
<1> DEFINE p == proc["parent"]
<1>1. At("parent", l) /\ Same
      /\ proc' = [proc EXCEPT !["parent"] = Moved(p, next),
                              !["child"] = Raised(proc["child"], s)]
  BY DEF KillChild
<1>2. /\ proc'["parent"] = Moved(p, next) /\ DOMAIN p = Fields
      /\ proc'["child"] = Raised(proc["child"], s)
  BY <1>1, ProcFields, BothProcs
<1>3. Rest(p, Moved(p, next)) /\ Moved(p, next).pc = next
  BY <1>2, MovedRest
<1>4. QED
  BY <1>1, <1>2, <1>3 DEF Stands, At, Same

LEMMA ReapFields ==
  ASSUME Sound, NEW l, NEW next, NEW alsoStops, Reap(l, next, alsoStops)
  PROVE  LET p == proc["parent"]  p1 == proc'["parent"]
             c == proc["child"]   c1 == proc'["child"]
         IN  /\ Stands(p, l) /\ p1.pc = next /\ Rest(p, p1)
             /\ c.life = "zombie" \/ (alsoStops /\ c.event # <<>>)
             /\ reports' = Append(reports, c.event)
             /\ c1.event = <<>> /\ Kept6(c, c1)
             /\ (c.life = "zombie" => c1.life = "reaped")
             /\ (c.life # "zombie" => c1.life = c.life)
<1> DEFINE p == proc["parent"]
           c == proc["child"]
           d == [c EXCEPT !.event = <<>>,
                          !.life = IF @ = "zombie" THEN "reaped" ELSE @]
<1>1. At("parent", l) /\ proc' = [proc EXCEPT !["parent"] = Moved(p, next), !["child"] = d]
  BY BothProcs, ProcFields DEF Reap
<1>2. /\ proc'["parent"] = Moved(p, next) /\ DOMAIN p = Fields
      /\ proc'["child"] = d /\ DOMAIN c = Fields
  BY <1>1, ProcFields, BothProcs
<1>3. Rest(p, Moved(p, next)) /\ Moved(p, next).pc = next
  BY <1>2, MovedRest
<1>4. /\ d.event = <<>> /\ Kept6(c, d)
      /\ (c.life = "zombie" => d.life = "reaped")
  BY <1>2 DEF Fields, Kept6
<1>5. c.life # "zombie" => d.life = c.life
  BY <1>2 DEF Fields
<1> HIDE DEF d
<1>6. /\ c.life = "zombie" \/ (alsoStops /\ c.event # <<>>)
      /\ reports' = Append(reports, c.event)
  BY DEF Reap
<1>7. Stands(p, l)
  BY <1>1 DEF Stands, At
<1> HIDE DEF p, c
<1>8. QED
  BY <1>2, <1>3, <1>4, <1>5, <1>6, <1>7 DEF p, c

LEMMA ParentExitFields ==
  ASSUME Sound, NEW l, NEW code, Exit("parent", l, code)
  PROVE  /\ Stands(proc["parent"], l) /\ proc'["child"] = proc["child"]
         /\ Over(proc["parent"], proc'["parent"], <<"exited", code>>)
<1>1. At("parent", l)
      /\ proc' = [proc EXCEPT !["parent"] = Ended(proc["parent"], <<"exited", code>>)]
  BY DEF Exit, Tell
<1>2. /\ proc'["parent"] = Ended(proc["parent"], <<"exited", code>>)
      /\ proc'["child"] = proc["child"]
  BY <1>1, ProcFields, BothProcs
<1>3. QED
  BY <1>1, <1>2, ProcFields, EndedOver DEF Stands, At

LEMMA TellChild ==
  ASSUME Sound, NEW q, Tell("child", q)
  PROVE  proc'["child"] = q /\ proc'["parent"] = Raised(proc["parent"], "CHLD")
BY ProcFields, BothProcs DEF Tell

LEMMA ChildExitFields ==
  ASSUME Sound, NEW l, NEW code, Exit("child", l, code)
  PROVE  /\ Stands(proc["child"], l)
         /\ proc'["parent"] = Raised(proc["parent"], "CHLD")
         /\ Over(proc["child"], proc'["child"], <<"exited", code>>)
<1>1. At("child", l) /\ Tell("child", Ended(proc["child"], <<"exited", code>>))
  BY DEF Exit
<1>2. QED
  BY <1>1, TellChild, ProcFields, EndedOver DEF Stands, At

----------------------------------------------------------------------------
(* What is told. *)

LEMMA ToldNothing ==
  ASSUME NEW e, IsSeq(e)
  PROVE  Told(e, <<>>, 0)
BY DEF Told, IsSeq

LEMMA ToldOneMore ==
  ASSUME NEW e, IsSeq(e), NEW reps, NEW k, Told(e, reps, k), k < Len(e)
  PROVE  Told(e, Append(reps, e[k + 1]), k + 1)
<1>1. PICK S : e \in Seq(S)
  BY DEF IsSeq
<1>2. k \in 0 .. Len(e) /\ k + 1 \in 1 .. Len(e) /\ reps = SubSeq(e, 1, k)
  BY <1>1 DEF Told
<1> DEFINE longer == SubSeq(e, 1, k + 1)
           told == Append(reps, e[k + 1])
<1>3. /\ reps \in Seq(S) /\ Len(reps) = k
      /\ \A i \in 1 .. k : reps[i] = e[i]
  BY <1>1, <1>2
<1>4. /\ longer \in Seq(S) /\ Len(longer) = k + 1
      /\ \A i \in 1 .. k + 1 : longer[i] = e[i]
  BY <1>1, <1>2
<1>5. /\ told \in Seq(S) /\ Len(told) = k + 1
      /\ \A i \in 1 .. k + 1 : told[i] = e[i]
  BY <1>1, <1>2, <1>3
<1> HIDE DEF longer, told
<1>6. longer = told
  BY <1>4, <1>5, SeqEqual
<1>7. QED
  BY <1>2, <1>6 DEF Told, longer, told

LEMMA ToldIsPrefix ==
  ASSUME NEW e, IsSeq(e), NEW reps, NEW k, Told(e, reps, k)
  PROVE  Len(reps) <= Len(e) /\ reps = SubSeq(e, 1, Len(reps))
BY DEF Told, IsSeq

LEMMA SeqOfTold ==
  ASSUME NEW a, NEW b, NEW c, NEW d, NEW f
  PROVE  /\ IsSeq(<<a>>) /\ IsSeq(<<a, b>>) /\ IsSeq(<<a, b, c>>)
         /\ IsSeq(<<a, b, c, d>>) /\ IsSeq(<<a, b, c, d, f>>)
<1> DEFINE S == {a, b, c, d, f}
<1>1. /\ <<a>> \in Seq(S) /\ <<a, b>> \in Seq(S) /\ <<a, b, c>> \in Seq(S)
      /\ <<a, b, c, d>> \in Seq(S) /\ <<a, b, c, d, f>> \in Seq(S)
  OBVIOUS
<1>2. QED
  BY <1>1 DEF IsSeq

LEMMA HangUpTold ==
  ASSUME NEW reps
  PROVE  /\ reps = <<>> => Told(HangUp, reps, 0)
         /\ Told(HangUp, reps, 0) => Told(HangUp, Append(reps, <<"stopped">>), 1)
         /\ Told(HangUp, reps, 1) => Told(HangUp, Append(reps, <<"continued">>), 2)
         /\ Told(HangUp, reps, 2) => Told(HangUp, Append(reps, <<"killed", "HUP">>), 3)
<1>1. /\ Len(HangUp) = 3 /\ HangUp[1] = <<"stopped">> /\ HangUp[2] = <<"continued">>
      /\ HangUp[3] = <<"killed", "HUP">>
  BY DEF HangUp
<1>2. IsSeq(HangUp)
  BY SeqOfTold DEF HangUp
<1>3. QED
  BY <1>1, <1>2, ToldNothing, ToldOneMore, 0 + 1 = 1, 1 + 1 = 2, 2 + 1 = 3, 0 < 3, 1 < 3, 2 < 3

LEMMA AlarmedTold ==
  ASSUME NEW reps
  PROVE  /\ reps = <<>> => Told(Alarmed, reps, 0)
         /\ Told(Alarmed, reps, 0) => Told(Alarmed, Append(reps, <<"killed", "ALRM">>), 1)
<1>1. Len(Alarmed) = 1 /\ Alarmed[1] = <<"killed", "ALRM">>
  BY DEF Alarmed
<1>2. IsSeq(Alarmed)
  BY SeqOfTold DEF Alarmed
<1>3. QED
  BY <1>1, <1>2, ToldNothing, ToldOneMore, 0 + 1 = 1, 0 < 1

LEMMA LoggedIsSeq == IsSeq(Logged)
<1> DEFINE a == <<"before", 100>>
           b == <<"child", 100>>
           c == <<"child", 15>>
           d == <<"killed", "ALRM">>
           f == <<"parent", 100>>
<1>1. Logged = <<a, b, c, d, f>>
  BY DEF Logged
<1> HIDE DEF a, b, c, d, f
<1>2. IsSeq(<<a, b, c, d, f>>)
  BY SeqOfTold
<1>3. QED
  BY <1>1, <1>2

LEMMA LoggedTold ==
  ASSUME NEW reps
  PROVE  /\ reps = <<>> => Told(Logged, reps, 0)
         /\ Told(Logged, reps, 0) => Told(Logged, Append(reps, <<"before", 100>>), 1)
         /\ Told(Logged, reps, 1) => Told(Logged, Append(reps, <<"child", 100>>), 2)
         /\ Told(Logged, reps, 2) => Told(Logged, Append(reps, <<"child", 15>>), 3)
         /\ Told(Logged, reps, 3) => Told(Logged, Append(reps, <<"killed", "ALRM">>), 4)
         /\ Told(Logged, reps, 4) => Told(Logged, Append(reps, <<"parent", 100>>), 5)
<1>0. Len(Logged) = 5
  BY DEF Logged
<1>1. /\ Logged[1] = <<"before", 100>> /\ Logged[2] = <<"child", 100>>
      /\ Logged[3] = <<"child", 15>> /\ Logged[4] = <<"killed", "ALRM">>
      /\ Logged[5] = <<"parent", 100>>
  BY DEF Logged
<1>2. IsSeq(Logged)
  BY LoggedIsSeq
<1>3. Told(Logged, reps, 0) => Told(Logged, Append(reps, Logged[1]), 1)
  BY <1>0, <1>2, ToldOneMore, 0 + 1 = 1, 0 < 5
<1>4. Told(Logged, reps, 1) => Told(Logged, Append(reps, Logged[2]), 2)
  BY <1>0, <1>2, ToldOneMore, 1 + 1 = 2, 1 < 5
<1>5. Told(Logged, reps, 2) => Told(Logged, Append(reps, Logged[3]), 3)
  BY <1>0, <1>2, ToldOneMore, 2 + 1 = 3, 2 < 5
<1>6. Told(Logged, reps, 3) => Told(Logged, Append(reps, Logged[4]), 4)
  BY <1>0, <1>2, ToldOneMore, 3 + 1 = 4, 3 < 5
<1>7. Told(Logged, reps, 4) => Told(Logged, Append(reps, Logged[5]), 5)
  BY <1>0, <1>2, ToldOneMore, 4 + 1 = 5, 4 < 5
<1>8. reps = <<>> => Told(Logged, reps, 0)
  BY <1>2, ToldNothing
<1>9. QED
  BY <1>1, <1>3, <1>4, <1>5, <1>6, <1>7, <1>8

LEMMA ZombieTold ==
  ASSUME NEW reps
  PROVE  /\ reps = <<>> => Told(Zombie, reps, 0)
         /\ Told(Zombie, reps, 0) => Told(Zombie, Append(reps, <<"exited", 77>>), 1)
<1>1. Len(Zombie) = 1 /\ Zombie[1] = <<"exited", 77>>
  BY DEF Zombie
<1>2. IsSeq(Zombie)
  BY SeqOfTold DEF Zombie
<1>3. QED
  BY <1>1, <1>2, ToldNothing, ToldOneMore, 0 + 1 = 1, 0 < 1

LEMMA FibsTold ==
  ASSUME NEW reps, NEW n
  PROVE  /\ reps = <<>> => Told(Fibs(n), reps, 0)
         /\ Told(Fibs(n), reps, 0) => Told(Fibs(n), Append(reps, OfFib(n)), 1)
         /\ Told(Fibs(n), reps, 1) => Told(Fibs(n), Append(reps, <<"exited", n>>), 2)
<1>1. Len(Fibs(n)) = 2 /\ Fibs(n)[1] = OfFib(n) /\ Fibs(n)[2] = <<"exited", n>>
  BY DEF Fibs
<1>2. IsSeq(Fibs(n))
  BY SeqOfTold DEF Fibs
<1>3. QED
  BY <1>1, <1>2, ToldNothing, ToldOneMore, 0 + 1 = 1, 1 + 1 = 2, 0 < 2, 1 < 2

LEMMA GreetingTold ==
  ASSUME NEW reps
  PROVE  /\ reps = <<>> => Told(Greeting, reps, 0)
         /\ Told(Greeting, reps, 0) => Told(Greeting, Append(reps, "hello"), 1)
         /\ Told(Greeting, reps, 1) => Told(Greeting, Append(reps, "Signal Received"), 2)
         /\ Told(Greeting, reps, 2) => Told(Greeting, Append(reps, "world"), 3)
         /\ Told(Greeting, reps, 3) => Told(Greeting, Append(reps, <<"exited", 0>>), 4)
<1>0. Len(Greeting) = 4
  BY DEF Greeting
<1>1. /\ Greeting[1] = "hello" /\ Greeting[2] = "Signal Received"
      /\ Greeting[3] = "world" /\ Greeting[4] = <<"exited", 0>>
  BY DEF Greeting
<1>2. IsSeq(Greeting)
  BY SeqOfTold DEF Greeting
<1>3. Told(Greeting, reps, 0) => Told(Greeting, Append(reps, Greeting[1]), 1)
  BY <1>0, <1>2, ToldOneMore, 0 + 1 = 1, 0 < 4
<1>4. Told(Greeting, reps, 1) => Told(Greeting, Append(reps, Greeting[2]), 2)
  BY <1>0, <1>2, ToldOneMore, 1 + 1 = 2, 1 < 4
<1>5. Told(Greeting, reps, 2) => Told(Greeting, Append(reps, Greeting[3]), 3)
  BY <1>0, <1>2, ToldOneMore, 2 + 1 = 3, 2 < 4
<1>6. Told(Greeting, reps, 3) => Told(Greeting, Append(reps, Greeting[4]), 4)
  BY <1>0, <1>2, ToldOneMore, 3 + 1 = 4, 3 < 4
<1>7. reps = <<>> => Told(Greeting, reps, 0)
  BY <1>2, ToldNothing
<1>8. QED
  BY <1>1, <1>3, <1>4, <1>5, <1>6, <1>7

----------------------------------------------------------------------------
(* Every step leaves the reports as they are or adds one. *)
Says == reports' = reports \/ \E x : reports' = Append(reports, x)

LEMMA CallsSay ==
  /\ Same => Says
  /\ \A x : Say(x) => Says
  /\ ParentEnds => Says
  /\ \A l, s, h, next, p : SigAction(p, l, s, h, next) => Says
  /\ \A l, s, next : KillChild(l, s, next) => Says
  /\ \A l, next : Wait(l, next) \/ WaitAny(l, next) => Says
  /\ \A p : Deliver(p) => Says
  /\ \A A : Outside(A) => Says
BY DEF Says, Same, Say, ParentEnds, SigAction, KillChild, Wait, WaitAny, Reap,
       Deliver, Outside

LEMMA StartStopSays == StartStopStep => Says
BY CallsSay DEF StartStopStep, RegisterHandlers, usr1_handler, usr2_handler, Oops,
     BlockAndSave, SetPaused, TestPaused, sigsuspend, Restore, HandlerReturns,
     ctlc_handler

LEMMA ForkWaitSays == ForkWaitStep => Says
BY CallsSay DEF ForkWaitStep, fork_wait, fork1, AlarmRings, fork2, fork3, fork4, lab2

LEMMA ParentChildSays == ParentChildStep => Says
BY CallsSay DEF ParentChildStep, lab3, sigusr1_handler, sighand3, sigint_handler,
     sigset2, sigset2Parent, sigset2Child, handler

LEMMA SelfSays == SelfStep => Says
BY CallsSay DEF SelfStep, sighand1, Block, myhandler, handler_masks, my_handler,
     sigset, KillSelf, Unblock, sigmask, alarm, sighand2, sighand2_handler

LEMMA AllSay == [SignalProgramsNext]_signalVars => Says
<1>1. ASSUME SignalProgramsNext PROVE Says
  <2>1. CASE SignalSteps
    BY <2>1, StartStopSays, ForkWaitSays, ParentChildSays, SelfSays, CallsSay
    DEF SignalSteps, StartStopRuns, OtherRuns
  <2>2. CASE StartStopRuns(\E s \in HandlerMask : Send(s) /\ UNCHANGED savedmask)
    BY <2>2, CallsSay DEF StartStopRuns, Send
  <2>3. CASE OtherRuns(CtrlC \/ Keys)
    BY <2>3, CallsSay DEF OtherRuns, CtrlC, Keys, Key
  <2>4. QED
    BY <1>1, <2>1, <2>2, <2>3 DEF SignalProgramsNext
<1>2. ASSUME UNCHANGED signalVars PROVE Says
  BY <1>2 DEF signalVars, kernelVars, Says
<1>3. QED
  BY <1>1, <1>2

LEMMA StillSeq ==
  ASSUME IsSeq(reports), [SignalProgramsNext]_signalVars
  PROVE  IsSeq(reports')
<1>1. ASSUME NEW x, reports' = Append(reports, x) PROVE IsSeq(reports')
  <2>1. PICK S : reports \in Seq(S)
    BY DEF IsSeq
  <2>2. reports \in Seq(S \cup {x})
    BY <2>1
  <2>3. reports' \in Seq(S \cup {x})
    BY <1>1, <2>2
  <2>4. QED
    BY <2>3 DEF IsSeq
<1>2. QED
  BY <1>1, AllSay DEF Says

----------------------------------------------------------------------------
(* Programs without handlers. *)

LEMMA MildDefault ==
  ASSUME Sound, program \in Mild, NEW x \in Procs, NEW s \in Sigs
  PROVE  proc[x].action[s] = "default"
<1>1. HandlersOf(program) = {} /\ program # "sigset"
  BY DEF Mild, HandlersOf
<1>2. QED
  BY <1>1 DEF Sound, Good, Sane

LEMMA ChldUnseen ==
  ASSUME Sound, program \in Mild, proc["parent"].mask = {}
  PROVE  Raised(proc["parent"], "CHLD") = proc["parent"]
BY MildDefault, BothProcs DEF Raised, Ignored, IgnoredByDefault, Sigs

LEMMA MildRaised ==
  ASSUME Sound, program \in Mild, NEW s \in {"STOP", "HUP", "ALRM", "SEGV"},
         Lives(proc["child"])
  PROVE  LET c == proc["child"]  q == Raised(c, s)
         IN  /\ q.pc = c.pc /\ q.mem = c.mem /\ q.mask = c.mask
             /\ q.life = c.life /\ q.event = c.event
             /\ q.pending = c.pending \cup {s}
<1>1. s \in Sigs \ {"CONT", "CHLD"} /\ proc["child"].action[s] # "ignore"
  BY MildDefault, BothProcs DEF Sigs
<1>2. QED
  BY <1>1, RaisedAll, ProcFields DEF GoesOn

LEMMA MildContinued ==
  ASSUME Sound, proc["child"].life = "stopped"
  PROVE  LET c == proc["child"]  q == Raised(c, "CONT")
         IN  /\ q.pc = c.pc /\ q.mem = c.mem /\ q.mask = c.mask
             /\ q.life = "running" /\ q.event = <<"continued">>
             /\ q.pending = c.pending \ Stops
<1> DEFINE c == proc["child"]
<1>1. Raised(c, "CONT") =
        [c EXCEPT !.life = "running", !.pending = @ \ Stops, !.event = <<"continued">>]
  BY DEF Raised, Lives
<1>2. DOMAIN c = Fields
  BY ProcFields
<1>3. QED
  BY <1>1, <1>2 DEF Fields

LEMMA MildDelivered ==
  ASSUME Sound, program \in Mild, Undisturbed(proc["parent"], proc["child"]),
         NEW x \in Procs, Deliver(x)
  PROVE  LET c == proc["child"]  c1 == proc'["child"]
         IN  /\ proc'["parent"] = proc["parent"] /\ reports' = reports
             /\ c.life = "running"
             /\ \E s \in c.pending :
                  /\ s = "STOP" => /\ c1.life = "stopped" /\ c1.event = <<"stopped">>
                                   /\ c1.pending = c.pending \ {s}
                                   /\ c1.pc = c.pc /\ c1.mem = c.mem /\ c1.mask = c.mask
                  /\ s \notin Stops \cup IgnoredByDefault => Over(c, c1, <<"killed", s>>)
<1> DEFINE c == proc["child"]
           stopped(s) == [c EXCEPT !.life = "stopped", !.event = <<"stopped">>,
                                   !.pending = @ \ {s}]
<1>1. x = "child" /\ c.life = "running" /\ Deliverable(c) = c.pending
  BY DEF Deliver, Undisturbed, Deliverable, Procs
<1>2. PICK s \in c.pending :
        CASE c.action[s] = "default" /\ s \in Stops -> Tell("child", stopped(s))
          [] c.action[s] = "default" /\ s \in IgnoredByDefault ->
               Become("child", [c EXCEPT !.pending = @ \ {s}])
          [] c.action[s] = "default" /\ s \notin Stops \cup IgnoredByDefault ->
               Tell("child", Ended(c, <<"killed", s>>))
          [] OTHER -> Become("child", Interrupted(c, s))
  BY <1>1 DEF Deliver
<1>3. s \in Sigs /\ DOMAIN c = Fields /\ reports' = reports
  BY BothProcs DEF Sound, Good, Sane, Deliver, Same
<1>4. c.action[s] = "default"
  BY <1>3, MildDefault, BothProcs
<1>5. Raised(proc["parent"], "CHLD") = proc["parent"]
  BY ChldUnseen DEF Undisturbed
<1>6. CASE s = "STOP"
  <2>0. s \in Stops /\ s \notin IgnoredByDefault
    BY <1>6 DEF Stops, IgnoredByDefault
  <2>1. Tell("child", stopped(s))
    BY <1>2, <1>4, <2>0
  <2>2. proc'["child"] = stopped(s) /\ proc'["parent"] = proc["parent"]
    BY <2>1, <1>5, TellChild
  <2>3. QED
    BY <2>2, <1>1, <1>3, <1>6 DEF Fields, Stops
<1>7. CASE s \notin Stops \cup IgnoredByDefault
  <2>1. Tell("child", Ended(c, <<"killed", s>>))
    BY <1>2, <1>4, <1>7
  <2>2. proc'["child"] = Ended(c, <<"killed", s>>) /\ proc'["parent"] = proc["parent"]
    BY <2>1, <1>5, TellChild
  <2>3. Over(c, proc'["child"], <<"killed", s>>)
    BY <2>2, <1>3, EndedOver
  <2>4. QED
    BY <2>2, <2>3, <1>1, <1>3, <1>7 DEF Stops
<1>8. CASE s \in {"CHLD", "CONT"}
  <2>1. Become("child", [c EXCEPT !.pending = @ \ {s}])
    BY <1>2, <1>4, <1>8 DEF Stops, IgnoredByDefault
  <2>2. proc'["parent"] = proc["parent"]
    BY <2>1, ProcFields, BothProcs DEF Become
  <2>3. QED
    BY <2>2, <1>1, <1>3, <1>8 DEF IgnoredByDefault
<1>9. CASE s = "TSTP"
  <2>0. s \in Stops /\ s \notin IgnoredByDefault
    BY <1>9 DEF Stops, IgnoredByDefault
  <2>1. Tell("child", stopped(s))
    BY <1>2, <1>4, <2>0
  <2>2. proc'["parent"] = proc["parent"]
    BY <2>1, <1>5, TellChild
  <2>3. QED
    BY <2>2, <1>1, <1>3, <1>9 DEF Stops
<1>10. QED
  BY <1>6, <1>7, <1>8, <1>9 DEF Stops, IgnoredByDefault

LEMMA PlotNow ==
  ASSUME Sound, PlotInv, program \in Mild
  PROVE  /\ Undisturbed(proc["parent"], proc["child"])
         /\ Raised(proc["parent"], "CHLD") = proc["parent"]
         /\ IsSeq(reports)
BY ChldUnseen DEF PlotInv, Plot, Undisturbed

LEMMA ChildDo ==
  ASSUME Sound, NEW l, NEW q, Do("child", l, q)
  PROVE  /\ Stands(proc["child"], l) /\ proc'["child"] = q
         /\ proc'["parent"] = proc["parent"]
BY ProcFields, BothProcs DEF Do, At, Stands, Become

LEMMA fork_wait_goes ==
  ASSUME Sound, PlotInv, program = "fork_wait", program' = program,
         IsSeq(reports'), fork_wait \/ \E x \in Procs : Deliver(x)
  PROVE  PlotInv'
<1> DEFINE p == proc["parent"]    c == proc["child"]
           p1 == proc'["parent"]  c1 == proc'["child"]
<1>1. /\ Undisturbed(p, c) /\ Raised(p, "CHLD") = p
      /\ fork_wait_plot(p, c, reports)
  BY PlotNow DEF PlotInv, Plot, Mild
<1>2. SUFFICES Undisturbed(p1, c1) /\ fork_wait_plot(p1, c1, reports')
  BY DEF PlotInv, Plot, Mild
<1>3. CASE Fork("fork", "stop", "loop") /\ Same
  <2>1. reports' = reports /\ Fork("fork", "stop", "loop")
    BY <1>3 DEF Same
  <2>2. /\ Stands(p, "fork") /\ p1.pc = "stop" /\ Rest(p, p1)
        /\ c1.pc = "loop" /\ c1.pending = {} /\ c1.life = p.life
        /\ c1.event = p.event /\ c1.mask = p.mask
    BY <2>1, ForkFields
  <2> HIDE DEF p, c, p1, c1
  <2>3. QED
    BY <1>1, <2>1, <2>2 DEF Undisturbed, fork_wait_plot, Stands, Rest, Runs
<1>4. CASE KillChild("stop", "STOP", "waitpid1")
  <2>1. /\ Stands(p, "stop") /\ p1.pc = "waitpid1" /\ Rest(p, p1)
        /\ c1 = Raised(c, "STOP") /\ reports' = reports
    BY <1>4, KillFields
  <2>2. Runs(c) /\ Told(HangUp, reports, 0)
    BY <1>1, <2>1 DEF fork_wait_plot, Stands
  <2>3. c1.pending = {"STOP"} /\ c1.life = "running" /\ c1.event = <<>> /\ c1.mask = c.mask
    BY <2>1, <2>2, MildRaised DEF Mild, Runs, Lives
  <2> HIDE DEF p, c, p1, c1
  <2>4. QED
    BY <1>1, <2>1, <2>2, <2>3 DEF Undisturbed, fork_wait_plot, Rest, Stands, Gets
<1>5. CASE WaitAny("waitpid1", "cont")
  <2>1. /\ Stands(p, "waitpid1") /\ p1.pc = "cont" /\ Rest(p, p1)
        /\ c.life = "zombie" \/ c.event # <<>>
        /\ reports' = Append(reports, c.event)
        /\ c1.event = <<>> /\ Kept6(c, c1)
        /\ (c.life # "zombie" => c1.life = c.life)
    BY <1>5, ReapFields DEF WaitAny
  <2> HIDE DEF p, c, p1, c1
  <2>2. /\ c.life = "stopped" /\ c.event = <<"stopped">> /\ c.pending = {}
        /\ Told(HangUp, reports, 0)
    BY <1>1, <2>1 DEF fork_wait_plot, Stands, Gets
  <2>3. Told(HangUp, reports', 1)
    BY <2>1, <2>2, HangUpTold
  <2>4. QED
    BY <1>1, <2>1, <2>2, <2>3 DEF Undisturbed, fork_wait_plot, Rest, Kept6, Stands
<1>6. CASE KillChild("cont", "CONT", "waitpid2")
  <2>1. /\ Stands(p, "cont") /\ p1.pc = "waitpid2" /\ Rest(p, p1)
        /\ c1 = Raised(c, "CONT") /\ reports' = reports
    BY <1>6, KillFields
  <2>2. c.life = "stopped" /\ c.pending = {} /\ Told(HangUp, reports, 1)
    BY <1>1, <2>1 DEF fork_wait_plot, Stands
  <2>3. /\ c1.pending = {} /\ c1.life = "running" /\ c1.event = <<"continued">>
        /\ c1.mask = c.mask
    BY <2>1, <2>2, MildContinued
  <2> HIDE DEF p, c, p1, c1
  <2>4. QED
    BY <1>1, <2>1, <2>2, <2>3 DEF Undisturbed, fork_wait_plot, Rest, Stands
<1>7. CASE WaitAny("waitpid2", "hup")
  <2>1. /\ Stands(p, "waitpid2") /\ p1.pc = "hup" /\ Rest(p, p1)
        /\ reports' = Append(reports, c.event)
        /\ c1.event = <<>> /\ Kept6(c, c1)
        /\ (c.life # "zombie" => c1.life = c.life)
    BY <1>7, ReapFields DEF WaitAny
  <2> HIDE DEF p, c, p1, c1
  <2>2. /\ c.life = "running" /\ c.event = <<"continued">> /\ c.pending = {}
        /\ Told(HangUp, reports, 1)
    BY <1>1, <2>1 DEF fork_wait_plot, Stands
  <2>3. Told(HangUp, reports', 2)
    BY <2>1, <2>2, HangUpTold
  <2>4. QED
    BY <1>1, <2>1, <2>2, <2>3 DEF Undisturbed, fork_wait_plot, Rest, Kept6, Stands, Runs
<1>8. CASE KillChild("hup", "HUP", "wait")
  <2>1. /\ Stands(p, "hup") /\ p1.pc = "wait" /\ Rest(p, p1)
        /\ c1 = Raised(c, "HUP") /\ reports' = reports
    BY <1>8, KillFields
  <2>2. Runs(c) /\ Told(HangUp, reports, 2)
    BY <1>1, <2>1 DEF fork_wait_plot, Stands
  <2>3. c1.pending = {"HUP"} /\ c1.life = "running" /\ c1.event = <<>> /\ c1.mask = c.mask
    BY <2>1, <2>2, MildRaised DEF Mild, Runs, Lives
  <2> HIDE DEF p, c, p1, c1
  <2>4. QED
    BY <1>1, <2>1, <2>2, <2>3 DEF Undisturbed, fork_wait_plot, Rest, Stands, Gets, KilledBy
<1>9. CASE Wait("wait", "exit")
  <2>1. /\ Stands(p, "wait") /\ p1.pc = "exit" /\ Rest(p, p1)
        /\ c.life = "zombie" /\ reports' = Append(reports, c.event)
        /\ Kept6(c, c1) /\ c1.life = "reaped"
    BY <1>9, ReapFields DEF Wait
  <2> HIDE DEF p, c, p1, c1
  <2>2. c.event = <<"killed", "HUP">> /\ Told(HangUp, reports, 2)
    BY <1>1, <2>1 DEF fork_wait_plot, Stands, KilledBy, Gets, Died
  <2>3. Told(HangUp, reports', 3)
    BY <2>1, <2>2, HangUpTold
  <2>4. QED
    BY <1>1, <2>1, <2>3 DEF Undisturbed, fork_wait_plot, Rest, Kept6, Stands
<1>10. CASE ParentEnds
  <2>1. Stands(p, "exit") /\ c1 = c /\ Over(p, p1, <<"exited", 0>>) /\ reports' = reports
    BY <1>10, ParentExitFields DEF ParentEnds, Same
  <2> HIDE DEF p, c, p1, c1
  <2>2. QED
    BY <1>1, <2>1 DEF Undisturbed, fork_wait_plot, Over, Stands
<1>11. CASE \E x \in Procs : Deliver(x)
  <2>1. /\ p1 = p /\ reports' = reports /\ c.life = "running"
        /\ \E s \in c.pending :
             /\ s = "STOP" => /\ c1.life = "stopped" /\ c1.event = <<"stopped">>
                              /\ c1.pending = c.pending \ {s}
                              /\ c1.pc = c.pc /\ c1.mem = c.mem /\ c1.mask = c.mask
             /\ s \notin Stops \cup IgnoredByDefault => Over(c, c1, <<"killed", s>>)
    BY <1>1, <1>11, MildDelivered DEF Mild
  <2> HIDE DEF p, c, p1, c1
  <2>2. CASE p.pc = "waitpid1"
    <3>1. c.pending = {"STOP"} /\ Told(HangUp, reports, 0)
      BY <1>1, <2>1, <2>2 DEF fork_wait_plot, Gets
    <3>2. c1.life = "stopped" /\ c1.event = <<"stopped">> /\ c1.pending = {} /\ c1.mask = c.mask
      BY <2>1, <3>1
    <3>3. QED
      BY <1>1, <2>1, <2>2, <3>1, <3>2 DEF Undisturbed, fork_wait_plot
  <2>3. CASE p.pc = "wait"
    <3>1. c.pending = {"HUP"} /\ Told(HangUp, reports, 2)
      BY <1>1, <2>1, <2>3 DEF fork_wait_plot, KilledBy, Gets, Died
    <3>2. Over(c, c1, <<"killed", "HUP">>)
      BY <2>1, <3>1 DEF Stops, IgnoredByDefault
    <3>3. QED
      BY <1>1, <2>1, <2>3, <3>1, <3>2 DEF Undisturbed, fork_wait_plot, KilledBy, Died, Over
  <2>4. CASE p.pc \notin {"waitpid1", "wait"}
    BY <1>1, <2>1, <2>4 DEF fork_wait_plot, Runs
  <2>5. QED
    BY <2>2, <2>3, <2>4
<1>12. QED
  BY <1>3, <1>4, <1>5, <1>6, <1>7, <1>8, <1>9, <1>10, <1>11 DEF fork_wait

(* A timer, or a fault, that hits the child of a program without handlers. *)
LEMMA ChildHit ==
  ASSUME Sound, PlotInv, program \in Mild, NEW l, NEW s \in {"ALRM", "SEGV"},
         Do("child", l, Raised(proc["child"], s))
  PROVE  LET c == proc["child"]  c1 == proc'["child"]
         IN  /\ Stands(c, l) /\ proc'["parent"] = proc["parent"]
             /\ c1.pc = c.pc /\ c1.mem = c.mem /\ c1.mask = c.mask
             /\ c1.life = c.life /\ c1.event = c.event
             /\ c1.pending = c.pending \cup {s}
<1>1. /\ Stands(proc["child"], l) /\ proc'["parent"] = proc["parent"]
      /\ proc'["child"] = Raised(proc["child"], s)
  BY ChildDo
<1>2. Lives(proc["child"])
  BY <1>1 DEF Stands, Lives
<1>3. QED
  BY <1>1, <1>2, MildRaised

LEMMA AlarmHits ==
  ASSUME Sound, PlotInv, program \in Mild, AlarmRings
  PROVE  LET c == proc["child"]  c1 == proc'["child"]
         IN  /\ Stands(c, "pause") /\ proc'["parent"] = proc["parent"]
             /\ c1.pc = c.pc /\ c1.mem = c.mem /\ c1.mask = c.mask
             /\ c1.life = c.life /\ c1.event = c.event
             /\ c1.pending = c.pending \cup {"ALRM"} /\ reports' = reports
<1>1. Do("child", "pause", Raised(proc["child"], "ALRM")) /\ Same
  BY DEF AlarmRings, Do
<1>2. QED
  BY <1>1, ChildHit DEF Same

(* The child of a program without handlers dies of what it got. *)
LEMMA ChildDies ==
  ASSUME Sound, PlotInv, program \in Mild, NEW x \in Procs, Deliver(x),
         NEW s \in {"HUP", "ALRM", "SEGV"}, proc["child"].pending \subseteq {s}
  PROVE  /\ proc'["parent"] = proc["parent"] /\ reports' = reports
         /\ proc["child"].life = "running" /\ proc["child"].pending = {s}
         /\ Over(proc["child"], proc'["child"], <<"killed", s>>)
<1>1. s \notin Stops \cup IgnoredByDefault
  BY DEF Stops, IgnoredByDefault
<1>2. QED
  BY <1>1, PlotNow, MildDelivered

LEMMA fork1_goes ==
  ASSUME Sound, PlotInv, program = "fork1", program' = program,
         IsSeq(reports'), fork1 \/ \E x \in Procs : Deliver(x)
  PROVE  PlotInv'
<1> DEFINE p == proc["parent"]    c == proc["child"]
           p1 == proc'["parent"]  c1 == proc'["child"]
<1>1. /\ Undisturbed(p, c) /\ Raised(p, "CHLD") = p
      /\ fork1_plot(p, c, reports)
  BY PlotNow DEF PlotInv, Plot, Mild
<1>2. SUFFICES Undisturbed(p1, c1) /\ fork1_plot(p1, c1, reports')
  BY DEF PlotInv, Plot, Mild
<1>3. CASE Fork("fork", "wait", "alarm") /\ Same
  <2>1. reports' = reports /\ Fork("fork", "wait", "alarm")
    BY <1>3 DEF Same
  <2>2. /\ Stands(p, "fork") /\ p1.pc = "wait" /\ Rest(p, p1)
        /\ c1.pc = "alarm" /\ c1.pending = {} /\ c1.life = p.life
        /\ c1.event = p.event /\ c1.mask = p.mask
    BY <2>1, ForkFields
  <2> HIDE DEF p, c, p1, c1
  <2>3. QED
    BY <1>1, <2>1, <2>2 DEF Undisturbed, fork1_plot, Stands, Rest, Runs
<1>4. CASE Go("child", "alarm", "pause") /\ Same
  <2>1. /\ Stands(c, "alarm") /\ c1.pc = "pause" /\ Rest(c, c1)
        /\ p1 = p /\ reports' = reports
    BY <1>4, GoFields, BothProcs DEF Same
  <2> HIDE DEF p, c, p1, c1
  <2>2. Runs(c) /\ p.pc = "wait" /\ Told(Alarmed, reports, 0)
    BY <1>1, <2>1 DEF Undisturbed, fork1_plot, Stands, Deliverable, KilledBy, Gets, Died
  <2>3. QED
    BY <1>1, <2>1, <2>2 DEF Undisturbed, fork1_plot, Rest, Runs
<1>5. CASE AlarmRings
  <2>1. /\ Stands(c, "pause") /\ p1 = p /\ reports' = reports
        /\ c1.mask = c.mask /\ c1.life = c.life /\ c1.event = c.event
        /\ c1.pending = c.pending \cup {"ALRM"}
    BY <1>5, AlarmHits DEF Mild
  <2> HIDE DEF p, c, p1, c1
  <2>2. Runs(c) /\ p.pc = "wait" /\ Told(Alarmed, reports, 0)
    BY <1>1, <2>1 DEF Undisturbed, fork1_plot, Stands, Deliverable, KilledBy, Gets, Died
  <2>3. QED
    BY <1>1, <2>1, <2>2 DEF Undisturbed, fork1_plot, KilledBy, Gets, Runs
<1>6. CASE Wait("wait", "exit")
  <2>1. /\ Stands(p, "wait") /\ p1.pc = "exit" /\ Rest(p, p1)
        /\ c.life = "zombie" /\ reports' = Append(reports, c.event)
        /\ Kept6(c, c1) /\ c1.life = "reaped"
    BY <1>6, ReapFields DEF Wait
  <2> HIDE DEF p, c, p1, c1
  <2>2. c.event = <<"killed", "ALRM">> /\ Told(Alarmed, reports, 0)
    BY <1>1, <2>1 DEF fork1_plot, Stands, KilledBy, Gets, Died, Runs
  <2>3. Told(Alarmed, reports', 1)
    BY <2>1, <2>2, AlarmedTold
  <2>4. QED
    BY <1>1, <2>1, <2>3 DEF Undisturbed, fork1_plot, Rest, Kept6, Stands
<1>7. CASE ParentEnds
  <2>1. Stands(p, "exit") /\ c1 = c /\ Over(p, p1, <<"exited", 0>>) /\ reports' = reports
    BY <1>7, ParentExitFields DEF ParentEnds, Same
  <2> HIDE DEF p, c, p1, c1
  <2>2. QED
    BY <1>1, <2>1 DEF Undisturbed, fork1_plot, Over, Stands
<1>8. ASSUME NEW x \in Procs, Deliver(x)
      PROVE  Undisturbed(p1, c1) /\ fork1_plot(p1, c1, reports')
  <2>1. c.life = "running" /\ c.pending # {}
    BY <1>1, <1>8, MildDelivered DEF Mild
  <2>2. p.pc = "wait" /\ Told(Alarmed, reports, 0) /\ c.pending = {"ALRM"}
    BY <1>1, <2>1 DEF fork1_plot, KilledBy, Runs, Gets, Died
  <2>3. p1 = p /\ reports' = reports /\ Over(c, c1, <<"killed", "ALRM">>)
    BY <1>8, <2>2, ChildDies DEF Mild
  <2> HIDE DEF p, c, p1, c1
  <2>4. QED
    BY <1>1, <2>2, <2>3 DEF Undisturbed, fork1_plot, KilledBy, Died, Over
<1>9. QED
  BY <1>3, <1>4, <1>5, <1>6, <1>7, <1>8 DEF fork1

LEMMA fork2_goes ==
  ASSUME Sound, PlotInv, program = "fork2", program' = program,
         IsSeq(reports'), fork2 \/ \E x \in Procs : Deliver(x)
  PROVE  PlotInv'
<1> DEFINE p == proc["parent"]    c == proc["child"]
           p1 == proc'["parent"]  c1 == proc'["child"]
<1>1. /\ Undisturbed(p, c) /\ Raised(p, "CHLD") = p
      /\ fork2_plot(p, c, reports)
  BY PlotNow DEF PlotInv, Plot, Mild
<1>2. SUFFICES Undisturbed(p1, c1) /\ fork2_plot(p1, c1, reports')
  BY DEF PlotInv, Plot, Mild
<1>3. CASE Go("parent", "open", "fork") /\ Say(<<"before", proc.parent.mem>>)
  <2>1. /\ Stands(p, "open") /\ p1.pc = "fork" /\ Rest(p, p1) /\ c1 = c
        /\ reports' = Append(reports, <<"before", p.mem>>)
    BY <1>3, GoFields, BothProcs DEF Say
  <2> HIDE DEF p, c, p1, c1
  <2>2. p.mem = 100 /\ c.life = "none" /\ Told(Logged, reports, 0)
    BY <1>1, <2>1 DEF fork2_plot, Stands
  <2>3. Told(Logged, reports', 1)
    BY <2>1, <2>2, LoggedTold
  <2>4. QED
    BY <1>1, <2>1, <2>2, <2>3 DEF Undisturbed, fork2_plot, Rest
<1>4. CASE Fork("fork", "wait", "old") /\ Same
  <2>1. reports' = reports /\ Fork("fork", "wait", "old")
    BY <1>4 DEF Same
  <2>2. /\ Stands(p, "fork") /\ p1.pc = "wait" /\ Rest(p, p1)
        /\ c1.pc = "old" /\ c1.pending = {} /\ c1.life = p.life
        /\ c1.event = p.event /\ c1.mask = p.mask /\ c1.mem = p.mem
    BY <2>1, ForkFields
  <2> HIDE DEF p, c, p1, c1
  <2>3. QED
    BY <1>1, <2>1, <2>2 DEF Undisturbed, fork2_plot, Stands, Rest, Runs
<1>5. CASE Go("child", "old", "new") /\ Say(<<"child", proc.child.mem>>)
  <2>1. /\ Stands(c, "old") /\ c1.pc = "new" /\ Rest(c, c1) /\ p1 = p
        /\ reports' = Append(reports, <<"child", c.mem>>)
    BY <1>5, GoFields, BothProcs DEF Say
  <2> HIDE DEF p, c, p1, c1
  <2>2. p.pc = "wait" /\ Runs(c) /\ c.mem = 100 /\ Told(Logged, reports, 1)
    BY <1>1, <2>1 DEF fork2_plot, Stands
  <2>3. Told(Logged, reports', 2)
    BY <2>1, <2>2, LoggedTold
  <2>4. QED
    BY <1>1, <2>1, <2>2, <2>3 DEF Undisturbed, fork2_plot, Rest, Runs
<1>6. CASE /\ Do("child", "new", Moved(Storing(proc.child, 15), "pause"))
           /\ Say(<<"child", 15>>)
  <2>1. /\ Stands(c, "new") /\ c1 = Moved(Storing(c, 15), "pause") /\ p1 = p
        /\ reports' = Append(reports, <<"child", 15>>)
    BY <1>6, ChildDo DEF Say
  <2>2. DOMAIN c = Fields /\ DOMAIN Storing(c, 15) = Fields
    BY ProcFields, StoringAll
  <2>3. /\ c1.pc = "pause" /\ c1.life = c.life /\ c1.event = c.event
        /\ c1.mask = c.mask /\ c1.pending = c.pending
    BY <2>1, <2>2, StoringAll, MovedAll DEF GoesOn
  <2> HIDE DEF p, c, p1, c1
  <2>4. p.pc = "wait" /\ Runs(c) /\ Told(Logged, reports, 2)
    BY <1>1, <2>1 DEF fork2_plot, Stands
  <2>5. Told(Logged, reports', 3)
    BY <2>1, <2>4, LoggedTold
  <2>6. QED
    BY <1>1, <2>1, <2>3, <2>4, <2>5 DEF Undisturbed, fork2_plot, Runs
<1>7. CASE AlarmRings
  <2>1. /\ Stands(c, "pause") /\ p1 = p /\ reports' = reports
        /\ c1.mask = c.mask /\ c1.life = c.life /\ c1.event = c.event
        /\ c1.pending = c.pending \cup {"ALRM"} /\ c1.pc = c.pc
    BY <1>7, AlarmHits DEF Mild
  <2> HIDE DEF p, c, p1, c1
  <2>2. Runs(c) /\ p.pc = "wait" /\ Told(Logged, reports, 3)
    BY <1>1, <2>1 DEF Undisturbed, fork2_plot, Stands, Deliverable, KilledBy, Gets, Died
  <2>3. QED
    BY <1>1, <2>1, <2>2 DEF Undisturbed, fork2_plot, KilledBy, Gets, Runs, Stands
<1>8. CASE Wait("wait", "report")
  <2>1. /\ Stands(p, "wait") /\ p1.pc = "report" /\ Rest(p, p1)
        /\ c.life = "zombie" /\ reports' = Append(reports, c.event)
        /\ Kept6(c, c1) /\ c1.life = "reaped"
    BY <1>8, ReapFields DEF Wait
  <2> HIDE DEF p, c, p1, c1
  <2>2. c.event = <<"killed", "ALRM">> /\ Told(Logged, reports, 3)
    BY <1>1, <2>1 DEF fork2_plot, Stands, KilledBy, Gets, Died, Runs
  <2>3. Told(Logged, reports', 4)
    BY <2>1, <2>2, LoggedTold
  <2>4. QED
    BY <1>1, <2>1, <2>3 DEF Undisturbed, fork2_plot, Rest, Kept6, Stands
<1>9. CASE Go("parent", "report", "exit") /\ Say(<<"parent", proc.parent.mem>>)
  <2>1. /\ Stands(p, "report") /\ p1.pc = "exit" /\ Rest(p, p1) /\ c1 = c
        /\ reports' = Append(reports, <<"parent", p.mem>>)
    BY <1>9, GoFields, BothProcs DEF Say
  <2> HIDE DEF p, c, p1, c1
  <2>2. p.mem = 100 /\ c.life = "reaped" /\ Told(Logged, reports, 4)
    BY <1>1, <2>1 DEF fork2_plot, Stands
  <2>3. Told(Logged, reports', 5)
    BY <2>1, <2>2, LoggedTold
  <2>4. QED
    BY <1>1, <2>1, <2>2, <2>3 DEF Undisturbed, fork2_plot, Rest
<1>10. CASE ParentEnds
  <2>1. Stands(p, "exit") /\ c1 = c /\ Over(p, p1, <<"exited", 0>>) /\ reports' = reports
    BY <1>10, ParentExitFields DEF ParentEnds, Same
  <2> HIDE DEF p, c, p1, c1
  <2>2. QED
    BY <1>1, <2>1 DEF Undisturbed, fork2_plot, Over, Stands
<1>11. ASSUME NEW x \in Procs, Deliver(x)
       PROVE  Undisturbed(p1, c1) /\ fork2_plot(p1, c1, reports')
  <2>1. c.life = "running" /\ c.pending # {}
    BY <1>1, <1>11, MildDelivered DEF Mild
  <2>2. /\ p.pc = "wait" /\ Told(Logged, reports, 3) /\ c.pending = {"ALRM"}
        /\ c.pc = "pause"
    BY <1>1, <2>1 DEF fork2_plot, KilledBy, Runs, Gets, Died
  <2>3. p1 = p /\ reports' = reports /\ Over(c, c1, <<"killed", "ALRM">>)
    BY <1>11, <2>2, ChildDies DEF Mild
  <2> HIDE DEF p, c, p1, c1
  <2>4. QED
    BY <1>1, <2>2, <2>3 DEF Undisturbed, fork2_plot, KilledBy, Died, Over
<1>12. QED
  BY <1>3, <1>4, <1>5, <1>6, <1>7, <1>8, <1>9, <1>10, <1>11 DEF fork2

LEMMA fork3_goes ==
  ASSUME Sound, PlotInv, program = "fork3", program' = program,
         IsSeq(reports'), fork3 \/ \E x \in Procs : Deliver(x)
  PROVE  PlotInv'
<1> DEFINE p == proc["parent"]    c == proc["child"]
           p1 == proc'["parent"]  c1 == proc'["child"]
<1>1. /\ Undisturbed(p, c) /\ Raised(p, "CHLD") = p
      /\ fork3_plot(p, c, reports)
  BY PlotNow DEF PlotInv, Plot, Mild
<1>2. SUFFICES Undisturbed(p1, c1) /\ fork3_plot(p1, c1, reports')
  BY DEF PlotInv, Plot, Mild
<1>3. CASE Fork("fork", "wait", "work") /\ Same
  <2>1. reports' = reports /\ Fork("fork", "wait", "work")
    BY <1>3 DEF Same
  <2>2. /\ Stands(p, "fork") /\ p1.pc = "wait" /\ Rest(p, p1)
        /\ c1.pending = {} /\ c1.life = p.life
        /\ c1.event = p.event /\ c1.mask = p.mask
    BY <2>1, ForkFields
  <2> HIDE DEF p, c, p1, c1
  <2>3. QED
    BY <1>1, <2>1, <2>2 DEF Undisturbed, fork3_plot, Stands, Rest, Runs
<1>4. CASE Exit("child", "work", 77) /\ Same
  <2>1. /\ Stands(c, "work") /\ p1 = p /\ Over(c, c1, <<"exited", 77>>)
        /\ reports' = reports
    BY <1>1, <1>4, ChildExitFields DEF Same
  <2> HIDE DEF p, c, p1, c1
  <2>2. p.pc = "wait" /\ Told(Zombie, reports, 0)
    BY <1>1, <2>1 DEF fork3_plot, Stands
  <2>3. QED
    BY <1>1, <2>1, <2>2 DEF Undisturbed, fork3_plot, Over, Died
<1>5. CASE Wait("wait", "exit")
  <2>1. /\ Stands(p, "wait") /\ p1.pc = "exit" /\ Rest(p, p1)
        /\ c.life = "zombie" /\ reports' = Append(reports, c.event)
        /\ Kept6(c, c1) /\ c1.life = "reaped"
    BY <1>5, ReapFields DEF Wait
  <2> HIDE DEF p, c, p1, c1
  <2>2. c.event = <<"exited", 77>> /\ Told(Zombie, reports, 0)
    BY <1>1, <2>1 DEF fork3_plot, Stands, Died, Runs
  <2>3. Told(Zombie, reports', 1)
    BY <2>1, <2>2, ZombieTold
  <2>4. QED
    BY <1>1, <2>1, <2>3 DEF Undisturbed, fork3_plot, Rest, Kept6, Stands
<1>6. CASE ParentEnds
  <2>1. Stands(p, "exit") /\ c1 = c /\ Over(p, p1, <<"exited", 0>>) /\ reports' = reports
    BY <1>6, ParentExitFields DEF ParentEnds, Same
  <2> HIDE DEF p, c, p1, c1
  <2>2. QED
    BY <1>1, <2>1 DEF Undisturbed, fork3_plot, Over, Stands
<1>7. ASSUME NEW x \in Procs, Deliver(x) PROVE FALSE
  <2>1. c.life = "running" /\ c.pending # {}
    BY <1>1, <1>7, MildDelivered DEF Mild
  <2>2. QED
    BY <1>1, <2>1 DEF fork3_plot, Runs, Died
<1>8. QED
  BY <1>3, <1>4, <1>5, <1>6, <1>7 DEF fork3

LEMMA AppendPair ==
  ASSUME NEW a, NEW b
  PROVE  Append(<<a>>, b) = <<a, b>>
<1> DEFINE S == {a, b}
           s == Append(<<a>>, b)
           t == <<a, b>>
<1>1. <<a>> \in Seq(S) /\ Len(<<a>>) = 1 /\ <<a>>[1] = a
  OBVIOUS
<1>2. s \in Seq(S) /\ Len(s) = 2 /\ s[1] = a /\ s[2] = b
  BY <1>1
<1>3. t \in Seq(S) /\ Len(t) = 2 /\ t[1] = a /\ t[2] = b
  OBVIOUS
<1> HIDE DEF s, t
<1>4. \A i \in 1 .. Len(s) : s[i] = t[i]
  BY <1>2, <1>3
<1>5. s = t
  BY <1>2, <1>3, <1>4, SeqEqual
<1>6. QED
  BY <1>5 DEF s, t

LEMMA fork4_goes ==
  ASSUME Sound, PlotInv, program = "fork4", program' = program,
         IsSeq(reports'), fork4 \/ \E x \in Procs : Deliver(x)
  PROVE  PlotInv'
<1> DEFINE p == proc["parent"]    c == proc["child"]
           p1 == proc'["parent"]  c1 == proc'["child"]
<1>1. /\ Undisturbed(p, c) /\ Raised(p, "CHLD") = p
      /\ fork4_plot(p, c, reports)
  BY PlotNow DEF PlotInv, Plot, Mild
<1>2. SUFFICES Undisturbed(p1, c1) /\ fork4_plot(p1, c1, reports')
  BY DEF PlotInv, Plot, Mild
<1>3. /\ getppid \in {"parent", "init"} /\ Adopted(p, getppid)
      /\ \A a : Adopted(p, a) /\ a = "init" => getppid = "init"
  BY DEF getppid, Adopted
<1>4. CASE Fork("fork", "exit", "ppid1") /\ Same
  <2>1. reports' = reports /\ Fork("fork", "exit", "ppid1")
    BY <1>4 DEF Same
  <2>2. /\ Stands(p, "fork") /\ p1.pc = "exit" /\ Rest(p, p1)
        /\ c1.pc = "ppid1" /\ c1.pending = {} /\ c1.life = p.life
        /\ c1.event = p.event /\ c1.mask = p.mask
    BY <2>1, ForkFields
  <2> HIDE DEF p, c, p1, c1
  <2>3. QED
    BY <1>1, <2>1, <2>2 DEF Undisturbed, fork4_plot, Stands, Rest, Runs
<1>5. CASE Go("child", "ppid1", "ppid2") /\ Say(getppid)
  <2>1. /\ Stands(c, "ppid1") /\ c1.pc = "ppid2" /\ Rest(c, c1) /\ p1 = p
        /\ reports' = Append(reports, getppid)
    BY <1>5, GoFields, BothProcs DEF Say
  <2> HIDE DEF p, c, p1, c1
  <2>2. p.pc = "exit" /\ Runs(c) /\ reports = <<>>
    BY <1>1, <2>1 DEF fork4_plot, Stands
  <2>3. reports' = <<getppid>>
    BY <2>1, <2>2
  <2>4. QED
    BY <1>1, <1>3, <2>1, <2>2, <2>3 DEF Undisturbed, fork4_plot, Rest, Runs
<1>6. CASE Go("child", "ppid2", "end") /\ Say(getppid)
  <2>1. /\ Stands(c, "ppid2") /\ c1.pc = "end" /\ Rest(c, c1) /\ p1 = p
        /\ reports' = Append(reports, getppid)
    BY <1>6, GoFields, BothProcs DEF Say
  <2> HIDE DEF p, c, p1, c1
  <2>2. p.pc = "exit" /\ \E a \in {"parent", "init"} : Adopted(p, a) /\ reports = <<a>>
    BY <1>1, <2>1 DEF fork4_plot, Stands
  <2>3. PICK a \in {"parent", "init"} : Adopted(p, a) /\ reports = <<a>>
    BY <2>2
  <2>4. reports' = <<a, getppid>>
    BY <2>1, <2>3, AppendPair
  <2>5. QED
    BY <1>1, <1>3, <2>1, <2>2, <2>3, <2>4 DEF Undisturbed, fork4_plot, Rest, Stands, Runs
<1>7. CASE Exit("child", "end", 0) /\ Same
  <2>1. /\ Stands(c, "end") /\ p1 = p /\ Over(c, c1, <<"exited", 0>>)
        /\ reports' = reports
    BY <1>1, <1>7, ChildExitFields DEF Same
  <2> HIDE DEF p, c, p1, c1
  <2>2. p.pc = "exit"
    BY <1>1, <2>1 DEF fork4_plot, Stands, Adopted
  <2>3. QED
    BY <1>1, <2>1, <2>2 DEF Undisturbed, fork4_plot, Over, Stands
<1>8. CASE ParentEnds
  <2>1. Stands(p, "exit") /\ c1 = c /\ Over(p, p1, <<"exited", 0>>) /\ reports' = reports
    BY <1>8, ParentExitFields DEF ParentEnds, Same
  <2> HIDE DEF p, c, p1, c1
  <2>2. p1.pc = "exit" /\ \A a : Adopted(p, a) => Adopted(p1, a)
    BY <2>1 DEF Adopted, Over, Stands, Lives
  <2>3. QED
    BY <1>1, <2>1, <2>2 DEF Undisturbed, fork4_plot, Over, Stands
<1>9. ASSUME NEW x \in Procs, Deliver(x) PROVE FALSE
  <2>1. c.life = "running" /\ c.pending # {}
    BY <1>1, <1>9, MildDelivered DEF Mild
  <2>2. QED
    BY <1>1, <2>1 DEF fork4_plot, Runs
<1>10. QED
  BY <1>4, <1>5, <1>6, <1>7, <1>8, <1>9 DEF fork4

LEMMA lab2_goes ==
  ASSUME Sound, PlotInv, program = "lab2", program' = program,
         IsSeq(reports'), lab2 \/ \E x \in Procs : Deliver(x)
  PROVE  PlotInv'
<1> DEFINE p == proc["parent"]    c == proc["child"]
           p1 == proc'["parent"]  c1 == proc'["child"]
<1>1. /\ Undisturbed(p, c) /\ Raised(p, "CHLD") = p
      /\ lab2_plot(p, c, reports)
  BY PlotNow DEF PlotInv, Plot, Mild
<1>2. SUFFICES Undisturbed(p1, c1) /\ lab2_plot(p1, c1, reports')
  BY DEF PlotInv, Plot, Mild
<1>3. CASE Exit("parent", "usage", 1) /\ Same
  <2>1. Stands(p, "usage") /\ c1 = c /\ Over(p, p1, <<"exited", 1>>) /\ reports' = reports
    BY <1>3, ParentExitFields DEF Same
  <2> HIDE DEF p, c, p1, c1
  <2>2. QED
    BY <1>1, <2>1 DEF Undisturbed, lab2_plot, Over, Stands
<1>4. CASE Fork("fork", "wait", "fib") /\ Same
  <2>1. reports' = reports /\ Fork("fork", "wait", "fib")
    BY <1>4 DEF Same
  <2>2. /\ Stands(p, "fork") /\ p1.pc = "wait" /\ Rest(p, p1)
        /\ c1.pending = {} /\ c1.life = p.life
        /\ c1.event = p.event /\ c1.mask = p.mask /\ c1.mem = p.mem
    BY <2>1, ForkFields
  <2> HIDE DEF p, c, p1, c1
  <2>3. QED
    BY <1>1, <2>1, <2>2 DEF Undisturbed, lab2_plot, Stands, Rest, Runs
<1>5. CASE c.mem < 1 /\ Do("child", "fib", Raised(c, "SEGV")) /\ Same
  <2>1. /\ Stands(c, "fib") /\ p1 = p /\ reports' = reports
        /\ c1.mask = c.mask /\ c1.life = c.life /\ c1.event = c.event
        /\ c1.pending = c.pending \cup {"SEGV"} /\ c1.mem = c.mem
    BY <1>5, ChildHit DEF Mild, Same
  <2> HIDE DEF p, c, p1, c1
  <2>2. /\ p.mem \in {0, 5} /\ p.pc = "wait" /\ c.mem = p.mem
        /\ Runs(c) /\ Told(Fibs(p.mem), reports, 0)
    BY <1>1, <2>1 DEF Undisturbed, lab2_plot, Stands, Deliverable, Gets, Died
  <2>3. p.mem = 0
    BY <1>5, <2>2
  <2>4. QED
    BY <1>1, <2>1, <2>2, <2>3 DEF Undisturbed, lab2_plot, Gets, Runs
<1>6. CASE ~(c.mem < 1) /\ Exit("child", "fib", c.mem % 256) /\ Same
  <2>1. /\ Stands(c, "fib") /\ p1 = p /\ Over(c, c1, <<"exited", c.mem % 256>>)
        /\ reports' = reports
    BY <1>1, <1>6, ChildExitFields DEF Same
  <2> HIDE DEF p, c, p1, c1
  <2>2. /\ p.mem \in {0, 5} /\ p.pc = "wait" /\ c.mem = p.mem
        /\ Told(Fibs(p.mem), reports, 0)
    BY <1>1, <2>1 DEF lab2_plot, Stands
  <2>3. p.mem = 5 /\ c.mem % 256 = 5
    BY <1>6, <2>2
  <2>4. OfFib(p.mem) = <<"exited", c.mem % 256>>
    BY <2>3 DEF OfFib
  <2>5. Died(c1, OfFib(p.mem)) /\ c1.mem = c.mem /\ c1.mask = c.mask
    BY <2>1, <2>4 DEF Died, Over
  <2>6. QED
    BY <1>1, <2>1, <2>2, <2>5 DEF Undisturbed, lab2_plot
<1>7. CASE Wait("wait", "report")
  <2>1. /\ Stands(p, "wait") /\ p1.pc = "report" /\ Rest(p, p1)
        /\ c.life = "zombie" /\ reports' = Append(reports, c.event)
        /\ Kept6(c, c1) /\ c1.life = "reaped"
    BY <1>7, ReapFields DEF Wait
  <2> HIDE DEF p, c, p1, c1
  <2>2. c.event = OfFib(p.mem) /\ Told(Fibs(p.mem), reports, 0) /\ p.mem \in {0, 5}
    BY <1>1, <2>1 DEF lab2_plot, Stands, Died, Runs, Gets
  <2>3. Told(Fibs(p.mem), reports', 1)
    BY <2>1, <2>2, FibsTold
  <2>4. QED
    BY <1>1, <2>1, <2>2, <2>3 DEF Undisturbed, lab2_plot, Rest, Kept6, Stands
<1>8. CASE Go("parent", "report", "exit") /\ Say(<<"exited", proc.parent.mem>>)
  <2>1. /\ Stands(p, "report") /\ p1.pc = "exit" /\ Rest(p, p1) /\ c1 = c
        /\ reports' = Append(reports, <<"exited", p.mem>>)
    BY <1>8, GoFields, BothProcs DEF Say
  <2> HIDE DEF p, c, p1, c1
  <2>2. c.life = "reaped" /\ Told(Fibs(p.mem), reports, 1) /\ p.mem \in {0, 5}
    BY <1>1, <2>1 DEF lab2_plot, Stands
  <2>3. Told(Fibs(p.mem), reports', 2)
    BY <2>1, <2>2, FibsTold
  <2>4. QED
    BY <1>1, <2>1, <2>2, <2>3 DEF Undisturbed, lab2_plot, Rest
<1>9. CASE ParentEnds
  <2>1. Stands(p, "exit") /\ c1 = c /\ Over(p, p1, <<"exited", 0>>) /\ reports' = reports
    BY <1>9, ParentExitFields DEF ParentEnds, Same
  <2> HIDE DEF p, c, p1, c1
  <2>2. QED
    BY <1>1, <2>1 DEF Undisturbed, lab2_plot, Over, Stands
<1>10. ASSUME NEW x \in Procs, Deliver(x)
       PROVE  Undisturbed(p1, c1) /\ lab2_plot(p1, c1, reports')
  <2>1. c.life = "running" /\ c.pending # {}
    BY <1>1, <1>10, MildDelivered DEF Mild
  <2>2. /\ p.pc = "wait" /\ Told(Fibs(p.mem), reports, 0) /\ c.pending = {"SEGV"}
        /\ p.mem = 0 /\ c.mem = p.mem
    BY <1>1, <2>1 DEF lab2_plot, Runs, Gets, Died
  <2>3. p1 = p /\ reports' = reports /\ Over(c, c1, <<"killed", "SEGV">>)
    BY <1>10, <2>2, ChildDies DEF Mild
  <2>4. OfFib(p.mem) = <<"killed", "SEGV">>
    BY <2>2 DEF OfFib
  <2> HIDE DEF p, c, p1, c1
  <2>5. Died(c1, OfFib(p.mem)) /\ c1.mem = c.mem /\ c1.mask = c.mask
    BY <2>3, <2>4 DEF Died, Over
  <2>6. QED
    BY <1>1, <2>2, <2>3, <2>5 DEF Undisturbed, lab2_plot
<1>11. fib /\ Same =>
         \/ c.mem < 1 /\ Do("child", "fib", Raised(c, "SEGV")) /\ Same
         \/ ~(c.mem < 1) /\ Exit("child", "fib", c.mem % 256) /\ Same
  BY DEF fib
<1>12. QED
  BY <1>3, <1>4, <1>5, <1>6, <1>7, <1>8, <1>9, <1>10, <1>11 DEF lab2

----------------------------------------------------------------------------
(* Programs with handlers, whose processes get signals from each other and *)
(* from the keyboard. *)

(* q is r after s, which is not SIGCONT, was sent to it. *)
Nudged(r, q, s) ==
  /\ q.life = r.life /\ q.pc = r.pc /\ q.event = r.event /\ q.mem = r.mem
  /\ q.mask = r.mask /\ q.action = r.action /\ q.frames = r.frames
  /\ q.pending \subseteq r.pending \cup {s}

LEMMA RaisedNudges ==
  ASSUME NEW r, DOMAIN r = Fields, NEW s, s # "CONT"
  PROVE  Nudged(r, Raised(r, s), s)
BY DEF Raised, Fields, Nudged

LEMMA KeyNudges ==
  ASSUME Sound, NEW s, s # "CONT", Key(s), NEW x \in Procs
  PROVE  Nudged(proc[x], proc'[x], s) /\ Lives(proc["parent"]) /\ reports' = reports
<1>1. /\ proc' = [y \in Procs |-> Raised(proc[y], s)] /\ Lives(proc["parent"])
      /\ reports' = reports
  BY DEF Key, Outside
<1>2. DOMAIN proc[x] = Fields
  BY DEF Sound, Good, Sane
<1>3. QED
  BY <1>1, <1>2, RaisedNudges

LEMMA SigActionFields ==
  ASSUME Sound, NEW x \in Procs, NEW y \in Procs, x # y, NEW l, NEW s \in Sigs,
         NEW h, h # "ignore", NEW next, SigAction(x, l, s, h, next)
  PROVE  LET r == proc[x]  q == proc'[x]
         IN  /\ Stands(r, l) /\ q.pc = next /\ q.life = r.life /\ q.mem = r.mem
             /\ q.mask = r.mask /\ q.pending = r.pending /\ q.frames = r.frames
             /\ q.action[s] = h
             /\ proc'[y] = proc[y] /\ reports' = reports
<1> DEFINE r == proc[x]
           h1 == Handling(r, s, h)
<1>1. At(x, l) /\ proc' = [proc EXCEPT ![x] = Moved(h1, next)] /\ reports' = reports
  BY DEF SigAction, Do, Become, Same
<1>2. /\ proc'[x] = Moved(h1, next) /\ proc'[y] = proc[y]
      /\ Sane(program, samask, r) /\ DOMAIN r = Fields
  BY <1>1 DEF Sound, Good, Sane
<1>3. /\ h1.life = r.life /\ h1.mem = r.mem /\ h1.mask = r.mask
      /\ h1.pending = r.pending /\ h1.action[s] = h /\ DOMAIN h1 = Fields
  BY <1>2, HandlingAll DEF GoesOn
<1>4. h1.frames = r.frames
  BY <1>2 DEF Handling, Fields
<1> HIDE DEF h1
<1>5. Rest(h1, Moved(h1, next)) /\ Moved(h1, next).pc = next
  BY <1>3, MovedRest
<1>6. Stands(r, l)
  BY <1>1 DEF Stands, At
<1> HIDE DEF r
<1>7. QED
  BY <1>1, <1>2, <1>3, <1>4, <1>5, <1>6 DEF r, Rest

LEMMA ReturnFields ==
  ASSUME NEW r, DOMAIN r = Fields
  PROVE  LET q == Returned(r)  top == r.frames[Len(r.frames)]
         IN  /\ q.pc = top.pc /\ q.mask = top.mask /\ q.life = r.life
             /\ q.event = r.event /\ q.mem = r.mem /\ q.pending = r.pending
             /\ q.action = r.action
             /\ q.frames = SubSeq(r.frames, 1, Len(r.frames) - 1)
BY DEF Returned, Fields

LEMMA ParentDo ==
  ASSUME Sound, NEW l, NEW q, Do("parent", l, q)
  PROVE  /\ Stands(proc["parent"], l) /\ proc'["parent"] = q
         /\ proc'["child"] = proc["child"]
BY ProcFields, BothProcs DEF Do, At, Stands, Become

(* What the child's end and its stop are to the parent. *)
LEMMA ParentTold ==
  ASSUME Sound, NEW q, Tell("child", q)
  PROVE  proc'["child"] = q /\ Nudged(proc["parent"], proc'["parent"], "CHLD")
BY TellChild, ProcFields, RaisedNudges

LEMMA lab3_nudged ==
  ASSUME NEW r, NEW q, NEW reps, lab3_child(r, reps),
         NEW s \in {"INT", "TERM", "USR1"}, Nudged(r, q, s)
  PROVE  lab3_child(q, reps)
BY DEF lab3_child, Nudged

LEMMA lab3_goes ==
  ASSUME Sound, PlotInv, program = "lab3", program' = program,
         IsSeq(reports'), lab3
  PROVE  PlotInv'
<1> DEFINE p == proc["parent"]    c == proc["child"]
           p1 == proc'["parent"]  c1 == proc'["child"]
<1>1. lab3_plot(p, c, reports) /\ DOMAIN p = Fields /\ DOMAIN c = Fields
  BY ProcFields DEF PlotInv, Plot, Mild
<1>2. SUFFICES lab3_plot(p1, c1, reports')
  BY DEF PlotInv, Plot, Mild
<1>3. CASE /\ Do("parent", "sigprocmask", Moved(Blocking(proc.parent, All), "sigaction"))
           /\ Same
  <2>1. /\ Stands(p, "sigprocmask") /\ p1 = Moved(Blocking(p, All), "sigaction")
        /\ c1 = c /\ reports' = reports
    BY <1>3, ParentDo DEF Same
  <2>2. p.mask \subseteq All
    BY BothProcs DEF Sound, Good, Sane
  <2>3. /\ p1.mask = All /\ p1.pc = "sigaction" /\ p1.life = p.life
        /\ p1.pending = p.pending /\ p1.frames = p.frames
    BY <1>1, <2>1, <2>2 DEF Moved, Blocking, Fields
  <2> HIDE DEF p, c, p1, c1
  <2>4. QED
    BY <1>1, <2>1, <2>3 DEF lab3_plot, Stands
<1>4. CASE SigAction("parent", "sigaction", "USR1", "sigusr1_handler", "fork")
  <2>1. /\ Stands(p, "sigaction") /\ p1.pc = "fork" /\ p1.life = p.life
        /\ p1.mask = p.mask /\ p1.pending = p.pending /\ p1.frames = p.frames
        /\ p1.action["USR1"] = "sigusr1_handler" /\ c1 = c /\ reports' = reports
    BY <1>4, SigActionFields, BothProcs DEF Sigs
  <2> HIDE DEF p, c, p1, c1
  <2>2. QED
    BY <1>1, <2>1 DEF lab3_plot, Stands
<1>5. CASE Fork("fork", "term", "hello") /\ Same
  <2>1. reports' = reports /\ Fork("fork", "term", "hello")
    BY <1>5 DEF Same
  <2>2. /\ Stands(p, "fork") /\ p1.pc = "term" /\ Rest(p, p1)
        /\ c1.pc = "hello" /\ c1.pending = {} /\ c1.life = p.life
        /\ c1.mask = p.mask /\ c1.action = p.action /\ c1.frames = p.frames
    BY <2>1, ForkFields
  <2> HIDE DEF p, c, p1, c1
  <2>3. /\ p.mask = All /\ p.action["USR1"] = "sigusr1_handler" /\ p.frames = <<>>
        /\ Told(Greeting, reports, 0)
    BY <1>1, <2>2 DEF lab3_plot, Stands
  <2>4. lab3_child(c1, reports')
    BY <2>1, <2>2, <2>3 DEF lab3_child, Stands
  <2>5. QED
    BY <1>1, <2>2, <2>3, <2>4 DEF lab3_plot, Rest
<1>6. ASSUME NEW l \in {"term", "usr1"}, NEW s \in {"TERM", "USR1"},
             NEW next \in {"usr1", "wait"}, KillChild(l, s, next)
      PROVE  lab3_plot(p1, c1, reports')
  <2>1. /\ Stands(p, l) /\ p1.pc = next /\ Rest(p, p1)
        /\ c1 = Raised(c, s) /\ reports' = reports
    BY <1>6, KillFields
  <2>2. Nudged(c, c1, s)
    BY <1>1, <2>1, RaisedNudges
  <2> HIDE DEF p, c, p1, c1
  <2>3. p.mask = All /\ lab3_child(c, reports)
    BY <1>1, <2>1 DEF lab3_plot, Stands
  <2>4. lab3_child(c1, reports')
    BY <2>1, <2>2, <2>3, lab3_nudged
  <2>5. QED
    BY <1>1, <2>1, <2>3, <2>4 DEF lab3_plot, Rest
<1>7. CASE Wait("wait", "exit")
  <2>1. /\ Stands(p, "wait") /\ p1.pc = "exit" /\ Rest(p, p1)
        /\ c.life = "zombie" /\ reports' = Append(reports, c.event)
        /\ c1.life = "reaped"
    BY <1>7, ReapFields DEF Wait
  <2> HIDE DEF p, c, p1, c1
  <2>2. p.mask = All /\ c.event = <<"exited", 0>> /\ Told(Greeting, reports, 3)
    BY <1>1, <2>1 DEF lab3_plot, lab3_child, Stands
  <2>3. Told(Greeting, reports', 4)
    BY <2>1, <2>2, GreetingTold
  <2>4. QED
    BY <1>1, <2>1, <2>2, <2>3 DEF lab3_plot, Rest
<1>8. CASE ParentEnds
  <2>1. Stands(p, "exit") /\ c1 = c /\ Over(p, p1, <<"exited", 0>>) /\ reports' = reports
    BY <1>8, ParentExitFields DEF ParentEnds, Same
  <2> HIDE DEF p, c, p1, c1
  <2>2. QED
    BY <1>1, <2>1 DEF lab3_plot, Over, Stands
<1>9. ASSUME c.life = "running", lab3_child(c1, reports'),
             p1 = p \/ Nudged(p, p1, "CHLD")
      PROVE  lab3_plot(p1, c1, reports')
  <2> HIDE DEF p, c, p1, c1
  <2>1. p.pc \in {"term", "usr1", "wait"} /\ p.mask = All
    BY <1>1, <1>9 DEF lab3_plot
  <2>2. QED
    BY <1>1, <1>9, <2>1 DEF lab3_plot, Nudged
<1>10. c.life = "running" => lab3_child(c, reports)
  BY <1>1 DEF lab3_plot
<1>11. CASE Go("child", "hello", "suspend") /\ Say("hello")
  <2>1. /\ Stands(c, "hello") /\ c1.pc = "suspend" /\ Rest(c, c1) /\ p1 = p
        /\ reports' = Append(reports, "hello")
    BY <1>11, GoFields, BothProcs DEF Say
  <2>2. c.life = "running" /\ c.pc = "hello" /\ lab3_child(c, reports)
    BY <1>10, <2>1 DEF Stands
  <2> HIDE DEF p, c, p1, c1
  <2>3. Told(Greeting, reports', 1)
    BY <2>1, <2>2, GreetingTold DEF lab3_child
  <2>4. lab3_child(c1, reports')
    BY <2>1, <2>2, <2>3 DEF lab3_child, Rest
  <2>5. QED
    BY <1>9, <2>1, <2>2, <2>4
<1>12. CASE Do("child", "suspend", Suspended(proc.child, SuspendMask, "world")) /\ Same
  <2>1. /\ Stands(c, "suspend") /\ c1 = Suspended(c, SuspendMask, "world") /\ p1 = p
        /\ reports' = reports
    BY <1>12, ChildDo DEF Same
  <2>2. /\ c1.pc = "sigsuspend" /\ c1.life = c.life /\ c1.pending = c.pending
        /\ c1.action = c.action /\ c1.mask = SuspendMask
        /\ c1.frames = Append(c.frames, [pc |-> "world", mask |-> c.mask])
    BY <1>1, <2>1 DEF Suspended, Fields
  <2>3. c.life = "running" /\ c.pc = "suspend" /\ lab3_child(c, reports)
    BY <1>10, <2>1 DEF Stands
  <2> HIDE DEF p, c, p1, c1
  <2>4. /\ c.mask = All /\ c.frames = <<>> /\ Told(Greeting, reports, 1)
        /\ c.action["USR1"] = "sigusr1_handler" /\ c.pending \subseteq {"INT", "TERM", "USR1"}
    BY <2>3 DEF lab3_child
  <2>5. c1.frames = <<[pc |-> "world", mask |-> All]>>
    BY <2>2, <2>4
  <2>6. /\ c1.pc = "sigsuspend" /\ c1.life = "running" /\ c1.mask = SuspendMask
        /\ c1.action["USR1"] = "sigusr1_handler" /\ c1.pending \subseteq {"INT", "TERM", "USR1"}
        /\ Told(Greeting, reports', 1)
    BY <2>1, <2>2, <2>3, <2>4
  <2>7. lab3_child(c1, reports')
    BY <2>5, <2>6 DEF lab3_child
  <2>8. QED
    BY <1>9, <2>1, <2>3, <2>7
<1>13. CASE sigusr1_handler
  <2>1. /\ Stands(c, "sigusr1_handler") /\ c1 = Returned(c) /\ p1 = p
        /\ reports' = Append(reports, "Signal Received")
    BY <1>13, ChildDo DEF sigusr1_handler, Return, Say
  <2> HIDE DEF p, c, p1, c1
  <2>2. /\ c1.pc = c.frames[Len(c.frames)].pc /\ c1.mask = c.frames[Len(c.frames)].mask
        /\ c1.life = c.life /\ c1.pending = c.pending /\ c1.action = c.action
    BY <1>1, <2>1, ReturnFields, Zenon
  <2>3. c.life = "running" /\ c.pc = "sigusr1_handler" /\ lab3_child(c, reports)
    BY <1>10, <2>1 DEF Stands
  <2>4. /\ c.frames = <<[pc |-> "world", mask |-> All]>> /\ Told(Greeting, reports, 1)
        /\ c.action["USR1"] = "sigusr1_handler" /\ c.pending \subseteq {"INT", "TERM", "USR1"}
    BY <2>3 DEF lab3_child
  <2>5. c1.pc = "world" /\ c1.mask = All
    BY <2>2, <2>4
  <2>6. Told(Greeting, reports', 2)
    BY <2>1, <2>4, GreetingTold
  <2>7. lab3_child(c1, reports')
    BY <2>2, <2>3, <2>4, <2>5, <2>6 DEF lab3_child
  <2>8. QED
    BY <1>9, <2>1, <2>3, <2>7
<1>14. CASE Go("child", "world", "end") /\ Say("world")
  <2>1. /\ Stands(c, "world") /\ c1.pc = "end" /\ Rest(c, c1) /\ p1 = p
        /\ reports' = Append(reports, "world")
    BY <1>14, GoFields, BothProcs DEF Say
  <2>2. c.life = "running" /\ c.pc = "world" /\ lab3_child(c, reports)
    BY <1>10, <2>1 DEF Stands
  <2> HIDE DEF p, c, p1, c1
  <2>3. Told(Greeting, reports', 3)
    BY <2>1, <2>2, GreetingTold DEF lab3_child
  <2>4. lab3_child(c1, reports')
    BY <2>1, <2>2, <2>3 DEF lab3_child, Rest
  <2>5. QED
    BY <1>9, <2>1, <2>2, <2>4
<1>15. CASE Exit("child", "end", 0) /\ Same
  <2>1. /\ Stands(c, "end") /\ p1 = Raised(p, "CHLD") /\ Over(c, c1, <<"exited", 0>>)
        /\ reports' = reports
    BY <1>15, ChildExitFields DEF Same
  <2>2. Nudged(p, p1, "CHLD")
    BY <1>1, <2>1, RaisedNudges
  <2>3. c.life = "running" /\ c.pc = "end" /\ lab3_child(c, reports)
    BY <1>10, <2>1 DEF Stands
  <2> HIDE DEF p, c, p1, c1
  <2>4. lab3_child(c1, reports')
    BY <2>1, <2>3 DEF lab3_child, Over
  <2>5. QED
    BY <1>9, <2>2, <2>3, <2>4
<1>16. QED
  BY <1>3, <1>4, <1>5, <1>6, <1>7, <1>8, <1>11, <1>12, <1>13, <1>14, <1>15 DEF lab3

LEMMA lab3_signalled ==
  ASSUME Sound, PlotInv, program = "lab3", program' = program,
         IsSeq(reports'), Key("INT") \/ \E x \in Procs : Deliver(x)
  PROVE  PlotInv'
<1> DEFINE p == proc["parent"]    c == proc["child"]
           p1 == proc'["parent"]  c1 == proc'["child"]
<1>1. lab3_plot(p, c, reports) /\ DOMAIN p = Fields /\ DOMAIN c = Fields
  BY ProcFields DEF PlotInv, Plot, Mild
<1>2. SUFFICES lab3_plot(p1, c1, reports')
  BY DEF PlotInv, Plot, Mild
<1>3. CASE Key("INT")
  <2>1. Nudged(p, p1, "INT") /\ Nudged(c, c1, "INT") /\ reports' = reports
    BY <1>3, KeyNudges, BothProcs
  <2> HIDE DEF p, c, p1, c1
  <2>2. lab3_child(c, reports) => lab3_child(c1, reports')
    BY <2>1, lab3_nudged
  <2>3. QED
    BY <1>1, <2>1, <2>2 DEF lab3_plot, Nudged
<1>4. CASE Deliver("parent")
  <2> DEFINE stopped(s) == [p EXCEPT !.life = "stopped", !.event = <<"stopped">>,
                                     !.pending = @ \ {s}]
  <2>1. PICK s \in Deliverable(p) :
          CASE p.action[s] = "default" /\ s \in Stops -> Tell("parent", stopped(s))
            [] p.action[s] = "default" /\ s \in IgnoredByDefault ->
                 Become("parent", [p EXCEPT !.pending = @ \ {s}])
            [] p.action[s] = "default" /\ s \notin Stops \cup IgnoredByDefault ->
                 Tell("parent", Ended(p, <<"killed", s>>))
            [] OTHER -> Become("parent", Interrupted(p, s))
    BY <1>4 DEF Deliver
  <2>2. p.life = "running" /\ reports' = reports
    BY <1>4 DEF Deliver, Same
  <2>3. p.pc = "sigprocmask" /\ s \in {"INT", "CHLD"} /\ Told(Greeting, reports, 0)
        /\ c.life = "none" /\ p.frames = <<>> /\ p.pending \subseteq {"INT", "CHLD"}
    <3> HIDE DEF p, c
    <3>1. s \in p.pending /\ s \notin p.mask /\ s \in {"INT", "CHLD"}
      BY <1>1, <2>1 DEF lab3_plot, Deliverable
    <3>2. p.mask # All
      BY <3>1 DEF All, Sigs
    <3>3. QED
      BY <1>1, <3>1, <3>2 DEF lab3_plot
  <2>4. p.action[s] = "default"
    <3>1. s \in Sigs /\ s \notin HandledBy(program)
      BY <2>3 DEF Sigs, HandledBy
    <3>2. QED
      BY <3>1, BothProcs DEF Sound, Good, Sane
  <2>5. CASE s = "INT"
    <3>1. s \notin Stops \cup IgnoredByDefault
      BY <2>5 DEF Stops, IgnoredByDefault
    <3>2. Tell("parent", Ended(p, <<"killed", s>>))
      BY <2>1, <2>4, <3>1
    <3>3. p1 = Ended(p, <<"killed", s>>) /\ c1 = c
      BY <3>2, ProcFields, BothProcs DEF Tell
    <3>4. Over(p, p1, <<"killed", s>>)
      BY <1>1, <3>3, EndedOver
    <3> HIDE DEF p, c, p1, c1
    <3>5. QED
      BY <2>2, <2>3, <3>3, <3>4 DEF lab3_plot, Over
  <2>6. CASE s = "CHLD"
    <3>1. s \in IgnoredByDefault /\ s \notin Stops
      BY <2>6 DEF Stops, IgnoredByDefault
    <3>2. Become("parent", [p EXCEPT !.pending = @ \ {s}])
      BY <2>1, <2>4, <3>1
    <3>3. p1 = [p EXCEPT !.pending = @ \ {s}] /\ c1 = c
      BY <3>2, ProcFields, BothProcs DEF Become
    <3>4. /\ p1.pc = p.pc /\ p1.life = p.life /\ p1.frames = p.frames
          /\ p1.pending = p.pending \ {s}
      BY <1>1, <3>3 DEF Fields
    <3> HIDE DEF p, c, p1, c1
    <3>5. QED
      BY <2>2, <2>3, <3>3, <3>4 DEF lab3_plot
  <2>7. QED
    BY <2>3, <2>5, <2>6
<1>5. CASE Deliver("child")
  <2>1. PICK s \in Deliverable(c) :
          c.action[s] # "default" => Become("child", Interrupted(c, s))
    BY <1>5 DEF Deliver
  <2>2. c.life = "running" /\ reports' = reports
    BY <1>5 DEF Deliver, Same
  <2>3. lab3_child(c, reports)
    BY <1>1, <2>2 DEF lab3_plot
  <2>4. s \in c.pending /\ s \notin c.mask /\ s \in {"INT", "TERM", "USR1"}
    BY <2>1, <2>3 DEF lab3_child, Deliverable
  <2>5. s \in All /\ c.mask # All
    BY <2>4 DEF All, Sigs
  <2>6. c.pc = "sigsuspend" /\ c.mask = SuspendMask
    BY <2>2, <2>3, <2>5 DEF lab3_child
  <2>7. s = "USR1"
    BY <2>4, <2>5, <2>6 DEF SuspendMask
  <2>8. /\ c.action[s] = "sigusr1_handler" /\ c.pending \subseteq {"INT", "TERM", "USR1"}
        /\ c.frames = <<[pc |-> "world", mask |-> All]>> /\ Told(Greeting, reports, 1)
    BY <2>2, <2>3, <2>6, <2>7 DEF lab3_child
  <2>9. c1 = Interrupted(c, s) /\ p1 = p
    BY <2>1, <2>8, ProcFields, BothProcs DEF Become
  <2>10. /\ c1.pc = "sigusr1_handler" /\ c1.life = c.life /\ c1.action = c.action
         /\ c1.frames = c.frames /\ c1.pending = c.pending \ {s}
         /\ c1.mask = c.mask \cup samask[s] \cup {s}
    BY <1>1, <2>6, <2>8, <2>9 DEF Interrupted, Fields
  <2>11. samask[s] \subseteq All
    BY <2>7 DEF Sound, Sigs
  <2>12. c1.mask = All
    BY <2>5, <2>6, <2>7, <2>10, <2>11 DEF SuspendMask
  <2> HIDE DEF p, c, p1, c1
  <2>13. lab3_child(c1, reports')
    BY <2>2, <2>7, <2>8, <2>10, <2>12 DEF lab3_child
  <2>14. QED
    BY <1>1, <2>2, <2>9, <2>13 DEF lab3_plot
<1>6. QED
  BY <1>3, <1>4, <1>5 DEF Procs

LEMMA RaisedLife ==
  ASSUME NEW r, DOMAIN r = Fields, NEW s
  PROVE  LET q == Raised(r, s)
         IN  /\ q.mem = r.mem /\ q.action = r.action
             /\ q.pending \subseteq r.pending \cup {s}
             /\ q.life = r.life \/ (r.life = "stopped" /\ q.life = "running")
             /\ q.life = "zombie" => q.event = r.event
BY DEF Raised, Lives, Fields

LEMMA sighand3_raised ==
  ASSUME NEW r, DOMAIN r = Fields, sighand3_child(r),
         NEW s \in {"INT", "TERM", "STOP"}
  PROVE  sighand3_child(Raised(r, s))
<1> DEFINE q == Raised(r, s)
<1>1. Nudged(r, q, s)
  BY RaisedNudges
<1> HIDE DEF q
<1>2. sighand3_child(q)
  BY <1>1 DEF sighand3_child, Nudged
<1>3. QED
  BY <1>2 DEF q

LEMMA sighand3_continued ==
  ASSUME NEW r, DOMAIN r = Fields, sighand3_child(r)
  PROVE  sighand3_child(Raised(r, "CONT"))
<1> DEFINE q == Raised(r, "CONT")
<1>1. /\ q.mem = r.mem /\ q.action = r.action
      /\ q.life = r.life \/ (r.life = "stopped" /\ q.life = "running")
      /\ q.life = "zombie" => q.event = r.event
  BY RaisedLife
<1>2. q.pending \subseteq r.pending
  BY DEF Raised, Fields
<1> HIDE DEF q
<1>3. sighand3_child(q)
  BY <1>1, <1>2 DEF sighand3_child
<1>4. QED
  BY <1>3 DEF q

(* What the parent knows stays true while it moves on outside its handler. *)
LEMMA sighand3_moves ==
  ASSUME NEW p, NEW p1, NEW l, NEW reps, Handled(p), sighand3_parent(p, l, reps),
         p.pc \notin {"sigaction", "fork", "exit", "sigint_handler"},
         p1.pc \notin {"sigaction", "fork", "sigint_handler", "sigsuspend"},
         p1.frames = p.frames, NEW l1
  PROVE  Handled(p1) /\ sighand3_parent(p1, l1, reps) /\ reps = <<>>
<1>1. p1.frames = <<>>
  BY DEF Handled
<1>2. Places(p1) = {p1.pc} /\ p.pc \in Places(p)
  BY <1>1 DEF Places, FramePcs
<1>3. reps = <<>>
  BY <1>2 DEF sighand3_parent
<1>4. QED
  BY <1>1, <1>2, <1>3 DEF Handled, sighand3_parent

LEMMA sighand3_still ==
  ASSUME NEW p, NEW p1, NEW l, NEW l1, NEW reps, Handled(p), sighand3_parent(p, l, reps),
         p1.pc = p.pc, p1.frames = p.frames, p1.mem = p.mem, p1.action = p.action,
         l = "none" => l1 = "none"
  PROVE  Handled(p1) /\ sighand3_parent(p1, l1, reps)
BY DEF Handled, sighand3_parent, Places, FramePcs

LEMMA sighand3_goes ==
  ASSUME Sound, PlotInv, program = "sighand3", program' = program,
         IsSeq(reports'), sighand3
  PROVE  PlotInv'
<1> DEFINE p == proc["parent"]    c == proc["child"]
           p1 == proc'["parent"]  c1 == proc'["child"]
<1>1. /\ Handled(p) /\ sighand3_child(c) /\ sighand3_parent(p, c.life, reports)
      /\ DOMAIN p = Fields /\ DOMAIN c = Fields
      /\ Sane(program, samask, p) /\ Fits(program, p, p.pc)
  BY ProcFields, BothProcs DEF PlotInv, Plot, Mild, sighand3_plot, Sound, Good
<1>2. SUFFICES /\ Handled(p1) /\ sighand3_child(c1)
               /\ sighand3_parent(p1, c1.life, reports')
  BY DEF PlotInv, Plot, Mild, sighand3_plot
<1>3. CASE SigAction("parent", "sigaction", "INT", "sigint_handler", "fork")
  <2>1. /\ Stands(p, "sigaction") /\ p1.pc = "fork" /\ p1.mem = p.mem
        /\ p1.frames = p.frames
        /\ p1.action["INT"] = "sigint_handler" /\ c1 = c /\ reports' = reports
    BY <1>3, SigActionFields, BothProcs DEF Sigs
  <2> HIDE DEF p, c, p1, c1
  <2>2. p.pc = "sigaction" /\ p.frames = <<>> /\ p.pc \in Places(p)
    BY <1>1, <2>1 DEF Stands, Handled, Places
  <2>3. c.life = "none" /\ p.mem = 0 /\ reports = <<>>
    BY <1>1, <2>2 DEF sighand3_parent
  <2>4. Handled(p1) /\ sighand3_parent(p1, c1.life, reports')
    BY <2>1, <2>2, <2>3 DEF Handled, sighand3_parent
  <2>5. QED
    BY <1>1, <2>1, <2>4
<1>4. CASE Fork("fork", "cpid", "loop") /\ Same
  <2>1. reports' = reports /\ Fork("fork", "cpid", "loop")
    BY <1>4 DEF Same
  <2>2. /\ Stands(p, "fork") /\ p1.pc = "cpid" /\ Rest(p, p1)
        /\ c1.pending = {} /\ c1.life = p.life /\ c1.mem = p.mem
        /\ c1.action = p.action
    BY <2>1, ForkFields
  <2> HIDE DEF p, c, p1, c1
  <2>3. p.pc = "fork" /\ p.frames = <<>> /\ p.pc \in Places(p) /\ p.life = "running"
    BY <1>1, <2>2 DEF Stands, Handled, Places
  <2>4. p.mem = 0 /\ p.action["INT"] = "sigint_handler" /\ reports = <<>>
    BY <1>1, <2>3 DEF sighand3_parent
  <2>5. p1.frames = <<>> /\ Places(p1) = {"cpid"}
    BY <2>2, <2>3 DEF Rest, Places, FramePcs
  <2>6. Handled(p1) /\ sighand3_parent(p1, c1.life, reports')
    BY <2>1, <2>2, <2>4, <2>5 DEF Handled, sighand3_parent
  <2>7. sighand3_child(c1)
    BY <2>2, <2>3, <2>4 DEF sighand3_child
  <2>8. QED
    BY <2>6, <2>7
<1>5. CASE Do("parent", "cpid", Moved(Storing(proc.parent, 1), "stop")) /\ Same
  <2>1. /\ Stands(p, "cpid") /\ p1 = Moved(Storing(p, 1), "stop")
        /\ c1 = c /\ reports' = reports
    BY <1>5, ParentDo DEF Same
  <2>2. p1.pc = "stop" /\ p1.frames = p.frames
    BY <1>1, <2>1 DEF Moved, Storing, Fields
  <2> HIDE DEF p, c, p1, c1
  <2>3. Handled(p1) /\ sighand3_parent(p1, c1.life, reports')
    BY <1>1, <2>1, <2>2, sighand3_moves DEF Stands
  <2>4. QED
    BY <1>1, <2>1, <2>3
<1>6. ASSUME NEW l \in {"stop", "cont", "term"}, NEW s \in {"STOP", "CONT", "TERM"},
             NEW next \in {"cont", "term", "wait"}, KillChild(l, s, next)
      PROVE  /\ Handled(p1) /\ sighand3_child(c1)
             /\ sighand3_parent(p1, c1.life, reports')
  <2>1. /\ Stands(p, l) /\ p1.pc = next /\ Rest(p, p1)
        /\ c1 = Raised(c, s) /\ reports' = reports
    BY <1>6, KillFields
  <2>2. sighand3_child(c1)
    BY <1>1, <2>1, sighand3_raised, sighand3_continued
  <2> HIDE DEF p, c, p1, c1
  <2>3. Handled(p1) /\ sighand3_parent(p1, c1.life, reports')
    BY <1>1, <2>1, sighand3_moves DEF Stands, Rest
  <2>4. QED
    BY <2>2, <2>3
<1>7. CASE Wait("wait", "exit")
  <2>1. /\ Stands(p, "wait") /\ p1.pc = "exit" /\ Rest(p, p1)
        /\ c.life = "zombie" /\ reports' = Append(reports, c.event)
        /\ c1.life = "reaped"
    BY <1>7, ReapFields DEF Wait
  <2> HIDE DEF p, c, p1, c1
  <2>2. reports = <<>> /\ Handled(p1) /\ p1.frames = <<>>
    BY <1>1, <2>1, sighand3_moves DEF Stands, Rest, Handled
  <2>3. c.event \in Outcomes
    BY <1>1, <2>1 DEF sighand3_child
  <2>4. reports' = <<c.event>> /\ Places(p1) = {"exit"}
    BY <2>1, <2>2 DEF Places, FramePcs
  <2>5. sighand3_parent(p1, c1.life, reports')
    BY <2>3, <2>4 DEF sighand3_parent
  <2>6. QED
    BY <2>1, <2>2, <2>5 DEF sighand3_child
<1>8. ASSUME NEW l, NEW code, Exit("parent", l, code), Same
      PROVE  /\ Handled(p1) /\ sighand3_child(c1)
             /\ sighand3_parent(p1, c1.life, reports')
  <2>1. Stands(p, l) /\ c1 = c /\ Over(p, p1, <<"exited", code>>) /\ reports' = reports
    BY <1>8, ParentExitFields DEF Same
  <2> HIDE DEF p, c, p1, c1
  <2>2. Handled(p1) /\ sighand3_parent(p1, c1.life, reports')
    BY <1>1, <2>1, sighand3_still DEF Over
  <2>3. QED
    BY <1>1, <2>1, <2>2
<1>9. CASE /\ proc["parent"].mem # 0 /\ Return("parent", "sigint_handler") /\ Same
  <2>1. /\ Stands(p, "sigint_handler") /\ p1 = Returned(p) /\ c1 = c
        /\ reports' = reports
    BY <1>9, ParentDo DEF Return, Same
  <2>2. Len(p.frames) = 1 /\ IsSeq(p.frames) /\ p.frames # <<>>
    BY <1>1, <2>1 DEF Stands, Handled, Sane
  <2>3. /\ p1.pc \in FramePcs(p) /\ p1.mem = p.mem /\ p1.action = p.action
        /\ FramePcs(p1) \subseteq FramePcs(p)
    BY <1>1, <2>1, <2>2, ReturnedAll
  <2>4. p1.frames = SubSeq(p.frames, 1, Len(p.frames) - 1)
    BY <1>1, <2>1, ReturnFields
  <2>5. p1.frames = <<>>
    BY <2>2, <2>4 DEF IsSeq
  <2>6. p1.pc \notin {"sigint_handler", "sigsuspend"}
    BY <1>1, <2>3 DEF Sane, FramePcs, GoodFrame, Critical
  <2> HIDE DEF p, c, p1, c1
  <2>7. Places(p1) \subseteq Places(p)
    BY <2>3 DEF Places
  <2>8. Places(p) \cap {"sigaction", "fork"} = {}
    BY <1>1, <1>9 DEF sighand3_parent, p
  <2>9. Handled(p1) /\ sighand3_parent(p1, c1.life, reports')
    BY <1>1, <2>1, <2>5, <2>6, <2>7, <2>8 DEF Handled, sighand3_parent
  <2>10. QED
    BY <1>1, <2>1, <2>9
<1>10. CASE sigint_handler("child")
  <2>1. Stands(c, "sigint_handler") /\ reports' = reports
    BY <1>10, ProcFields DEF sigint_handler, Exit, Return, Do, At, Stands, Same
  <2>2. c.mem = 0
    BY <1>1, <2>1 DEF sighand3_child, Stands
  <2>3. Exit("child", "sigint_handler", 33)
    BY <1>10, <2>2 DEF sigint_handler
  <2>4. p1 = Raised(p, "CHLD") /\ Over(c, c1, <<"exited", 33>>)
    BY <2>3, ChildExitFields
  <2>5. Nudged(p, p1, "CHLD")
    BY <1>1, <2>4, RaisedNudges
  <2> HIDE DEF p, c, p1, c1
  <2>6. sighand3_child(c1)
    BY <1>1, <2>1, <2>4 DEF sighand3_child, Over, Outcomes, Stands
  <2>7. Handled(p1) /\ sighand3_parent(p1, c1.life, reports')
    BY <1>1, <2>1, <2>5, sighand3_still DEF Nudged, Stands
  <2>8. QED
    BY <2>6, <2>7
<1>11. sigint_handler("parent") =>
         \/ Exit("parent", "sigint_handler", 33) /\ Same
         \/ proc["parent"].mem # 0 /\ Return("parent", "sigint_handler") /\ Same
  BY DEF sigint_handler
<1>12. QED
  BY <1>3, <1>4, <1>5, <1>6, <1>7, <1>8, <1>9, <1>10, <1>11
  DEF sighand3, ParentEnds, Procs

LEMMA sighand3_caught ==
  ASSUME Sound, program = "sighand3", NEW r, Good(program, samask, r), Handled(r),
         NEW s \in r.pending, s \notin r.mask, r.action[s] # "default",
         NEW l, NEW reps, sighand3_parent(r, l, reps)
  PROVE  LET q == Interrupted(r, s)
         IN  /\ Handled(q) /\ sighand3_parent(q, l, reps)
             /\ q.life = r.life /\ q.mem = r.mem /\ q.action = r.action
<1> DEFINE q == Interrupted(r, s)
<1>1. Sane(program, samask, r) /\ DOMAIN r = Fields /\ s \in Sigs /\ IsSeq(r.frames)
  BY DEF Good, Sane
<1>2. HandlersOf(program) = {"sigint_handler"} /\ HandledBy(program) = {"INT"}
  BY DEF HandlersOf, HandledBy
<1>3. s = "INT" /\ r.action[s] = "sigint_handler"
  BY <1>1, <1>2 DEF Sane
<1>4. r.pc # "sigint_handler"
  BY <1>2, <1>3 DEF Good, Fits, BlockedIn, Critical
<1>5. r.frames = <<>> /\ r.pc # "sigsuspend"
  BY <1>4 DEF Handled
<1>6. /\ q.pc = "sigint_handler" /\ q.life = r.life /\ q.mem = r.mem
      /\ q.action = r.action /\ q.frames = Append(r.frames, [pc |-> r.pc, mask |-> r.mask])
  BY <1>1, <1>3, <1>5 DEF Interrupted, Fields
<1> HIDE DEF q
<1>7. FramePcs(q) = FramePcs(r) \cup {r.pc}
  BY <1>1, <1>6, FramesPushed
<1>8. Places(q) = Places(r) \cup {"sigint_handler"}
  BY <1>6, <1>7 DEF Places
<1>9. Len(q.frames) = 1
  BY <1>5, <1>6
<1>10. Handled(q) /\ sighand3_parent(q, l, reps)
  BY <1>6, <1>8, <1>9 DEF Handled, sighand3_parent
<1>11. QED
  BY <1>6, <1>10 DEF q

LEMMA sighand3_signalled ==
  ASSUME Sound, PlotInv, program = "sighand3", program' = program,
         IsSeq(reports'), Key("INT") \/ \E x \in Procs : Deliver(x)
  PROVE  PlotInv'
<1> DEFINE p == proc["parent"]    c == proc["child"]
           p1 == proc'["parent"]  c1 == proc'["child"]
<1>1. /\ Handled(p) /\ sighand3_child(c) /\ sighand3_parent(p, c.life, reports)
      /\ DOMAIN p = Fields /\ DOMAIN c = Fields
      /\ Good(program, samask, p) /\ Good(program, samask, c)
  BY ProcFields, BothProcs DEF PlotInv, Plot, Mild, sighand3_plot, Sound
<1>2. SUFFICES /\ Handled(p1) /\ sighand3_child(c1)
               /\ sighand3_parent(p1, c1.life, reports')
  BY DEF PlotInv, Plot, Mild, sighand3_plot
<1>3. CASE Key("INT")
  <2>1. Nudged(p, p1, "INT") /\ Nudged(c, c1, "INT") /\ reports' = reports
    BY <1>3, KeyNudges, BothProcs
  <2> HIDE DEF p, c, p1, c1
  <2>2. sighand3_child(c1)
    BY <1>1, <2>1 DEF sighand3_child, Nudged
  <2>3. Handled(p1) /\ sighand3_parent(p1, c1.life, reports')
    BY <1>1, <2>1, sighand3_still DEF Nudged
  <2>4. QED
    BY <2>2, <2>3
<1>4. CASE Deliver("parent")
  <2> DEFINE stopped(s) == [p EXCEPT !.life = "stopped", !.event = <<"stopped">>,
                                     !.pending = @ \ {s}]
  <2>1. PICK s \in Deliverable(p) :
          CASE p.action[s] = "default" /\ s \in Stops -> Tell("parent", stopped(s))
            [] p.action[s] = "default" /\ s \in IgnoredByDefault ->
                 Become("parent", [p EXCEPT !.pending = @ \ {s}])
            [] p.action[s] = "default" /\ s \notin Stops \cup IgnoredByDefault ->
                 Tell("parent", Ended(p, <<"killed", s>>))
            [] OTHER -> Become("parent", Interrupted(p, s))
    BY <1>4 DEF Deliver
  <2>2. reports' = reports
    BY <1>4 DEF Deliver, Same
  <2>3. Stops \cap IgnoredByDefault = {}
    BY DEF Stops, IgnoredByDefault
  <2>4. \/ /\ p.action[s] # "default" /\ Become("parent", Interrupted(p, s))
        \/ Become("parent", stopped(s))
        \/ Become("parent", [p EXCEPT !.pending = @ \ {s}])
        \/ Become("parent", Ended(p, <<"killed", s>>))
    BY <2>1, <2>3, BothProcs DEF Tell, Become
  <2>5. CASE p.action[s] # "default" /\ Become("parent", Interrupted(p, s))
    <3>1. p1 = Interrupted(p, s) /\ c1 = c
      BY <2>5, ProcFields, BothProcs DEF Become
    <3>2. s \in p.pending /\ s \notin p.mask
      BY DEF Deliverable
    <3> HIDE DEF p, c, p1, c1
    <3>3. QED
      BY <1>1, <2>2, <2>5, <3>1, <3>2, sighand3_caught
  <2>6. ASSUME NEW q, Become("parent", q), q.pc = p.pc, q.frames = p.frames,
               q.mem = p.mem, q.action = p.action
        PROVE  /\ Handled(p1) /\ sighand3_child(c1)
               /\ sighand3_parent(p1, c1.life, reports')
    <3>1. p1 = q /\ c1 = c
      BY <2>6, ProcFields, BothProcs DEF Become
    <3> HIDE DEF p, c, p1, c1
    <3>2. Handled(p1) /\ sighand3_parent(p1, c1.life, reports')
      BY <1>1, <2>2, <2>6, <3>1, sighand3_still
    <3>3. QED
      BY <1>1, <3>1, <3>2
  <2>7. CASE Become("parent", stopped(s))
    <3>1. /\ stopped(s).pc = p.pc /\ stopped(s).frames = p.frames
          /\ stopped(s).mem = p.mem /\ stopped(s).action = p.action
      BY <1>1 DEF Fields
    <3>2. QED
      BY <2>6, <2>7, <3>1
  <2>8. CASE Become("parent", [p EXCEPT !.pending = @ \ {s}])
    <3> DEFINE q == [p EXCEPT !.pending = @ \ {s}]
    <3>1. q.pc = p.pc /\ q.frames = p.frames /\ q.mem = p.mem /\ q.action = p.action
      BY <1>1 DEF Fields
    <3>2. QED
      BY <2>6, <2>8, <3>1
  <2>9. CASE Become("parent", Ended(p, <<"killed", s>>))
    BY <1>1, <2>6, <2>9, EndedOver DEF Over
  <2>10. QED
    BY <2>4, <2>5, <2>7, <2>8, <2>9
<1>5. CASE Deliver("child")
  <2> DEFINE stopped(s) == [c EXCEPT !.life = "stopped", !.event = <<"stopped">>,
                                     !.pending = @ \ {s}]
  <2>1. PICK s \in Deliverable(c) :
          CASE c.action[s] = "default" /\ s \in Stops -> Tell("child", stopped(s))
            [] c.action[s] = "default" /\ s \in IgnoredByDefault ->
                 Become("child", [c EXCEPT !.pending = @ \ {s}])
            [] c.action[s] = "default" /\ s \notin Stops \cup IgnoredByDefault ->
                 Tell("child", Ended(c, <<"killed", s>>))
            [] OTHER -> Become("child", Interrupted(c, s))
    BY <1>5 DEF Deliver
  <2>2. reports' = reports /\ c.life = "running"
    BY <1>5 DEF Deliver, Same
  <2>3. /\ s \in {"INT", "TERM", "STOP"} /\ c.action["INT"] = "sigint_handler"
        /\ c.mem = 0 /\ c.pending \subseteq {"INT", "TERM", "STOP"}
    BY <1>1, <2>2 DEF sighand3_child, Deliverable
  <2>4. s # "INT" => c.action[s] = "default"
    <3>1. s # "INT" => s \in Sigs /\ s \notin HandledBy(program)
      BY <2>3 DEF HandledBy, Sigs
    <3>2. QED
      BY <1>1, <3>1 DEF Good, Sane
  <2>5. ASSUME sighand3_child(c1), Nudged(p, p1, "CHLD") \/ p1 = p, c1.life # "none"
        PROVE  /\ Handled(p1) /\ sighand3_child(c1)
               /\ sighand3_parent(p1, c1.life, reports')
    <3> HIDE DEF p, c, p1, c1
    <3>1. Handled(p1) /\ sighand3_parent(p1, c1.life, reports')
      BY <1>1, <2>2, <2>5, sighand3_still DEF Nudged
    <3>2. QED
      BY <2>5, <3>1
  <2>6. CASE s = "INT"
    <3>1. Become("child", Interrupted(c, s))
      BY <2>1, <2>3, <2>6
    <3>2. c1 = Interrupted(c, s) /\ p1 = p
      BY <3>1, ProcFields, BothProcs DEF Become
    <3>3. /\ c1.life = c.life /\ c1.mem = c.mem /\ c1.action = c.action
          /\ c1.pending = c.pending \ {s}
      BY <1>1, <3>2 DEF Interrupted, Fields
    <3>4. sighand3_child(c1)
      BY <2>2, <2>3, <3>3 DEF sighand3_child
    <3>5. QED
      BY <2>2, <2>5, <3>2, <3>3, <3>4
  <2>7. CASE s = "TERM"
    <3>1. s \notin Stops \cup IgnoredByDefault
      BY <2>7 DEF Stops, IgnoredByDefault
    <3>2. Tell("child", Ended(c, <<"killed", s>>))
      BY <2>1, <2>4, <2>7, <3>1
    <3>3. c1 = Ended(c, <<"killed", s>>) /\ Nudged(p, p1, "CHLD")
      BY <3>2, ParentTold
    <3>4. Over(c, c1, <<"killed", "TERM">>)
      BY <1>1, <2>7, <3>3, EndedOver
    <3>5. sighand3_child(c1) /\ c1.life # "none"
      BY <2>3, <3>4 DEF sighand3_child, Over, Outcomes
    <3>6. QED
      BY <2>5, <3>3, <3>5
  <2>8. CASE s = "STOP"
    <3>1. s \in Stops /\ s \notin IgnoredByDefault
      BY <2>8 DEF Stops, IgnoredByDefault
    <3>2. Tell("child", stopped(s))
      BY <2>1, <2>4, <2>8, <3>1
    <3>3. c1 = stopped(s) /\ Nudged(p, p1, "CHLD")
      BY <3>2, ParentTold
    <3>4. /\ c1.life = "stopped" /\ c1.mem = c.mem /\ c1.action = c.action
          /\ c1.pending = c.pending \ {s}
      BY <1>1, <3>3 DEF Fields
    <3>5. sighand3_child(c1)
      BY <2>3, <3>4 DEF sighand3_child
    <3>6. QED
      BY <2>5, <3>3, <3>4, <3>5
  <2>9. QED
    BY <2>3, <2>6, <2>7, <2>8
<1>6. QED
  BY <1>3, <1>4, <1>5 DEF Procs

----------------------------------------------------------------------------
Plotted == Mild \cup {"lab3", "sighand3"}

LEMMA PlotStep == Sound /\ PlotInv /\ [SignalProgramsNext]_signalVars => PlotInv'
<1> SUFFICES ASSUME Sound, PlotInv, [SignalProgramsNext]_signalVars PROVE PlotInv'
  OBVIOUS
<1>1. IsSeq(reports')
  BY StillSeq DEF PlotInv, Plot
<1>2. CASE UNCHANGED signalVars
  <2>1. program' = program /\ proc' = proc /\ reports' = reports
    BY <1>2 DEF signalVars, kernelVars
  <2>2. QED
    BY <2>1 DEF PlotInv
<1>3. ASSUME SignalProgramsNext PROVE program' = program
  BY <1>3 DEF SignalProgramsNext, SignalSteps, StartStopRuns, OtherRuns, Fixed
<1>4. CASE program \notin Plotted /\ SignalProgramsNext
  BY <1>1, <1>3, <1>4 DEF PlotInv, Plot, Plotted, Mild
<1>5. CASE program \in Plotted /\ SignalProgramsNext
  <2>1. program \in {"fork_wait", "fork1", "fork2", "fork3", "fork4", "lab2", "lab3",
                     "sighand3"}
    BY <1>5 DEF Plotted, Mild
  <2>2. \/ ForkWaitStep \/ ParentChildStep \/ \E x \in Procs : Deliver(x)
        \/ program \in {"lab3", "sighand3"} /\ Key("INT")
    BY <1>5, <2>1 DEF SignalProgramsNext, SignalSteps, StartStopRuns, OtherRuns,
                      SelfStep, CtrlC, Keys
  <2>3. CASE program \in Mild
    BY <1>1, <1>3, <1>5, <2>2, <2>3, fork_wait_goes, fork1_goes, fork2_goes, fork3_goes,
       fork4_goes, lab2_goes DEF Mild, ForkWaitStep, ParentChildStep
  <2>4. CASE program = "lab3"
    BY <1>1, <1>3, <1>5, <2>2, <2>4, lab3_goes, lab3_signalled
    DEF ForkWaitStep, ParentChildStep
  <2>5. CASE program = "sighand3"
    BY <1>1, <1>3, <1>5, <2>2, <2>5, sighand3_goes, sighand3_signalled
    DEF ForkWaitStep, ParentChildStep
  <2>6. QED
    BY <2>1, <2>3, <2>4, <2>5 DEF Mild
<1>6. QED
  BY <1>2, <1>4, <1>5

LEMMA PlotAtStart == SignalProgramsInit => PlotInv
<1> SUFFICES ASSUME SignalProgramsInit PROVE PlotInv
  OBVIOUS
<1> DEFINE p == proc["parent"]  c == proc["child"]
<1>1. reports = <<>>
  BY DEF SignalProgramsInit, StartStopInit, ForkWaitInit, ParentChildInit, SelfInit,
         SignalsInit
<1>2. IsSeq(reports)
  BY <1>1 DEF IsSeq
<1>3. /\ Told(HangUp, reports, 0) /\ Told(Alarmed, reports, 0) /\ Told(Logged, reports, 0)
      /\ Told(Zombie, reports, 0) /\ Told(Greeting, reports, 0)
      /\ \A n : Told(Fibs(n), reports, 0)
  BY <1>1, HangUpTold, AlarmedTold, LoggedTold, ZombieTold, GreetingTold, FibsTold
<1>4. ASSUME NEW l, NEW n, SignalsInit(l, n)
      PROVE  /\ p.life = "running" /\ p.pc = l /\ p.mask = {} /\ p.pending = {}
             /\ p.frames = <<>> /\ p.event = <<>> /\ p.mem = n
             /\ c.life = "none" /\ c.mask = {}
  BY <1>4, BothProcs DEF SignalsInit, Started
<1>5. CASE program \notin Plotted
  BY <1>2, <1>5 DEF PlotInv, Plot, Plotted, Mild
<1>6. CASE program \in Mild
  <2>1. ForkWaitInit
    BY <1>6 DEF SignalProgramsInit, StartStopInit, ParentChildInit, SelfInit, Mild
  <2>2. PICK l, n :
          /\ SignalsInit(l, n)
          /\ program \in {"fork_wait", "fork1", "fork3", "fork4"} => l = "fork"
          /\ program = "fork2" => l = "open" /\ n = 100
          /\ program = "lab2" => l \in {"usage", "fork"} /\ n \in {0, 5}
    <3>1. CASE program \in {"fork_wait", "fork1", "fork3", "fork4"}
      BY <2>1, <3>1 DEF ForkWaitInit
    <3>2. CASE program = "fork2"
      BY <2>1, <3>2 DEF ForkWaitInit
    <3>3. CASE program = "lab2"
      BY <2>1, <3>3 DEF ForkWaitInit
    <3>4. QED
      BY <1>6, <3>1, <3>2, <3>3 DEF Mild
  <2>3. /\ p.life = "running" /\ p.pc = l /\ p.mask = {} /\ p.pending = {}
        /\ p.event = <<>> /\ p.mem = n /\ c.life = "none" /\ c.mask = {}
    BY <1>4, <2>2
  <2> HIDE DEF p, c
  <2>4. Undisturbed(p, c)
    BY <2>3 DEF Undisturbed
  <2>5. /\ program = "fork_wait" => fork_wait_plot(p, c, reports)
        /\ program = "fork1" => fork1_plot(p, c, reports)
        /\ program = "fork3" => fork3_plot(p, c, reports)
        /\ program = "fork4" => fork4_plot(p, c, reports)
    BY <1>1, <1>3, <2>2, <2>3 DEF fork_wait_plot, fork1_plot, fork3_plot, fork4_plot
  <2>6. program = "fork2" => fork2_plot(p, c, reports)
    BY <1>3, <2>2, <2>3 DEF fork2_plot
  <2>7. program = "lab2" => lab2_plot(p, c, reports)
    BY <1>3, <2>2, <2>3 DEF lab2_plot
  <2>8. QED
    BY <1>2, <1>6, <2>4, <2>5, <2>6, <2>7 DEF PlotInv, Plot, Mild, p, c
<1>7. CASE program \in {"lab3", "sighand3"}
  <2>1. PICK l : /\ SignalsInit(l, 0)
                 /\ program = "lab3" => l = "sigprocmask"
                 /\ program = "sighand3" => l = "sigaction"
    BY <1>7 DEF SignalProgramsInit, StartStopInit, ForkWaitInit, SelfInit, ParentChildInit
  <2>2. /\ p.life = "running" /\ p.pc = l /\ p.pending = {} /\ p.frames = <<>>
        /\ p.mem = 0 /\ c.life = "none"
    BY <1>4, <2>1
  <2> HIDE DEF p, c
  <2>3. program = "lab3" => lab3_plot(p, c, reports)
    BY <1>3, <2>1, <2>2 DEF lab3_plot
  <2>4. FramePcs(p) = {}
    BY <2>2 DEF FramePcs
  <2>5. program = "sighand3" => sighand3_plot(p, c, reports)
    BY <1>1, <2>1, <2>2, <2>4
    DEF sighand3_plot, Handled, sighand3_child, sighand3_parent, Places
  <2>6. QED
    BY <1>2, <1>7, <2>3, <2>5 DEF PlotInv, Plot, Mild, p, c
<1>8. QED
  BY <1>5, <1>6, <1>7 DEF Plotted

LEMMA AlwaysPlotInv == SignalProgramsSpec => []PlotInv
<1>1. SignalProgramsInit => PlotInv
  BY PlotAtStart
<1>2. Sound /\ PlotInv /\ [SignalProgramsNext]_signalVars => PlotInv'
  BY PlotStep
<1>3. QED
  BY <1>1, <1>2, AlwaysSound, PTL DEF SignalProgramsSpec

LEMMA PlotReports == PlotInv => WaitReports
<1> SUFFICES ASSUME PlotInv PROVE WaitReports
  OBVIOUS
<1> DEFINE p == proc["parent"]  c == proc["child"]
<1>1. SUFFICES \E e \in Expected : IsSeq(e) /\ \E k : Told(e, reports, k)
  BY ToldIsPrefix DEF WaitReports
<1>2. Plot(program, p, c, reports)
  BY DEF PlotInv
<1> HIDE DEF c
<1>3. CASE program = "fork_wait"
  <2>1. Expected = {HangUp}
    BY <1>3 DEF Expected, HangUp
  <2>2. IsSeq(HangUp)
    BY SeqOfTold DEF HangUp
  <2>3. \E k : Told(HangUp, reports, k)
    BY <1>2, <1>3 DEF Plot, fork_wait_plot
  <2>4. QED
    BY <2>1, <2>2, <2>3
<1>4. CASE program = "fork1"
  <2>1. Expected = {Alarmed}
    BY <1>4 DEF Expected, Alarmed
  <2>2. IsSeq(Alarmed)
    BY SeqOfTold DEF Alarmed
  <2>3. \E k : Told(Alarmed, reports, k)
    BY <1>2, <1>4 DEF Plot, fork1_plot
  <2>4. QED
    BY <2>1, <2>2, <2>3
<1>5. CASE program = "fork2"
  <2>1. Expected = {Logged}
    <3>1. Expected = {<<<<"before", 100>>, <<"child", 100>>, <<"child", 15>>,
                        <<"killed", "ALRM">>, <<"parent", 100>>>>}
      BY <1>5 DEF Expected
    <3>2. QED
      BY <3>1, Zenon DEF Logged
  <2>2. IsSeq(Logged)
    BY LoggedIsSeq
  <2>3. \E k : Told(Logged, reports, k)
    BY <1>2, <1>5 DEF Plot, fork2_plot
  <2>4. QED
    BY <2>1, <2>2, <2>3
<1>6. CASE program = "fork3"
  <2>1. Expected = {Zombie}
    BY <1>6 DEF Expected, Zombie
  <2>2. IsSeq(Zombie)
    BY SeqOfTold DEF Zombie
  <2>3. \E k : Told(Zombie, reports, k)
    BY <1>2, <1>6 DEF Plot, fork3_plot
  <2>4. QED
    BY <2>1, <2>2, <2>3
<1>7. CASE program = "fork4"
  <2> DEFINE both == {"parent", "init"}
  <2>1. Expected = {<<a, b>> : a \in both, b \in both} \ {<<"init", "parent">>}
    BY <1>7 DEF Expected
  <2>2. <<"parent", "parent">> \in Expected /\ <<"parent", "init">> \in Expected
        /\ <<"init", "init">> \in Expected
    BY <2>1
  <2>3. \/ reports = <<>> \/ \E a \in both : reports = <<a>>
        \/ \E a, b \in both : (a = "init" => b = "init") /\ reports = <<a, b>>
    BY <1>2, <1>7 DEF Plot, fork4_plot
  <2>4. \A a, b : /\ IsSeq(<<a, b>>) /\ Told(<<a, b>>, <<>>, 0)
                  /\ Told(<<a, b>>, <<a>>, 1) /\ Told(<<a, b>>, <<a, b>>, 2)
    <3> TAKE a, b
    <3>1. IsSeq(<<a, b>>)
      BY SeqOfTold
    <3>2. Told(<<a, b>>, <<>>, 0)
      BY <3>1, ToldNothing
    <3>3. Told(<<a, b>>, Append(<<>>, a), 1)
      <4>1. Len(<<a, b>>) = 2 /\ <<a, b>>[1] = a
        OBVIOUS
      <4>2. QED
        BY <3>1, <3>2, <4>1, ToldOneMore, 0 + 1 = 1, 0 < 2
    <3>4. Append(<<>>, a) = <<a>>
      OBVIOUS
    <3>5. Told(<<a, b>>, Append(<<a>>, b), 2)
      <4>1. Len(<<a, b>>) = 2 /\ <<a, b>>[2] = b
        OBVIOUS
      <4>2. QED
        BY <3>1, <3>3, <3>4, <4>1, ToldOneMore, 1 + 1 = 2, 1 < 2
    <3>6. QED
      BY <3>1, <3>2, <3>3, <3>4, <3>5, AppendPair
  <2>5. CASE reports = <<>>
    BY <2>2, <2>4, <2>5
  <2>6. CASE \E a \in both : reports = <<a>>
    <3>1. PICK a \in both : reports = <<a>>
      BY <2>6
    <3>2. <<a, "init">> \in Expected
      BY <2>2, <3>1
    <3>3. QED
      BY <2>4, <3>1, <3>2
  <2>7. CASE \E a, b \in both : (a = "init" => b = "init") /\ reports = <<a, b>>
    <3>1. PICK a \in both, b \in both : (a = "init" => b = "init") /\ reports = <<a, b>>
      BY <2>7
    <3>2. <<a, b>> \in Expected
      BY <2>2, <3>1
    <3>3. QED
      BY <2>4, <3>1, <3>2
  <2>8. QED
    BY <2>3, <2>5, <2>6, <2>7
<1>8. CASE program = "lab2"
  <2>1. Expected = {Fibs(p.mem)}
    BY <1>8 DEF Expected, Fibs, OfFib
  <2>2. IsSeq(Fibs(p.mem))
    BY SeqOfTold DEF Fibs
  <2> HIDE DEF p
  <2>3. \E k : Told(Fibs(p.mem), reports, k)
    BY <1>2, <1>8 DEF Plot, lab2_plot
  <2>4. QED
    BY <2>1, <2>2, <2>3
<1>9. CASE program = "lab3"
  <2>1. Expected = {Greeting}
    BY <1>9 DEF Expected, Greeting
  <2>2. IsSeq(Greeting)
    BY SeqOfTold DEF Greeting
  <2>3. \E k : Told(Greeting, reports, k)
    BY <1>2, <1>9 DEF Plot, lab3_plot, lab3_child
  <2>4. QED
    BY <2>1, <2>2, <2>3
<1>10. CASE program = "sighand3"
  <2>1. Expected = {<<x>> : x \in Outcomes}
    BY <1>10 DEF Expected, Outcomes
  <2>2. reports = <<>> \/ \E x \in Outcomes : reports = <<x>>
    BY <1>2, <1>10 DEF Plot, sighand3_plot, sighand3_parent
  <2>3. \A x : IsSeq(<<x>>) /\ Told(<<x>>, <<>>, 0) /\ Told(<<x>>, <<x>>, 1)
    <3> TAKE x
    <3>1. IsSeq(<<x>>)
      BY SeqOfTold
    <3>2. Told(<<x>>, <<>>, 0)
      BY <3>1, ToldNothing
    <3>3. Told(<<x>>, Append(<<>>, x), 1)
      <4>1. Len(<<x>>) = 1 /\ <<x>>[1] = x
        OBVIOUS
      <4>2. QED
        BY <3>1, <3>2, <4>1, ToldOneMore, 0 + 1 = 1, 0 < 1
    <3>4. Append(<<>>, x) = <<x>>
      OBVIOUS
    <3>5. QED
      BY <3>1, <3>2, <3>3, <3>4
  <2>4. \E x : x \in Outcomes
    BY DEF Outcomes
  <2>5. QED
    BY <2>1, <2>2, <2>3, <2>4
<1>11. CASE program \notin Plotted
  <2>1. Expected = {reports}
    <3>1. /\ program # "fork_wait" /\ program # "fork1" /\ program # "fork2"
          /\ program # "fork3" /\ program # "fork4" /\ program # "lab2"
          /\ program # "lab3" /\ program # "sighand3"
      BY <1>11 DEF Plotted, Mild
    <3>2. QED
      BY <3>1 DEF Expected
  <2>2. IsSeq(reports)
    BY <1>2 DEF Plot
  <2>3. Told(reports, reports, Len(reports))
    BY <2>2 DEF IsSeq, Told
  <2>4. QED
    BY <2>1, <2>2, <2>3
<1>12. QED
  BY <1>3, <1>4, <1>5, <1>6, <1>7, <1>8, <1>9, <1>10, <1>11 DEF Plotted, Mild

(* What the waits of fork-wait, fork1 to fork4, lab2, lab3 and sighand3    *)
(* return and their processes write comes in this order and nothing else,  *)
(* whenever a Ctrl-C comes and however often.                              *)
THEOREM ReportsInOrder == SignalProgramsSpec => []WaitReports
BY AlwaysPlotInv, PlotReports, PTL
=============================================================================
