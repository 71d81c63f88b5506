--------------------------- MODULE HandoffsProofs ---------------------------
(***************************************************************************)
(* Proofs about Handoffs, for any number of processes, threads, runs,      *)
(* items and kills: what comes out of a queue, a segment or a pipe is what *)
(* went in.  What is proved of each program holds of Handoffs, because     *)
(* each of its programs takes its own steps or stutters.                   *)
(***************************************************************************)
EXTENDS Handoffs, TurnProofs, SequenceTheorems, FiniteSetTheorems

USE EchoAssumption, MailboxAssumption, CellsAssumption, PipesAssumption

----------------------------------------------------------------------------
(* What is on its way: two sequences, from the second to the first.        *)

LEMMA Passing ==
  ASSUME NEW S, NEW a \in Seq(S), NEW b \in Seq(S), b # <<>>
  PROVE  /\ Append(a, Head(b)) \in Seq(S) /\ Tail(b) \in Seq(S)
         /\ Len(Tail(b)) = Len(b) - 1
         /\ Append(a, Head(b)) \o Tail(b) = a \o b
<1>1. Head(b) \in S /\ Tail(b) \in Seq(S) /\ Len(Tail(b)) = Len(b) - 1
  BY HeadTailProperties
<1>2. b = <<Head(b)>> \o Tail(b)
  <2>1. 1 \in 1 .. Len(b) /\ Len(b) \in 1 .. Len(b) /\ Len(b) \in Nat
    BY EmptySeq
  <2>2. SubSeq(b, 1, Len(b)) = <<b[1]>> \o SubSeq(b, 2, Len(b))
    <3>1. SubSeq(b, 1, Len(b)) = <<b[1]>> \o SubSeq(b, 1 + 1, Len(b))
      BY ONLY <2>1, SubSeqRecursiveFirst
    <3>2. QED
      BY <3>1
  <2>3. QED
    BY <2>2, SubSeqFull, TailIsSubSeq
<1>3. Append(a, Head(b)) = a \o <<Head(b)>> /\ Append(a, Head(b)) \in Seq(S)
  BY <1>1, AppendIsConcat, AppendProperties
<1>4. <<Head(b)>> \in Seq(S)
  BY <1>1
<1>5. (a \o <<Head(b)>>) \o Tail(b) = a \o (<<Head(b)>> \o Tail(b))
  BY <1>1, <1>4, ConcatAssociative
<1>6. QED
  BY <1>1, <1>2, <1>3, <1>5

LEMMA Sending ==
  ASSUME NEW S, NEW a \in Seq(S), NEW b \in Seq(S), NEW x \in S
  PROVE  /\ Append(b, x) \in Seq(S) /\ a \o b \in Seq(S)
         /\ Len(Append(b, x)) = Len(b) + 1
         /\ a \o Append(b, x) = Append(a \o b, x)
<1>1. <<x>> \in Seq(S) /\ a \o b \in Seq(S)
  BY ConcatProperties
<1>2. Append(b, x) = b \o <<x>> /\ Append(a \o b, x) = (a \o b) \o <<x>>
  BY <1>1, AppendIsConcat
<1>3. (a \o b) \o <<x>> = a \o (b \o <<x>>)
  BY <1>1, ConcatAssociative
<1>4. QED
  BY <1>1, <1>2, <1>3, AppendProperties

LEMMA Appended ==
  ASSUME NEW S, NEW s \in Seq(S), NEW x \in S,
         NEW k \in DOMAIN Append(s, x)
  PROVE  \/ k \in DOMAIN s /\ Append(s, x)[k] = s[k]
         \/ Append(s, x)[k] = x
<1> DEFINE t == Append(s, x)
<1>1. /\ t \in Seq(S) /\ Len(t) = Len(s) + 1 /\ t[Len(s) + 1] = x
      /\ \A i \in 1 .. Len(s) : t[i] = s[i]
  BY AppendProperties
<1>2. /\ Len(s) \in Nat /\ DOMAIN s = 1 .. Len(s)
      /\ DOMAIN t = 1 .. (Len(s) + 1)
  BY <1>1, LenProperties
<1>3. k \in DOMAIN t
  OBVIOUS
<1> HIDE DEF t
<1>4. k = Len(s) + 1 \/ k \in DOMAIN s
  BY <1>2, <1>3
<1>5. QED
  BY <1>1, <1>2, <1>4 DEF t

----------------------------------------------------------------------------
(* echo.                                                                   *)

EchoInv ==
  /\ EchoTypeOK /\ EchoGoesForward
  /\ echoBuf = IF echoMain \in {"create", "blank"} THEN -1 ELSE filled
  /\ echoMain \in {"create", "blank"} => filled = 0

LEMMA EchoInductive == EchoSpec => []EchoInv
<1>1. EchoInit => EchoInv
  BY DEF EchoInit, EchoInv, EchoTypeOK, EchoGoesForward
<1>2. EchoInv /\ [EchoNext]_echoVars => EchoInv'
  <2> SUFFICES ASSUME EchoInv, [EchoNext]_echoVars PROVE EchoInv'
    OBVIOUS
  <2> USE DEF EchoInv, EchoTypeOK, EchoGoesForward
  <2>1. CASE CreateEcho \/ Blank
    BY <2>1 DEF CreateEcho, Blank, EchoGoto
  <2>2. CASE Fill
    BY <2>2 DEF Fill, EchoGoto
  <2>3. CASE FillEnds \/ JoinEcho
    BY <2>3 DEF FillEnds, JoinEcho, EchoGoto
  <2>4. CASE Put
    BY <2>4 DEF Put
  <2>5. CASE PutEnds
    BY <2>5 DEF PutEnds
  <2>6. CASE UNCHANGED echoVars
    BY <2>6 DEF echoVars
  <2>7. QED
    BY <2>1, <2>2, <2>3, <2>4, <2>5, <2>6 DEF EchoNext, EchoMain, EchoConsumer
<1>3. QED
  BY <1>1, <1>2, PTL DEF EchoSpec

----------------------------------------------------------------------------
(* msg_send and msg_rcv.                                                   *)

Flow == received \o queue.msgs

Ordered(s) ==
  \A i, j \in DOMAIN s : i < j /\ s[i][1] = s[j][1] => s[i][2] < s[j][2]

(* The messages sent so far, by where their senders are. *)
Posted ==
  {x \in Letters : \/ mail[x[1]] = "exit"
                   \/ mail[x[1]] = "send 2" /\ x[2] = 1}

Placed == \A k \in DOMAIN Flow : Flow[k] \in Posted

MailInv ==
  /\ MailboxTypeOK /\ queue \in [id : Nat, msgs : Seq(Letters)]
  /\ \A p \in MailProcs : mail[p] \in {"send 1", "send 2"} => p \in Senders
  /\ Placed /\ Ordered(Flow)

LEMMA RoomForOne ==
  ASSUME NEW n \in Nat, n < QBYTES
  PROVE  n + 1 <= QBYTES
BY DEF MailboxAssumption

LEMMA OrderedAppend ==
  ASSUME NEW S, NEW s \in Seq(S), NEW x \in S, Ordered(s),
         \A i \in DOMAIN s : s[i][1] = x[1] => s[i][2] < x[2]
  PROVE  Ordered(Append(s, x))
<1> DEFINE t == Append(s, x)
<1>1. /\ t \in Seq(S) /\ Len(t) = Len(s) + 1 /\ t[Len(s) + 1] = x
      /\ \A i \in 1 .. Len(s) : t[i] = s[i]
  BY AppendProperties
<1>2. /\ Len(s) \in Nat /\ DOMAIN s = 1 .. Len(s)
      /\ DOMAIN t = 1 .. (Len(s) + 1)
  BY <1>1, LenProperties
<1> SUFFICES ASSUME NEW i \in DOMAIN t, NEW j \in DOMAIN t, i < j, t[i][1] = t[j][1]
             PROVE  t[i][2] < t[j][2]
  BY DEF Ordered
<1> HIDE DEF t
<1>3. i \in DOMAIN s /\ t[i] = s[i]
  BY <1>1, <1>2
<1>4. CASE j = Len(s) + 1
  BY <1>1, <1>3, <1>4
<1>5. CASE j # Len(s) + 1
  <2>1. j \in DOMAIN s /\ t[j] = s[j]
    BY <1>1, <1>2, <1>5
  <2>2. QED
    BY <1>3, <2>1 DEF Ordered
<1>6. QED
  BY <1>4, <1>5

(* What the queue still had is forgotten with it. *)
LEMMA OrderedForgets ==
  ASSUME NEW S, NEW a \in Seq(S), NEW b \in Seq(S), Ordered(a \o b),
         NEW T, \A k \in DOMAIN (a \o b) : (a \o b)[k] \in T
  PROVE  Ordered(a) /\ \A k \in DOMAIN a : a[k] \in T
<1>2. /\ Len(a) \in Nat /\ Len(b) \in Nat /\ DOMAIN a = 1 .. Len(a)
      /\ a \o b \in Seq(S) /\ Len(a \o b) = Len(a) + Len(b)
      /\ \A i \in 1 .. Len(a) + Len(b) :
           (a \o b)[i] = IF i <= Len(a) THEN a[i] ELSE b[i - Len(a)]
  BY LenProperties, ConcatProperties
<1>3. DOMAIN (a \o b) = 1 .. Len(a) + Len(b)
  BY <1>2, LenProperties
<1>4. \A i \in DOMAIN a : i \in DOMAIN (a \o b) /\ (a \o b)[i] = a[i]
  BY <1>2, <1>3
<1>5. QED
  BY <1>4 DEF Ordered

LEMMA MailInitHolds == MailboxInit => MailInv
<1> SUFFICES ASSUME MailboxInit PROVE MailInv
  OBVIOUS
<1>1. received = <<>> /\ queue.msgs = <<>> /\ queue.id = 0 /\ lastId = 0
  BY DEF MailboxInit, NoQueue
<1>2. MailboxTypeOK /\ queue \in [id : Nat, msgs : Seq(Letters)]
  <2>1. received \in Seq(Letters) /\ queue.msgs \in Seq(Letters) /\ Len(queue.msgs) = 0
    BY <1>1, EmptySeq
  <2>2. 0 <= QBYTES
    BY DEF MailboxAssumption
  <2>3. mqid \in [MailProcs -> 0 .. lastId]
    BY <1>1 DEF MailboxInit
  <2>4. queue \in [id : Nat, msgs : Seq(Letters)]
    BY <2>1 DEF MailboxInit, NoQueue
  <2>5. QED
    BY <1>1, <2>1, <2>2, <2>3, <2>4 DEF MailboxTypeOK, MailboxInit
<1>3. Flow = <<>>
  <2>1. <<>> \in Seq(Letters)
    BY EmptySeq
  <2>2. QED
    BY <1>1, <2>1, ConcatEmptySeq DEF Flow
<1>4. QED
  BY <1>2, <1>3 DEF MailInv, Ordered, Placed, MailboxInit

(* The place of one process changes; what it sent stays sent.              *)
LEMMA MailMove ==
  ASSUME MailInv, NEW p \in MailProcs, NEW from, NEW to,
         MailGoto(p, from, to),
         to \in {"msgget", "send 1", "send 2", "msgrcv", "rmid", "exit"},
         to \in {"send 1", "send 2"} => p \in Senders,
         from = "exit" => to = "exit", from = "send 2" => to = "exit"
  PROVE  /\ mail' \in [MailProcs ->
                {"msgget", "send 1", "send 2", "msgrcv", "rmid", "exit"}]
         /\ mail'[p] = to
         /\ \A q \in MailProcs : mail'[q] \in {"send 1", "send 2"} => q \in Senders
         /\ Posted \subseteq Posted'
<1>1. /\ mail[p] = from /\ mail' = [mail EXCEPT ![p] = to]
      /\ mail \in [MailProcs ->
                {"msgget", "send 1", "send 2", "msgrcv", "rmid", "exit"}]
  BY DEF MailGoto, MailInv, MailboxTypeOK
<1>2. mail'[p] = to /\ \A q \in MailProcs : q # p => mail'[q] = mail[q]
  BY <1>1
<1>3. \A x \in Letters : x[1] \in MailProcs
  BY DEF Letters, MailProcs
<1>4. Posted \subseteq Posted'
  BY <1>1, <1>2, <1>3 DEF Posted
<1>5. QED
  BY <1>1, <1>2, <1>4 DEF MailInv

(* What of the flow is kept is kept as it was. *)
LEMMA MailKept ==
  ASSUME MailInv, Flow' = Flow, Posted \subseteq Posted'
  PROVE  Placed' /\ Ordered(Flow)'
<1>1. Ordered(Flow)'
  BY DEF MailInv, Ordered
<1>2. QED
  BY <1>1 DEF MailInv, Placed

LEMMA MailForgets ==
  ASSUME MailInv, received' = received, queue'.msgs = <<>>, Posted \subseteq Posted'
  PROVE  Placed' /\ Ordered(Flow)'
<1>1. received \in Seq(Letters) /\ queue.msgs \in Seq(Letters)
  BY DEF MailInv, MailboxTypeOK
<1>2. Ordered(received) /\ \A k \in DOMAIN received : received[k] \in Posted
  <2>1. Ordered(received \o queue.msgs)
    BY DEF MailInv, Flow
  <2>2. \A k \in DOMAIN (received \o queue.msgs) : (received \o queue.msgs)[k] \in Posted
    BY DEF MailInv, Flow, Placed
  <2>3. QED
    BY <1>1, <2>1, <2>2, OrderedForgets
<1>3. Flow' = received
  BY <1>1, ConcatEmptySeq DEF Flow
<1>4. Ordered(Flow)'
  BY <1>2, <1>3 DEF Ordered
<1>5. QED
  BY <1>2, <1>3, <1>4 DEF Placed

(* A message goes to the end of the queue. *)
LEMMA MailSends ==
  ASSUME MailInv, NEW x \in Letters, NEW to,
         \/ mail[x[1]] = "send 1" /\ to = "send 2" /\ x[2] = 1
         \/ mail[x[1]] = "send 2" /\ to = "exit" /\ x[2] = 2,
         MailGoto(x[1], mail[x[1]], to),
         Len(queue.msgs) < QBYTES, queue' = [queue EXCEPT !.msgs = Append(@, x)],
         UNCHANGED <<mqid, lastId, received>>
  PROVE  MailInv'
<1>1. x[1] \in MailProcs /\ x[1] \in Senders
  BY DEF MailProcs, Letters
<1>2. /\ mail' \in [MailProcs ->
                {"msgget", "send 1", "send 2", "msgrcv", "rmid", "exit"}]
      /\ mail'[x[1]] = to
      /\ \A q \in MailProcs : mail'[q] \in {"send 1", "send 2"} => q \in Senders
      /\ Posted \subseteq Posted'
  BY <1>1, MailMove
<1>3. received \in Seq(Letters) /\ queue.msgs \in Seq(Letters) /\ Flow \in Seq(Letters)
  BY ConcatProperties DEF MailInv, MailboxTypeOK, Flow
<1>4. /\ Append(queue.msgs, x) \in Seq(Letters)
      /\ Len(Append(queue.msgs, x)) = Len(queue.msgs) + 1
      /\ received \o Append(queue.msgs, x) = Append(received \o queue.msgs, x)
  BY ONLY <1>3, x \in Letters, Sending
<1>5. queue'.id = queue.id /\ queue'.msgs = Append(queue.msgs, x)
  BY DEF MailInv
<1>6. Flow' = Append(Flow, x)
  BY <1>4, <1>5 DEF Flow
<1>7. MailboxTypeOK' /\ queue' \in [id : Nat, msgs : Seq(Letters)]
  <2>1. Len(queue'.msgs) <= QBYTES
    <3>1. Len(queue.msgs) \in Nat
      BY <1>3, LenProperties
    <3>2. QED
      BY <1>4, <1>5, <3>1, RoomForOne
  <2>2. queue' \in [id : Nat, msgs : Seq(Letters)]
    BY <1>4 DEF MailInv
  <2>3. QED
    BY <1>2, <1>4, <1>5, <2>1, <2>2 DEF MailInv, MailboxTypeOK
<1>8. x \in Posted'
  BY <1>2 DEF Posted
<1>9. Ordered(Flow)'
  <2>1. \A i \in DOMAIN Flow : Flow[i][1] = x[1] => Flow[i][2] < x[2]
    <3> SUFFICES ASSUME NEW i \in DOMAIN Flow, Flow[i][1] = x[1]
                 PROVE  Flow[i][2] < x[2]
      OBVIOUS
    <3>1. Flow[i] \in Posted
      BY DEF MailInv, Placed
    <3>2. Flow[i][2] = 1 /\ x[2] = 2
      BY <3>1 DEF Posted
    <3>3. QED
      BY ONLY <3>2
  <2>2. Ordered(Append(Flow, x))
    BY <1>3, <2>1, OrderedAppend DEF MailInv
  <2>3. QED
    BY <1>6, <2>2 DEF Ordered
<1>10. Placed'
  <2> SUFFICES ASSUME NEW k \in DOMAIN Append(Flow, x)
               PROVE  Append(Flow, x)[k] \in Posted'
    BY <1>6 DEF Placed
  <2>1. \/ k \in DOMAIN Flow /\ Append(Flow, x)[k] = Flow[k]
        \/ Append(Flow, x)[k] = x
    BY ONLY <1>3, x \in Letters, k \in DOMAIN Append(Flow, x), Appended
  <2>2. QED
    BY <1>2, <1>8, <2>1 DEF MailInv, Placed
<1>11. QED
  BY <1>2, <1>7, <1>9, <1>10 DEF MailInv

(* Only the place of a process changes. *)
LEMMA MailPlace ==
  ASSUME MailInv, NEW p \in MailProcs, NEW from, NEW to,
         MailGoto(p, from, to),
         to \in {"msgget", "send 1", "send 2", "msgrcv", "rmid", "exit"},
         to \in {"send 1", "send 2"} => p \in Senders,
         from = "exit" => to = "exit", from = "send 2" => to = "exit",
         UNCHANGED <<mqid, queue, lastId, received>>
  PROVE  MailInv'
<1>1. /\ mail' \in [MailProcs ->
                {"msgget", "send 1", "send 2", "msgrcv", "rmid", "exit"}]
      /\ \A q \in MailProcs : mail'[q] \in {"send 1", "send 2"} => q \in Senders
      /\ Posted \subseteq Posted'
  BY MailMove
<1>2. Flow' = Flow
  BY DEF Flow
<1>3. Placed' /\ Ordered(Flow)'
  BY <1>1, <1>2, MailKept
<1>4. QED
  BY <1>1, <1>3 DEF MailInv, MailboxTypeOK

LEMMA MailStepHolds ==
  ASSUME MailInv, [MailboxNext]_mailVars
  PROVE  MailInv'
<1>1. CASE UNCHANGED mailVars
  <2>1. Flow' = Flow /\ Posted' = Posted
    BY <1>1 DEF mailVars, Flow, Posted
  <2>2. Placed' /\ Ordered(Flow)'
    BY <2>1, MailKept
  <2>3. QED
    BY <1>1, <2>2 DEF MailInv, MailboxTypeOK, mailVars
<1>2. ASSUME NEW p \in MailProcs, MsgGet(p)
      PROVE  MailInv'
  <2> DEFINE to == IF p \in Senders THEN "send 1" ELSE "msgrcv"
  <2>1. /\ MailGoto(p, "msgget", to) /\ received' = received
        /\ \/ /\ queue.id = 0 /\ queue' = [id |-> lastId + 1, msgs |-> <<>>]
              /\ lastId' = lastId + 1
           \/ UNCHANGED <<queue, lastId>>
        /\ mqid' = [mqid EXCEPT ![p] = queue'.id]
    BY <1>2 DEF MsgGet
  <2>2. /\ mail' \in [MailProcs ->
                {"msgget", "send 1", "send 2", "msgrcv", "rmid", "exit"}]
        /\ \A q \in MailProcs : mail'[q] \in {"send 1", "send 2"} => q \in Senders
        /\ Posted \subseteq Posted'
    BY <2>1, MailMove
  <2>3. /\ queue' \in [id : Nat, msgs : Seq(Letters)] /\ lastId' \in Nat
        /\ queue'.id \in 0 .. lastId' /\ 0 .. lastId \subseteq 0 .. lastId'
        /\ Len(queue'.msgs) <= QBYTES
    <3>1. CASE UNCHANGED <<queue, lastId>>
      BY <3>1 DEF MailInv, MailboxTypeOK
    <3>2. CASE /\ queue' = [id |-> lastId + 1, msgs |-> <<>>]
               /\ lastId' = lastId + 1
      <4>1. <<>> \in Seq(Letters) /\ Len(<<>>) = 0
        BY EmptySeq
      <4>2. lastId \in Nat
        BY DEF MailInv, MailboxTypeOK
      <4>3. 0 <= QBYTES
        BY DEF MailboxAssumption
      <4>4. queue'.id = lastId + 1 /\ queue'.msgs = <<>>
        BY <3>2
      <4>5. QED
        BY <3>2, <4>1, <4>2, <4>3, <4>4
    <3>3. QED
      BY <2>1, <3>1, <3>2
  <2>4. mqid' \in [MailProcs -> 0 .. lastId']
    BY <2>1, <2>3 DEF MailInv, MailboxTypeOK
  <2>5. Placed' /\ Ordered(Flow)'
    <3>1. CASE UNCHANGED <<queue, lastId>>
      <4>1. Flow' = Flow
        BY <2>1, <3>1 DEF Flow
      <4>2. QED
        BY <2>2, <4>1, MailKept
    <3>2. CASE queue' = [id |-> lastId + 1, msgs |-> <<>>]
      <4>1. queue'.msgs = <<>>
        BY <3>2
      <4>2. QED
        BY <2>1, <2>2, <4>1, MailForgets
    <3>3. QED
      BY <2>1, <3>1, <3>2
  <2>6. MailboxTypeOK'
    BY <2>1, <2>2, <2>3, <2>4 DEF MailInv, MailboxTypeOK
  <2>7. QED
    BY <2>2, <2>3, <2>5, <2>6 DEF MailInv
<1>3. ASSUME NEW p \in Senders, NEW n \in {1, 2},
             NEW from, NEW to,
             \/ from = "send 1" /\ to = "send 2" /\ n = 1
             \/ from = "send 2" /\ to = "exit" /\ n = 2,
             MsgSnd(p, n, from, to)
      PROVE  MailInv'
  <2>1. /\ MailGoto(p, from, to) /\ UNCHANGED <<mqid, lastId, received>>
        /\ \/ queue' = queue
           \/ /\ Len(queue.msgs) < QBYTES
              /\ queue' = [queue EXCEPT !.msgs = Append(@, <<p, n>>)]
    BY <1>3 DEF MsgSnd
  <2>2. p \in MailProcs /\ <<p, n>> \in Letters /\ mail[p] = from
    <3>1. p \in MailProcs /\ n \in 1 .. 2
      BY DEF MailProcs
    <3>2. mail[p] = from
      BY <2>1 DEF MailGoto
    <3>3. QED
      BY <3>1, <3>2 DEF Letters
  <2>3. CASE queue' = queue
    <3>1. UNCHANGED <<mqid, queue, lastId, received>>
      BY <2>1, <2>3
    <3>2. /\ to \in {"msgget", "send 1", "send 2", "msgrcv", "rmid", "exit"}
          /\ from = "exit" => to = "exit"
          /\ from = "send 2" => to = "exit"
      BY <1>3
    <3>3. QED
      BY <2>1, <2>2, <3>1, <3>2, MailPlace
  <2>4. CASE /\ Len(queue.msgs) < QBYTES
             /\ queue' = [queue EXCEPT !.msgs = Append(@, <<p, n>>)]
    <3>1. PICK x \in Letters : x = <<p, n>>
      BY <2>2
    <3>2. x[1] = p /\ x[2] = n
      BY <3>1
    <3>3. queue' = [queue EXCEPT !.msgs = Append(@, x)]
      BY <2>4, <3>1
    <3>4. MailGoto(x[1], mail[x[1]], to)
      BY <2>1, <2>2, <3>2
    <3>5. \/ mail[x[1]] = "send 1" /\ to = "send 2" /\ x[2] = 1
          \/ mail[x[1]] = "send 2" /\ to = "exit" /\ x[2] = 2
      BY <1>3, <2>2, <3>2
    <3>6. QED
      BY <2>1, <2>4, <3>3, <3>4, <3>5, MailSends
  <2>5. QED
    BY <2>1, <2>3, <2>4
<1>4. ASSUME NEW p \in MailProcs, MsgRcv(p)
      PROVE  MailInv'
  <2>1. /\ MailGoto(p, "msgrcv", "rmid") /\ queue.msgs # <<>>
        /\ queue' = [queue EXCEPT !.msgs = Tail(@)]
        /\ received' = Append(received, Head(queue.msgs))
        /\ UNCHANGED <<mqid, lastId>>
    BY <1>4 DEF MsgRcv
  <2>2. /\ mail' \in [MailProcs ->
                {"msgget", "send 1", "send 2", "msgrcv", "rmid", "exit"}]
        /\ \A q \in MailProcs : mail'[q] \in {"send 1", "send 2"} => q \in Senders
        /\ Posted \subseteq Posted'
    BY <2>1, MailMove
  <2>3. received \in Seq(Letters) /\ queue.msgs \in Seq(Letters)
    BY DEF MailInv, MailboxTypeOK
  <2>4. /\ Append(received, Head(queue.msgs)) \in Seq(Letters)
        /\ Tail(queue.msgs) \in Seq(Letters)
        /\ Len(Tail(queue.msgs)) = Len(queue.msgs) - 1
        /\ Append(received, Head(queue.msgs)) \o Tail(queue.msgs) = received \o queue.msgs
    BY <2>1, <2>3, Passing
  <2>5. queue'.id = queue.id /\ queue'.msgs = Tail(queue.msgs)
    BY <2>1 DEF MailInv
  <2>6. Flow' = Flow
    BY <2>1, <2>4, <2>5 DEF Flow
  <2>7. Placed' /\ Ordered(Flow)'
    BY <2>2, <2>6, MailKept
  <2>8. Len(queue'.msgs) <= QBYTES
    <3>1. Len(queue.msgs) \in Nat /\ Len(queue.msgs) <= QBYTES
      BY <2>3, LenProperties DEF MailInv, MailboxTypeOK
    <3>2. QED
      BY <2>4, <2>5, <3>1 DEF MailboxAssumption
  <2>9. queue' \in [id : Nat, msgs : Seq(Letters)]
    BY <2>1, <2>4 DEF MailInv
  <2>10. MailboxTypeOK'
    BY <2>1, <2>2, <2>4, <2>5, <2>8 DEF MailInv, MailboxTypeOK
  <2>11. QED
    BY <2>2, <2>7, <2>9, <2>10 DEF MailInv
<1>5. ASSUME NEW p \in MailProcs, MsgRcvFails(p)
      PROVE  MailInv'
  BY <1>5, MailPlace DEF MsgRcvFails
<1>6. ASSUME NEW p \in MailProcs, MsgRmid(p)
      PROVE  MailInv'
  <2>1. /\ MailGoto(p, "rmid", "exit") /\ (queue' = queue \/ queue' = NoQueue)
        /\ UNCHANGED <<mqid, lastId, received>>
    BY <1>6 DEF MsgRmid
  <2>2. CASE queue' = queue
    BY <2>1, <2>2, MailPlace
  <2>3. CASE queue' = NoQueue
    <3>1. /\ mail' \in [MailProcs ->
                {"msgget", "send 1", "send 2", "msgrcv", "rmid", "exit"}]
          /\ \A q \in MailProcs : mail'[q] \in {"send 1", "send 2"} => q \in Senders
          /\ Posted \subseteq Posted'
      BY <2>1, MailMove
    <3>2. queue'.id = 0 /\ queue'.msgs = <<>>
      BY <2>3 DEF NoQueue
    <3>3. Placed' /\ Ordered(Flow)'
      BY <2>1, <3>1, <3>2, MailForgets
    <3>4. <<>> \in Seq(Letters) /\ Len(<<>>) = 0 /\ 0 <= QBYTES
      BY EmptySeq DEF MailboxAssumption
    <3>5. queue' \in [id : Nat, msgs : Seq(Letters)]
      BY <2>3, <3>4 DEF NoQueue
    <3>6. MailboxTypeOK'
      <4>1. lastId \in Nat /\ lastId' = lastId
        BY <2>1 DEF MailInv, MailboxTypeOK
      <4> 0 \in 0 .. lastId' /\ lastId' \in Nat
        BY <4>1
      <4>2. QED
        BY <2>1, <3>1, <3>2, <3>4, <4>1 DEF MailInv, MailboxTypeOK
    <3>7. QED
      BY <3>1, <3>3, <3>5, <3>6 DEF MailInv
  <2>4. QED
    BY <2>1, <2>2, <2>3
<1>7. QED
  <2>1. Senders \subseteq MailProcs /\ Receivers \subseteq MailProcs
    BY DEF MailProcs
  <2>2. QED
    BY <1>1, <1>2, <1>3, <1>4, <1>5, <1>6, <2>1 DEF MailboxNext, msg_send, msg_rcv

LEMMA MailInductive == MailboxSpec => []MailInv
<1>1. MailInv /\ [MailboxNext]_mailVars => MailInv'
  BY MailStepHolds
<1>2. QED
  BY <1>1, MailInitHolds, PTL DEF MailboxSpec

----------------------------------------------------------------------------
(* lab4 and shared_mem.                                                    *)

Lab4Par == {"shmget", "msgget", "fork", "number", "word", "wait", "end", "killed"}
Lab4Chi == {"none", "spin", "log number", "msgrcv", "rmid", "exit", "killed"}
MemPar == {"shmget", "fork", "set 2", "set 4", "wait", "end", "killed"}
MemChi == {"none", "set 1", "set 3", "exit", "killed"}

CellsShape ==
  /\ par = "shmget" => madeBy # cellRun
  /\ par \in {"shmget", "msgget", "fork"} =>
       chi = "none" /\ logNumber = -1 /\ logWord = 0
  /\ cellProg = "lab4" =>
       /\ par \in Lab4Par /\ chi \in Lab4Chi
       /\ par \in {"number", "word", "wait"} => chi # "none"
  /\ cellProg = "shared_mem" =>
       /\ par \in MemPar /\ chi \in MemChi
       /\ logNumber = -1 /\ logWord = 0

(* A run of lab4 that made the segment: 0 until its number was typed.      *)
NumberInv ==
  cellProg = "lab4" /\ madeBy = cellRun =>
    /\ par \in {"msgget", "fork", "number"} => cell = 0 /\ chi \in {"none", "spin"}
    /\ cell \in Typed
    /\ chi \in {"log number", "msgrcv", "rmid", "exit"} => cell = 10 * cellRun
    /\ logNumber \in {-1, 10 * cellRun}

(* Nothing was killed: the queue is empty from the child's last step to    *)
(* the parent's msgsnd of the next run.                                    *)
WordInv ==
  ~cellKilled =>
    /\ par # "killed" /\ chi # "killed"
    /\ par = "end" => chi = "exit"
    /\ \/ wordq = <<>>
       \/ /\ wordq = <<cellRun>> /\ cellProg = "lab4"
          /\ par = "wait" /\ chi \in {"spin", "log number", "msgrcv"}
    /\ chi \in {"rmid", "exit"} /\ cellProg = "lab4" => par \in {"wait", "end"}
    /\ logWord \in {0, cellRun}

CellsInv == CellsTypeOK /\ CellsShape /\ NumberInv /\ WordInv

LEMMA TenTimes ==
  ASSUME NEW n \in 1 .. CellRuns
  PROVE  /\ 10 * n \in Nat /\ 10 * n > 0 /\ n # 0 /\ 10 * n # -1
         /\ n \in Nat /\ n + 1 \in Nat /\ n + 1 # n
         /\ 0 .. n \subseteq 0 .. n + 1 /\ 1 .. n \subseteq 1 .. n + 1
         /\ n + 1 \notin 0 .. n /\ 0 \in 0 .. n /\ n \in 0 .. n
         /\ n < CellRuns => n + 1 \in 1 .. CellRuns
BY DEF CellsAssumption

LEMMA CellsInitHolds == CellsInit => CellsInv
<1> SUFFICES ASSUME CellsInit PROVE CellsInv
  OBVIOUS
<1>1. 1 \in 1 .. CellRuns /\ 0 \in 0 .. 1
  BY DEF CellsAssumption
<1>2. <<>> \in Seq(1 .. 1)
  BY EmptySeq
<1>3. CellsTypeOK
  BY <1>1, <1>2 DEF CellsInit, CellsTypeOK, ParSteps, ChiSteps
<1>4. CellsShape
  BY DEF CellsInit, CellsShape, CellPrograms, Lab4Par, Lab4Chi, MemPar, MemChi
<1>5. NumberInv
  BY DEF CellsInit, NumberInv
<1>6. WordInv
  BY DEF CellsInit, WordInv
<1>7. QED
  BY <1>3, <1>4, <1>5, <1>6 DEF CellsInv

(* The types, where the word queue only loses or gains a word of this run. *)
LEMMA CellsType ==
  ASSUME CellsTypeOK, [CellsNext]_cellVars
  PROVE  CellsTypeOK'
<1>1. /\ cellRun \in 1 .. CellRuns /\ cell \in Nat
      /\ cellRun \in 1 .. cellRun /\ 0 \in 0 .. cellRun
      /\ 10 * cellRun \in Nat /\ cellRun \in 0 .. cellRun
  BY TenTimes DEF CellsTypeOK
<1>2. wordq \in Seq(1 .. cellRun)
  BY DEF CellsTypeOK
<1>3. CASE UNCHANGED cellVars
  BY <1>3 DEF CellsTypeOK, cellVars
<1>4. CASE ShmGet
  <2>1. cell' \in Nat /\ madeBy' \in 0 .. cellRun
    BY <1>1, <1>4 DEF ShmGet, CellsTypeOK
  <2>2. par' \in ParSteps
    BY <1>4 DEF ShmGet, ParGoto, ParSteps
  <2>3. QED
    BY <1>4, <2>1, <2>2 DEF ShmGet, ParGoto, CellsTypeOK
<1>5. CASE WordqGet \/ ForkChi \/ WaitChi
  BY <1>5 DEF WordqGet, ForkChi, WaitChi, ParGoto, CellsTypeOK, ParSteps, ChiSteps
<1>6. CASE ReadNumber
  <2>1. cell' \in Nat
    BY <1>1, <1>6 DEF ReadNumber, Typed
  <2>2. QED
    BY <1>6, <2>1 DEF ReadNumber, ParGoto, CellsTypeOK, ParSteps
<1>7. CASE SendWord
  <2>1. wordq' \in Seq(1 .. cellRun)
    BY <1>1, <1>2, <1>7, AppendProperties DEF SendWord
  <2>2. QED
    BY <1>7, <2>1 DEF SendWord, ParGoto, CellsTypeOK, ParSteps
<1>8. CASE ParSet(2, "set 2", "set 4") \/ ParSet(4, "set 4", "wait")
  <2>1. cell' = 2 \/ cell' = 4
    BY <1>8, Zenon DEF ParSet
  <2>2. par' \in ParSteps
    BY <1>8 DEF ParSet, ParGoto, ParSteps
  <2>3. UNCHANGED <<cellProg, cellRun, chi, madeBy, hasWordq, wordq,
                    logNumber, logWord, cellKilled>>
    BY <1>8 DEF ParSet, ParGoto
  <2>4. cell' \in Nat
    BY <2>1
  <2>5. QED
    BY <2>2, <2>3, <2>4 DEF CellsTypeOK
<1>9. CASE Spin \/ LogNumber
  BY <1>9 DEF Spin, LogNumber, ChiGoto, CellsTypeOK, ChiSteps
<1>10. CASE LogWord
  <2>1. wordq' \in Seq(1 .. cellRun) /\ logWord' \in 1 .. cellRun
    BY <1>2, <1>10, HeadTailProperties DEF LogWord
  <2>2. logWord' \in 0 .. cellRun
    BY <1>1, <2>1
  <2>3. QED
    BY <1>10, <2>1, <2>2 DEF LogWord, ChiGoto, CellsTypeOK, ChiSteps
<1>11. CASE RmidWordq
  <2>1. wordq' \in Seq(1 .. cellRun)
    BY <1>11, EmptySeq DEF RmidWordq
  <2>2. QED
    BY <1>11, <2>1 DEF RmidWordq, ChiGoto, CellsTypeOK, ChiSteps
<1>12. CASE ChiSet(1, "set 1", "set 3") \/ ChiSet(3, "set 3", "exit")
  <2>1. cell' = 1 \/ cell' = 3
    BY <1>12, Zenon DEF ChiSet
  <2>2. chi' \in ChiSteps
    BY <1>12 DEF ChiSet, ChiGoto, ChiSteps
  <2>3. UNCHANGED <<cellProg, cellRun, par, madeBy, hasWordq, wordq,
                    logNumber, logWord, cellKilled>>
    BY <1>12 DEF ChiSet, ChiGoto
  <2>4. cell' \in Nat
    BY <2>1
  <2>5. QED
    BY <2>2, <2>3, <2>4 DEF CellsTypeOK
<1>13. CASE KillCells
  BY <1>13 DEF KillCells, CellsTypeOK, ParSteps, ChiSteps
<1>14. CASE NextCellRun
  <2>1. cellRun' = cellRun + 1 /\ cellRun' \in 1 .. CellRuns
    BY <1>1, <1>14, TenTimes DEF NextCellRun
  <2>2. /\ 0 .. cellRun \subseteq 0 .. cellRun' /\ 1 .. cellRun \subseteq 1 .. cellRun'
        /\ 0 \in 0 .. cellRun'
    BY <1>1, <2>1, TenTimes
  <2>3. wordq' \in Seq(1 .. cellRun')
    BY <1>2, <1>14, <2>2, SeqMonotonic DEF NextCellRun
  <2>4. /\ par' = "shmget" /\ chi' = "none" /\ logNumber' = -1 /\ logWord' = 0
        /\ cellProg' \in CellPrograms
        /\ UNCHANGED <<cell, madeBy, hasWordq, wordq, cellKilled>>
    BY <1>14 DEF NextCellRun
  <2>5. QED
    BY <2>1, <2>2, <2>3, <2>4 DEF CellsTypeOK, ParSteps, ChiSteps
<1>15. QED
  BY <1>3, <1>4, <1>5, <1>6, <1>7, <1>8, <1>9, <1>10, <1>11, <1>12, <1>13, <1>14
     DEF CellsNext, CellParent, CellChild

LEMMA CellsShapeStep ==
  ASSUME CellsTypeOK, CellsShape, [CellsNext]_cellVars
  PROVE  CellsShape'
<1> USE DEF CellsShape, Lab4Par, Lab4Chi, MemPar, MemChi
<1>1. /\ cellRun \in 1 .. CellRuns /\ madeBy \in 0 .. cellRun
      /\ cellProg \in CellPrograms
  BY DEF CellsTypeOK
<1>2. CASE UNCHANGED cellVars
  BY <1>2 DEF cellVars
<1>3. CASE ShmGet
  BY <1>3 DEF ShmGet, ParGoto
<1>4. CASE WordqGet \/ ForkChi \/ WaitChi
  BY <1>1, <1>4 DEF WordqGet, ForkChi, WaitChi, ParGoto, CellPrograms
<1>5. CASE ReadNumber \/ SendWord
  BY <1>5 DEF ReadNumber, SendWord, ParGoto
<1>6. CASE ParSet(2, "set 2", "set 4") \/ ParSet(4, "set 4", "wait")
  BY <1>6 DEF ParSet, ParGoto
<1>7. CASE Spin \/ LogNumber \/ LogWord \/ RmidWordq
  <2>1. /\ chi \in {"spin", "log number", "msgrcv", "rmid"}
        /\ chi' \in {"log number", "msgrcv", "rmid", "exit"}
        /\ UNCHANGED <<cellProg, cellRun, par, madeBy>>
    BY <1>7 DEF Spin, LogNumber, LogWord, RmidWordq, ChiGoto
  <2>2. QED
    BY <2>1
<1>8. CASE ChiSet(1, "set 1", "set 3") \/ ChiSet(3, "set 3", "exit")
  BY <1>8 DEF ChiSet, ChiGoto
<1>9. CASE KillCells
  BY <1>9 DEF KillCells
<1>10. CASE NextCellRun
  <2>1. /\ madeBy' = madeBy /\ cellRun' = cellRun + 1
        /\ cellRun + 1 \notin 0 .. cellRun
    BY <1>1, <1>10, TenTimes DEF NextCellRun
  <2>2. madeBy' # cellRun'
    BY ONLY <1>1, <2>1
  <2>3. QED
    BY <1>10, <2>2 DEF NextCellRun
<1>11. QED
  BY <1>2, <1>3, <1>4, <1>5, <1>6, <1>7, <1>8, <1>9, <1>10
     DEF CellsNext, CellParent, CellChild

LEMMA NumberStep ==
  ASSUME CellsTypeOK, CellsShape, NumberInv, [CellsNext]_cellVars
  PROVE  NumberInv'
<1>1. /\ cellRun \in 1 .. CellRuns /\ madeBy \in 0 .. cellRun
      /\ 10 * cellRun # -1
  BY TenTimes DEF CellsTypeOK
<1>2. CASE UNCHANGED <<cellProg, cellRun, par, chi, cell, madeBy, logNumber>>
  BY <1>2 DEF NumberInv, Typed
<1>3. CASE ShmGet
  <2>1. /\ par = "shmget" /\ chi = "none" /\ logNumber = -1
        /\ chi' = chi /\ cellRun' = cellRun /\ logNumber' = logNumber
        /\ madeBy # cellRun
    BY <1>3 DEF ShmGet, ParGoto, CellsShape
  <2>2. madeBy' = cellRun => cell' = 0
    BY <1>3, <2>1 DEF ShmGet
  <2>3. QED
    BY <2>1, <2>2 DEF NumberInv, Typed
<1>4. CASE WordqGet \/ ForkChi \/ WaitChi \/ SendWord
  <2>1. UNCHANGED <<cellProg, cellRun, madeBy, cell, logNumber>>
    BY <1>4 DEF WordqGet, ForkChi, WaitChi, SendWord, ParGoto
  <2>2. \/ chi' = chi /\ par' \notin {"msgget", "fork", "number"}
        \/ chi' = chi /\ par = "msgget"
        \/ par = "fork" /\ cellProg = "lab4" /\ chi' = "spin"
        \/ par = "fork" /\ cellProg # "lab4"
    BY <1>4 DEF WordqGet, ForkChi, WaitChi, SendWord, ParGoto
  <2>3. QED
    BY <2>1, <2>2 DEF NumberInv, Typed
<1>5. CASE ReadNumber
  <2>1. /\ UNCHANGED <<cellProg, cellRun, madeBy, chi, logNumber>>
        /\ par = "number" /\ par' = "word" /\ cell' \in Typed
    BY <1>5 DEF ReadNumber, ParGoto
  <2>2. QED
    BY <2>1 DEF NumberInv, Typed
<1>6. CASE \/ ParSet(2, "set 2", "set 4") \/ ParSet(4, "set 4", "wait")
           \/ ChiSet(1, "set 1", "set 3") \/ ChiSet(3, "set 3", "exit")
  <2>1. /\ par \in {"set 2", "set 4"} \/ chi \in {"set 1", "set 3"}
        /\ cellProg' = cellProg
    BY <1>6 DEF ParSet, ChiSet, ParGoto, ChiGoto
  <2>2. cellProg # "lab4"
    BY <2>1 DEF CellsShape, Lab4Par, Lab4Chi
  <2>3. QED
    BY <2>1, <2>2 DEF NumberInv
<1>7. CASE Spin
  <2>1. /\ UNCHANGED <<cellProg, cellRun, par, madeBy, cell, logNumber>>
        /\ chi = "spin" /\ chi' = "log number"
    BY <1>7 DEF Spin, ChiGoto
  <2>2. cell # 0
    <3>1. cell > 0
      BY <1>7, Zenon DEF Spin
    <3>2. QED
      BY ONLY <3>1
  <2>3. QED
    BY <2>1, <2>2 DEF NumberInv, Typed
<1>8. CASE LogNumber
  <2>1. /\ UNCHANGED <<cellProg, cellRun, par, madeBy, cell>>
        /\ chi = "log number" /\ chi' = "msgrcv" /\ logNumber' = cell
    BY <1>8 DEF LogNumber, ChiGoto
  <2>2. QED
    BY <2>1 DEF NumberInv, Typed
<1>9. CASE LogWord \/ RmidWordq
  <2>1. /\ UNCHANGED <<cellProg, cellRun, par, madeBy, cell, logNumber>>
        /\ chi \in {"msgrcv", "rmid"} /\ chi' \in {"rmid", "exit"}
    BY <1>9 DEF LogWord, RmidWordq, ChiGoto
  <2>2. QED
    BY <2>1 DEF NumberInv, Typed
<1>10. CASE KillCells
  <2>1. /\ UNCHANGED <<cellProg, cellRun, madeBy, cell, logNumber>>
        /\ par' = "killed" /\ chi' = "killed"
    BY <1>10 DEF KillCells
  <2>2. QED
    BY <2>1 DEF NumberInv, Typed
<1>11. CASE NextCellRun
  <2>1. /\ madeBy' = madeBy /\ cellRun' = cellRun + 1
        /\ cellRun + 1 \notin 0 .. cellRun
    BY <1>1, <1>11, TenTimes DEF NextCellRun
  <2>2. madeBy' # cellRun'
    BY ONLY <1>1, <2>1
  <2>3. QED
    BY <2>2 DEF NumberInv
<1>12. QED
  BY <1>2, <1>3, <1>4, <1>5, <1>6, <1>7, <1>8, <1>9, <1>10, <1>11
     DEF CellsNext, CellParent, CellChild, cellVars

(* Of a run before which none was killed, the word was sent once and is    *)
(* read once, before the child removes the queue.                          *)
LEMMA WordStep ==
  ASSUME CellsTypeOK, CellsShape, WordInv, [CellsNext]_cellVars
  PROVE  WordInv'
<1> SUFFICES ASSUME ~cellKilled' PROVE WordInv'
  BY DEF WordInv
<1>1. /\ cellRun \in 1 .. CellRuns /\ cellProg \in CellPrograms
      /\ wordq \in Seq(1 .. cellRun) /\ cellKilled \in BOOLEAN
  BY DEF CellsTypeOK
<1>2. ~cellKilled
  BY DEF CellsNext, CellParent, CellChild, ShmGet, WordqGet, ForkChi, WaitChi,
         ReadNumber, SendWord, ParSet, ParGoto, Spin, LogNumber, LogWord,
         RmidWordq, ChiSet, ChiGoto, KillCells, NextCellRun, cellVars
<1>3. CASE UNCHANGED <<cellProg, cellRun, par, chi, wordq, logWord, cellKilled>>
  BY <1>3 DEF WordInv
<1>4. CASE \/ ShmGet \/ WordqGet \/ ForkChi \/ ReadNumber
           \/ ParSet(2, "set 2", "set 4") \/ ParSet(4, "set 4", "wait")
  <2>1. /\ UNCHANGED <<cellProg, cellRun, wordq, logWord>>
        /\ par \in {"shmget", "msgget", "fork", "number", "set 2", "set 4"}
        /\ par' \notin {"killed", "end"}
        /\ \/ chi' = chi
           \/ par = "fork" /\ chi' \in {"spin", "set 1"}
    BY <1>4 DEF ShmGet, WordqGet, ForkChi, ReadNumber, ParSet, ParGoto
  <2>2. par \in {"set 2", "set 4"} => cellProg # "lab4"
    BY DEF CellsShape, Lab4Par
  <2>3. QED
    BY <1>2, <2>1, <2>2 DEF WordInv
<1>5. CASE WaitChi
  BY <1>2, <1>5 DEF WaitChi, ParGoto, WordInv
<1>6. CASE SendWord
  <2>1. /\ par = "word" /\ par' = "wait" /\ chi' = chi
        /\ UNCHANGED <<cellProg, cellRun, logWord>>
        /\ wordq' = wordq \/ wordq' = Append(wordq, cellRun)
    BY <1>6 DEF SendWord, ParGoto
  <2>2. /\ wordq = <<>> /\ cellProg = "lab4"
        /\ chi \in {"none", "spin", "log number", "msgrcv"}
    BY <1>1, <1>2, <2>1
       DEF WordInv, CellsShape, CellPrograms, MemPar, Lab4Chi
  <2>3. Append(<<>>, cellRun) = <<cellRun>>
    OBVIOUS
  <2>4. chi # "none"
    BY <2>1, <2>2 DEF CellsShape
  <2>5. QED
    BY <1>2, <2>1, <2>2, <2>3, <2>4 DEF WordInv
<1>7. CASE Spin \/ LogNumber
  <2>1. /\ UNCHANGED <<cellProg, cellRun, par, wordq, logWord>>
        /\ chi \in {"spin", "log number"} /\ chi' \in {"log number", "msgrcv"}
    BY <1>7 DEF Spin, LogNumber, ChiGoto
  <2>2. QED
    BY <1>2, <2>1 DEF WordInv
<1>8. CASE LogWord
  <2>1. /\ UNCHANGED <<cellProg, cellRun, par>>
        /\ chi = "msgrcv" /\ chi' = "rmid"
        /\ wordq # <<>> /\ logWord' = Head(wordq) /\ wordq' = Tail(wordq)
    BY <1>8 DEF LogWord, ChiGoto
  <2>2. wordq = <<cellRun>> /\ par = "wait"
    BY <1>2, <2>1 DEF WordInv
  <2>3. Head(<<cellRun>>) = cellRun /\ Tail(<<cellRun>>) = <<>>
    OBVIOUS
  <2>4. QED
    BY <1>2, <2>1, <2>2, <2>3 DEF WordInv
<1>9. CASE RmidWordq
  <2>1. /\ UNCHANGED <<cellProg, cellRun, par, logWord>>
        /\ chi = "rmid" /\ chi' = "exit" /\ wordq' = <<>>
    BY <1>9 DEF RmidWordq, ChiGoto
  <2>2. QED
    BY <1>2, <2>1 DEF WordInv
<1>10. CASE ChiSet(1, "set 1", "set 3") \/ ChiSet(3, "set 3", "exit")
  <2>1. /\ UNCHANGED <<cellProg, cellRun, par, wordq, logWord>>
        /\ chi \in {"set 1", "set 3"} /\ chi' \in {"set 3", "exit"}
    BY <1>10 DEF ChiSet, ChiGoto
  <2>2. cellProg # "lab4"
    BY <2>1 DEF CellsShape, Lab4Chi
  <2>3. QED
    BY <1>2, <2>1, <2>2 DEF WordInv
<1>11. CASE NextCellRun
  <2>1. /\ par \in {"end", "killed"} /\ wordq' = wordq
        /\ par' = "shmget" /\ chi' = "none" /\ logWord' = 0
    BY <1>11 DEF NextCellRun
  <2>2. wordq = <<>>
    BY <1>2, <2>1 DEF WordInv
  <2>3. QED
    BY <1>2, <2>1, <2>2 DEF WordInv
<1>12. CASE KillCells
  BY <1>12 DEF KillCells
<1>13. QED
  BY <1>3, <1>4, <1>5, <1>6, <1>7, <1>8, <1>9, <1>10, <1>11, <1>12
     DEF CellsNext, CellParent, CellChild, cellVars

(* lab4 and shared_mem: the log holds what was typed in the same run,      *)
(* unless a segment or a word of an earlier run was left.                  *)
LEMMA CellsInductive == CellsSpec => []CellsInv
<1>1. CellsInit => CellsInv
  BY CellsInitHolds
<1>2. CellsInv /\ [CellsNext]_cellVars => CellsInv'
  BY CellsType, CellsShapeStep, NumberStep, WordStep DEF CellsInv
<1>3. QED
  BY <1>1, <1>2, PTL DEF CellsSpec

LEMMA LogsFollow == CellsInv => LogsThisRun
<1> SUFFICES ASSUME CellsInv PROVE LogsThisRun
  OBVIOUS
<1>1. logNumber # -1 \/ logWord # 0 => cellProg = "lab4"
  BY DEF CellsInv, CellsTypeOK, CellsShape, CellPrograms
<1>2. QED
  BY <1>1 DEF CellsInv, NumberInv, WordInv, LogsThisRun

----------------------------------------------------------------------------
(* dotprod, lab10 and pipetest.                                            *)

PipeFlow == got \o pipe
Finished == {w \in Workers : worker[w] = "exit"}

(* A worker between its load and its store of the sum holds the mutex, so  *)
(* that nobody adds a part in between.                                     *)
DotInv ==
  dotProg = "dotprod" =>
    /\ boss \in {"create", "join", "end"} /\ kid = "none"
    /\ boss = "end" => Finished = Workers
    /\ \A w \in Workers :
         /\ worker[w] # "write"
         /\ worker[w] \in {"load", "store", "unlock"} => mutexsum = w
         /\ worker[w] = "store" => loaded[w] = sum
         /\ w \in sum <=> worker[w] \in {"unlock", "exit"}

(* What was read and what is in the pipe, together: a part of every worker *)
(* that has finished.  The end of file comes after the last of them.       *)
SumsInv ==
  dotProg = "lab10" =>
    /\ boss \in {"pipe", "fork", "create", "join", "close write", "wait", "end"}
    /\ boss \in {"pipe", "fork"} => kid = "none"
    /\ boss \in {"fork", "create", "join", "close write"} => "parent" \in writers
    /\ boss \in {"close write", "wait", "end"} => Finished = Workers
    /\ kid \in {"print", "exit"} => pipe = <<>> /\ "parent" \notin writers
    /\ Len(PipeFlow) = Cardinality(Finished)
    /\ \A w \in Finished : \E k \in DOMAIN PipeFlow : PipeFlow[k] = w

(* The same of the bytes, which are in order.                              *)
BytesInv ==
  dotProg = "pipetest" =>
    /\ boss \in {"pipe", "fork", "write", "wait", "end"}
    /\ boss \in {"pipe", "fork"} => kid = "none"
    /\ boss \in {"fork", "write"} => "parent" \in writers
    /\ boss \in {"wait", "end"} => written = ARGLEN
    /\ \A w \in Workers : worker[w] = "new"
    /\ kid \in {"print", "exit"} => pipe = <<>> /\ "parent" \notin writers
    /\ Len(PipeFlow) = written
    /\ \A k \in DOMAIN PipeFlow : PipeFlow[k] = k

PipesInv == PipesTypeOK /\ DotInv /\ SumsInv /\ BytesInv

LEMMA WorkersFinite ==
  /\ IsFiniteSet(Workers) /\ Cardinality(Workers) = NUMTHRDS
  /\ 0 \notin Workers /\ Workers \subseteq Nat /\ Workers \subseteq 0 .. NUMTHRDS
<1>1. NUMTHRDS \in Nat /\ NUMTHRDS # 0 /\ 1 \in Int /\ NUMTHRDS \in Int
  BY DEF PipesAssumption
<1>2. /\ IsFiniteSet(1 .. NUMTHRDS)
      /\ Cardinality(1 .. NUMTHRDS) =
           IF 1 > NUMTHRDS THEN 0 ELSE NUMTHRDS - 1 + 1
  BY <1>1, FS_Interval
<1>3. Cardinality(1 .. NUMTHRDS) = NUMTHRDS
  BY <1>1, <1>2
<1>4. /\ 0 \notin 1 .. NUMTHRDS /\ 1 .. NUMTHRDS \subseteq Nat
      /\ 1 .. NUMTHRDS \subseteq 0 .. NUMTHRDS
  BY <1>1
<1>5. QED
  BY <1>2, <1>3, <1>4 DEF Workers

LEMMA PipesInitHolds == PipesInit => PipesInv
<1> SUFFICES ASSUME PipesInit PROVE PipesInv
  OBVIOUS
<1>1. /\ <<>> \in Seq(Nat) /\ Len(<<>>) = 0 /\ DOMAIN <<>> = {}
      /\ <<>> \o <<>> = <<>>
  BY EmptySeq
<1>2. 0 \in 0 .. NUMTHRDS /\ 0 <= PIPESIZE /\ 0 \in 0 .. ARGLEN
  BY DEF PipesAssumption
<1>3. PipesTypeOK
  BY <1>1, <1>2
     DEF PipesInit, PipesTypeOK, DotPrograms, BossSteps, WorkerSteps, KidSteps
<1>4. Finished = {}
  BY DEF PipesInit, Finished
<1>5. PipeFlow = <<>>
  BY <1>1 DEF PipesInit, PipeFlow
<1>6. DotInv
  BY DEF PipesInit, DotInv
<1>7. SumsInv
  BY <1>1, <1>4, <1>5, FS_EmptySet DEF PipesInit, SumsInv
<1>8. BytesInv
  BY <1>1, <1>5 DEF PipesInit, BytesInv
<1>9. QED
  BY <1>3, <1>6, <1>7, <1>8 DEF PipesInv

LEMMA PipesType ==
  ASSUME PipesTypeOK, [PipesNext]_pipeVars
  PROVE  PipesTypeOK'
<1>1. /\ pipe \in Seq(Nat) /\ got \in Seq(Nat)
      /\ Len(pipe) \in Nat /\ Len(pipe) <= PIPESIZE
      /\ PIPESIZE \in Nat /\ ARGLEN \in Nat /\ written \in 0 .. ARGLEN
  BY LenProperties DEF PipesTypeOK, PipesAssumption
<1>2. CASE UNCHANGED pipeVars
  BY <1>2 DEF PipesTypeOK, pipeVars
<1>3. CASE MakePipe \/ ForkKid \/ JoinWorkers \/ CloseWrite \/ WaitKid
  <2>1. UNCHANGED <<dotProg, worker, mutexsum, sum, loaded, pipe, got, written>>
    BY <1>3 DEF MakePipe, ForkKid, JoinWorkers, CloseWrite, WaitKid, BossGoto
  <2>2. /\ boss' \in BossSteps /\ kid' \in KidSteps
        /\ writers' \subseteq {"parent", "child"}
    BY <1>3 DEF MakePipe, ForkKid, JoinWorkers, CloseWrite, WaitKid, BossGoto,
                PipesTypeOK, BossSteps, KidSteps
  <2>3. QED
    BY <2>1, <2>2 DEF PipesTypeOK
<1>4. ASSUME NEW w \in Workers, CreateWorker(w)
      PROVE  PipesTypeOK'
  <2>1. /\ boss' \in BossSteps
        /\ UNCHANGED <<dotProg, mutexsum, sum, loaded, got, pipe, writers, kid,
                       written>>
    BY <1>4 DEF CreateWorker, BossGoto, BossSteps
  <2>2. worker' \in [Workers -> WorkerSteps]
    BY <1>4 DEF CreateWorker, PipesTypeOK, WorkerSteps
  <2>3. QED
    BY <2>1, <2>2 DEF PipesTypeOK
<1>5. CASE WriteByte
  <2>1. /\ written < ARGLEN /\ Len(pipe) < PIPESIZE
        /\ pipe' = Append(pipe, written + 1) /\ written' = written + 1
    BY <1>5, Zenon DEF WriteByte
  <2>2. written' \in 0 .. ARGLEN /\ written + 1 \in Nat
    BY <1>1, <2>1
  <2>3. pipe' \in Seq(Nat) /\ Len(pipe') = Len(pipe) + 1
    BY <1>1, <2>1, <2>2, AppendProperties
  <2>4. Len(pipe') <= PIPESIZE
    BY <1>1, <2>1, <2>3
  <2>5. /\ UNCHANGED <<dotProg, mutexsum, sum, loaded, got, worker, writers, kid>>
        /\ boss' = "write"
    BY <1>5, Zenon DEF WriteByte, BossGoto
  <2>6. QED
    BY <2>2, <2>3, <2>4, <2>5 DEF PipesTypeOK, BossSteps
<1>6. ASSUME NEW w \in Workers,
             LockSum(w) \/ LoadSum(w) \/ StoreSum(w) \/ UnlockSum(w)
      PROVE  PipesTypeOK'
  <2>1. UNCHANGED <<dotProg, boss, writers, kid, got, written, pipe>>
    BY <1>6 DEF LockSum, LoadSum, StoreSum, UnlockSum, WorkerGoto
  <2>2. worker' \in [Workers -> WorkerSteps]
    BY <1>6 DEF LockSum, LoadSum, StoreSum, UnlockSum, WorkerGoto, PipesTypeOK,
                WorkerSteps
  <2>3. /\ mutexsum' = mutexsum \/ mutexsum' = w \/ mutexsum' = 0
        /\ \/ sum' = sum /\ loaded' = loaded
           \/ sum' = sum /\ loaded' = [loaded EXCEPT ![w] = sum]
           \/ sum' = loaded[w] \cup {w} /\ loaded' = loaded
    BY <1>6 DEF LockSum, LoadSum, StoreSum, UnlockSum
  <2>4. mutexsum' \in 0 .. NUMTHRDS
    <3>1. w \in 0 .. NUMTHRDS
      BY WorkersFinite
    <3>2. 0 \in 0 .. NUMTHRDS
      BY DEF PipesAssumption
    <3>3. QED
      BY <2>3, <3>1, <3>2 DEF PipesTypeOK
  <2>5. sum' \subseteq Workers /\ loaded' \in [Workers -> SUBSET Workers]
    BY <2>3 DEF PipesTypeOK
  <2>6. QED
    BY <2>1, <2>2, <2>4, <2>5 DEF PipesTypeOK
<1>7. ASSUME NEW w \in Workers, WriteSum(w)
      PROVE  PipesTypeOK'
  <2>1. /\ Len(pipe) < PIPESIZE /\ pipe' = Append(pipe, w)
        /\ UNCHANGED <<dotProg, boss, writers, kid, got, written, mutexsum, sum,
                       loaded>>
    BY <1>7, Zenon DEF WriteSum, WorkerGoto
  <2>2. worker' \in [Workers -> WorkerSteps]
    BY <1>7 DEF WriteSum, WorkerGoto, PipesTypeOK, WorkerSteps
  <2>3. pipe' \in Seq(Nat) /\ Len(pipe') = Len(pipe) + 1
    BY <1>1, <2>1, WorkersFinite, AppendProperties
  <2>4. Len(pipe') <= PIPESIZE
    BY <1>1, <2>1, <2>3
  <2>5. QED
    BY <2>1, <2>2, <2>3, <2>4 DEF PipesTypeOK
<1>8. CASE KidClosesWrite \/ KidAtEOF \/ KidPrints
  <2>1. /\ UNCHANGED <<dotProg, boss, worker, mutexsum, sum, loaded, written, pipe,
                       got>>
        /\ writers' \subseteq writers
        /\ kid' \in KidSteps
    BY <1>8 DEF KidClosesWrite, KidAtEOF, KidPrints, KidGoto, KidSteps
  <2>2. QED
    BY <2>1 DEF PipesTypeOK
<1>9. CASE KidReads
  <2>1. /\ UNCHANGED <<dotProg, boss, worker, mutexsum, sum, loaded, written,
                       writers>>
        /\ kid' = "read" /\ pipe # <<>>
        /\ pipe' = Tail(pipe) /\ got' = Append(got, Head(pipe))
    BY <1>9 DEF KidReads, KidGoto
  <2>2. /\ pipe' \in Seq(Nat) /\ got' \in Seq(Nat)
        /\ Len(pipe') = Len(pipe) - 1
    BY <1>1, <2>1, Passing
  <2>3. Len(pipe') <= PIPESIZE
    BY <1>1, <2>2
  <2>4. QED
    BY <2>1, <2>2, <2>3 DEF PipesTypeOK, KidSteps
<1>10. QED
  BY <1>2, <1>3, <1>4, <1>5, <1>6, <1>7, <1>8, <1>9
     DEF PipesNext, Boss, dotprod, Kid

LEMMA DotStep ==
  ASSUME PipesTypeOK, DotInv, [PipesNext]_pipeVars
  PROVE  DotInv'
<1>1. /\ worker \in [Workers -> WorkerSteps]
      /\ loaded \in [Workers -> SUBSET Workers] /\ sum \subseteq Workers
  BY DEF PipesTypeOK
<1>2. dotProg' = dotProg
  BY DEF PipesNext, Boss, MakePipe, ForkKid, CreateWorker, JoinWorkers, WriteByte,
         CloseWrite, WaitKid, BossGoto, dotprod, LockSum, LoadSum, StoreSum,
         UnlockSum, WriteSum, WorkerGoto, Kid, KidClosesWrite, KidReads,
         KidAtEOF, KidPrints, KidGoto, pipeVars
<1> SUFFICES ASSUME dotProg = "dotprod" PROVE DotInv'
  BY <1>2 DEF DotInv
<1>3. /\ boss \in {"create", "join", "end"} /\ kid = "none"
      /\ boss = "end" => Finished = Workers
      /\ \A w \in Workers :
           /\ worker[w] # "write"
           /\ worker[w] \in {"load", "store", "unlock"} => mutexsum = w
           /\ worker[w] = "store" => loaded[w] = sum
           /\ w \in sum <=> worker[w] \in {"unlock", "exit"}
  BY DEF DotInv
<1>4. CASE UNCHANGED pipeVars
  BY <1>4 DEF DotInv, Finished, pipeVars
<1>5. ~(MakePipe \/ ForkKid \/ WriteByte \/ CloseWrite \/ WaitKid \/ Kid)
  BY <1>3 DEF MakePipe, ForkKid, WriteByte, CloseWrite, WaitKid, BossGoto, Kid,
              KidClosesWrite, KidReads, KidAtEOF, KidPrints, KidGoto
<1>6. ASSUME NEW w \in Workers, CreateWorker(w)
      PROVE  DotInv'
  <2>1. /\ worker[w] = "new" /\ worker' = [worker EXCEPT ![w] = "lock"]
        /\ boss' \in {"create", "join"} /\ boss = "create"
        /\ UNCHANGED <<mutexsum, sum, loaded, kid>>
    BY <1>6 DEF CreateWorker, BossGoto
  <2>2. /\ worker'[w] = "lock"
        /\ \A v \in Workers \ {w} : worker'[v] = worker[v]
    BY <1>1, <2>1
  <2>3. QED
    BY <1>3, <2>1, <2>2 DEF DotInv
<1>7. CASE JoinWorkers
  <2>1. /\ \A w \in Workers : worker[w] = "exit"
        /\ boss' = "end"
        /\ UNCHANGED <<worker, mutexsum, sum, loaded, kid>>
    BY <1>7 DEF JoinWorkers, BossGoto
  <2>2. Finished' = Workers
    BY <2>1 DEF Finished
  <2>3. QED
    BY <1>3, <2>1, <2>2 DEF DotInv
<1>8. ASSUME NEW w \in Workers, dotprod(w)
      PROVE  DotInv'
  <2>1. /\ UNCHANGED <<boss, kid>>
        /\ \A v \in Workers \ {w} : worker'[v] = worker[v]
        /\ worker[w] # "exit"
    BY <1>1, <1>8
       DEF dotprod, LockSum, LoadSum, StoreSum, UnlockSum, WriteSum, WorkerGoto
  <2>2. boss # "end"
    BY <1>3, <2>1 DEF Finished
  <2>3. SUFFICES \A v \in Workers :
                   /\ worker'[v] # "write"
                   /\ worker'[v] \in {"load", "store", "unlock"} => mutexsum' = v
                   /\ worker'[v] = "store" => loaded'[v] = sum'
                   /\ v \in sum' <=> worker'[v] \in {"unlock", "exit"}
    BY <1>3, <2>1, <2>2 DEF DotInv
  <2>4. CASE LockSum(w)
    <3>1. /\ mutexsum = 0 /\ mutexsum' = w /\ sum' = sum /\ loaded' = loaded
          /\ worker[w] = "lock" /\ worker'[w] = "load"
      BY <1>1, <2>4 DEF LockSum, WorkerGoto
    <3>2. \A v \in Workers : worker[v] \notin {"load", "store", "unlock"}
      BY <1>3, <3>1, WorkersFinite
    <3>3. QED
      BY <1>3, <2>1, <3>1, <3>2
  <2>5. CASE LoadSum(w)
    <3>1. /\ mutexsum' = mutexsum /\ sum' = sum
          /\ loaded'[w] = sum /\ \A v \in Workers \ {w} : loaded'[v] = loaded[v]
          /\ worker[w] = "load" /\ worker'[w] = "store"
      BY <1>1, <2>5 DEF LoadSum, WorkerGoto
    <3>2. QED
      BY <1>3, <2>1, <3>1
  <2>6. CASE StoreSum(w)
    <3>1. /\ mutexsum' = mutexsum /\ sum' = loaded[w] \cup {w} /\ loaded' = loaded
          /\ worker[w] = "store" /\ worker'[w] = "unlock"
      BY <1>1, <2>6 DEF StoreSum, WorkerGoto
    <3>2. sum' = sum \cup {w} /\ mutexsum = w
      BY <1>3, <3>1
    <3>3. \A v \in Workers \ {w} : worker[v] \notin {"load", "store", "unlock"}
      BY <1>3, <3>2
    <3>4. QED
      BY <1>3, <2>1, <3>1, <3>2, <3>3
  <2>7. CASE UnlockSum(w)
    <3>1. /\ sum' = sum /\ loaded' = loaded
          /\ worker[w] = "unlock" /\ worker'[w] = "exit"
      BY <1>1, <2>7 DEF UnlockSum, WorkerGoto
    <3>2. \A v \in Workers \ {w} : worker[v] \notin {"load", "store", "unlock"}
      BY <1>3, <3>1
    <3>3. QED
      BY <1>3, <2>1, <3>1, <3>2
  <2>8. ~WriteSum(w)
    BY <1>3 DEF WriteSum, WorkerGoto
  <2>9. QED
    BY <1>8, <2>4, <2>5, <2>6, <2>7, <2>8 DEF dotprod
<1>9. QED
  BY <1>4, <1>5, <1>6, <1>7, <1>8 DEF PipesNext, Boss

(* A step of the child: it only moves what is in the pipe, and reads the   *)
(* end of file when the parent has closed.                                 *)
LEMMA KidStep ==
  ASSUME PipesTypeOK, Kid
  PROVE  /\ PipeFlow' = PipeFlow
         /\ UNCHANGED <<dotProg, boss, worker, written>>
         /\ writers' \in {writers, writers \ {"child"}}
         /\ kid # "none" /\ kid' # "none"
         /\ kid' \in {"print", "exit"} =>
              \/ pipe' = <<>> /\ "parent" \notin writers
              \/ kid \in {"print", "exit"} /\ pipe' = pipe
<1>1. pipe \in Seq(Nat) /\ got \in Seq(Nat)
  BY DEF PipesTypeOK
<1>2. CASE KidReads
  <2>1. /\ UNCHANGED <<dotProg, boss, worker, written, writers>>
        /\ kid = "read" /\ kid' = "read" /\ pipe # <<>>
        /\ pipe' = Tail(pipe) /\ got' = Append(got, Head(pipe))
    BY <1>2 DEF KidReads, KidGoto
  <2>2. Append(got, Head(pipe)) \o Tail(pipe) = got \o pipe
    BY <1>1, <2>1, Passing
  <2>3. QED
    BY <2>1, <2>2 DEF PipeFlow
<1>3. CASE KidClosesWrite \/ KidAtEOF \/ KidPrints
  BY <1>3 DEF KidClosesWrite, KidAtEOF, KidPrints, KidGoto, PipeFlow
<1>4. QED
  BY <1>2, <1>3 DEF Kid

LEMMA FlowGrows ==
  ASSUME PipesTypeOK, NEW x \in Nat, pipe' = Append(pipe, x), got' = got
  PROVE  /\ Len(PipeFlow) \in Nat /\ Len(PipeFlow') = Len(PipeFlow) + 1
         /\ Len(PipeFlow) + 1 \in DOMAIN PipeFlow'
         /\ PipeFlow'[Len(PipeFlow) + 1] = x
         /\ \A k \in DOMAIN PipeFlow :
              k \in DOMAIN PipeFlow' /\ PipeFlow'[k] = PipeFlow[k]
         /\ \A k \in DOMAIN PipeFlow' :
              k \in DOMAIN PipeFlow \/ k = Len(PipeFlow) + 1
<1>1. pipe \in Seq(Nat) /\ got \in Seq(Nat)
  BY DEF PipesTypeOK
<1>2. /\ PipeFlow \in Seq(Nat) /\ PipeFlow' = got \o Append(pipe, x)
      /\ got \o Append(pipe, x) = Append(PipeFlow, x)
  BY <1>1, Sending DEF PipeFlow
<1> DEFINE s == PipeFlow
           t == PipeFlow'
<1>3. s \in Seq(Nat) /\ t = Append(s, x)
  BY <1>2
<1> HIDE DEF s, t
<1>4. /\ t \in Seq(Nat) /\ Len(t) = Len(s) + 1 /\ t[Len(s) + 1] = x
      /\ \A i \in 1 .. Len(s) : t[i] = s[i]
  BY <1>3, AppendProperties
<1>5. /\ Len(s) \in Nat /\ DOMAIN s = 1 .. Len(s)
      /\ DOMAIN t = 1 .. (Len(s) + 1)
  BY <1>3, <1>4, LenProperties
<1>6. /\ Len(s) + 1 \in DOMAIN t
      /\ \A k \in DOMAIN s : k \in DOMAIN t /\ t[k] = s[k]
      /\ \A k \in DOMAIN t : k \in DOMAIN s \/ k = Len(s) + 1
  BY <1>4, <1>5
<1>7. QED
  BY <1>4, <1>5, <1>6 DEF s, t

LEMMA SumsStep ==
  ASSUME PipesTypeOK, SumsInv, [PipesNext]_pipeVars
  PROVE  SumsInv'
<1>1. worker \in [Workers -> WorkerSteps]
  BY DEF PipesTypeOK
<1>2. dotProg' = dotProg
  BY DEF PipesNext, Boss, MakePipe, ForkKid, CreateWorker, JoinWorkers, WriteByte,
         CloseWrite, WaitKid, BossGoto, dotprod, LockSum, LoadSum, StoreSum,
         UnlockSum, WriteSum, WorkerGoto, Kid, KidClosesWrite, KidReads,
         KidAtEOF, KidPrints, KidGoto, pipeVars
<1> SUFFICES ASSUME dotProg = "lab10" PROVE SumsInv'
  BY <1>2 DEF SumsInv
<1>3. /\ boss \in {"pipe", "fork", "create", "join", "close write", "wait", "end"}
      /\ boss \in {"pipe", "fork"} => kid = "none"
      /\ boss \in {"fork", "create", "join", "close write"} => "parent" \in writers
      /\ boss \in {"close write", "wait", "end"} => Finished = Workers
      /\ kid \in {"print", "exit"} => pipe = <<>> /\ "parent" \notin writers
      /\ Len(PipeFlow) = Cardinality(Finished)
      /\ \A w \in Finished : \E k \in DOMAIN PipeFlow : PipeFlow[k] = w
  BY DEF SumsInv
<1>4. CASE UNCHANGED pipeVars
  <2>1. PipeFlow' = PipeFlow /\ Finished' = Finished
    BY <1>4 DEF pipeVars, PipeFlow, Finished
  <2>2. UNCHANGED <<boss, kid, writers, pipe>>
    BY <1>4 DEF pipeVars
  <2>3. QED
    BY <1>3, <2>1, <2>2 DEF SumsInv
<1>5. CASE MakePipe \/ ForkKid \/ JoinWorkers \/ CloseWrite \/ WaitKid
  <2>1. UNCHANGED <<got, pipe, worker>>
    BY <1>5 DEF MakePipe, ForkKid, JoinWorkers, CloseWrite, WaitKid, BossGoto
  <2>2. PipeFlow' = PipeFlow /\ Finished' = Finished
    BY <2>1 DEF PipeFlow, Finished
  <2>3. boss = "join" /\ boss' = "close write" => Finished = Workers
    BY <1>5 DEF MakePipe, ForkKid, JoinWorkers, CloseWrite, WaitKid, BossGoto,
                Finished
  <2>4. \/ boss = "pipe" /\ boss' = "fork" /\ kid' = kid /\ writers' = {"parent"}
        \/ /\ boss = "fork" /\ boss' = "create" /\ kid' = "close write"
           /\ writers' = writers \cup {"child"}
        \/ boss = "join" /\ boss' = "close write" /\ kid' = kid /\ writers' = writers
        \/ /\ boss = "close write" /\ boss' = "wait" /\ kid' = kid
           /\ writers' = writers \ {"parent"}
        \/ boss = "wait" /\ boss' = "end" /\ kid' = kid /\ writers' = writers
    BY <1>5 DEF MakePipe, ForkKid, JoinWorkers, CloseWrite, WaitKid, BossGoto
  <2>5. QED
    BY <1>3, <2>1, <2>2, <2>3, <2>4 DEF SumsInv
<1>6. ASSUME NEW w \in Workers, CreateWorker(w)
      PROVE  SumsInv'
  <2>1. /\ worker[w] = "new" /\ worker' = [worker EXCEPT ![w] = "lock"]
        /\ boss' \in {"create", "join"} /\ boss = "create"
        /\ UNCHANGED <<got, pipe, writers, kid>>
    BY <1>6 DEF CreateWorker, BossGoto
  <2>2. PipeFlow' = PipeFlow /\ Finished' = Finished
    BY <1>1, <2>1 DEF PipeFlow, Finished
  <2>3. QED
    BY <1>3, <2>1, <2>2 DEF SumsInv
<1>7. ~WriteByte
  BY <1>3 DEF WriteByte, BossGoto
<1>8. ASSUME NEW w \in Workers,
             LockSum(w) \/ LoadSum(w) \/ StoreSum(w) \/ UnlockSum(w)
      PROVE  SumsInv'
  <2>1. /\ UNCHANGED <<boss, kid, writers, pipe, got>>
        /\ worker[w] # "exit" /\ worker'[w] # "exit"
        /\ \A v \in Workers \ {w} : worker'[v] = worker[v]
    BY <1>1, <1>8 DEF LockSum, LoadSum, StoreSum, UnlockSum, WorkerGoto
  <2>2. PipeFlow' = PipeFlow /\ Finished' = Finished
    BY <2>1 DEF PipeFlow, Finished
  <2>3. QED
    BY <1>3, <2>1, <2>2 DEF SumsInv
<1>9. ASSUME NEW w \in Workers, WriteSum(w)
      PROVE  SumsInv'
  <2>1. /\ UNCHANGED <<boss, kid, writers, got>> /\ pipe' = Append(pipe, w)
        /\ worker[w] = "write" /\ worker'[w] = "exit"
        /\ \A v \in Workers \ {w} : worker'[v] = worker[v]
    BY <1>1, <1>9, Zenon DEF WriteSum, WorkerGoto
  <2>2. /\ w \notin Finished /\ Finished' = Finished \cup {w}
        /\ Finished \subseteq Workers
    BY <2>1 DEF Finished
  <2>3. Cardinality(Finished') = Cardinality(Finished) + 1
    <3>1. IsFiniteSet(Finished)
      BY <2>2, WorkersFinite, FS_Subset
    <3>2. Cardinality(Finished \cup {w}) = Cardinality(Finished) + 1
      BY <2>2, <3>1, FS_AddElement
    <3>3. QED
      BY <2>2, <3>2
  <2>4. w \in Nat
    BY WorkersFinite
  <2>5. /\ Len(PipeFlow') = Len(PipeFlow) + 1
        /\ \E k \in DOMAIN PipeFlow' : PipeFlow'[k] = w
        /\ \A k \in DOMAIN PipeFlow :
             k \in DOMAIN PipeFlow' /\ PipeFlow'[k] = PipeFlow[k]
    BY <2>1, <2>4, FlowGrows
  <2>6. \A v \in Finished' : \E k \in DOMAIN PipeFlow' : PipeFlow'[k] = v
    BY <1>3, <2>2, <2>5
  <2>7. boss \notin {"close write", "wait", "end"}
    BY <1>3, <2>2
  <2>8. kid \notin {"print", "exit"}
    BY <1>3, <2>7
  <2>9. Len(PipeFlow') = Cardinality(Finished')
    BY <1>3, <2>3, <2>5
  <2>10. QED
    BY <1>3, <2>1, <2>6, <2>7, <2>8, <2>9 DEF SumsInv
<1>10. CASE Kid
  <2>1. /\ PipeFlow' = PipeFlow
        /\ UNCHANGED <<dotProg, boss, worker>>
        /\ writers' \in {writers, writers \ {"child"}}
        /\ kid # "none"
        /\ kid' \in {"print", "exit"} =>
             \/ pipe' = <<>> /\ "parent" \notin writers
             \/ kid \in {"print", "exit"} /\ pipe' = pipe
    BY <1>10, KidStep
  <2>2. Finished' = Finished
    BY <2>1 DEF Finished
  <2>3. QED
    BY <1>3, <2>1, <2>2 DEF SumsInv
<1>11. QED
  BY <1>4, <1>5, <1>6, <1>7, <1>8, <1>9, <1>10 DEF PipesNext, Boss, dotprod

LEMMA BytesStep ==
  ASSUME PipesTypeOK, BytesInv, [PipesNext]_pipeVars
  PROVE  BytesInv'
<1>1. dotProg' = dotProg
  BY DEF PipesNext, Boss, MakePipe, ForkKid, CreateWorker, JoinWorkers, WriteByte,
         CloseWrite, WaitKid, BossGoto, dotprod, LockSum, LoadSum, StoreSum,
         UnlockSum, WriteSum, WorkerGoto, Kid, KidClosesWrite, KidReads,
         KidAtEOF, KidPrints, KidGoto, pipeVars
<1> SUFFICES ASSUME dotProg = "pipetest" PROVE BytesInv'
  BY <1>1 DEF BytesInv
<1>2. /\ boss \in {"pipe", "fork", "write", "wait", "end"}
      /\ boss \in {"pipe", "fork"} => kid = "none"
      /\ boss \in {"fork", "write"} => "parent" \in writers
      /\ boss \in {"wait", "end"} => written = ARGLEN
      /\ \A w \in Workers : worker[w] = "new"
      /\ kid \in {"print", "exit"} => pipe = <<>> /\ "parent" \notin writers
      /\ Len(PipeFlow) = written
      /\ \A k \in DOMAIN PipeFlow : PipeFlow[k] = k
  BY DEF BytesInv
<1>3. CASE UNCHANGED pipeVars
  <2>1. PipeFlow' = PipeFlow
    BY <1>3 DEF pipeVars, PipeFlow
  <2>2. UNCHANGED <<boss, kid, writers, pipe, worker, written>>
    BY <1>3 DEF pipeVars
  <2>3. QED
    BY <1>2, <2>1, <2>2 DEF BytesInv
<1>4. CASE MakePipe \/ ForkKid \/ CloseWrite \/ WaitKid
  <2>1. UNCHANGED <<got, pipe, worker, written>>
    BY <1>4 DEF MakePipe, ForkKid, CloseWrite, WaitKid, BossGoto
  <2>2. PipeFlow' = PipeFlow
    BY <2>1 DEF PipeFlow
  <2>3. boss' = "wait" => written = ARGLEN
    BY <1>2, <1>4, Zenon DEF MakePipe, ForkKid, CloseWrite, WaitKid, BossGoto
  <2>4. \/ boss = "pipe" /\ boss' = "fork" /\ kid' = kid /\ writers' = {"parent"}
        \/ /\ boss = "fork" /\ boss' = "write" /\ kid' = "close write"
           /\ writers' = writers \cup {"child"}
        \/ /\ boss = "write" /\ boss' = "wait" /\ kid' = kid
           /\ writers' = writers \ {"parent"}
        \/ boss = "wait" /\ boss' = "end" /\ kid' = kid /\ writers' = writers
    BY <1>4 DEF MakePipe, ForkKid, CloseWrite, WaitKid, BossGoto
  <2>5. QED
    BY <1>2, <2>1, <2>2, <2>3, <2>4 DEF BytesInv
<1>5. ~JoinWorkers /\ \A w \in Workers : ~CreateWorker(w)
  BY <1>2 DEF JoinWorkers, CreateWorker, BossGoto
<1>6. \A w \in Workers : ~dotprod(w)
  BY <1>2 DEF dotprod, LockSum, LoadSum, StoreSum, UnlockSum, WriteSum, WorkerGoto
<1>7. CASE WriteByte
  <2>1. /\ boss = "write" /\ boss' = "write"
        /\ pipe' = Append(pipe, written + 1) /\ written' = written + 1
        /\ UNCHANGED <<worker, writers, kid, got>>
    BY <1>7, Zenon DEF WriteByte, BossGoto
  <2>2. written \in 0 .. ARGLEN
    BY DEF PipesTypeOK
  <2>3. written + 1 \in Nat
    BY <2>2
  <2>4. /\ Len(PipeFlow') = Len(PipeFlow) + 1
        /\ PipeFlow'[Len(PipeFlow) + 1] = written + 1
        /\ \A k \in DOMAIN PipeFlow :
             k \in DOMAIN PipeFlow' /\ PipeFlow'[k] = PipeFlow[k]
        /\ \A k \in DOMAIN PipeFlow' :
             k \in DOMAIN PipeFlow \/ k = Len(PipeFlow) + 1
    BY <2>1, <2>3, FlowGrows
  <2>5. /\ Len(PipeFlow') = written'
        /\ \A k \in DOMAIN PipeFlow' : PipeFlow'[k] = k
    BY <1>2, <2>1, <2>4
  <2>6. kid \notin {"print", "exit"}
    BY <1>2, <2>1
  <2>7. QED
    BY <1>2, <2>1, <2>5, <2>6 DEF BytesInv
<1>8. CASE Kid
  <2>1. /\ PipeFlow' = PipeFlow
        /\ UNCHANGED <<boss, worker, written>>
        /\ writers' \in {writers, writers \ {"child"}}
        /\ kid # "none"
        /\ kid' \in {"print", "exit"} =>
             \/ pipe' = <<>> /\ "parent" \notin writers
             \/ kid \in {"print", "exit"} /\ pipe' = pipe
    BY <1>8, KidStep
  <2>2. QED
    BY <1>2, <2>1 DEF BytesInv
<1>9. QED
  BY <1>3, <1>4, <1>5, <1>6, <1>7, <1>8 DEF PipesNext, Boss

LEMMA PipesInductive == PipesSpec => []PipesInv
<1>1. PipesInit => PipesInv
  BY PipesInitHolds
<1>2. PipesInv /\ [PipesNext]_pipeVars => PipesInv'
  BY PipesType, DotStep, SumsStep, BytesStep DEF PipesInv
<1>3. QED
  BY <1>1, <1>2, PTL DEF PipesSpec

(* The child's end of file comes when every part, or byte, was read: the   *)
(* pipe is empty, and the parent has closed after the last writer.         *)
LEMMA NothingIsMissing == PipesInv => NothingMissing
<1> SUFFICES ASSUME PipesInv PROVE NothingMissing
  OBVIOUS
<1> USE DEF PipesInv
<1>1. ASSUME dotProg = "dotprod", boss = "end" PROVE sum = Workers
  <2>1. Finished = Workers /\ sum \subseteq Workers
        /\ \A w \in Workers : w \in sum <=> worker[w] \in {"unlock", "exit"}
    BY <1>1 DEF DotInv, PipesTypeOK
  <2>2. QED
    BY <2>1 DEF Finished
<1>2. /\ got \in Seq(Nat) /\ pipe \in Seq(Nat) /\ DOMAIN got = 1 .. Len(got)
      /\ Len(got) \in Nat /\ Len(pipe) \in Nat
  BY LenProperties DEF PipesTypeOK
<1>3. /\ PipeFlow \in Seq(Nat)
      /\ DOMAIN PipeFlow = 1 .. Len(PipeFlow)
      /\ Len(PipeFlow) = Len(got) + Len(pipe)
      /\ \A k \in DOMAIN got : PipeFlow[k] = got[k]
  <2>1. /\ PipeFlow \in Seq(Nat) /\ Len(PipeFlow) = Len(got) + Len(pipe)
        /\ \A k \in 1 .. Len(got) + Len(pipe) :
             PipeFlow[k] = IF k <= Len(got) THEN got[k] ELSE pipe[k - Len(got)]
    BY <1>2, ConcatProperties DEF PipeFlow
  <2>2. QED
    BY <1>2, <2>1, LenProperties
<1>4. pipe = <<>> => PipeFlow = got
  BY <1>2, ConcatEmptySeq DEF PipeFlow
<1>5. ASSUME dotProg = "lab10", kid \in {"print", "exit"}
      PROVE  /\ Len(got) = NUMTHRDS
             /\ \A w \in Workers : \E k \in DOMAIN got : got[k] = w
  <2>1. /\ pipe = <<>> /\ "parent" \notin writers
        /\ boss \in {"wait", "end"} => Finished = Workers
        /\ Len(PipeFlow) = Cardinality(Finished)
        /\ \A w \in Finished : \E k \in DOMAIN PipeFlow : PipeFlow[k] = w
    BY <1>5 DEF SumsInv
  <2>2. Finished = Workers
    BY <1>5, <2>1 DEF SumsInv
  <2>3. QED
    BY <1>4, <2>1, <2>2, WorkersFinite
<1>6. ASSUME dotProg = "pipetest"
      PROVE  /\ \A k \in DOMAIN got : got[k] = k
             /\ kid \in {"print", "exit"} => Len(got) = ARGLEN
  <2>1. /\ \A k \in DOMAIN PipeFlow : PipeFlow[k] = k
        /\ Len(PipeFlow) = written
    BY <1>6 DEF BytesInv
  <2>2. \A k \in DOMAIN got : got[k] = k
    BY <1>2, <1>3, <2>1
  <2>3. ASSUME kid \in {"print", "exit"} PROVE Len(got) = ARGLEN
    <3>1. pipe = <<>> /\ written = ARGLEN
      BY <1>6, <2>3 DEF BytesInv
    <3>2. QED
      BY <1>4, <2>1, <3>1
  <2>4. QED
    BY <2>2, <2>3
<1>7. QED
  BY <1>1, <1>5, <1>6 DEF NothingMissing

----------------------------------------------------------------------------
(* Any of the programs.  Those that do not run stutter.                    *)

LEMMA HandoffsAreTheirs ==
  HandoffsSpec => /\ Lab6Spec /\ MineSpec /\ EchoSpec /\ RelaySpec
                  /\ MailboxSpec /\ CellsSpec /\ PipesSpec
<1>1. HandoffsInit => /\ Lab6Init /\ MineInit /\ EchoInit /\ RelayInit
                      /\ MailboxInit /\ CellsInit /\ PipesInit
  BY DEF HandoffsInit
<1>2. [HandoffsNext]_handoffVars =>
        /\ [Lab6Next]_lab6Vars /\ [MineNext]_mineVars /\ [EchoNext]_echoVars
        /\ [RelayNext]_relayVars /\ [MailboxNext]_mailVars
        /\ [CellsNext]_cellVars /\ [PipesNext]_pipeVars
  BY DEF HandoffsNext, RunLab6, RunMine, RunEcho, RunRelay, RunMessages, RunCells,
         RunPipes, handoffVars
<1>3. QED
  BY <1>1, <1>2, PTL DEF HandoffsSpec, Lab6Spec, MineSpec, EchoSpec, RelaySpec,
                         MailboxSpec, CellsSpec, PipesSpec

LEMMA HandoffsInductive ==
  HandoffsSpec => [](/\ Lab6TypeOK /\ MineTypeOK /\ RelayTypeOK
                     /\ EchoInv /\ MailInv /\ CellsInv /\ PipesInv)
BY HandoffsAreTheirs, Lab6TypeCorrect, MineTypeCorrect, RelayTypeCorrect,
   EchoInductive, MailInductive, CellsInductive, PipesInductive, PTL

(* Whichever of the programs runs, the variables of all keep their types:  *)
(* no queue or pipe holds more than there is room for, and no counter      *)
(* leaves its range.                                                       *)
THEOREM HandoffsTypeCorrect == HandoffsSpec => []HandoffsTypeOK
<1>1. (/\ Lab6TypeOK /\ MineTypeOK /\ RelayTypeOK
       /\ EchoInv /\ MailInv /\ CellsInv /\ PipesInv) => HandoffsTypeOK
  BY DEF HandoffsTypeOK, EchoInv, MailInv, CellsInv, PipesInv
<1>2. QED
  BY <1>1, HandoffsInductive, PTL

(* However many senders, receivers and runs there are and whenever they    *)
(* are killed: no message is received twice or before the earlier one of   *)
(* its sender (msg_rcv.c l.95), the log of lab4 holds what was typed in    *)
(* the same run unless a segment or a word was left (lab4.c l.53-57), and  *)
(* the consumer of echo never goes back.                                   *)
THEOREM HandsOnWhatWasSent == HandoffsSpec => []OnlyWhatWasSent
<1>1. MailInv => EachMessageOnce
  BY DEF MailInv, Ordered, Flow, EachMessageOnce
<1>2. EchoInv => EchoGoesForward
  BY DEF EchoInv
<1>3. EchoInv /\ MailInv /\ CellsInv => OnlyWhatWasSent
  BY <1>1, <1>2, LogsFollow DEF OnlyWhatWasSent
<1>4. QED
  BY <1>3, HandoffsInductive, PTL

(* For any number of threads, bytes and room in the pipe: the sum dotprod  *)
(* prints has every thread's part (dotprod.c l.66-68), the child of lab10  *)
(* adds up each part once (lab10.c l.110-113), and pipetest echoes its     *)
(* argument in order to the last byte (pipetest.c l.70-73).                *)
THEOREM NoPartIsMissing == HandoffsSpec => []NothingMissing
BY NothingIsMissing, HandoffsInductive, PTL
=============================================================================
