------------------------------- MODULE Mailbox -------------------------------
(***************************************************************************)
(* 4/msg_send.c and 4/msg_rcv.c, any number of each at the same time on    *)
(* the queue of one key.  A sender sends two messages; a receiver takes    *)
(* one and removes the queue with what is left in it.  The next msgget of  *)
(* the key makes a new queue with a new identifier: those that hold the    *)
(* old one fail, at once or out of their sleep, and do not look at it.     *)
(***************************************************************************)
EXTENDS Integers, Sequences

CONSTANTS
  Senders,      \* instances of msg_send
  Receivers,    \* instances of msg_rcv
  QBYTES        \* messages the queue has room for (146 in msg_qbytes)

ASSUME MailboxAssumption == QBYTES \in Nat \ {0}

VARIABLES
  mail,       \* where each process is
  mqid,       \* the identifier each process holds, 0 before its msgget
  queue,      \* the queue of the key: its identifier (0: none) and messages
  lastId,     \* the identifier given last
  received    \* what the receivers printed, in the order of their msgrcv

mailVars == <<mail, mqid, queue, lastId, received>>

MailProcs == Senders \cup Receivers
Letters == Senders \X (1 .. 2)
NoQueue == [id |-> 0, msgs |-> <<>>]

MailboxInit ==
  /\ mail = [p \in MailProcs |-> "msgget"]
  /\ mqid = [p \in MailProcs |-> 0]
  /\ queue = NoQueue
  /\ lastId = 0
  /\ received = <<>>

MailGoto(p, from, to) == mail[p] = from /\ mail' = [mail EXCEPT ![p] = to]

----------------------------------------------------------------------------
(* IPC_CREAT: the queue of the key, or a new one *)
MsgGet(p) ==
  /\ MailGoto(p, "msgget", IF p \in Senders THEN "send 1" ELSE "msgrcv")
  /\ IF queue.id = 0
     THEN /\ queue' = [id |-> lastId + 1, msgs |-> <<>>]
          /\ lastId' = lastId + 1
     ELSE UNCHANGED <<queue, lastId>>
  /\ mqid' = [mqid EXCEPT ![p] = queue'.id]
  /\ UNCHANGED received

Stale(p) == queue.id # mqid[p]

(* msgsnd sleeps while the queue is full, until it has room or is removed. *)
MsgSnd(p, n, from, to) ==
  /\ MailGoto(p, from, to)
  /\ Stale(p) \/ Len(queue.msgs) < QBYTES
  /\ queue' = IF Stale(p) THEN queue
              ELSE [queue EXCEPT !.msgs = Append(@, <<p, n>>)]
  /\ UNCHANGED <<mqid, lastId, received>>

msg_send(p) ==
  \/ MsgGet(p)
  \/ MsgSnd(p, 1, "send 1", "send 2")
  \/ MsgSnd(p, 2, "send 2", "exit")

(* mutant: the message is read but stays in the queue *)
MsgRcv_peek(p) ==
  /\ MailGoto(p, "msgrcv", "rmid")
  /\ ~Stale(p) /\ queue.msgs # <<>>
  /\ received' = Append(received, Head(queue.msgs))
  /\ UNCHANGED <<mqid, queue, lastId>>

MsgRcv(p) ==
  /\ MailGoto(p, "msgrcv", "rmid")
  /\ ~Stale(p) /\ queue.msgs # <<>>
  /\ queue' = [queue EXCEPT !.msgs = Tail(@)]
  /\ received' = Append(received, Head(queue.msgs))
  /\ UNCHANGED <<mqid, lastId>>

(* the queue is removed while the receiver sleeps, or was so before *)
MsgRcvFails(p) ==
  /\ MailGoto(p, "msgrcv", "rmid")
  /\ Stale(p)
  /\ UNCHANGED <<mqid, queue, lastId, received>>

MsgRmid(p) ==
  /\ MailGoto(p, "rmid", "exit")
  /\ queue' = IF Stale(p) THEN queue ELSE NoQueue
  /\ UNCHANGED <<mqid, lastId, received>>

msg_rcv(p) == MsgGet(p) \/ MsgRcv(p) \/ MsgRcvFails(p) \/ MsgRmid(p)

MailboxNext ==
  \/ \E p \in Senders : msg_send(p)
  \/ \E p \in Receivers : msg_rcv(p)

MailboxSpec == MailboxInit /\ [][MailboxNext]_mailVars

----------------------------------------------------------------------------
(* Properties.                                                             *)

MailboxTypeOK ==
  /\ mail \in [MailProcs ->
                {"msgget", "send 1", "send 2", "msgrcv", "rmid", "exit"}]
  /\ mqid \in [MailProcs -> 0 .. lastId]
  /\ queue.id \in 0 .. lastId
  /\ queue.msgs \in Seq(Letters)
  /\ Len(queue.msgs) <= QBYTES
  /\ lastId \in Nat
  /\ received \in Seq(Letters)

(* Whatever queues come and go, a message is printed at most once, and     *)
(* "Hello, again!" never before the "Hello, world!" of the same sender     *)
(* (l.94 and l.100 of msg_send.c).                                         *)
EachMessageOnce ==
  LET all == received \o queue.msgs
  IN  \A i, j \in DOMAIN all :
        i < j /\ all[i][1] = all[j][1] => all[i][2] < all[j][2]

(* Nobody is left behind for ever while there is what it waits for: at     *)
(* the end all have exited, except receivers on an empty queue to which no *)
(* sender will send, and senders on a full one nobody will read.           *)
MailSettles ==
  <>[] \A p \in MailProcs :
         \/ mail[p] = "exit"
         \/ p \in Receivers /\ mail[p] = "msgrcv" /\ queue.msgs = <<>>
         \/ p \in Senders /\ Len(queue.msgs) = QBYTES
=============================================================================
