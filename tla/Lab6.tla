-------------------------------- MODULE Lab6 --------------------------------
(***************************************************************************)
(* 6/lab6.c: a producer thread fills a one-character buffer from a file, a *)
(* consumer thread prints it, and two semaphores (initially 1 and 0) hand  *)
(* the turn from one to the other.                                         *)
(*                                                                         *)
(* Both threads use both global sembufs: the consumer grabs with con_sops  *)
(* and the producer releases with it, each after storing -1 or +1 in its   *)
(* sem_op.  The store and the semop are separate steps, so one thread may  *)
(* issue the other's operation; sembufs records that it happened.          *)
(*                                                                         *)
(* Characters are their positions in the file, which is long enough.       *)
(***************************************************************************)
EXTENDS Integers

CONSTANT LIMIT      \* characters to hand over (100, or the argument)

ASSUME Lab6Assumption == LIMIT \in Nat

VARIABLES
  main,     \* where main() is
  pc,       \* where each thread is
  count,    \* each thread's loop counter
  sem_op,   \* the operation stored in each global sembuf
  sem,      \* the value of the semaphore each sembuf names
  buf,      \* the character in the buffer, 0 for the blank
  sembufs   \* "clobbered" once a thread issued what the other one stored

lab6Vars == <<main, pc, count, sem_op, sem, buf, sembufs>>

Threads == {"consumer", "producer"}
Sops == {"con_sops", "pro_sops"}
MainSteps == {"semctl", "create consumer", "blank", "create producer", "join",
              "exited"}
ThreadSteps == {"new", "set grab", "grab", "asleep grab", "use",
                "set release", "release", "asleep release", "exit"}

Own(t)   == IF t = "consumer" THEN "con_sops" ELSE "pro_sops"
Other(t) == IF t = "consumer" THEN "pro_sops" ELSE "con_sops"

Lab6Init ==
  /\ main = "semctl"
  /\ pc = [t \in Threads |-> "new"]
  /\ count = [t \in Threads |-> 0]
  /\ sem_op = [s \in Sops |-> 0]
  /\ sem = [s \in Sops |-> 0]
  /\ buf = 0
  /\ sembufs = "kept"

----------------------------------------------------------------------------
(* main()                                                                  *)

MainTo(from, to) == main = from /\ main' = to

Loop(n) == IF n = LIMIT THEN "exit" ELSE "set grab"

(* mutant: the consumer's semaphore is up as well *)
SetSemaphores_both ==
  /\ MainTo("semctl", "create consumer")
  /\ sem' = [sem EXCEPT !["pro_sops"] = 1, !["con_sops"] = 1]
  /\ UNCHANGED <<pc, count, sem_op, buf, sembufs>>

SetSemaphores ==
  /\ MainTo("semctl", "create consumer")
  /\ sem' = [sem EXCEPT !["pro_sops"] = 1, !["con_sops"] = 0]
  /\ UNCHANGED <<pc, count, sem_op, buf, sembufs>>

Create(t, from, to) ==
  /\ MainTo(from, to)
  /\ pc' = [pc EXCEPT ![t] = Loop(0)]
  /\ UNCHANGED <<count, sem_op, sem, buf, sembufs>>

BlankBuffer ==
  /\ MainTo("blank", "create producer")
  /\ buf' = 0
  /\ UNCHANGED <<pc, count, sem_op, sem, sembufs>>

Join ==
  /\ MainTo("join", "exited")
  /\ \A t \in Threads : pc[t] = "exit"
  /\ UNCHANGED <<pc, count, sem_op, sem, buf, sembufs>>

Main ==
  \/ SetSemaphores
  \/ Create("consumer", "create consumer", "blank")
  \/ BlankBuffer
  \/ Create("producer", "create producer", "join")
  \/ Join

----------------------------------------------------------------------------
(* The threads.                                                            *)

(* the store into sem_op before a semop *)
Set(t, s, n, from, to) ==
  /\ pc[t] = from
  /\ pc' = [pc EXCEPT ![t] = to]
  /\ sem_op' = [sem_op EXCEPT ![s] = n]
  /\ UNCHANGED <<main, count, sem, buf, sembufs>>

(* The kernel copies the sembuf, performs the operation if it can, and     *)
(* otherwise puts the caller to sleep on its copy.                         *)
Semop(t, s, meant, from, asleep, to) ==
  /\ pc[t] = from
  /\ IF sem[s] + sem_op[s] >= 0
     THEN /\ sem' = [sem EXCEPT ![s] = @ + sem_op[s]]
          /\ pc' = [pc EXCEPT ![t] = to]
     ELSE /\ pc' = [pc EXCEPT ![t] = asleep]
          /\ UNCHANGED sem
  /\ sembufs' = IF sem_op[s] = meant THEN sembufs ELSE "clobbered"
  /\ UNCHANGED <<main, count, sem_op, buf>>

(* Only a -1 sleeps; the kernel performs it once the value allows. *)
Wake(t, s, asleep, to) ==
  /\ pc[t] = asleep
  /\ sem[s] > 0
  /\ sem' = [sem EXCEPT ![s] = @ - 1]
  /\ pc' = [pc EXCEPT ![t] = to]
  /\ UNCHANGED <<main, count, sem_op, buf, sembufs>>

SetGrab(t) == Set(t, Own(t), -1, "set grab", "grab")

Grab(t) == Semop(t, Own(t), -1, "grab", "asleep grab", "use")

WakeGrab(t) == Wake(t, Own(t), "asleep grab", "use")

Use(t) ==
  /\ pc[t] = "use"
  /\ pc' = [pc EXCEPT ![t] = "set release"]
  /\ count' = [count EXCEPT ![t] = @ + 1]
  /\ buf' = IF t = "producer" THEN count[t] + 1 ELSE buf
  /\ UNCHANGED <<main, sem_op, sem, sembufs>>

SetRelease(t) == Set(t, Other(t), 1, "set release", "release")

Release(t) ==
  Semop(t, Other(t), 1, "release", "asleep release", Loop(count[t]))

WakeRelease(t) == Wake(t, Other(t), "asleep release", Loop(count[t]))

Thread(t) ==
  \/ SetGrab(t) \/ Grab(t) \/ WakeGrab(t)
  \/ Use(t)
  \/ SetRelease(t) \/ Release(t) \/ WakeRelease(t)

Lab6Next == Main \/ \E t \in Threads : Thread(t)

Lab6Spec == Lab6Init /\ [][Lab6Next]_lab6Vars

Lab6FairSpec ==
  /\ Lab6Spec
  /\ WF_lab6Vars(Main)
  /\ \A t \in Threads : WF_lab6Vars(Thread(t))

----------------------------------------------------------------------------
(* Properties.                                                             *)

Lab6TypeOK ==
  /\ main \in MainSteps
  /\ pc \in [Threads -> ThreadSteps]
  /\ count \in [Threads -> Nat]
  /\ sem_op \in [Sops -> -1..1]
  /\ sem \in [Sops -> Nat]
  /\ buf \in Nat
  /\ sembufs \in {"kept", "clobbered"}

(* As long as no sembuf was clobbered the consumer is about to print the   *)
(* character after the last one it printed: none is skipped or repeated.   *)
PrintsNextChar ==
  sembufs = "kept" /\ pc["consumer"] = "use" => buf = count["consumer"] + 1

(* Until a sembuf is clobbered the threads take turns.                     *)
Lab6Turns == INSTANCE Handoff WITH
  turns <- IF sembufs = "kept" THEN "kept" ELSE "lost",
  given <- count["producer"],
  taken <- count["consumer"]

Lab6TakesTurns == Lab6Turns!Spec

(* l.126: "the parent thread always joins with its spawned threads": main  *)
(* gets past both joins.                                                   *)
Joins == <>(main = "exited")

(* The only way not to get there is a clobbered sembuf.                    *)
JoinsUnlessClobbered == <>(main = "exited" \/ sembufs = "clobbered")
=============================================================================
