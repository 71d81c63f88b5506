----------------------------- MODULE TurnProofs ----------------------------
(***************************************************************************)
(* Proofs about the programs that take turns.  lab6, for any LIMIT: as     *)
(* long as each thread issues what it stored in a sembuf, no character is  *)
(* skipped or printed twice.  lab9 with one turn each, for any number of   *)
(* threads and kills: the numbers come out in order, and the set is        *)
(* removed after the last one.  mine, for any number of rounds and kills:  *)
(* SEM_UNDO leaves the set with the values a run begins with, and otter    *)
(* and seagull take turns in every run.                                    *)
(***************************************************************************)
EXTENDS Lab6, Mine, Relay, TLAPS

USE Lab6Assumption, MineAssumption, RelayAssumption

----------------------------------------------------------------------------
(* lab6.                                                                   *)

(* Where the steps of main() and of a thread may lead. *)
LEMMA Lab6StepNames ==
  /\ {"create consumer", "blank", "create producer", "join", "exited"}
       \subseteq MainSteps
  /\ {"new", "set grab", "grab", "asleep grab", "use", "set release", "release",
      "asleep release"} \subseteq ThreadSteps
  /\ \A n \in Nat : Loop(n) \in ThreadSteps
BY DEF MainSteps, ThreadSteps, Loop

(* The threads and the sembufs. *)
LEMMA Names ==
  /\ "consumer" \in Threads /\ "producer" \in Threads
  /\ "con_sops" \in Sops /\ "pro_sops" \in Sops
  /\ \A t \in Threads : Own(t) \in Sops /\ Other(t) \in Sops
BY DEF Threads, Sops, Own, Other

(* The two system calls, and the store before them, keep the types. *)
LEMMA CallTypes ==
  ASSUME Lab6TypeOK, NEW t \in Threads, NEW s \in Sops, NEW n \in -1..1,
         NEW from, NEW asleep \in ThreadSteps, NEW to \in ThreadSteps,
         \/ Set(t, s, n, from, to)
         \/ Semop(t, s, n, from, asleep, to)
         \/ Wake(t, s, asleep, to)
  PROVE  Lab6TypeOK'
<1> USE DEF Lab6TypeOK
<1>1. CASE Set(t, s, n, from, to)
  BY <1>1 DEF Set
<1>2. CASE Semop(t, s, n, from, asleep, to)
  <2>1. sem' \in [Sops -> Nat] /\ pc' \in [Threads -> ThreadSteps]
    BY <1>2 DEF Semop
  <2>2. QED
    BY <1>2, <2>1 DEF Semop
<1>3. CASE Wake(t, s, asleep, to)
  BY <1>3 DEF Wake
<1>4. QED
  BY <1>1, <1>2, <1>3

(* The variables keep their types.                                         *)
THEOREM Lab6TypeCorrect == Lab6Spec => []Lab6TypeOK
<1>1. Lab6Init => Lab6TypeOK
  <2> SUFFICES ASSUME Lab6Init PROVE Lab6TypeOK
    OBVIOUS
  <2>1. main \in MainSteps /\ pc \in [Threads -> ThreadSteps]
    BY DEF Lab6Init, MainSteps, ThreadSteps
  <2>2. QED
    BY <2>1 DEF Lab6Init, Lab6TypeOK
<1>2. Lab6TypeOK /\ [Lab6Next]_lab6Vars => Lab6TypeOK'
  <2> SUFFICES ASSUME Lab6TypeOK, [Lab6Next]_lab6Vars
               PROVE  Lab6TypeOK'
    OBVIOUS
  <2>1. ASSUME Main PROVE Lab6TypeOK'
    <3> USE Lab6StepNames, Names
    <3>1. CASE SetSemaphores
      BY <3>1 DEF SetSemaphores, MainTo, Lab6TypeOK
    <3>2. CASE Create("consumer", "create consumer", "blank")
      BY <3>2 DEF Create, MainTo, Lab6TypeOK
    <3>3. CASE BlankBuffer
      BY <3>3 DEF BlankBuffer, MainTo, Lab6TypeOK
    <3>4. CASE Create("producer", "create producer", "join")
      BY <3>4 DEF Create, MainTo, Lab6TypeOK
    <3>5. CASE Join
      BY <3>5 DEF Join, MainTo, Lab6TypeOK
    <3>6. QED
      BY <2>1, <3>1, <3>2, <3>3, <3>4, <3>5 DEF Main
  <2>2. ASSUME NEW t \in Threads, Thread(t) PROVE Lab6TypeOK'
    <3>0. /\ Own(t) \in Sops /\ Other(t) \in Sops
          /\ -1 \in -1..1 /\ 1 \in -1..1
          /\ count[t] \in Nat
      <4>1. Own(t) \in Sops /\ Other(t) \in Sops
        BY Names
      <4>2. -1 \in -1..1 /\ 1 \in -1..1
        OBVIOUS
      <4>3. count[t] \in Nat
        BY DEF Lab6TypeOK
      <4>4. QED
        BY <4>1, <4>2, <4>3
    <3>1. CASE SetGrab(t)
      <4>1. Set(t, Own(t), -1, "set grab", "grab")
        BY <3>1 DEF SetGrab
      <4>2. "grab" \in ThreadSteps
        BY Lab6StepNames
      <4>3. QED
        BY <3>0, <4>1, <4>2, CallTypes
    <3>7. CASE Grab(t) \/ WakeGrab(t)
      BY <3>0, <3>7, CallTypes, Lab6StepNames DEF Grab, WakeGrab
    <3>2. CASE Use(t)
      <4>1. pc' \in [Threads -> ThreadSteps]
        BY <3>2, Lab6StepNames DEF Use, Lab6TypeOK
      <4>2. count' \in [Threads -> Nat] /\ buf' \in Nat
        <5>1. count[t] + 1 \in Nat
          BY <3>0
        <5>2. count \in [Threads -> Nat] /\ buf \in Nat
          BY DEF Lab6TypeOK
        <5>3. QED
          BY <3>2, <5>1, <5>2 DEF Use
      <4>3. QED
        BY <3>2, <4>1, <4>2 DEF Use, Lab6TypeOK
    <3>3. CASE SetRelease(t)
      <4>1. Set(t, Other(t), 1, "set release", "release")
        BY <3>3 DEF SetRelease
      <4>2. "release" \in ThreadSteps
        BY Lab6StepNames
      <4>3. QED
        BY <3>0, <4>1, <4>2, CallTypes
    <3>4. CASE Release(t)
      BY <3>0, <3>4, CallTypes, Lab6StepNames DEF Release
    <3>5. CASE WakeRelease(t)
      BY <3>0, <3>5, CallTypes, Lab6StepNames DEF WakeRelease
    <3>6. QED
      BY <2>2, <3>1, <3>7, <3>2, <3>3, <3>4, <3>5 DEF Thread
  <2>3. ASSUME UNCHANGED lab6Vars PROVE Lab6TypeOK'
    BY <2>3 DEF lab6Vars, Lab6TypeOK
  <2>4. QED
    BY <2>1, <2>2, <2>3 DEF Lab6Next
<1>3. QED
  BY <1>1, <1>2, PTL DEF Lab6Spec

----------------------------------------------------------------------------
(* The turn.  Exactly one of these holds of one thread t: its semaphore is *)
(* up; it has grabbed and not used the buffer; it has used it and not yet  *)
(* raised the semaphore of its rival.                                      *)

Lab6Rival(t) == IF t = "consumer" THEN "producer" ELSE "consumer"

Lab6TurnSteps == {"use", "set release", "release", "asleep release"}
GiveSteps == {"set release", "release"}
Lab6Outside(t) == pc[t] \notin Lab6TurnSteps

(* The counts before t uses the buffer. *)
Lab6Due(t) == count["producer"] = count["consumer"] + (IF t = "consumer" THEN 1 ELSE 0)

Lab6Free(t) ==
  /\ sem[Own(t)] = 1 /\ sem[Other(t)] = 0
  /\ Lab6Outside(t) /\ Lab6Outside(Lab6Rival(t))
  /\ Lab6Due(t)

Lab6Uses(t) ==
  /\ sem[Own(t)] = 0 /\ sem[Other(t)] = 0
  /\ pc[t] = "use" /\ Lab6Outside(Lab6Rival(t))
  /\ Lab6Due(t)

Lab6Gives(t) ==
  /\ sem[Own(t)] = 0 /\ sem[Other(t)] = 0
  /\ pc[t] \in GiveSteps /\ Lab6Outside(Lab6Rival(t))
  /\ Lab6Due(Lab6Rival(t))

Lab6OneTurn == \E t \in Threads : Lab6Free(t) \/ Lab6Uses(t) \/ Lab6Gives(t)

(* What holds while main() still creates the threads. *)
NotYet(t) == pc[t] = "new" /\ count[t] = 0
Lab6Starting ==
  /\ main \in {"semctl", "create consumer"} => NotYet("consumer")
  /\ main \in {"semctl", "create consumer", "blank", "create producer"} =>
       NotYet("producer")

TurnInv ==
  /\ Lab6Starting
  /\ sembufs = "kept" =>
       /\ buf = count["producer"]
       /\ main # "semctl" => Lab6OneTurn

(* Each thread and its rival are all the threads, and their semaphores     *)
(* are the two there are.                                                  *)
LEMMA Lab6Sides ==
  ASSUME NEW t \in Threads
  PROVE  /\ Lab6Rival(t) \in Threads /\ Lab6Rival(t) # t /\ Lab6Rival(Lab6Rival(t)) = t
         /\ \A u \in Threads : u # t => u = Lab6Rival(t)
         /\ Own(t) # Other(t)
         /\ Own(Lab6Rival(t)) = Other(t) /\ Other(Lab6Rival(t)) = Own(t)
         /\ Own(t) \in Sops /\ Other(t) \in Sops
BY DEF Threads, Sops, Lab6Rival, Own, Other

(* Which steps are part of a turn. *)
LEMMA TurnNames ==
  /\ "new" \notin Lab6TurnSteps /\ "set grab" \notin Lab6TurnSteps
  /\ "grab" \notin Lab6TurnSteps /\ "asleep grab" \notin Lab6TurnSteps
  /\ "use" \in Lab6TurnSteps /\ "asleep release" \in Lab6TurnSteps
  /\ GiveSteps \subseteq Lab6TurnSteps
  /\ "use" \notin GiveSteps /\ "asleep release" \notin GiveSteps
  /\ "set release" \in GiveSteps /\ "release" \in GiveSteps
  /\ \A n : Loop(n) \notin Lab6TurnSteps
BY DEF Lab6TurnSteps, GiveSteps, Loop

(* A step of t that leaves semaphores and counts alone, and takes t from   *)
(* outside a turn to outside a turn, leaves the turn where it is.          *)
LEMMA OutsideStep ==
  ASSUME Lab6TypeOK, Lab6OneTurn, NEW t \in Threads, Lab6Outside(t),
         NEW to, to \notin Lab6TurnSteps, pc' = [pc EXCEPT ![t] = to],
         UNCHANGED <<count, sem>>
  PROVE  Lab6OneTurn'
<1>1. PICK u \in Threads : Lab6Free(u) \/ Lab6Uses(u) \/ Lab6Gives(u)
  BY DEF Lab6OneTurn
<1>2. /\ pc[u] \in Lab6TurnSteps => u # t
      /\ u # t => pc'[u] = pc[u]
      /\ Lab6Outside(u) => Lab6Outside(u)'
      /\ Lab6Outside(Lab6Rival(u)) => Lab6Outside(Lab6Rival(u))'
  BY Lab6Sides DEF Lab6Outside, Lab6TypeOK
<1>3. Lab6Free(u)' \/ Lab6Uses(u)' \/ Lab6Gives(u)'
  <2>1. Lab6Due(u)' = Lab6Due(u) /\ Lab6Due(Lab6Rival(u))' = Lab6Due(Lab6Rival(u))
    BY DEF Lab6Due
  <2>2. CASE Lab6Free(u)
    BY <2>1, <2>2, <1>2 DEF Lab6Free
  <2>3. CASE Lab6Uses(u)
    BY <2>1, <2>3, <1>2, TurnNames DEF Lab6Uses
  <2>4. CASE Lab6Gives(u)
    BY <2>1, <2>4, <1>2, TurnNames DEF Lab6Gives
  <2>5. QED
    BY <1>1, <2>2, <2>3, <2>4
<1>4. QED
  BY <1>3 DEF Lab6OneTurn

(* Where t stands when it is in a turn, and when its semaphore is up. *)
LEMMA Lab6Whose ==
  ASSUME Lab6TypeOK, Lab6OneTurn, NEW t \in Threads
  PROVE  /\ pc[t] = "use" => Lab6Uses(t)
         /\ pc[t] \in GiveSteps => Lab6Gives(t)
         /\ pc[t] # "asleep release"
         /\ sem[Own(t)] > 0 => Lab6Free(t)
<1>1. PICK u \in Threads : Lab6Free(u) \/ Lab6Uses(u) \/ Lab6Gives(u)
  BY DEF Lab6OneTurn
<1>2. u = t \/ (u = Lab6Rival(t) /\ t = Lab6Rival(u) /\ Other(u) = Own(t))
  BY Lab6Sides
<1>3. pc[t] = "use" => Lab6Uses(t)
  BY <1>1, <1>2, TurnNames DEF Lab6Free, Lab6Uses, Lab6Gives, Lab6Outside
<1>4. pc[t] \in GiveSteps => Lab6Gives(t)
  BY <1>1, <1>2, TurnNames DEF Lab6Free, Lab6Uses, Lab6Gives, Lab6Outside
<1>5. pc[t] # "asleep release"
  BY <1>1, <1>2, TurnNames DEF Lab6Free, Lab6Uses, Lab6Gives, Lab6Outside
<1>6. sem[Own(t)] > 0 => Lab6Free(t)
  BY <1>1, <1>2 DEF Lab6Free, Lab6Uses, Lab6Gives
<1>7. QED
  BY <1>3, <1>4, <1>5, <1>6

(* Taking its semaphore gives a thread the turn. *)
LEMMA Lab6GrabTurn ==
  ASSUME Lab6TypeOK, Lab6OneTurn, NEW t \in Threads,
         sem[Own(t)] > 0,
         sem' = [sem EXCEPT ![Own(t)] = @ - 1],
         pc' = [pc EXCEPT ![t] = "use"],
         UNCHANGED count
  PROVE  Lab6OneTurn'
<1>1. Lab6Free(t)
  BY Lab6Whose
<1>2. sem'[Own(t)] = 0 /\ sem'[Other(t)] = 0
  BY <1>1, Lab6Sides DEF Lab6Free, Lab6TypeOK
<1>3. pc'[t] = "use" /\ Lab6Outside(Lab6Rival(t))'
  BY <1>1, Lab6Sides DEF Lab6Free, Lab6TypeOK, Lab6Outside
<1>4. Lab6Due(t)'
  BY <1>1 DEF Lab6Free, Lab6Due
<1>5. QED
  BY <1>2, <1>3, <1>4 DEF Lab6Uses, Lab6OneTurn

(* Using the buffer makes it the rival's turn to count. *)
LEMMA UseTurn ==
  ASSUME Lab6TypeOK, Lab6OneTurn, NEW t \in Threads, Use(t)
  PROVE  Lab6OneTurn'
<1>1. Lab6Uses(t)
  BY Lab6Whose DEF Use
<1>2. sem'[Own(t)] = 0 /\ sem'[Other(t)] = 0
  BY <1>1 DEF Lab6Uses, Use
<1>3. pc'[t] \in GiveSteps /\ Lab6Outside(Lab6Rival(t))'
  <2>1. pc'[t] \in GiveSteps
    BY TurnNames DEF Use, Lab6TypeOK
  <2>2. pc'[Lab6Rival(t)] = pc[Lab6Rival(t)]
    BY Lab6Sides DEF Use, Lab6TypeOK
  <2>3. Lab6Outside(Lab6Rival(t))'
    BY <1>1, <2>2 DEF Lab6Uses, Lab6Outside
  <2>4. QED
    BY <2>1, <2>3
<1>4. Lab6Due(Lab6Rival(t))'
  <2>1. /\ count["producer"] \in Nat /\ count["consumer"] \in Nat
        /\ count'["producer"] = IF t = "producer" THEN count["producer"] + 1
                                ELSE count["producer"]
        /\ count'["consumer"] = IF t = "consumer" THEN count["consumer"] + 1
                                ELSE count["consumer"]
    BY Names DEF Use, Lab6TypeOK
  <2>2. t = "producer" \/ t = "consumer"
    BY DEF Threads
  <2>3. QED
    BY <1>1, <2>1, <2>2 DEF Lab6Uses, Lab6Due, Lab6Rival
<1>5. QED
  BY <1>2, <1>3, <1>4 DEF Lab6Gives, Lab6OneTurn

(* Raising the rival's semaphore makes it the rival's turn to grab. *)
LEMMA Lab6ReleaseTurn ==
  ASSUME Lab6TypeOK, Lab6OneTurn, NEW t \in Threads,
         pc[t] = "release",
         sem' = [sem EXCEPT ![Other(t)] = @ + 1],
         NEW to, to \notin Lab6TurnSteps, pc' = [pc EXCEPT ![t] = to],
         UNCHANGED count
  PROVE  Lab6OneTurn'
<1>1. Lab6Gives(t)
  BY Lab6Whose, TurnNames
<1>2. sem'[Other(t)] = 1 /\ sem'[Own(t)] = 0
  BY <1>1, Lab6Sides DEF Lab6Gives, Lab6TypeOK
<1>3. Lab6Outside(t)' /\ Lab6Outside(Lab6Rival(t))'
  BY <1>1, Lab6Sides DEF Lab6Gives, Lab6TypeOK, Lab6Outside
<1>4. Lab6Due(Lab6Rival(t))'
  BY <1>1 DEF Lab6Gives, Lab6Due
<1>5. Lab6Free(Lab6Rival(t))'
  BY <1>2, <1>3, <1>4, Lab6Sides DEF Lab6Free
<1>6. QED
  BY <1>5, Lab6Sides DEF Lab6OneTurn

(* What the semop of a thread does when it issues what it stored: a grab   *)
(* takes one or sleeps, a release always adds one.                         *)
LEMMA GrabCall ==
  ASSUME Lab6TypeOK, NEW t \in Threads, Grab(t),
         sembufs = "kept", sembufs' = "kept"
  PROVE  /\ pc[t] = "grab" /\ UNCHANGED <<count, buf>>
         /\ \/ UNCHANGED sem /\ pc' = [pc EXCEPT ![t] = "asleep grab"]
            \/ /\ sem[Own(t)] > 0
               /\ sem' = [sem EXCEPT ![Own(t)] = @ - 1]
               /\ pc' = [pc EXCEPT ![t] = "use"]
<1>1. sem_op[Own(t)] = -1
  BY DEF Grab, Semop
<1>2. sem[Own(t)] \in Nat
  BY Lab6Sides DEF Lab6TypeOK
<1>3. /\ sem[Own(t)] + sem_op[Own(t)] >= 0 <=> sem[Own(t)] > 0
      /\ sem[Own(t)] + sem_op[Own(t)] = sem[Own(t)] - 1
  BY <1>1, <1>2
<1>4. QED
  BY <1>3 DEF Grab, Semop

LEMMA ReleaseCall ==
  ASSUME Lab6TypeOK, NEW t \in Threads, Release(t),
         sembufs = "kept", sembufs' = "kept"
  PROVE  /\ pc[t] = "release" /\ UNCHANGED <<count, buf>>
         /\ sem' = [sem EXCEPT ![Other(t)] = @ + 1]
         /\ pc' = [pc EXCEPT ![t] = Loop(count[t])]
<1>1. sem_op[Other(t)] = 1
  BY DEF Release, Semop
<1>2. sem[Other(t)] \in Nat
  BY Lab6Sides DEF Lab6TypeOK
<1>3. /\ sem[Other(t)] + sem_op[Other(t)] >= 0
      /\ sem[Other(t)] + sem_op[Other(t)] = sem[Other(t)] + 1
  BY <1>1, <1>2
<1>4. QED
  BY <1>3 DEF Release, Semop

(* A step of a thread that issues what it stored keeps the turn. *)
LEMMA ThreadTurn ==
  ASSUME Lab6TypeOK, Lab6OneTurn, NEW t \in Threads, Thread(t),
         sembufs = "kept", sembufs' = "kept", buf = count["producer"]
  PROVE  Lab6OneTurn' /\ buf' = count'["producer"]
<1> USE TurnNames
<1>1. CASE SetGrab(t)
  <2>1. /\ pc[t] = "set grab" /\ pc' = [pc EXCEPT ![t] = "grab"]
        /\ UNCHANGED <<count, sem, buf>>
    BY <1>1 DEF SetGrab, Set
  <2>2. QED
    BY <2>1, OutsideStep DEF Lab6Outside
<1>2. CASE Grab(t)
  <2>1. /\ pc[t] = "grab" /\ UNCHANGED <<count, buf>>
        /\ \/ UNCHANGED sem /\ pc' = [pc EXCEPT ![t] = "asleep grab"]
           \/ /\ sem[Own(t)] > 0
              /\ sem' = [sem EXCEPT ![Own(t)] = @ - 1]
              /\ pc' = [pc EXCEPT ![t] = "use"]
    BY <1>2, GrabCall
  <2>2. Lab6Outside(t) /\ "asleep grab" \notin Lab6TurnSteps
    BY <2>1 DEF Lab6Outside
  <2>3. CASE UNCHANGED sem /\ pc' = [pc EXCEPT ![t] = "asleep grab"]
    BY <2>1, <2>2, <2>3, OutsideStep
  <2>4. CASE /\ sem[Own(t)] > 0
             /\ sem' = [sem EXCEPT ![Own(t)] = @ - 1]
             /\ pc' = [pc EXCEPT ![t] = "use"]
    BY <2>1, <2>4, Lab6GrabTurn
  <2>5. QED
    BY <2>1, <2>3, <2>4
<1>3. CASE WakeGrab(t)
  BY <1>3, Lab6GrabTurn DEF WakeGrab, Wake
<1>4. CASE Use(t)
  <2>1. buf' = count'["producer"]
    <3>1. /\ buf' = IF t = "producer" THEN count[t] + 1 ELSE buf
          /\ count' = [count EXCEPT ![t] = @ + 1]
      BY <1>4 DEF Use
    <3>2. QED
      BY <3>1, Names DEF Lab6TypeOK
  <2>2. QED
    BY <1>4, <2>1, UseTurn
<1>5. CASE SetRelease(t)
  <2>1. /\ pc[t] = "set release" /\ pc' = [pc EXCEPT ![t] = "release"]
        /\ UNCHANGED <<count, sem, buf>>
    BY <1>5 DEF SetRelease, Set
  <2>2. Lab6Gives(t)
    BY <2>1, Lab6Whose
  <2>3. Lab6Gives(t)'
    <3>1. pc'[t] \in GiveSteps /\ Lab6Outside(Lab6Rival(t))'
      <4>1. Lab6Rival(t) \in Threads /\ Lab6Rival(t) # t
        BY Lab6Sides
      <4>2. pc \in [Threads -> ThreadSteps]
        BY DEF Lab6TypeOK
      <4>3. pc'[t] = "release" /\ pc'[Lab6Rival(t)] = pc[Lab6Rival(t)]
        BY ONLY <2>1, <4>1, <4>2, t \in Threads
      <4>4. QED
        BY <2>2, <4>3 DEF Lab6Gives, Lab6Outside
    <3>2. Lab6Due(Lab6Rival(t))'
      BY <2>1, <2>2 DEF Lab6Gives, Lab6Due
    <3>3. QED
      BY <2>1, <2>2, <3>1, <3>2 DEF Lab6Gives
  <2>4. QED
    BY <2>1, <2>3 DEF Lab6OneTurn
<1>6. CASE Release(t)
  BY <1>6, ReleaseCall, Lab6ReleaseTurn
<1>7. CASE WakeRelease(t)
  BY <1>7, Lab6Whose DEF WakeRelease, Wake
<1>8. QED
  BY <1>1, <1>2, <1>3, <1>4, <1>5, <1>6, <1>7 DEF Thread

(* While main() starts the program, and while the turn is kept, the turn   *)
(* invariant holds.                                                        *)
LEMMA TurnStep ==
  ASSUME Lab6TypeOK, TurnInv, [Lab6Next]_lab6Vars
  PROVE  TurnInv'
<1>1. CASE Main
  <2>1. CASE SetSemaphores
    <3>1. /\ main = "semctl" /\ main' = "create consumer"
          /\ UNCHANGED <<pc, count, buf, sembufs>>
      BY <2>1 DEF SetSemaphores, MainTo
    <3>2. sem'["pro_sops"] = 1 /\ sem'["con_sops"] = 0
      BY <2>1, Names DEF SetSemaphores, Lab6TypeOK
    <3>3. NotYet("consumer") /\ NotYet("producer")
      BY <3>1 DEF TurnInv, Lab6Starting
    <3>4. Lab6Free("producer")'
      <4>1. Lab6Outside("producer")' /\ Lab6Outside("consumer")'
        BY <3>1, <3>3, TurnNames DEF Lab6Outside, NotYet
      <4>2. Lab6Due("producer")'
        <5>1. count'["producer"] = 0 /\ count'["consumer"] = 0
          BY <3>1, <3>3 DEF NotYet
        <5>2. "producer" # "consumer"
          OBVIOUS
        <5>3. QED
          BY <5>1, <5>2 DEF Lab6Due
      <4>3. QED
        BY <3>2, <4>1, <4>2 DEF Lab6Free, Own, Other, Lab6Rival
    <3>5. Lab6Starting'
      BY <3>1, <3>3 DEF Lab6Starting, NotYet
    <3>6. QED
      BY <3>1, <3>4, <3>5, Names DEF TurnInv, Lab6OneTurn
  <2>2. ASSUME NEW t \in Threads, NEW from, NEW to, Create(t, from, to),
               \/ /\ t = "consumer"
                  /\ from = "create consumer" /\ to = "blank"
               \/ /\ t = "producer"
                  /\ from = "create producer" /\ to = "join"
        PROVE  TurnInv'
    <3>1. /\ main = from /\ main' = to
          /\ pc' = [pc EXCEPT ![t] = Loop(0)]
          /\ UNCHANGED <<count, sem, buf, sembufs>>
      BY <2>2 DEF Create, MainTo
    <3>2. pc[t] = "new" /\ main # "semctl"
      BY <2>2, <3>1 DEF TurnInv, Lab6Starting, NotYet
    <3>3. Lab6Starting'
      BY <2>2, <3>1, Names DEF TurnInv, Lab6Starting, NotYet, Lab6TypeOK
    <3>4. Lab6OneTurn => Lab6OneTurn'
      BY <3>1, <3>2, OutsideStep, TurnNames DEF Lab6Outside
    <3>5. QED
      BY <3>1, <3>2, <3>3, <3>4 DEF TurnInv
  <2>3. CASE BlankBuffer
    <3>1. /\ main = "blank" /\ main' = "create producer" /\ buf' = 0
          /\ UNCHANGED <<pc, count, sem, sembufs>>
      BY <2>3 DEF BlankBuffer, MainTo
    <3>2. NotYet("producer")
      BY <3>1 DEF TurnInv, Lab6Starting
    <3>3. Lab6Starting'
      BY <3>1, <3>2 DEF Lab6Starting, NotYet
    <3>4. Lab6OneTurn' = Lab6OneTurn
      BY <3>1 DEF Lab6OneTurn, Lab6Free, Lab6Uses, Lab6Gives, Lab6Due, Lab6Outside
    <3>5. QED
      BY <3>1, <3>2, <3>3, <3>4 DEF TurnInv, NotYet
  <2>4. CASE Join
    BY <2>4 DEF Join, MainTo, TurnInv, Lab6Starting, NotYet, Lab6OneTurn, Lab6Free, Lab6Uses,
                Lab6Gives, Lab6Due, Lab6Outside
  <2>5. QED
    BY <1>1, <2>1, <2>2, <2>3, <2>4, Names DEF Main
<1>2. ASSUME NEW t \in Threads, Thread(t) PROVE TurnInv'
  <2>1. pc[t] # "new" /\ main' = main
    BY <1>2 DEF Thread, SetGrab, Grab, WakeGrab, Use, SetRelease, Release,
                WakeRelease, Set, Semop, Wake
  <2>2. \A u \in Threads : pc[u] = "new" => u # t
    BY <2>1
  <2>3. \A u \in Threads : u # t => pc'[u] = pc[u] /\ count'[u] = count[u]
    BY <1>2 DEF Thread, SetGrab, Grab, WakeGrab, Use, SetRelease, Release,
                WakeRelease, Set, Semop, Wake, Lab6TypeOK
  <2>4. Lab6Starting'
    BY <2>1, <2>2, <2>3, Names DEF TurnInv, Lab6Starting, NotYet
  <2>5. sembufs' = "kept" => sembufs = "kept"
    BY <1>2 DEF Thread, SetGrab, Grab, WakeGrab, Use, SetRelease, Release,
                WakeRelease, Set, Semop, Wake
  <2>6. main # "semctl"
    BY <2>1, Names DEF TurnInv, Lab6Starting, NotYet, Threads
  <2>7. QED
    BY <1>2, <2>1, <2>4, <2>5, <2>6, ThreadTurn DEF TurnInv
<1>3. CASE UNCHANGED lab6Vars
  BY <1>3 DEF lab6Vars, TurnInv, Lab6Starting, NotYet, Lab6OneTurn, Lab6Free, Lab6Uses, Lab6Gives,
              Lab6Due, Lab6Outside
<1>4. QED
  BY <1>1, <1>2, <1>3 DEF Lab6Next

LEMMA TurnCorrect == Lab6Spec => [](Lab6TypeOK /\ TurnInv)
<1>1. Lab6Init => TurnInv
  BY Names DEF Lab6Init, TurnInv, Lab6Starting, NotYet
<1>2. Lab6TypeOK /\ TurnInv /\ [Lab6Next]_lab6Vars => TurnInv'
  BY TurnStep
<1>3. QED
  BY <1>1, <1>2, Lab6TypeCorrect, PTL DEF Lab6Spec

(* Unless a sembuf was clobbered, the consumer prints the file in order.   *)
THEOREM Lab6InOrder == Lab6Spec => []PrintsNextChar
<1>1. Lab6TypeOK /\ TurnInv => PrintsNextChar
  <2> SUFFICES ASSUME Lab6TypeOK, TurnInv, sembufs = "kept",
                      pc["consumer"] = "use"
               PROVE  buf = count["consumer"] + 1
    BY DEF PrintsNextChar
  <2>1. Lab6OneTurn /\ buf = count["producer"]
    BY DEF TurnInv, Lab6Starting, NotYet
  <2>2. Lab6Due("consumer")
    BY <2>1, Lab6Whose, Names DEF Lab6Uses
  <2>3. QED
    BY <2>1, <2>2 DEF Lab6Due
<1>2. QED
  BY <1>1, TurnCorrect, PTL

(* Unless a sembuf was clobbered, the threads take turns.                  *)
THEOREM Lab6Refinement == Lab6Spec => Lab6TakesTurns
<1> USE DEF Lab6Turns!Next, Lab6Turns!Give, Lab6Turns!Take
<1>1. Lab6Init => Lab6Turns!Init
  BY Names DEF Lab6Init, Lab6Turns!Init
<1>2. /\ Lab6TypeOK /\ TurnInv /\ Lab6TypeOK'
      /\ [Lab6Next]_lab6Vars
      => [Lab6Turns!Next]_<<IF sembufs = "kept" THEN "kept" ELSE "lost",
                            count["producer"], count["consumer"]>>
  <2> SUFFICES ASSUME Lab6TypeOK, TurnInv, Lab6TypeOK', [Lab6Next]_lab6Vars
               PROVE  \/ Lab6Turns!Next
                      \/ UNCHANGED <<sembufs, count>>
    OBVIOUS
  <2>1. ASSUME UNCHANGED count, sembufs' # sembufs PROVE Lab6Turns!Next
    <3>1. sembufs' = "clobbered" /\ count' \in [Threads -> Nat]
      BY <2>1 DEF Lab6Next, Main, SetSemaphores, Create, BlankBuffer, Join, Thread,
                  SetGrab, Grab, WakeGrab, Use, SetRelease, Release, WakeRelease,
                  Set, Semop, Wake, Lab6TypeOK, lab6Vars
    <3>2. count'["producer"] \in Nat /\ count'["consumer"] \in Nat
      BY <3>1, Names
    <3>3. QED
      BY <3>1, <3>2
  <2>2. ASSUME NEW t \in Threads, Use(t) PROVE Lab6Turns!Next
    <3>1. CASE sembufs # "kept"
      <4>1. sembufs' # "kept"
        BY <2>2, <3>1 DEF Use
      <4>2. count'["producer"] \in Nat /\ count'["consumer"] \in Nat
        BY Names DEF Lab6TypeOK
      <4>3. QED
        BY <4>1, <4>2
    <3>2. CASE sembufs = "kept"
      <4>1. Lab6OneTurn
        BY <2>2, <3>2, Names DEF TurnInv, Lab6Starting, NotYet, Use, Threads
      <4>2. Lab6Due(t)
        BY <2>2, <4>1, Lab6Whose DEF Use, Lab6Uses
      <4>3. /\ count["producer"] \in Nat /\ count["consumer"] \in Nat
            /\ count'["producer"] = IF t = "producer" THEN count["producer"] + 1
                                    ELSE count["producer"]
            /\ count'["consumer"] = IF t = "consumer" THEN count["consumer"] + 1
                                    ELSE count["consumer"]
            /\ sembufs' = "kept"
        BY <2>2, <3>2, Names DEF Use, Lab6TypeOK
      <4>4. CASE t = "producer"
        BY <3>2, <4>2, <4>3, <4>4 DEF Lab6Due
      <4>5. CASE t = "consumer"
        BY <3>2, <4>2, <4>3, <4>5 DEF Lab6Due
      <4>6. QED
        BY <4>4, <4>5 DEF Threads
    <3>3. QED
      BY <3>1, <3>2
  <2>3. (\E t \in Threads : Use(t)) \/ UNCHANGED count
    BY DEF Lab6Next, Main, SetSemaphores, Create, BlankBuffer, Join, Thread,
           SetGrab, Grab, WakeGrab, SetRelease, Release, WakeRelease,
           Set, Semop, Wake, lab6Vars
  <2>4. QED
    BY <2>1, <2>2, <2>3
<1>3. QED
  BY <1>1, <1>2, TurnCorrect, Lab6TypeCorrect, PTL
     DEF Lab6Spec, Lab6TakesTurns, Lab6Turns!Spec

----------------------------------------------------------------------------
(* lab9.                                                                   *)

Waiting == {"new", "grab"}
Before == {"semget", "SETVAL"}
After == {"exec or fork", "wait", "ended"}

LEMMA RelayStepNames ==
  /\ Waiting \subseteq RunnerSteps
  /\ {"print", "release", "exit"} \subseteq RunnerSteps
  /\ "print" \notin Waiting /\ "release" \notin Waiting /\ "exit" \notin Waiting
  /\ "new" \in Waiting /\ "grab" \in Waiting
  /\ Before \subseteq RelaySteps /\ After \subseteq RelaySteps
  /\ {"create", "join", "killed"} \subseteq RelaySteps
  /\ \A n : RunnerLoop(n) \in RunnerSteps
  /\ "semget" \in Before /\ "SETVAL" \in Before
  /\ "create" \notin Before /\ "join" \notin Before /\ "killed" \notin Before
  /\ "exec or fork" \notin Before /\ "wait" \notin Before /\ "ended" \notin Before
  /\ "exec or fork" \in After /\ "wait" \in After /\ "ended" \in After
  /\ "create" \notin After /\ "join" \notin After /\ "killed" \notin After
  /\ "semget" \notin After /\ "SETVAL" \notin After
BY DEF Waiting, Before, After, RunnerSteps, RelaySteps, RunnerLoop

----------------------------------------------------------------------------
(* Where the baton is when k threads have handed it on: in the semaphore,  *)
(* as the number of the next thread, or with thread k, which has not yet,  *)
(* or already, printed its number.                                         *)

Rests(k) ==
  /\ baton = (IF k = RUNNERS THEN 1 ELSE k + 1)
  /\ k \in Runner => thr[k] \in Waiting
  /\ Len(printed) = k

Reads(k) ==
  /\ k \in Runner /\ thr[k] = "print"
  /\ baton = 0
  /\ Len(printed) = k

Hands(k) ==
  /\ k \in Runner /\ thr[k] = "release"
  /\ baton = 0
  /\ Len(printed) = k + 1

Handed(k) ==
  /\ \A j \in Runner : j < k => thr[j] = "exit"
  /\ \A j \in Runner : j > k => thr[j] \in Waiting
  /\ Rests(k) \/ Reads(k) \/ Hands(k)

OneBaton == \E k \in 0 .. RUNNERS : Handed(k)

RelayInOrder == \A n \in 1 .. Len(printed) : printed[n] = n - 1

(* Nothing has happened before the value is set. *)
Fresh ==
  relay \in Before =>
    /\ thr = [i \in Runner |-> "new"]
    /\ printed = <<>>

Once == \A i \in Runner : thr[i] # "exit" => turn[i] = 0

(* main() is past its joins only when all have returned, and the set goes  *)
(* only then. *)
Joined == relay \in After => \A i \in Runner : thr[i] = "exit"

Removed ==
  /\ ipcrm # "none" => relay \in {"wait", "ended"}
  /\ ipcrm = "ended" \/ relay = "ended" => batonSet = "none"

RelayInv ==
  /\ RelayTypeOK
  /\ RelayInOrder
  /\ Fresh
  /\ Once
  /\ relay \notin Before /\ relay # "killed" => OneBaton
  /\ Joined
  /\ Removed

LEMMA RelayExcept ==
  ASSUME NEW D, NEW R, NEW f \in [D -> R], NEW d, NEW r \in R
  PROVE  [f EXCEPT ![d] = r] \in [D -> R]
OBVIOUS

LEMMA OpTypes ==
  ASSUME RelayTypeOK, NEW n \in Int, BatonOp(n)
  PROVE  baton' \in Nat /\ batonAdj' \in Int
BY DEF BatonOp, RelayTypeOK

LEMMA OpNumbers ==
  ASSUME NEW i \in Runner
  PROVE  /\ i \in Nat /\ i < RUNNERS
         /\ baton_grab(i) \in Int /\ baton_grab(i) = -(i + 1)
         /\ baton_release(i) \in Int
         /\ i = RUNNERS - 1 => baton_release(i) = 1
         /\ i # RUNNERS - 1 => baton_release(i) = i + 2
BY DEF Runner, baton_grab, baton_release

(* The variables keep their types, whatever MAX_TURNS.                     *)
LEMMA RelayTypes == RelayTypeOK /\ [RelayNext]_relayVars => RelayTypeOK'
<1> SUFFICES ASSUME RelayTypeOK, [RelayNext]_relayVars PROVE RelayTypeOK'
  OBVIOUS
<1>1. CASE BatonGet
  <2>1. baton' \in Nat
    BY <1>1 DEF BatonGet, RelayTypeOK
  <2>2. relay' \in RelaySteps
    BY <1>1, RelayStepNames DEF BatonGet, RelayGoto
  <2>3. /\ batonSet' = "live"
        /\ UNCHANGED <<forkFlag, printed, turn, relayKilled, thr, ipcrm, batonAdj>>
    BY <1>1 DEF BatonGet, RelayGoto
  <2>4. batonSet' \in {"none", "live"}
    BY <2>3
  <2>5. QED
    BY <2>1, <2>2, <2>3, <2>4 DEF RelayTypeOK
<1>2. CASE BatonSet
  <2>1. relay' \in RelaySteps
    BY <1>2, RelayStepNames DEF BatonSet, RelayGoto
  <2>2. /\ baton' = 1 /\ batonAdj' = 0
        /\ UNCHANGED <<forkFlag, printed, turn, relayKilled, thr, ipcrm, batonSet>>
    BY <1>2 DEF BatonSet, RelayGoto
  <2>3. QED
    BY <2>1, <2>2 DEF RelayTypeOK
<1>3. ASSUME NEW i \in Runner, CreateRunner(i) PROVE RelayTypeOK'
  <2>1. thr' \in [Runner -> RunnerSteps]
    BY <1>3, RelayStepNames, RelayExcept DEF CreateRunner, RelayTypeOK
  <2>2. relay' \in RelaySteps
    BY <1>3, RelayStepNames DEF CreateRunner, RelayGoto
  <2>3. QED
    BY <1>3, <2>1, <2>2 DEF CreateRunner, RelayGoto, RelayTypeOK
<1>4. CASE JoinRunners
  BY <1>4, RelayStepNames DEF JoinRunners, RelayGoto, RelayTypeOK
<1>5. CASE ExecIpcrm \/ ForkIpcrm \/ WaitIpcrm
  BY <1>5, RelayStepNames DEF ExecIpcrm, ForkIpcrm, WaitIpcrm, RelayGoto, RelayTypeOK
<1>6. CASE ChildIpcrm
  BY <1>6 DEF ChildIpcrm, RelayTypeOK
<1>7. ASSUME NEW i \in Runner, GrabBaton(i) PROVE RelayTypeOK'
  <2>1. thr' \in [Runner -> RunnerSteps]
    BY <1>7, RelayStepNames, RelayExcept DEF GrabBaton, RunnerGoto, RelayTypeOK
  <2>2. baton' \in Nat /\ batonAdj' \in Int
    BY <1>7, OpTypes, OpNumbers DEF GrabBaton
  <2>3. QED
    BY <1>7, <2>1, <2>2 DEF GrabBaton, RunnerGoto, RelayTypeOK
<1>8. ASSUME NEW i \in Runner, PrintNumber(i) PROVE RelayTypeOK'
  <2>1. thr' \in [Runner -> RunnerSteps]
    BY <1>8, RelayStepNames, RelayExcept DEF PrintNumber, RunnerGoto, RelayTypeOK
  <2>2. printed' \in Seq(Runner)
    BY <1>8 DEF PrintNumber, RelayTypeOK
  <2>3. QED
    BY <1>8, <2>1, <2>2 DEF PrintNumber, RunnerGoto, RelayTypeOK
<1>9. ASSUME NEW i \in Runner, ReleaseBaton(i) PROVE RelayTypeOK'
  <2>1. thr' \in [Runner -> RunnerSteps]
    BY <1>9, RelayStepNames, RelayExcept DEF ReleaseBaton, RunnerGoto, RelayTypeOK
  <2>2. baton' \in Nat /\ batonAdj' \in Int
    BY <1>9, OpTypes, OpNumbers DEF ReleaseBaton
  <2>3. turn' \in [Runner -> Nat]
    <3>1. turn[i] + 1 \in Nat
      BY DEF RelayTypeOK
    <3>2. QED
      BY <1>9, <3>1, RelayExcept DEF ReleaseBaton, RelayTypeOK
  <2>4. QED
    BY <1>9, <2>1, <2>2, <2>3 DEF ReleaseBaton, RunnerGoto, RelayTypeOK
<1>10. CASE KillRelay
  <2>1. baton' \in Nat
    <3>1. baton + batonAdj \in Int
      BY DEF RelayTypeOK
    <3>2. QED
      BY <1>10, <3>1 DEF KillRelay
  <2>2. relayKilled' \in Nat
    BY <1>10 DEF KillRelay, RelayTypeOK
  <2>3. QED
    BY <1>10, <2>1, <2>2, RelayStepNames DEF KillRelay, RelayTypeOK
<1>11. CASE RerunRelay
  <2>1. thr' \in [Runner -> RunnerSteps] /\ turn' \in [Runner -> Nat]
    <3>1. "new" \in RunnerSteps /\ 0 \in Nat
      BY RelayStepNames
    <3>2. QED
      BY <1>11, <3>1 DEF RerunRelay
  <2>2. printed' \in Seq(Runner)
    BY <1>11 DEF RerunRelay
  <2>3. relay' \in RelaySteps
    BY <1>11, RelayStepNames DEF RerunRelay, Before
  <2>4. /\ forkFlag' \in 0 .. 2 /\ batonAdj' = 0
        /\ UNCHANGED <<ipcrm, batonSet, baton, relayKilled>>
    BY <1>11 DEF RerunRelay
  <2>5. QED
    BY <2>1, <2>2, <2>3, <2>4 DEF RelayTypeOK
<1>12. CASE UNCHANGED relayVars
  BY <1>12 DEF relayVars, RelayTypeOK
<1>13. QED
  BY <1>1, <1>2, <1>3, <1>4, <1>5, <1>6, <1>7, <1>8, <1>9, <1>10, <1>11, <1>12
     DEF RelayNext, RelayMain, thrfunc

LEMMA RelayInitTypes == RelayInit => RelayTypeOK
<1> SUFFICES ASSUME RelayInit PROVE RelayTypeOK
  OBVIOUS
<1>1. thr \in [Runner -> RunnerSteps] /\ turn \in [Runner -> Nat]
  BY RelayStepNames DEF RelayInit
<1>2. printed \in Seq(Runner)
  BY DEF RelayInit
<1>3. relay \in RelaySteps
  BY RelayStepNames DEF RelayInit
<1>4. QED
  BY <1>1, <1>2, <1>3 DEF RelayInit, RelayTypeOK

(* Types for any number of turns.                                          *)
THEOREM RelayTypeCorrect == RelaySpec => []RelayTypeOK
<1>1. QED
  BY RelayInitTypes, RelayTypes, PTL DEF RelaySpec

----------------------------------------------------------------------------
(* The baton.                                                              *)

(* Only the thread whose number is next can take it, print or hand it on:  *)
(* those before it have returned, and its value is too small for the rest. *)
LEMMA RelayWhose ==
  ASSUME RelayTypeOK, OneBaton, NEW i \in Runner
  PROVE  /\ thr[i] = "grab" /\ baton >= i + 1 => Handed(i) /\ Rests(i)
         /\ thr[i] = "print" => Handed(i) /\ Reads(i)
         /\ thr[i] = "release" => Handed(i) /\ Hands(i)
<1>1. PICK k \in 0 .. RUNNERS : Handed(k)
  BY DEF OneBaton
<1>2. i \in Nat /\ k \in Nat /\ i < RUNNERS /\ (k # RUNNERS => k \in Runner)
  BY DEF Runner
<1>3. i < k \/ i = k \/ i > k
  BY <1>2
<1>4. i < k => thr[i] = "exit"
  BY <1>1 DEF Handed
<1>5. i > k => thr[i] \in Waiting
  BY <1>1 DEF Handed
<1>6. i = k => k \in Runner /\ k # RUNNERS
  BY <1>2
<1>7. ASSUME thr[i] = "print" PROVE i = k /\ Reads(i)
  <2>1. i = k
    BY <1>3, <1>4, <1>5, <1>7, RelayStepNames
  <2>2. QED
    BY <1>1, <1>7, <2>1, RelayStepNames DEF Handed, Rests, Hands
<1>8. ASSUME thr[i] = "release" PROVE i = k /\ Hands(i)
  <2>1. i = k
    BY <1>3, <1>4, <1>5, <1>8, RelayStepNames
  <2>2. QED
    BY <1>1, <1>8, <2>1, RelayStepNames DEF Handed, Rests, Reads
<1>9. ASSUME thr[i] = "grab", baton >= i + 1 PROVE i = k /\ Rests(i)
  <2>1. baton # 0
    BY <1>2, <1>9
  <2>2. Rests(k)
    BY <1>1, <2>1 DEF Handed, Reads, Hands
  <2>3. ~(i < k)
    BY <1>4, <1>9
  <2>4. k # RUNNERS
    BY <1>2, <2>3
  <2>5. baton = k + 1
    BY <2>2, <2>4 DEF Rests
  <2>6. i = k
    BY <1>2, <1>9, <2>3, <2>5
  <2>7. QED
    BY <2>2, <2>6
<1>10. QED
  BY <1>1, <1>7, <1>8, <1>9

LEMMA RunnerIndex ==
  ASSUME NEW i \in Runner
  PROVE  i \in 0 .. RUNNERS /\ i + 1 \in 0 .. RUNNERS
BY DEF Runner

LEMMA RelayGrabTurn ==
  ASSUME RelayTypeOK, OneBaton, NEW i \in Runner, GrabBaton(i)
  PROVE  OneBaton'
<1>1. thr[i] = "grab" /\ thr' = [thr EXCEPT ![i] = "print"] /\ printed' = printed
  BY DEF GrabBaton, RunnerGoto
<1>2. baton >= i + 1 /\ baton' = baton - (i + 1)
  <2>1. baton \in Nat /\ i \in Nat
    BY OpNumbers DEF RelayTypeOK
  <2>2. baton + baton_grab(i) >= 0 /\ baton' = baton + baton_grab(i)
    BY DEF GrabBaton, BatonOp
  <2>3. QED
    BY <2>1, <2>2, OpNumbers
<1>3. Handed(i) /\ Rests(i)
  BY <1>1, <1>2, RelayWhose
<1>4. baton' = 0 /\ Len(printed) = i
  <2>1. i # RUNNERS /\ i \in Nat
    BY OpNumbers
  <2>2. baton = i + 1 /\ Len(printed) = i
    BY <1>3, <2>1 DEF Rests
  <2>3. QED
    BY <1>2, <2>1, <2>2
<1>5. thr'[i] = "print" /\ \A j \in Runner : j # i => thr'[j] = thr[j]
  BY <1>1 DEF RelayTypeOK
<1>6. Reads(i)'
  BY <1>1, <1>4, <1>5 DEF Reads
<1>7. (\A j \in Runner : j < i => thr'[j] = "exit")
      /\ (\A j \in Runner : j > i => thr'[j] \in Waiting)
  <2>1. \A j \in Runner : j < i \/ j > i => j # i
    BY OpNumbers
  <2>2. QED
    BY <1>3, <1>5, <2>1 DEF Handed
<1>8. QED
  BY <1>6, <1>7, RunnerIndex DEF Handed, OneBaton

LEMMA PrintTurn ==
  ASSUME RelayTypeOK, RelayInOrder, OneBaton, NEW i \in Runner, PrintNumber(i)
  PROVE  OneBaton' /\ RelayInOrder'
<1>1. /\ thr[i] = "print" /\ thr' = [thr EXCEPT ![i] = "release"]
      /\ printed' = Append(printed, i) /\ baton' = baton
  BY DEF PrintNumber, RunnerGoto
<1>2. Handed(i) /\ Reads(i)
  BY <1>1, RelayWhose
<1>3. thr'[i] = "release" /\ \A j \in Runner : j # i => thr'[j] = thr[j]
  BY <1>1 DEF RelayTypeOK
<1>4. /\ Len(printed) = i /\ Len(printed') = i + 1
      /\ printed'[i + 1] = i
      /\ \A n \in 1 .. i : printed'[n] = printed[n]
  BY <1>1, <1>2 DEF Reads, RelayTypeOK
<1>5. Hands(i)'
  BY <1>1, <1>2, <1>3, <1>4 DEF Reads, Hands
<1>6. (\A j \in Runner : j < i => thr'[j] = "exit")
      /\ (\A j \in Runner : j > i => thr'[j] \in Waiting)
  <2>1. \A j \in Runner : j < i \/ j > i => j # i
    BY OpNumbers
  <2>2. QED
    BY <1>2, <1>3, <2>1 DEF Handed
<1>7. OneBaton'
  BY <1>5, <1>6, RunnerIndex DEF Handed, OneBaton
<1>8. RelayInOrder'
  <2>1. SUFFICES ASSUME NEW n \in 1 .. i + 1 PROVE printed'[n] = n - 1
    BY <1>4 DEF RelayInOrder
  <2>2. i \in Nat
    BY OpNumbers
  <2>3. CASE n = i + 1
    BY <1>4, <2>2, <2>3
  <2>4. CASE n \in 1 .. i
    BY <1>4, <2>4 DEF RelayInOrder
  <2>5. QED
    BY <2>2, <2>3, <2>4
<1>9. QED
  BY <1>7, <1>8

LEMMA RelayReleaseTurn ==
  ASSUME RelayTypeOK, OneBaton, NEW i \in Runner, ReleaseBaton(i),
         RunnerLoop(turn[i] + 1) = "exit"
  PROVE  OneBaton'
<1>1. /\ thr[i] = "release" /\ thr' = [thr EXCEPT ![i] = "exit"]
      /\ printed' = printed /\ baton' = baton + baton_release(i)
  BY DEF ReleaseBaton, RunnerGoto, BatonOp
<1>2. Handed(i) /\ Hands(i)
  BY <1>1, RelayWhose
<1>3. thr'[i] = "exit" /\ \A j \in Runner : j # i => thr'[j] = thr[j]
  BY <1>1 DEF RelayTypeOK
<1>4. i \in Nat /\ i < RUNNERS /\ i + 1 \in Nat
  BY OpNumbers
<1>5. baton' = IF i + 1 = RUNNERS THEN 1 ELSE i + 2
  <2>1. baton' = baton_release(i)
    BY <1>1, <1>2, OpNumbers DEF Hands
  <2>2. QED
    BY <1>4, <2>1, OpNumbers
<1>6. /\ \A j \in Runner : j < i + 1 => thr'[j] = "exit"
      /\ \A j \in Runner : j > i => thr[j] \in Waiting
      /\ \A j \in Runner : j > i => thr'[j] \in Waiting
  <2>1. \A j \in Runner : (j < i + 1 => j < i \/ j = i) /\ (j > i => j # i)
    BY <1>4, OpNumbers
  <2>2. QED
    BY <1>2, <1>3, <2>1 DEF Handed
<1>7. Rests(i + 1)'
  <2>1. i + 1 \in Runner => thr'[i + 1] \in Waiting
    BY <1>4, <1>6
  <2>2. Len(printed') = i + 1
    BY <1>1, <1>2 DEF Hands
  <2>3. baton' = (IF i + 1 = RUNNERS THEN 1 ELSE (i + 1) + 1)
    BY <1>4, <1>5
  <2>4. QED
    BY <2>1, <2>2, <2>3 DEF Rests
<1>8. \A j \in Runner : j > i + 1 => thr'[j] \in Waiting
  <2>1. \A j \in Runner : j > i + 1 => j > i
    BY <1>4, OpNumbers
  <2>2. QED
    BY <1>6, <2>1
<1>9. QED
  BY <1>6, <1>7, <1>8, RunnerIndex DEF Handed, OneBaton

----------------------------------------------------------------------------
(* The invariant, with one turn each.                                      *)

LEMMA OneTurnLoop ==
  ASSUME MAX_TURNS = 1
  PROVE  RunnerLoop(0) = "grab" /\ RunnerLoop(0 + 1) = "exit"
BY DEF RunnerLoop

(* What a step of a thread must show. *)
LEMMA ThreadStep ==
  ASSUME RelayInv, RelayTypeOK', NEW i \in Runner, NEW to,
         thr[i] # "new", thr[i] # "exit",
         RelayAlive, thr' = [thr EXCEPT ![i] = to],
         UNCHANGED <<relay, ipcrm, batonSet>>,
         RelayInOrder', Once', OneBaton \/ relay \in Before => OneBaton'
  PROVE  RelayInv'
<1>1. relay \notin Before
  BY DEF RelayInv, Fresh
<1>2. relay \notin After
  BY DEF RelayInv, Joined
<1>3. relay # "killed" /\ OneBaton
  BY <1>1 DEF RelayInv, RelayAlive
<1>4. Fresh' /\ Joined' /\ Removed'
  BY <1>1, <1>2 DEF RelayInv, Fresh, Joined, Removed
<1>5. QED
  BY <1>1, <1>3, <1>4 DEF RelayInv

LEMMA RelayGrabKeeps ==
  ASSUME RelayInv, RelayTypeOK', NEW i \in Runner, GrabBaton(i)
  PROVE  RelayInv'
<1>1. /\ RelayAlive /\ thr[i] = "grab" /\ thr' = [thr EXCEPT ![i] = "print"]
      /\ UNCHANGED <<relay, ipcrm, batonSet, turn, printed>>
  BY DEF GrabBaton, RunnerGoto
<1>2. RelayInOrder'
  BY <1>1 DEF RelayInv, RelayInOrder
<1>3. Once'
  BY <1>1 DEF RelayInv, Once, RelayTypeOK
<1>4. relay \notin Before
  BY <1>1 DEF RelayInv, Fresh
<1>5. OneBaton => OneBaton'
  BY RelayGrabTurn DEF RelayInv
<1>6. QED
  BY <1>1, <1>2, <1>3, <1>4, <1>5, ThreadStep

LEMMA PrintKeeps ==
  ASSUME RelayInv, RelayTypeOK', NEW i \in Runner, PrintNumber(i)
  PROVE  RelayInv'
<1>1. /\ RelayAlive /\ thr[i] = "print" /\ thr' = [thr EXCEPT ![i] = "release"]
      /\ UNCHANGED <<relay, ipcrm, batonSet, turn>>
  BY DEF PrintNumber, RunnerGoto
<1>2. Once'
  BY <1>1 DEF RelayInv, Once, RelayTypeOK
<1>3. relay \notin Before
  BY <1>1 DEF RelayInv, Fresh
<1>4. OneBaton
  BY <1>1, <1>3 DEF RelayInv, RelayAlive
<1>5. OneBaton' /\ RelayInOrder'
  BY <1>4, PrintTurn DEF RelayInv
<1>6. QED
  BY <1>1, <1>2, <1>3, <1>5, ThreadStep

LEMMA ReleaseKeeps ==
  ASSUME MAX_TURNS = 1, RelayInv, RelayTypeOK', NEW i \in Runner, ReleaseBaton(i)
  PROVE  RelayInv'
<1>1. /\ RelayAlive /\ thr[i] = "release"
      /\ thr' = [thr EXCEPT ![i] = RunnerLoop(turn[i] + 1)]
      /\ turn' = [turn EXCEPT ![i] = @ + 1]
      /\ UNCHANGED <<relay, ipcrm, batonSet, printed>>
  BY DEF ReleaseBaton, RunnerGoto
<1>2. turn[i] = 0
  BY <1>1 DEF RelayInv, Once
<1>3. RunnerLoop(turn[i] + 1) = "exit"
  BY <1>2, OneTurnLoop
<1>4. Once'
  BY <1>1, <1>3 DEF RelayInv, Once, RelayTypeOK
<1>5. RelayInOrder'
  BY <1>1 DEF RelayInv, RelayInOrder
<1>6. relay \notin Before
  BY <1>1 DEF RelayInv, Fresh
<1>7. OneBaton => OneBaton'
  BY <1>3, RelayReleaseTurn DEF RelayInv
<1>8. QED
  BY <1>1, <1>4, <1>5, <1>6, <1>7, ThreadStep

(* SETVAL makes thread 0 the first. *)
LEMMA SetKeeps ==
  ASSUME RelayInv, RelayTypeOK', BatonSet
  PROVE  RelayInv'
<1>1. /\ relay = "SETVAL" /\ relay' = "create" /\ baton' = 1
      /\ UNCHANGED <<printed, turn, thr, ipcrm, batonSet>>
  BY DEF BatonSet, RelayGoto
<1>2. /\ \A i \in Runner : thr'[i] = "new"
      /\ printed' = <<>>
  BY <1>1, RelayStepNames DEF RelayInv, Fresh
<1>3. OneBaton'
  <2>1. Len(printed') = 0
    BY <1>2
  <2>2. baton' = (IF 0 = RUNNERS THEN 1 ELSE 0 + 1)
    BY <1>1
  <2>3. Rests(0)'
    BY <1>2, <2>1, <2>2, RelayStepNames DEF Rests
  <2>4. \A j \in Runner : ~(j < 0)
    BY OpNumbers
  <2>5. Handed(0)'
    BY <1>2, <2>3, <2>4, RelayStepNames DEF Handed
  <2>6. QED
    BY <2>5 DEF OneBaton
<1>4. RelayInOrder' /\ Once' /\ Removed'
  BY <1>1 DEF RelayInv, RelayInOrder, Once, Removed
<1>5. Fresh' /\ Joined'
  BY <1>1, RelayStepNames DEF Fresh, Joined
<1>6. QED
  BY <1>3, <1>4, <1>5 DEF RelayInv

(* A thread that is created waits like one that is not. *)
LEMMA RelayCreateKeeps ==
  ASSUME MAX_TURNS = 1, RelayInv, RelayTypeOK', NEW i \in Runner, CreateRunner(i)
  PROVE  RelayInv'
<1>1. /\ relay = "create" /\ relay' \in {"create", "join"}
      /\ thr[i] = "new" /\ thr' = [thr EXCEPT ![i] = "grab"]
      /\ UNCHANGED <<printed, turn, baton, ipcrm, batonSet>>
  BY OneTurnLoop DEF CreateRunner, RelayGoto
<1>2. relay \notin Before /\ relay' \notin Before /\ relay' \notin After
  BY <1>1, RelayStepNames
<1>3. thr'[i] = "grab" /\ \A j \in Runner : j # i => thr'[j] = thr[j]
  BY <1>1 DEF RelayInv, RelayTypeOK
<1>4. PICK k \in 0 .. RUNNERS : Handed(k)
  BY <1>1, <1>2 DEF RelayInv, OneBaton
<1>5. \A j \in Runner :
        /\ thr[j] \in Waiting => thr'[j] \in Waiting
        /\ thr[j] = "exit" => thr'[j] = "exit"
        /\ thr[j] = "print" => thr'[j] = "print"
        /\ thr[j] = "release" => thr'[j] = "release"
  BY <1>1, <1>3, RelayStepNames
<1>6. Handed(k)'
  <2>0. baton' = baton /\ printed' = printed
    BY <1>1
  <2>1. Rests(k) => Rests(k)'
    BY <2>0, <1>5 DEF Rests
  <2>2. Reads(k) => Reads(k)'
    BY <1>1, <1>5 DEF Reads
  <2>3. Hands(k) => Hands(k)'
    BY <1>1, <1>5 DEF Hands
  <2>4. \A j \in Runner : (j < k => thr'[j] = "exit") /\ (j > k => thr'[j] \in Waiting)
    <3>1. /\ \A j \in Runner : j < k => thr[j] = "exit"
          /\ \A j \in Runner : j > k => thr[j] \in Waiting
      BY <1>4 DEF Handed
    <3>2. QED
      BY <1>5, <3>1
  <2>5. QED
    BY <1>4, <2>1, <2>2, <2>3, <2>4 DEF Handed
<1>7. OneBaton'
  BY <1>6 DEF OneBaton
<1>8. RelayInOrder' /\ Removed'
  <2>1. relay' # "ended" /\ ipcrm = "none"
    BY <1>1 DEF RelayInv, Removed
  <2>2. QED
    BY <1>1, <2>1 DEF RelayInv, RelayInOrder, Removed
<1>9. Once'
  BY <1>1, <1>3 DEF RelayInv, Once
<1>10. Fresh' /\ Joined'
  BY <1>2 DEF Fresh, Joined
<1>11. QED
  BY <1>2, <1>7, <1>8, <1>9, <1>10 DEF RelayInv

(* Once all have returned, all have printed. *)
LEMMA AllPrinted ==
  ASSUME RelayTypeOK, OneBaton, \A i \in Runner : thr[i] = "exit"
  PROVE  Len(printed) = RUNNERS
<1>1. PICK k \in 0 .. RUNNERS : Handed(k)
  BY DEF OneBaton
<1>2. ~Reads(k) /\ ~Hands(k)
  BY DEF Reads, Hands
<1>3. Rests(k)
  BY <1>1, <1>2 DEF Handed
<1>4. k \notin Runner
  BY <1>3, RelayStepNames DEF Rests
<1>5. k = RUNNERS
  BY <1>4 DEF Runner
<1>6. QED
  BY <1>3, <1>5 DEF Rests

(* The rest of main() moves no baton. *)
LEMMA MainKeeps ==
  ASSUME RelayInv, RelayTypeOK',
         BatonGet \/ JoinRunners \/ ExecIpcrm \/ ForkIpcrm \/ WaitIpcrm
  PROVE  RelayInv'
<1>1. UNCHANGED <<thr, turn, printed>>
  BY DEF BatonGet, JoinRunners, ExecIpcrm, ForkIpcrm, WaitIpcrm, RelayGoto
<1>2. RelayInOrder' /\ Once'
  BY <1>1 DEF RelayInv, RelayInOrder, Once
<1>3. CASE BatonGet
  <2>1. relay = "semget" /\ relay' = "SETVAL" /\ ipcrm' = ipcrm
    BY <1>3 DEF BatonGet, RelayGoto
  <2>2. relay \in Before /\ relay' \in Before /\ relay' \notin After
    BY <2>1, RelayStepNames
  <2>3. Fresh' /\ Joined'
    BY <1>1, <2>2 DEF RelayInv, Fresh, Joined
  <2>4. Removed'
    BY <2>1 DEF RelayInv, Removed
  <2>5. QED
    BY <1>2, <2>2, <2>3, <2>4 DEF RelayInv
<1>4. CASE JoinRunners \/ ExecIpcrm \/ ForkIpcrm \/ WaitIpcrm
  <2>1. /\ relay \in {"join", "exec or fork", "wait"}
        /\ relay' \in {"exec or fork", "wait", "ended"}
        /\ baton' = baton
    BY <1>4 DEF JoinRunners, ExecIpcrm, ForkIpcrm, WaitIpcrm, RelayGoto
  <2>2. relay \notin Before /\ relay' \notin Before /\ relay # "killed"
    BY <2>1, RelayStepNames
  <2>3. \A i \in Runner : thr[i] = "exit"
    <3>1. CASE JoinRunners
      BY <3>1 DEF JoinRunners
    <3>2. CASE ExecIpcrm \/ ForkIpcrm \/ WaitIpcrm
      <4>1. relay \in After
        BY <3>2, RelayStepNames DEF ExecIpcrm, ForkIpcrm, WaitIpcrm, RelayGoto
      <4>2. QED
        BY <4>1 DEF RelayInv, Joined
    <3>3. QED
      BY <1>4, <3>1, <3>2
  <2>4. Fresh' /\ Joined'
    BY <1>1, <2>2, <2>3 DEF Fresh, Joined
  <2>5. OneBaton'
    <3>1. OneBaton
      BY <2>2 DEF RelayInv
    <3>2. QED
      BY <1>1, <2>1, <3>1 DEF OneBaton, Handed, Rests, Reads, Hands
  <2>6. Removed'
    BY <1>4 DEF RelayInv, Removed, JoinRunners, ExecIpcrm, ForkIpcrm, WaitIpcrm,
       RelayGoto
  <2>7. QED
    BY <1>2, <2>4, <2>5, <2>6 DEF RelayInv
<1>5. QED
  BY <1>3, <1>4

LEMMA IpcrmKeeps ==
  ASSUME RelayInv, RelayTypeOK', ChildIpcrm
  PROVE  RelayInv'
<1>1. /\ ipcrm = "forked" /\ ipcrm' = "ended" /\ batonSet' = "none"
      /\ UNCHANGED <<relay, thr, turn, baton, printed>>
  BY DEF ChildIpcrm
<1>2. RelayInOrder' /\ Once' /\ Fresh' /\ Joined'
  BY <1>1 DEF RelayInv, RelayInOrder, Once, Fresh, Joined
<1>3. Removed'
  BY <1>1 DEF RelayInv, Removed
<1>4. OneBaton => OneBaton'
  BY <1>1 DEF OneBaton, Handed, Rests, Reads, Hands
<1>5. QED
  BY <1>1, <1>2, <1>3, <1>4 DEF RelayInv

LEMMA RelayKillKeeps ==
  ASSUME RelayInv, RelayTypeOK', KillRelay
  PROVE  RelayInv'
<1>1. /\ relay' = "killed" /\ ipcrm' = "none"
      /\ UNCHANGED <<thr, turn, batonSet, printed>>
  BY DEF KillRelay
<1>2. RelayInOrder' /\ Once'
  BY <1>1 DEF RelayInv, RelayInOrder, Once
<1>3. Fresh' /\ Joined' /\ Removed'
  BY <1>1, RelayStepNames DEF Fresh, Joined, Removed
<1>4. QED
  BY <1>1, <1>2, <1>3 DEF RelayInv

LEMMA RelayRerunKeeps ==
  ASSUME RelayInv, RelayTypeOK', RerunRelay
  PROVE  RelayInv'
<1>1. /\ relay = "killed" /\ relay' = "semget" /\ ipcrm' = ipcrm
      /\ thr' = [i \in Runner |-> "new"] /\ turn' = [i \in Runner |-> 0]
      /\ printed' = <<>>
  BY DEF RerunRelay
<1>2. RelayInOrder' /\ Once'
  BY <1>1 DEF RelayInOrder, Once
<1>3. relay' \in Before /\ relay' \notin After
  BY <1>1, RelayStepNames
<1>4. Fresh' /\ Joined'
  BY <1>1, <1>3 DEF Fresh, Joined
<1>5. Removed'
  BY <1>1 DEF RelayInv, Removed
<1>6. QED
  BY <1>2, <1>3, <1>4, <1>5 DEF RelayInv

(* With one turn each, as in the program, the numbers come out in order,   *)
(* in every run, whatever a killed one left; and the process that comes to *)
(* its end has printed all of them and removed the set.                    *)
THEOREM BatonOrder == MAX_TURNS = 1 /\ RelaySpec => []BatonInOrder
<1> SUFFICES ASSUME MAX_TURNS = 1 PROVE RelaySpec => []BatonInOrder
  OBVIOUS
<1>1. RelayInit => RelayInv
  <2> SUFFICES ASSUME RelayInit PROVE RelayInv
    OBVIOUS
  <2>1. /\ relay = "semget" /\ ipcrm = "none" /\ printed = <<>>
        /\ thr = [i \in Runner |-> "new"] /\ turn = [i \in Runner |-> 0]
    BY DEF RelayInit
  <2>2. relay \in Before /\ relay \notin After
    BY <2>1, RelayStepNames
  <2>3. RelayInOrder /\ Fresh /\ Once /\ Joined /\ Removed
    BY <2>1, <2>2 DEF RelayInOrder, Fresh, Once, Joined, Removed
  <2>4. RelayTypeOK
    BY RelayInitTypes
  <2>5. QED
    BY <2>2, <2>3, <2>4 DEF RelayInv
<1>2. RelayInv /\ [RelayNext]_relayVars => RelayInv'
  <2> SUFFICES ASSUME RelayInv, [RelayNext]_relayVars PROVE RelayInv'
    OBVIOUS
  <2>1. RelayTypeOK'
    BY RelayTypes DEF RelayInv
  <2>2. CASE RelayMain
    BY <2>1, <2>2, SetKeeps, RelayCreateKeeps, MainKeeps DEF RelayMain
  <2>3. ASSUME NEW i \in Runner, thrfunc(i) PROVE RelayInv'
    BY <2>1, <2>3, RelayGrabKeeps, PrintKeeps, ReleaseKeeps DEF thrfunc
  <2>4. CASE ChildIpcrm
    BY <2>1, <2>4, IpcrmKeeps
  <2>5. CASE KillRelay
    BY <2>1, <2>5, RelayKillKeeps
  <2>6. CASE RerunRelay
    BY <2>1, <2>6, RelayRerunKeeps
  <2>7. CASE UNCHANGED relayVars
    <3>1. RelayInOrder' /\ Fresh' /\ Once' /\ Joined' /\ Removed'
      BY <2>7 DEF relayVars, RelayInv, RelayInOrder, Fresh, Once, Joined, Removed
    <3>2. OneBaton => OneBaton'
      BY <2>7 DEF relayVars, OneBaton, Handed, Rests, Reads, Hands
    <3>3. QED
      BY <2>1, <2>7, <3>1, <3>2 DEF relayVars, RelayInv
  <2>8. QED
    BY <2>2, <2>3, <2>4, <2>5, <2>6, <2>7 DEF RelayNext
<1>3. RelayInv => BatonInOrder
  <2> SUFFICES ASSUME RelayInv PROVE BatonInOrder
    OBVIOUS
  <2>1. ASSUME relay = "ended"
        PROVE  Len(printed) = RUNNERS * MAX_TURNS /\ batonSet = "none"
    <3>1. relay \in After /\ relay \notin Before /\ relay # "killed"
      BY <2>1, RelayStepNames
    <3>2. OneBaton /\ RelayTypeOK /\ \A i \in Runner : thr[i] = "exit"
      BY <3>1 DEF RelayInv, Joined
    <3>3. Len(printed) = RUNNERS
      BY <3>2, AllPrinted
    <3>4. RUNNERS * MAX_TURNS = RUNNERS
      OBVIOUS
    <3>5. batonSet = "none"
      BY <2>1 DEF RelayInv, Removed
    <3>6. QED
      BY <3>3, <3>4, <3>5
  <2>2. QED
    BY <2>1 DEF RelayInv, RelayInOrder, BatonInOrder
<1>4. QED
  BY <1>1, <1>2, <1>3, PTL DEF RelaySpec

----------------------------------------------------------------------------
(* mine.                                                                   *)

(* The steps before the two values are set, and those of a turn. *)
SetUp == {"semget", "SETVAL 0", "SETVAL 1"}
MineTurnSteps == {"write", "yours"}
MineOutside(me) == at[me] \notin MineTurnSteps

Preparing == at[OTTER] \in SetUp

(* The values a run begins with. *)
Begin(s) == IF s = OTTER THEN 1 ELSE 0

LEMMA MineStepNames ==
  /\ SetUp \subseteq MineSteps /\ MineTurnSteps \subseteq MineSteps
  /\ {"new", "create", "grab", "exit"} \subseteq MineSteps
  /\ \A n : MineLoop(n) \in MineSteps
  /\ \A n : MineLoop(n) \notin SetUp /\ MineLoop(n) \notin MineTurnSteps
  /\ \A n : MineLoop(n) = "grab" <=> n # FISH
  /\ \A n : MineLoop(n) # "create" /\ MineLoop(n) # "new"
  /\ "new" \notin SetUp /\ "create" \notin SetUp /\ "grab" \notin SetUp
  /\ "exit" \notin SetUp /\ "write" \notin SetUp /\ "yours" \notin SetUp
  /\ "new" \notin MineTurnSteps /\ "create" \notin MineTurnSteps
  /\ "grab" \notin MineTurnSteps /\ "exit" \notin MineTurnSteps
  /\ "semget" \in SetUp /\ "SETVAL 0" \in SetUp /\ "SETVAL 1" \in SetUp
  /\ "write" \in MineTurnSteps /\ "yours" \in MineTurnSteps
BY DEF SetUp, MineTurnSteps, MineSteps, MineLoop

LEMMA Numbers == 0 \in Int /\ 1 \in Int
OBVIOUS

LEMMA MineExcept ==
  ASSUME NEW D, NEW R, NEW f \in [D -> R], NEW d, NEW r \in R
  PROVE  [f EXCEPT ![d] = r] \in [D -> R]
OBVIOUS

(* The two semaphores, and the two actors that own them. *)
LEMMA MineSides ==
  /\ OTTER \in Sems /\ SEAGULL \in Sems /\ OTTER # SEAGULL
  /\ \A me \in Sems : me = OTTER \/ me = SEAGULL
  /\ \A me \in Sems : /\ Rival(me) \in Sems /\ Rival(me) # me
                      /\ Rival(Rival(me)) = me
                      /\ \A u \in Sems : u # me => u = Rival(me)
BY DEF Sems, OTTER, SEAGULL, Rival

LEMMA BeginValues ==
  /\ Begin(OTTER) = 1 /\ Begin(SEAGULL) = 0
  /\ \A s \in Sems : Begin(s) \in {0, 1} /\ Begin(s) + 0 = Begin(s)
  /\ Zeros \in [Sems -> Nat] /\ Zeros \in [Sems -> Int]
  /\ \A s \in Sems : Zeros[s] = 0
BY MineSides DEF Begin, Zeros

----------------------------------------------------------------------------
(* Types.  This much is inductive alone; that values stay 0 or 1 and the   *)
(* rounds stay within FISH needs the turns.                                *)
Types ==
  /\ alive \in {"running", "killed", "ended"}
  /\ at \in [Sems -> MineSteps]
  /\ rounds \in [Sems -> Nat]
  /\ set \in {"none", "live"}
  /\ val \in [Sems -> Int]
  /\ semadj \in [Sems -> Int]
  /\ kills \in 0..MaxKills

(* Whose turn it is, once the values are set. *)
MineDue(me) ==
  /\ me = OTTER => rounds[OTTER] = rounds[SEAGULL]
  /\ me = SEAGULL => rounds[OTTER] = rounds[SEAGULL] + 1

MineFree(me) ==
  /\ val[me] = 1 /\ val[Rival(me)] = 0
  /\ MineOutside(me) /\ MineOutside(Rival(me))
  /\ MineDue(me)

MineUses(me) ==
  /\ val[me] = 0 /\ val[Rival(me)] = 0
  /\ at[me] = "write" /\ MineOutside(Rival(me))
  /\ MineDue(me)

MineGives(me) ==
  /\ val[me] = 0 /\ val[Rival(me)] = 0
  /\ at[me] = "yours" /\ MineOutside(Rival(me))
  /\ MineDue(Rival(me))

MineOneTurn == \E me \in Sems : MineFree(me) \/ MineUses(me) \/ MineGives(me)

(* Before the seagull is created nothing has been written.                 *)
MineStarting ==
  (Preparing \/ at[OTTER] = "create") =>
    /\ at[SEAGULL] = "new"
    /\ rounds = Zeros

(* While a run prepares, the values are what it found, and it has nothing  *)
(* to undo; afterwards value and adjustment add up to what it set.         *)
Found ==
  /\ \A s \in Sems : val[s] \in {0, 1}
  /\ Preparing => semadj = Zeros
  /\ at[OTTER] = "SETVAL 1" => val[OTTER] = 1

Undoes == \A s \in Sems : val[s] + semadj[s] = Begin(s)

(* An actor that still grabs or writes has rounds left.                    *)
Left ==
  \A me \in Sems : /\ rounds[me] <= FISH
                   /\ at[me] \in {"grab", "write"} => rounds[me] < FISH

MineInv ==
  /\ Types
  /\ MineStarting
  /\ Found
  /\ Left
  /\ alive = "running" /\ ~Preparing => Undoes /\ MineOneTurn
  /\ alive = "killed" /\ ~Preparing => \A s \in Sems : val[s] = Begin(s)

USE DEF MineInv

(* The values once the turn is known. *)
LEMMA Values ==
  ASSUME Types, MineOneTurn
  PROVE  \A s \in Sems : val[s] \in {0, 1}
<1>1. PICK me \in Sems : MineFree(me) \/ MineUses(me) \/ MineGives(me)
  BY DEF MineOneTurn
<1>2. val[me] \in {0, 1} /\ val[Rival(me)] = 0
  BY <1>1 DEF MineFree, MineUses, MineGives
<1>3. QED
  BY <1>2, MineSides

(* Where an actor stands when it is in a turn, and when its semaphore is up. *)
LEMMA MineWhose ==
  ASSUME Types, MineOneTurn, NEW me \in Sems
  PROVE  /\ at[me] = "write" => MineUses(me)
         /\ at[me] = "yours" => MineGives(me)
         /\ val[me] >= 1 => MineFree(me)
<1>1. PICK u \in Sems : MineFree(u) \/ MineUses(u) \/ MineGives(u)
  BY DEF MineOneTurn
<1>2. u = me \/ (u = Rival(me) /\ me = Rival(u))
  BY MineSides
<1>3. /\ at[me] = "write" => MineUses(me)
      /\ at[me] = "yours" => MineGives(me)
  BY <1>1, <1>2, MineStepNames DEF MineFree, MineUses, MineGives, MineOutside, MineTurnSteps
<1>4. val[me] >= 1 => MineFree(me)
  BY <1>1, <1>2 DEF MineFree, MineUses, MineGives
<1>5. QED
  BY <1>3, <1>4

----------------------------------------------------------------------------
(* main() before the seagull exists.                                       *)

LEMMA SemgetKeeps ==
  ASSUME MineInv, Semget
  PROVE  MineInv'
<1>1. /\ alive = "running" /\ alive' = "running" /\ kills' = kills
      /\ at[OTTER] = "semget" /\ at' = [at EXCEPT ![OTTER] = "SETVAL 0"]
      /\ rounds' = rounds /\ semadj' = semadj /\ set' = "live"
      /\ val' = IF set = "none" THEN Zeros ELSE val
  BY DEF Semget, MineGoto
<1>2. Preparing /\ Preparing' /\ at'[OTTER] = "SETVAL 0"
  <2>1. at'[OTTER] = "SETVAL 0"
    BY <1>1, MineSides DEF Types
  <2>2. QED
    BY <1>1, <2>1, MineStepNames DEF Preparing
<1>3. Types'
  <2>1. at' \in [Sems -> MineSteps]
    BY <1>1, MineStepNames DEF Types
  <2>2. val' \in [Sems -> Int]
    BY <1>1, BeginValues DEF Types
  <2>3. QED
    BY <1>1, <2>1, <2>2 DEF Types
<1>4. MineStarting'
  BY <1>1, <1>2, MineSides DEF MineStarting, Types
<1>5. Found'
  <2>1. \A s \in Sems : val'[s] \in {0, 1}
    BY <1>1 DEF Found, Zeros
  <2>2. QED
    BY <1>1, <1>2, <2>1 DEF Found
<1>6. Left'
  BY <1>1, <1>2, MineSides DEF Left, Types
<1>7. QED
  BY <1>1, <1>2, <1>3, <1>4, <1>5, <1>6

LEMMA SetOtterKeeps ==
  ASSUME MineInv, SetVal(OTTER, 1, "SETVAL 0", "SETVAL 1")
  PROVE  MineInv'
<1>1. /\ alive = "running" /\ alive' = "running" /\ kills' = kills
      /\ at[OTTER] = "SETVAL 0" /\ at' = [at EXCEPT ![OTTER] = "SETVAL 1"]
      /\ rounds' = rounds /\ set' = set
      /\ val' = [val EXCEPT ![OTTER] = 1]
      /\ semadj' = [semadj EXCEPT ![OTTER] = 0]
  BY DEF SetVal, MineGoto
<1>2. Preparing /\ Preparing' /\ at'[OTTER] = "SETVAL 1"
  <2>1. at'[OTTER] = "SETVAL 1"
    BY <1>1, MineSides DEF Types
  <2>2. QED
    BY <1>1, <2>1, MineStepNames DEF Preparing
<1>3. Types'
  <2>1. at' \in [Sems -> MineSteps]
    BY <1>1, MineStepNames DEF Types
  <2>2. val' \in [Sems -> Int] /\ semadj' \in [Sems -> Int]
    <3>1. val \in [Sems -> Int] /\ semadj \in [Sems -> Int]
      BY DEF Types
    <3>2. QED
      BY <1>1, <3>1, MineExcept, Numbers
  <2>3. QED
    BY <1>1, <2>1, <2>2 DEF Types
<1>4. MineStarting'
  BY <1>1, <1>2, MineSides DEF MineStarting, Types
<1>5. Found'
  <2>1. \A s \in Sems : val'[s] \in {0, 1}
    <3>1. val \in [Sems -> Int] /\ \A s \in Sems : val[s] \in {0, 1}
      BY DEF Types, Found
    <3>2. QED
      BY <1>1, <3>1
  <2>2. val'[OTTER] = 1
    BY <1>1, MineSides DEF Types
  <2>3. semadj' = Zeros
    BY <1>1, <1>2 DEF Found, Zeros
  <2>4. QED
    BY <2>1, <2>2, <2>3 DEF Found
<1>6. Left'
  BY <1>1, <1>2, MineSides DEF Left, Types
<1>7. QED
  BY <1>1, <1>2, <1>3, <1>4, <1>5, <1>6

(* With the second value set the otter has the first turn. *)
LEMMA SetSeagullKeeps ==
  ASSUME MineInv, SetVal(SEAGULL, 0, "SETVAL 1", "create")
  PROVE  MineInv'
<1>1. /\ alive = "running" /\ alive' = "running" /\ kills' = kills
      /\ at[OTTER] = "SETVAL 1" /\ at' = [at EXCEPT ![OTTER] = "create"]
      /\ rounds' = rounds /\ set' = set
      /\ val' = [val EXCEPT ![SEAGULL] = 0]
      /\ semadj' = [semadj EXCEPT ![SEAGULL] = 0]
  BY DEF SetVal, MineGoto
<1>2. Preparing /\ ~Preparing' /\ at'[OTTER] = "create"
  <2>1. at'[OTTER] = "create"
    BY <1>1, MineSides DEF Types
  <2>2. QED
    BY <1>1, <2>1, MineStepNames DEF Preparing
<1>3. at'[SEAGULL] = "new" /\ rounds' = Zeros
  BY <1>1, <1>2, MineSides DEF MineStarting, Types
<1>4. val'[OTTER] = 1 /\ val'[SEAGULL] = 0 /\ semadj' = Zeros
  <2>1. val[OTTER] = 1
    BY <1>1 DEF Found
  <2>2. val'[OTTER] = 1 /\ val'[SEAGULL] = 0
    <3>1. /\ val \in [Sems -> Int]
          /\ OTTER \in Sems /\ SEAGULL \in Sems /\ OTTER # SEAGULL
      BY MineSides DEF Types
    <3>2. QED
      BY <1>1, <2>1, <3>1
  <2>3. semadj' = Zeros
    BY <1>1, <1>2 DEF Found, Zeros
  <2>4. QED
    BY <2>2, <2>3
<1>5. Types'
  <2>1. at' \in [Sems -> MineSteps]
    BY <1>1, MineStepNames DEF Types
  <2>2. val' \in [Sems -> Int] /\ semadj' \in [Sems -> Int]
    <3>1. val \in [Sems -> Int] /\ semadj \in [Sems -> Int]
      BY DEF Types
    <3>2. QED
      BY <1>1, <3>1, MineExcept, Numbers
  <2>3. QED
    BY <1>1, <2>1, <2>2 DEF Types
<1>6. MineStarting'
  BY <1>3 DEF MineStarting
<1>7. Found'
  <2>1. at'[OTTER] # "SETVAL 1"
    BY <1>2
  <2>2. \A s \in Sems : val'[s] \in {0, 1}
    BY <1>4, MineSides
  <2>3. QED
    BY <1>2, <2>1, <2>2 DEF Found
<1>8. Left'
  BY <1>1, <1>2, <1>3, MineSides DEF Left, Types
<1>9. Undoes'
  <2>1. \A s \in Sems : val'[s] = Begin(s) /\ semadj'[s] = 0
    BY <1>4, MineSides, BeginValues
  <2>2. QED
    BY <2>1, BeginValues DEF Undoes
<1>10. MineOneTurn'
  <2>1. rounds'[OTTER] = 0 /\ rounds'[SEAGULL] = 0
    BY <1>3, MineSides DEF Zeros
  <2>2. MineDue(OTTER)'
    BY <2>1, MineSides DEF MineDue
  <2>3. Rival(OTTER) = SEAGULL
    BY MineSides
  <2>4. MineOutside(OTTER)' /\ MineOutside(SEAGULL)'
    BY <1>2, <1>3, MineStepNames DEF MineOutside
  <2>5. MineFree(OTTER)'
    BY <1>4, <2>2, <2>3, <2>4 DEF MineFree
  <2>6. QED
    BY <2>5, MineSides DEF MineOneTurn
<1>11. QED
  BY <1>1, <1>2, <1>5, <1>6, <1>7, <1>8, <1>9, <1>10

----------------------------------------------------------------------------
(* The turns.                                                              *)

(* Once somebody grabs or writes, the run has begun. *)
LEMMA Begun ==
  ASSUME MineInv, NEW me \in Sems, at[me] \in {"grab", "write", "yours"}
  PROVE  ~Preparing /\ at[OTTER] # "create"
<1>1. CASE me = OTTER
  BY <1>1, MineStepNames DEF Preparing
<1>2. CASE me = SEAGULL
  <2>1. at[SEAGULL] # "new"
    BY <1>2
  <2>2. QED
    BY <2>1 DEF MineStarting
<1>3. QED
  BY <1>1, <1>2, MineSides

(* What a step of an actor must show to keep the invariant. *)
LEMMA AnimalStep ==
  ASSUME MineInv, NEW me \in Sems, NEW to \in MineSteps,
         at[me] \in {"grab", "write", "yours"},
         to \notin SetUp, to # "create",
         alive = "running",
         at' = [at EXCEPT ![me] = to],
         UNCHANGED <<alive, kills, set>>,
         rounds' \in [Sems -> Nat],
         val' \in [Sems -> Int],
         semadj' \in [Sems -> Int],
         Left', Undoes', MineOneTurn'
  PROVE  MineInv'
<1>1. ~Preparing /\ at[OTTER] # "create"
  BY Begun
<1>2. at'[OTTER] \notin SetUp /\ at'[OTTER] # "create"
  BY <1>1, MineSides DEF Preparing, Types
<1>3. Types'
  <2>1. at' \in [Sems -> MineSteps]
    BY MineExcept DEF Types
  <2>2. QED
    BY <2>1 DEF Types
<1>4. \A s \in Sems : val'[s] \in {0, 1}
  <2>1. PICK u \in Sems : MineFree(u)' \/ MineUses(u)' \/ MineGives(u)'
    BY DEF MineOneTurn
  <2>2. val'[u] \in {0, 1} /\ val'[Rival(u)] = 0
    BY <2>1 DEF MineFree, MineUses, MineGives
  <2>3. QED
    BY <2>2, MineSides
<1>5. Found'
  <2>1. at'[OTTER] # "SETVAL 1"
    BY <1>2, MineStepNames
  <2>2. QED
    BY <1>2, <1>4, <2>1 DEF Found, Preparing
<1>6. MineStarting' /\ ~Preparing'
  BY <1>2 DEF MineStarting, Preparing
<1>7. QED
  BY <1>3, <1>5, <1>6

(* The array {other = 0, own - 1}: the semaphore that is up goes down. *)
LEMMA MineGrabKeeps ==
  ASSUME MineInv, NEW me \in Sems, GrabMine(me)
  PROVE  MineInv'
<1>1. /\ alive = "running" /\ UNCHANGED <<alive, kills, rounds, set>>
      /\ at[me] = "grab" /\ at' = [at EXCEPT ![me] = "write"]
      /\ val[Rival(me)] = 0 /\ val[me] >= 1
      /\ val' = [val EXCEPT ![me] = @ - 1]
      /\ semadj' = [semadj EXCEPT ![me] = @ + 1]
  BY DEF GrabMine, MineGoto
<1>2. ~Preparing /\ Undoes /\ MineOneTurn
  BY <1>1, Begun
<1>3. MineFree(me)
  BY <1>1, <1>2, MineWhose
<1>4. val' \in [Sems -> Int] /\ semadj' \in [Sems -> Int]
  <2>1. val[me] - 1 \in Int /\ semadj[me] + 1 \in Int
    BY DEF Types
  <2>2. QED
    BY <1>1, <2>1, MineExcept DEF Types
<1>5. Left'
  <2>1. \A u \in Sems : at'[u] \in {"grab", "write"} => at[u] \in {"grab", "write"}
    BY <1>1 DEF Types
  <2>2. QED
    BY <1>1, <2>1 DEF Left
<1>6. Undoes'
  <2>1. val'[me] = val[me] - 1 /\ semadj'[me] = semadj[me] + 1
    BY <1>1 DEF Types
  <2>2. \A s \in Sems : s # me => val'[s] = val[s] /\ semadj'[s] = semadj[s]
    BY <1>1 DEF Types
  <2>3. val[me] \in Int /\ semadj[me] \in Int
    BY DEF Types
  <2>4. val'[me] + semadj'[me] = val[me] + semadj[me]
    BY <2>1, <2>3
  <2>5. QED
    BY <1>2, <2>2, <2>4 DEF Undoes
<1>7. MineOneTurn'
  <2>1. val'[me] = 0 /\ val'[Rival(me)] = 0
    BY <1>1, <1>3, MineSides DEF MineFree, Types
  <2>2. at'[me] = "write" /\ at'[Rival(me)] = at[Rival(me)]
    BY <1>1, MineSides DEF Types
  <2>3. MineDue(me)'
    BY <1>1, <1>3 DEF MineFree, MineDue
  <2>4. MineUses(me)'
    BY <1>3, <2>1, <2>2, <2>3 DEF MineFree, MineUses, MineOutside
  <2>5. QED
    BY <2>4 DEF MineOneTurn
<1>8. "write" \in MineSteps /\ "write" \notin SetUp
  BY MineStepNames DEF MineSteps
<1>9. rounds' \in [Sems -> Nat]
  BY <1>1 DEF Types
<1>10. QED
  BY <1>1, <1>4, <1>5, <1>6, <1>7, <1>8, <1>9, AnimalStep

(* Writing makes the counts the rival's to continue. *)
LEMMA WriteKeeps ==
  ASSUME MineInv, NEW me \in Sems, Write(me)
  PROVE  MineInv'
<1>1. /\ alive = "running" /\ UNCHANGED <<alive, kills, set, val, semadj>>
      /\ at[me] = "write" /\ at' = [at EXCEPT ![me] = "yours"]
      /\ rounds' = [rounds EXCEPT ![me] = @ + 1]
  BY DEF Write, MineGoto
<1>2. ~Preparing /\ Undoes /\ MineOneTurn
  BY <1>1, Begun
<1>3. MineUses(me)
  BY <1>1, <1>2, MineWhose
<1>4. /\ rounds[me] \in Nat /\ rounds[me] + 1 \in Nat
      /\ rounds' \in [Sems -> Nat]
  <2>1. rounds[me] \in Nat
    BY DEF Types
  <2>2. rounds[me] + 1 \in Nat
    BY <2>1
  <2>3. QED
    BY <1>1, <2>1, <2>2, MineExcept DEF Types
<1>5. /\ rounds'[me] = rounds[me] + 1
      /\ \A u \in Sems : u # me => rounds'[u] = rounds[u]
      /\ at'[me] = "yours"
      /\ \A u \in Sems : u # me => at'[u] = at[u]
  BY <1>1 DEF Types
<1>6. Left'
  <2>1. rounds'[me] <= FISH
    BY <1>1, <1>4, <1>5 DEF Left
  <2>2. QED
    BY <1>5, <2>1 DEF Left
<1>7. Undoes'
  BY <1>1, <1>2 DEF Undoes
<1>8. MineOneTurn'
  <2>1. MineDue(Rival(me))'
    <3>1. CASE me = OTTER
      <4>1. rounds'[OTTER] = rounds[SEAGULL] + 1 /\ rounds'[SEAGULL] = rounds[SEAGULL]
        BY <1>3, <1>5, <3>1, MineSides DEF MineUses, MineDue
      <4>2. QED
        BY <3>1, <4>1, MineSides DEF MineDue
    <3>2. CASE me = SEAGULL
      <4>1. rounds'[OTTER] = rounds'[SEAGULL]
        BY <1>3, <1>5, <3>2, MineSides DEF MineUses, MineDue
      <4>2. QED
        BY <3>2, <4>1, MineSides DEF MineDue
    <3>3. QED
      BY <3>1, <3>2, MineSides
  <2>2. MineGives(me)'
    BY <1>1, <1>3, <1>5, <2>1, MineSides DEF MineUses, MineGives, MineOutside
  <2>3. QED
    BY <2>2 DEF MineOneTurn
<1>9. "yours" \in MineSteps /\ "yours" \notin SetUp
  BY MineStepNames DEF MineSteps
<1>10. val' \in [Sems -> Int] /\ semadj' \in [Sems -> Int]
  BY <1>1 DEF Types
<1>11. QED
  BY <1>1, <1>4, <1>6, <1>7, <1>8, <1>9, <1>10, AnimalStep

(* Raising the rival's semaphore gives it the turn. *)
LEMMA GiveKeeps ==
  ASSUME MineInv, NEW me \in Sems, GiveYours(me)
  PROVE  MineInv'
<1> DEFINE it == Rival(me)
           to == MineLoop(rounds[me])
<1>1. /\ alive = "running" /\ UNCHANGED <<alive, kills, rounds, set>>
      /\ at[me] = "yours" /\ at' = [at EXCEPT ![me] = to]
      /\ val' = [val EXCEPT ![it] = @ + 1]
      /\ semadj' = [semadj EXCEPT ![it] = @ - 1]
  BY DEF GiveYours, MineGoto
<1>2. ~Preparing /\ Undoes /\ MineOneTurn
  BY <1>1, Begun
<1>3. MineGives(me)
  BY <1>1, <1>2, MineWhose
<1>4. it \in Sems /\ it # me /\ Rival(it) = me
  BY MineSides
<1> HIDE DEF it
<1>5. val' \in [Sems -> Int] /\ semadj' \in [Sems -> Int]
  <2>1. val[it] + 1 \in Int /\ semadj[it] - 1 \in Int
    BY <1>4 DEF Types
  <2>2. QED
    BY <1>1, <2>1, MineExcept DEF Types
<1>6. to \in MineSteps /\ to \notin SetUp /\ to # "create" /\ to \notin MineTurnSteps
  BY MineStepNames
<1>7. Left'
  <2>1. to = "grab" => rounds[me] < FISH
    <3>1. rounds[me] \in Nat /\ rounds[me] <= FISH
      BY DEF Types, Left
    <3>2. to = "grab" => rounds[me] # FISH
      BY MineStepNames
    <3>3. QED
      BY <3>1, <3>2
  <2>2. to # "write"
    BY <1>6, MineStepNames
  <2>3. at'[me] = to /\ \A u \in Sems : u # me => at'[u] = at[u]
    BY <1>1 DEF Types
  <2> HIDE DEF to
  <2>4. QED
    BY <1>1, <2>1, <2>2, <2>3 DEF Left
<1>8. Undoes'
  <2>1. val'[it] = val[it] + 1 /\ semadj'[it] = semadj[it] - 1
    BY <1>1, <1>4 DEF Types
  <2>2. \A s \in Sems : s # it => val'[s] = val[s] /\ semadj'[s] = semadj[s]
    BY <1>1 DEF Types
  <2>3. val[it] \in Int /\ semadj[it] \in Int
    BY <1>4 DEF Types
  <2>4. val'[it] + semadj'[it] = val[it] + semadj[it]
    BY <2>1, <2>3
  <2>5. QED
    BY <1>2, <2>2, <2>4 DEF Undoes
<1>9. MineOneTurn'
  <2>1. val'[it] = 1 /\ val'[me] = 0
    BY <1>1, <1>3, <1>4 DEF MineGives, Types, it
  <2>2. at'[me] = to /\ at'[it] = at[it]
    BY <1>1, <1>4 DEF Types
  <2>3. MineDue(it)'
    BY <1>1, <1>3 DEF MineGives, MineDue, it
  <2>4. MineOutside(me)' /\ MineOutside(it)'
    BY <1>3, <1>6, <2>2 DEF MineGives, MineOutside, it
  <2>5. MineFree(it)'
    BY <1>4, <2>1, <2>3, <2>4 DEF MineFree
  <2>6. QED
    BY <1>4, <2>5 DEF MineOneTurn
<1>10. rounds' \in [Sems -> Nat]
  BY <1>1 DEF Types
<1>11. QED
  BY <1>1, <1>5, <1>6, <1>7, <1>8, <1>9, <1>10, AnimalStep

----------------------------------------------------------------------------
(* Begin and end of a run.                                                 *)

(* Both loops start; nobody is in a turn yet. *)
LEMMA MineCreateKeeps ==
  ASSUME MineInv, CreateSeagull
  PROVE  MineInv'
<1>1. /\ alive = "running" /\ at[OTTER] = "create"
      /\ at' = [me \in Sems |-> MineLoop(0)]
      /\ UNCHANGED <<alive, rounds, set, val, semadj, kills>>
  BY DEF CreateSeagull
<1>2. ~Preparing /\ at[SEAGULL] = "new" /\ rounds = Zeros
  BY <1>1, MineStepNames DEF Preparing, MineStarting
<1>3. \A me \in Sems : at'[me] = MineLoop(0)
  BY <1>1
<1>4. at'[OTTER] \notin SetUp /\ at'[OTTER] # "create" /\ at'[OTTER] # "SETVAL 1"
  <2>1. MineLoop(0) \notin SetUp /\ MineLoop(0) # "create"
    BY MineStepNames
  <2>2. MineLoop(0) # "SETVAL 1"
    BY MineStepNames
  <2>3. QED
    BY <1>3, <2>1, <2>2, MineSides
<1>5. Types'
  <2>1. at' \in [Sems -> MineSteps]
    BY <1>1, MineStepNames
  <2>2. QED
    BY <1>1, <2>1 DEF Types
<1>6. MineStarting' /\ Found' /\ ~Preparing'
  BY <1>1, <1>4 DEF MineStarting, Found, Preparing
<1>7. Left'
  <2>1. \A me \in Sems : rounds[me] = 0
    BY <1>2, BeginValues
  <2>2. MineLoop(0) = "grab" => 0 < FISH
    <3>1. MineLoop(0) = "grab" => 0 # FISH
      BY MineStepNames
    <3>2. QED
      BY <3>1
  <2>3. MineLoop(0) # "write"
    BY MineStepNames
  <2>4. 0 <= FISH
    OBVIOUS
  <2>5. QED
    BY <1>1, <1>3, <2>1, <2>2, <2>3, <2>4 DEF Left
<1>8. Undoes'
  BY <1>1, <1>2 DEF Undoes
<1>9. MineOneTurn'
  <2>1. MineOutside(OTTER) /\ MineOutside(SEAGULL)
    BY <1>1, <1>2, MineStepNames DEF MineOutside
  <2>2. PICK u \in Sems : MineFree(u)
    <3>1. PICK u \in Sems : MineFree(u) \/ MineUses(u) \/ MineGives(u)
      BY <1>1, <1>2 DEF MineOneTurn
    <3>2. MineOutside(u)
      BY <2>1, MineSides
    <3>3. QED
      BY <3>1, <3>2, MineStepNames DEF MineUses, MineGives, MineOutside
  <2>3. MineOutside(u)' /\ MineOutside(Rival(u))'
    <3>1. MineLoop(0) \notin MineTurnSteps
      BY MineStepNames
    <3>2. Rival(u) \in Sems
      BY MineSides
    <3>3. QED
      BY <1>3, <3>1, <3>2 DEF MineOutside
  <2>4. MineDue(u)'
    BY <1>1, <2>2 DEF MineFree, MineDue
  <2>5. MineFree(u)'
    BY <1>1, <2>2, <2>3, <2>4 DEF MineFree
  <2>6. QED
    BY <2>5 DEF MineOneTurn
<1>10. QED
  BY <1>1, <1>5, <1>6, <1>7, <1>8, <1>9

LEMMA CleanupKeeps ==
  ASSUME MineInv, Cleanup
  PROVE  MineInv'
<1>1. /\ alive' = "ended" /\ set' = "none"
      /\ UNCHANGED <<at, rounds, val, semadj, kills>>
  BY DEF Cleanup
<1>2. Types'
  BY <1>1 DEF Types
<1>3. MineStarting' /\ Found' /\ Left'
  BY <1>1 DEF MineStarting, Found, Left, Preparing
<1>4. QED
  BY <1>1, <1>2, <1>3

(* The undo gives back what the run took since it set the values. *)
LEMMA MineKillKeeps ==
  ASSUME MineInv, Kill
  PROVE  MineInv'
<1>1. /\ alive = "running" /\ alive' = "killed"
      /\ kills < MaxKills /\ kills' = kills + 1
      /\ val' = [s \in Sems |-> IF val[s] + semadj[s] < 0 THEN 0
                               ELSE val[s] + semadj[s]]
      /\ UNCHANGED <<at, rounds, set, semadj>>
  BY DEF Kill
<1>2. ~Preparing => \A s \in Sems : val'[s] = Begin(s)
  <2>1. SUFFICES ASSUME ~Preparing, NEW s \in Sems PROVE val'[s] = Begin(s)
    OBVIOUS
  <2>2. val[s] + semadj[s] = Begin(s)
    BY <1>1, <2>1 DEF Undoes
  <2>3. Begin(s) \in {0, 1}
    BY BeginValues
  <2>4. QED
    BY <1>1, <2>2, <2>3
<1>3. Preparing => \A s \in Sems : val'[s] = val[s]
  <2>1. SUFFICES ASSUME Preparing, NEW s \in Sems PROVE val'[s] = val[s]
    OBVIOUS
  <2>2. semadj[s] = 0 /\ val[s] \in {0, 1}
    BY <2>1, BeginValues DEF Found
  <2>3. QED
    BY <1>1, <2>2
<1>4. \A s \in Sems : val'[s] \in {0, 1}
  BY <1>2, <1>3, BeginValues DEF Found
<1>5. Types'
  <2>1. val' \in [Sems -> Int]
    BY <1>1, <1>4
  <2>2. kills' \in 0..MaxKills
    BY <1>1 DEF Types
  <2>3. QED
    BY <1>1, <2>1, <2>2 DEF Types
<1>6. Found'
  <2>1. at[OTTER] = "SETVAL 1" => Preparing
    BY MineStepNames DEF Preparing
  <2>2. QED
    BY <1>1, <1>3, <1>4, <2>1, MineSides DEF Found, Preparing
<1>7. MineStarting' /\ Left'
  BY <1>1 DEF MineStarting, Left, Preparing
<1>8. QED
  BY <1>1, <1>2, <1>5, <1>6, <1>7 DEF Preparing

LEMMA StartSteps ==
  /\ Start \in [Sems -> MineSteps]
  /\ Start[OTTER] = "semget" /\ Start[SEAGULL] = "new"
BY MineSides, MineStepNames DEF Start

(* A new run knows nothing but the values it finds. *)
LEMMA MineRerunKeeps ==
  ASSUME MineInv, Rerun
  PROVE  MineInv'
<1>1. /\ alive' = "running" /\ at' = Start
      /\ rounds' = Zeros /\ semadj' = Zeros
      /\ UNCHANGED <<set, val, kills>>
  BY DEF Rerun
<1>2. Preparing' /\ at'[OTTER] = "semget" /\ at'[SEAGULL] = "new"
  BY <1>1, StartSteps, MineStepNames DEF Preparing
<1>3. Types'
  BY <1>1, StartSteps, BeginValues DEF Types
<1>4. MineStarting' /\ Found'
  BY <1>1, <1>2 DEF MineStarting, Found
<1>5. Left'
  <2>1. \A me \in Sems : rounds'[me] = 0
    BY <1>1, BeginValues
  <2>2. \A me \in Sems : at'[me] \notin {"grab", "write"}
    BY <1>2, MineSides
  <2>3. 0 <= FISH
    OBVIOUS
  <2>4. QED
    BY <2>1, <2>2, <2>3 DEF Left
<1>6. QED
  BY <1>1, <1>2, <1>3, <1>4, <1>5

(* The invariant is inductive.                                             *)
THEOREM MineInductive == MineSpec => []MineInv
<1>1. MineInit => MineInv
  <2> SUFFICES ASSUME MineInit PROVE MineInv
    OBVIOUS
  <2>1. Preparing /\ at[OTTER] = "semget" /\ at[SEAGULL] = "new"
    BY StartSteps, MineStepNames DEF MineInit, Preparing
  <2>2. alive = "running"
    BY DEF MineInit
  <2>3. kills \in 0..MaxKills
    BY DEF MineInit
  <2>4. Types
    BY <2>2, <2>3, StartSteps, BeginValues DEF MineInit, Types
  <2>5. MineStarting
    BY <2>1 DEF MineInit, MineStarting
  <2>6. Found
    <3>1. \A s \in Sems : val[s] \in {0, 1}
      BY BeginValues DEF MineInit
    <3>2. QED
      BY <2>1, <3>1 DEF MineInit, Found
  <2>7. Left
    <3>1. \A me \in Sems : rounds[me] = 0
      BY BeginValues DEF MineInit
    <3>2. \A me \in Sems : at[me] \notin {"grab", "write"}
      BY <2>1, MineSides
    <3>3. 0 <= FISH
      OBVIOUS
    <3>4. QED
      BY <3>1, <3>2, <3>3 DEF Left
  <2>8. QED
    BY <2>1, <2>2, <2>4, <2>5, <2>6, <2>7
<1>2. MineInv /\ [MineNext]_mineVars => MineInv'
  <2> SUFFICES ASSUME MineInv, [MineNext]_mineVars PROVE MineInv'
    OBVIOUS
  <2>1. CASE MineMain
    BY <2>1, SemgetKeeps, SetOtterKeeps, SetSeagullKeeps, MineCreateKeeps,
       CleanupKeeps DEF MineMain
  <2>2. ASSUME NEW me \in Sems, Animal(me) PROVE MineInv'
    BY <2>2, MineGrabKeeps, WriteKeeps, GiveKeeps DEF Animal
  <2>3. CASE Kill
    BY <2>3, MineKillKeeps
  <2>4. CASE Rerun
    BY <2>4, MineRerunKeeps
  <2>5. CASE UNCHANGED mineVars
    <3>1. Types' /\ MineStarting' /\ Found' /\ Left'
      BY <2>5 DEF mineVars, Types, MineStarting, Found, Left, Preparing
    <3>2. (Undoes' <=> Undoes) /\ (Preparing' <=> Preparing)
      BY <2>5 DEF mineVars, Undoes, Preparing
    <3>3. MineOneTurn' <=> MineOneTurn
      BY <2>5 DEF mineVars, MineOneTurn, MineFree, MineUses, MineGives, MineDue, MineOutside
    <3>4. alive' = alive /\ at' = at /\ val' = val
      BY <2>5 DEF mineVars
    <3>5. QED
      BY <3>1, <3>2, <3>3, <3>4
  <2>6. QED
    BY <2>1, <2>2, <2>3, <2>4, <2>5 DEF MineNext
<1>3. QED
  BY <1>1, <1>2, PTL DEF MineSpec

(* The variables keep their types: values of 0 and 1, at most FISH rounds. *)
THEOREM MineTypeCorrect == MineSpec => []MineTypeOK
<1>1. MineInv => MineTypeOK
  <2> SUFFICES ASSUME MineInv PROVE MineTypeOK
    OBVIOUS
  <2>1. rounds \in [Sems -> 0..FISH]
    <3>1. \A me \in Sems : rounds[me] \in 0..FISH
      BY DEF Left, Types
    <3>2. QED
      BY <3>1 DEF Types
  <2>2. val \in [Sems -> {0, 1}]
    BY DEF Types, Found
  <2>3. QED
    BY <2>1, <2>2 DEF Types, MineTypeOK
<1>2. QED
  BY <1>1, MineInductive, PTL

(* A process that dies anywhere after the values are set leaves the set as *)
(* a run finds it best: SEM_UNDO restores the values of the start.         *)
THEOREM UndoIsComplete == MineSpec => []UndoRestores
<1>1. MineInv => UndoRestores
  BY BeginValues, MineSides DEF UndoRestores, Preparing, SetUp
<1>2. QED
  BY <1>1, MineInductive, PTL

(* Every step of the program is a turn of Handoff, a new run or a stutter. *)
THEOREM MineRefinement == MineSpec => MineTakesTurns
<1>1. MineInit => MineTurns!Init
  BY MineSides, BeginValues DEF MineInit, MineTurns!Init
<1>2. MineInv /\ [MineNext]_mineVars =>
        [MineTurns!Next]_<<"kept", rounds[OTTER], rounds[SEAGULL]>>
  <2> SUFFICES ASSUME MineInv, [MineNext]_mineVars
               PROVE  \/ MineTurns!Next
                      \/ UNCHANGED <<rounds[OTTER], rounds[SEAGULL]>>
    OBVIOUS
  <2>1. CASE UNCHANGED rounds
    BY <2>1
  <2>2. ASSUME NEW me \in Sems, Write(me) PROVE MineTurns!Next
    <3>1. alive = "running" /\ at[me] = "write" /\ rounds' = [rounds EXCEPT ![me] = @ + 1]
      BY <2>2 DEF Write, MineGoto
    <3>2. MineUses(me)
      BY <3>1, Begun, MineWhose
    <3>3. rounds[OTTER] \in Nat /\ rounds[SEAGULL] \in Nat
      BY MineSides DEF Types
    <3>4. CASE me = OTTER
      <4>1. /\ rounds[OTTER] = rounds[SEAGULL]
            /\ rounds'[OTTER] = rounds[OTTER] + 1
            /\ rounds'[SEAGULL] = rounds[SEAGULL]
        BY <3>1, <3>2, <3>4, MineSides DEF MineUses, MineDue, Types
      <4>2. QED
        BY <4>1 DEF MineTurns!Next, MineTurns!Give
    <3>5. CASE me = SEAGULL
      <4>1. /\ rounds[OTTER] = rounds[SEAGULL] + 1
            /\ rounds'[SEAGULL] = rounds[SEAGULL] + 1
            /\ rounds'[OTTER] = rounds[OTTER]
        BY <3>1, <3>2, <3>5, MineSides DEF MineUses, MineDue, Types
      <4>2. rounds[SEAGULL] < rounds[OTTER]
        BY <3>3, <4>1
      <4>3. QED
        BY <4>1, <4>2 DEF MineTurns!Next, MineTurns!Take
    <3>6. QED
      BY <3>4, <3>5, MineSides
  <2>3. CASE Rerun
    <3>1. rounds' = Zeros
      BY <2>3 DEF Rerun
    <3>2. rounds'[OTTER] = 0 /\ rounds'[SEAGULL] = 0
      BY <3>1, MineSides, BeginValues
    <3>3. QED
      BY <3>2 DEF MineTurns!Next, MineTurns!NewRun
  <2>4. MineMain \/ Kill \/ UNCHANGED mineVars => UNCHANGED rounds
    BY DEF MineMain, Semget, SetVal, CreateSeagull, Cleanup, Kill, mineVars
  <2>5. \A me \in Sems : Animal(me) => UNCHANGED rounds \/ Write(me)
    BY DEF Animal, GrabMine, GiveYours
  <2>6. QED
    BY <2>1, <2>2, <2>3, <2>4, <2>5 DEF MineNext
<1>3. QED
  BY <1>1, <1>2, MineInductive, PTL DEF MineSpec, MineTakesTurns, MineTurns!Spec
=============================================================================
