---------------------------- MODULE ReaderWriter ----------------------------
(***************************************************************************)
(* 6/reader-writer.c: reader and writer threads of one process share one   *)
(* int in a System V segment, guarded by a pair of semaphores.  A reader   *)
(* enters with the atomic array {READER +1, WRITER =0}, a writer with      *)
(* {READER =0, WRITER =0, WRITER +1}; both leave with a single -1.         *)
(*                                                                         *)
(* The SIGINT handler removes the semaphore set and then, by a second      *)
(* call, the segment, but does not end the process.  Once the set is gone  *)
(* every semop fails at once, the code reports it with perror, and the     *)
(* thread goes on without the lock.  Any thread may be the one that runs   *)
(* the handler; it is held up until the handler returns.  sa_mask blocks   *)
(* signals in that thread alone, so another thread may take the next       *)
(* SIGINT before the handler is through.                                   *)
(*                                                                         *)
(* The file has one writer and one reader; both are sets here.  System     *)
(* calls fail only in the ways the model names.                            *)
(***************************************************************************)
EXTENDS Naturals, FiniteSets

CONSTANTS
  Readers,    \* reader threads
  Writers,    \* writer threads
  LIMIT,      \* iterations of each thread (50 in the file)
  MaxSigint   \* bound on the number of SIGINTs delivered

ASSUME ReaderWriterAssumption ==
  /\ IsFiniteSet(Readers) /\ IsFiniteSet(Writers)
  /\ Readers \cap Writers = {}
  /\ LIMIT \in Nat
  /\ MaxSigint \in Nat

READER == 0
WRITER == 1
Threads == Readers \cup Writers

(* the threads that can run the handler: main() is one of them *)
MAIN == "main()"
Callers == Threads \cup {MAIN}

VARIABLES
  proc,       \* "running", "exited", or "killed" by a signal
  main,       \* where main() is
  pc,         \* where each thread is
  cnt,        \* each thread's loop counter
  tmp,        \* the register of a read of *shared, one per thread
  shared,     \* the int in the shared segment
  shm,        \* life of the segment
  set,        \* life of the semaphore set
  sem,        \* the two semaphore values
  sigaction,  \* disposition of SIGINT: "default" or "handler"
  sa_flags,   \* what the uninitialised sa.sa_flags happens to hold
  handling,   \* the call each thread is about to make in ctrlc_handler
  sigints     \* SIGINTs delivered so far

threadVars == <<pc, cnt, tmp, shared, sem>>
sigVars    == <<sigaction, sa_flags, handling, sigints>>
vars == <<proc, main, pc, cnt, tmp, shared, shm, set, sem,
          sigaction, sa_flags, handling, sigints>>

Life == {"none", "live", "removed"}
Flags == {"SA_RESETHAND", "other"}
HandlerSteps == {"none", "semctl", "shmctl"}
MainSteps == {"shmget", "semget", "sigaction", "create W", "create R",
              "join W", "join R", "removeid", "shmctl"}
ThreadSteps == {"new", "lock", "read", "write", "unlock", "exit"}
InsideSteps == {"read", "write", "unlock"}   \* between lock and unlock

Init ==
  /\ proc = "running"
  /\ main = "shmget"
  /\ pc = [t \in Threads |-> "new"]
  /\ cnt = [t \in Threads |-> 0]
  /\ tmp = [t \in Threads |-> 0]
  /\ shared = 0
  /\ shm = "none"
  /\ set = "none"
  /\ sem = [s \in {READER, WRITER} |-> 0]
  /\ sigaction = "default"
  /\ sa_flags \in Flags
  /\ handling = [t \in Callers |-> "none"]
  /\ sigints = 0

----------------------------------------------------------------------------
(* The kernel: a semop on a removed set returns -1 at once, also for the   *)
(* threads already blocked in it (EIDRM).  So does one that a handler      *)
(* interrupts (EINTR), and when that handler returns the set is gone.      *)

Semop(enabled, newsem) ==
  \/ set = "live" /\ enabled /\ sem' = newsem
  \/ set # "live" /\ UNCHANGED sem

Add(s, n) == [sem EXCEPT ![s] = @ + n]
(* mutant: a release that gives nothing back *)
Sub_lost(s, n) == sem

Sub(s, n) == [sem EXCEPT ![s] = @ - n]

----------------------------------------------------------------------------
(* Steps of the threads.                                                   *)

(* the test of the while loop, taken with the step that leads to it *)
Loop(n) == IF n < LIMIT THEN "lock" ELSE "exit"

Goto(t, from, to) ==
  /\ proc = "running"
  /\ handling[t] = "none"
  /\ pc[t] = from
  /\ pc' = [pc EXCEPT ![t] = to]
  /\ UNCHANGED <<proc, main, shm, set, sigVars>>

(* mutant: the array without its wait for WRITER = 0 *)
reader_lock_no_wait(r) ==
  /\ Goto(r, "lock", "read")
  /\ Semop(TRUE, Add(READER, 1))
  /\ UNCHANGED <<cnt, tmp, shared>>

reader_lock(r) ==
  /\ Goto(r, "lock", "read")
  /\ Semop(sem[WRITER] = 0, Add(READER, 1))
  /\ UNCHANGED <<cnt, tmp, shared>>

ReadShared(r) ==
  /\ Goto(r, "read", "unlock")
  /\ tmp' = [tmp EXCEPT ![r] = shared]
  /\ cnt' = [cnt EXCEPT ![r] = @ + 1]
  /\ UNCHANGED <<shared, sem>>

(* mutant: the release names the wrong semaphore *)
reader_unlock_wrong(r) ==
  /\ Goto(r, "unlock", Loop(cnt[r]))
  /\ Semop(TRUE, Sub(WRITER, 1))
  /\ UNCHANGED <<cnt, tmp, shared>>

reader_unlock(r) ==
  /\ Goto(r, "unlock", Loop(cnt[r]))
  /\ Semop(sem[READER] > 0, Sub(READER, 1))
  /\ UNCHANGED <<cnt, tmp, shared>>

Reader(r) == reader_lock(r) \/ ReadShared(r) \/ reader_unlock(r)

(* mutant: the array without its wait for WRITER = 0 *)
writer_lock_no_wait(w) ==
  /\ Goto(w, "lock", "read")
  /\ Semop(sem[READER] = 0, Add(WRITER, 1))
  /\ UNCHANGED <<cnt, tmp, shared>>

writer_lock(w) ==
  /\ Goto(w, "lock", "read")
  /\ Semop(sem[READER] = 0 /\ sem[WRITER] = 0, Add(WRITER, 1))
  /\ UNCHANGED <<cnt, tmp, shared>>

(* ( *shared)++ is a load and a store *)
LoadShared(w) ==
  /\ Goto(w, "read", "write")
  /\ tmp' = [tmp EXCEPT ![w] = shared]
  /\ UNCHANGED <<cnt, shared, sem>>

StoreShared(w) ==
  /\ Goto(w, "write", "unlock")
  /\ shared' = tmp[w] + 1
  /\ cnt' = [cnt EXCEPT ![w] = @ + 1]
  /\ UNCHANGED <<tmp, sem>>

writer_unlock(w) ==
  /\ Goto(w, "unlock", Loop(cnt[w]))
  /\ Semop(sem[WRITER] > 0, Sub(WRITER, 1))
  /\ UNCHANGED <<cnt, tmp, shared>>

Writer(w) ==
  writer_lock(w) \/ LoadShared(w) \/ StoreShared(w) \/ writer_unlock(w)

----------------------------------------------------------------------------
(* Steps of main().                                                        *)

At(from, to) ==
  /\ proc = "running"
  /\ handling[MAIN] = "none"
  /\ main = from
  /\ main' = to

MakeSegment ==
  /\ At("shmget", "semget")
  /\ shm' = "live"
  /\ shared' = 0
  /\ UNCHANGED <<proc, pc, cnt, tmp, set, sem, sigVars>>

init_my_sems ==
  /\ At("semget", "sigaction")
  /\ set' = "live"
  /\ sem' = [s \in {READER, WRITER} |-> 0]
  /\ UNCHANGED <<proc, pc, cnt, tmp, shared, shm, sigVars>>

InstallHandler ==
  /\ At("sigaction", "create W")
  /\ sigaction' = "handler"
  /\ UNCHANGED <<proc, threadVars, shm, set, sa_flags, handling, sigints>>

(* pthread_create of one thread of the group; the last one moves main on *)
Create(group, from, to) ==
  \E t \in group :
    /\ pc[t] = "new"
    /\ pc' = [pc EXCEPT ![t] = Loop(0)]
    /\ At(from, IF \A u \in group \ {t} : pc[u] # "new" THEN to ELSE from)
    /\ UNCHANGED <<proc, cnt, tmp, shared, shm, set, sem, sigVars>>

Join(group, from, to) ==
  /\ At(from, to)
  /\ \A t \in group : pc[t] = "exit"
  /\ UNCHANGED <<proc, threadVars, shm, set, sigVars>>

removeid ==
  /\ At("removeid", "shmctl")
  /\ set' = "removed"
  /\ UNCHANGED <<proc, threadVars, shm, sigVars>>

RemoveSegment ==
  /\ At("shmctl", "shmctl")
  /\ shm' = "removed"
  /\ proc' = "exited"
  /\ UNCHANGED <<threadVars, set, sigVars>>

Main ==
  \/ MakeSegment
  \/ init_my_sems
  \/ InstallHandler
  \/ Create(Writers, "create W", "create R")
  \/ Create(Readers, "create R", "join W")
  \/ Join(Writers, "join W", "join R")
  \/ Join(Readers, "join R", "removeid")
  \/ removeid
  \/ RemoveSegment

----------------------------------------------------------------------------
(* SIGINT.                                                                 *)

(* pthreads that exist and do not block SIGINT *)
CanTake(t) ==
  /\ handling[t] = "none"
  /\ t # MAIN => pc[t] \notin {"new", "exit"}

EnterHandler(t) ==
  /\ sigaction = "handler"
  /\ handling' = [handling EXCEPT ![t] = "semctl"]
  /\ sigaction' = IF sa_flags = "SA_RESETHAND" THEN "default" ELSE "handler"
  /\ UNCHANGED proc

KilledBySigint ==
  /\ sigaction = "default"
  /\ proc' = "killed"
  /\ UNCHANGED <<sigaction, handling>>

Sigint ==
  /\ proc = "running"
  /\ sigints < MaxSigint
  /\ sigints' = sigints + 1
  /\ \E t \in Callers : CanTake(t) /\ (EnterHandler(t) \/ KilledBySigint)
  /\ UNCHANGED <<main, threadVars, set, shm, sa_flags>>

HandlerCall(t, from, to) ==
  /\ proc = "running"
  /\ handling[t] = from
  /\ handling' = [handling EXCEPT ![t] = to]
  /\ UNCHANGED <<proc, main, threadVars, sigaction, sa_flags, sigints>>

(* mutant: the handler forgets the segment *)
ctrlc_handler_sem_only(t) ==
  /\ HandlerCall(t, "semctl", "none")
  /\ set' = "removed"
  /\ UNCHANGED shm

ctrlc_handler(t) ==
  \/ /\ HandlerCall(t, "semctl", "shmctl")
     /\ set' = "removed"
     /\ UNCHANGED shm
  \/ /\ HandlerCall(t, "shmctl", "none")
     /\ shm' = "removed"
     /\ UNCHANGED set

----------------------------------------------------------------------------
Ended == proc # "running" /\ UNCHANGED vars

Next ==
  \/ Main
  \/ \E r \in Readers : Reader(r)
  \/ \E w \in Writers : Writer(w)
  \/ \E t \in Callers : ctrlc_handler(t)
  \/ Sigint
  \/ Ended

Spec == Init /\ [][Next]_vars

(* Every thread keeps running, and the kernel retries a blocked semop when *)
(* the values change; no stronger service is assumed of it.                *)
FairSpec ==
  /\ Spec
  /\ WF_vars(Main)
  /\ \A r \in Readers : WF_vars(Reader(r))
  /\ \A w \in Writers : WF_vars(Writer(w))
  /\ \A t \in Callers : WF_vars(ctrlc_handler(t))

----------------------------------------------------------------------------
(* Properties.                                                             *)

TypeOK ==
  /\ proc \in {"running", "exited", "killed"}
  /\ main \in MainSteps
  /\ pc \in [Threads -> ThreadSteps]
  /\ cnt \in [Threads -> Nat]
  /\ tmp \in [Threads -> Nat]
  /\ shared \in Nat
  /\ shm \in Life
  /\ set \in Life
  /\ sem \in [{READER, WRITER} -> Nat]
  /\ sigaction \in {"default", "handler"}
  /\ sa_flags \in Flags
  /\ handling \in [Callers -> HandlerSteps]
  /\ sigints \in Nat

Inside(group) == {t \in group : pc[t] \in InsideSteps}

(* Header, l.6-8: while one thread writes, no other thread reads or        *)
(* writes the cell.                                                        *)
ExclusiveUse ==
  \A w \in Inside(Writers) : Inside(Threads) = {w}

(* The same, for as long as the semaphore set exists: Ctrl-C is the only   *)
(* thing that breaks it.                                                   *)
ExclusionWhileSetLives ==
  set = "live" => ExclusiveUse

(* l.283: "n_writers will never be greater than 1", and the two semaphores *)
(* count exactly the threads that are inside.                              *)
SemsCountThreads ==
  set = "live" =>
    /\ sem[READER] = Cardinality(Inside(Readers))
    /\ sem[WRITER] = Cardinality(Inside(Writers))
    /\ sem[WRITER] <= 1

(* No increment is lost and no reader's value goes stale while it holds    *)
(* the lock: what a thread loaded is what the cell holds until it leaves.  *)
LoadedValueIsCurrent ==
  set = "live" =>
    \A t \in Threads :
      \/ t \in Readers /\ pc[t] = "unlock"
      \/ t \in Writers /\ pc[t] = "write"
      => tmp[t] = shared

(* Some thread has entered the handler and has still to make the call.     *)
HandlerOwes(calls) == \E t \in Callers : handling[t] \in calls

(* A process that got as far as installing its handler leaves neither the  *)
(* semaphore set nor the segment behind, whatever signals arrive, but for  *)
(* one case: a second SIGINT finds the disposition reset and kills it      *)
(* while a thread is in the handler, before l.218 or between l.218 and     *)
(* l.219.  What is left then is what that thread had still to remove.      *)
NothingLeftBehind ==
  (proc # "running" /\ main \notin {"shmget", "semget", "sigaction"}) =>
    /\ set = "removed" \/ (proc = "killed" /\ HandlerOwes({"semctl"}))
    /\ shm = "removed" \/ (proc = "killed" /\ HandlerOwes({"semctl", "shmctl"}))

(* Until the set is removed the program is an implementation of RWLock:    *)
(* exclusion of writers, and a cell that only ever grows one by one.       *)
RW == INSTANCE RWLock WITH
        alive   <- set # "removed",
        reading <- Inside(Readers),
        writing <- Inside(Writers),
        value   <- shared

ImplementsRWLock == RW!Spec

(* Every thread completes its LIMIT rounds, whoever wins the race for the  *)
(* semaphores, with or without Ctrl-C, and main() joins them and ends.     *)
Terminates == <>(proc # "running")
=============================================================================
