---------------------------- MODULE StrongWriter ----------------------------
(***************************************************************************)
(* 6/strong-writer.c: reader-writer.c with a preference for writers.  Its  *)
(* main(), lock functions, writer loop and SIGINT handler are those of     *)
(* ReaderWriter, with LIMIT = 3; what is new is that a reader first asks   *)
(* the kernel how many writers sleep on the READER semaphore (GETZCNT) and *)
(* gives the round up when there are any.  The question and the reader's   *)
(* semop are two system calls.                                             *)
(*                                                                         *)
(* To know who waits, a blocked semop is split here into falling asleep    *)
(* and being let through; the kernel may let the sleepers through in any   *)
(* order.                                                                  *)
(***************************************************************************)
EXTENDS ReaderWriter

VARIABLES
  asleep,     \* threads sleeping inside semop
  checked,    \* readers whose GETZCNT returned 0, not yet through the lock
  zcnt,       \* which sleepers this kernel's GETZCNT counts
  overtakes   \* how often each reader got in while each writer slept (up to 2)

swVars == <<vars, asleep, checked, zcnt, overtakes>>

SWInit ==
  /\ Init
  /\ asleep = {}
  /\ checked = {}
  /\ zcnt \in {"any", "blocking"}
  /\ overtakes = [p \in Writers \X Readers |-> 0]

CanEnter(t) ==
  /\ sem[WRITER] = 0
  /\ t \in Writers => sem[READER] = 0

(* the array of t cannot be performed now *)
Sleep(t) ==
  /\ proc = "running" /\ set = "live"
  /\ handling[t] = "none"
  /\ pc[t] = "lock"
  /\ t \in Readers => t \in checked
  /\ t \notin asleep
  /\ ~CanEnter(t)
  /\ asleep' = asleep \cup {t}
  /\ UNCHANGED <<vars, checked, zcnt, overtakes>>

(* mutant: the question is put about the other semaphore and op (GETNCNT): *)
(* nobody ever waits for an increase                                       *)
GETNCNT == {}

(* Linux before 3.16 counts every sleeper that waits for READER = 0 in its *)
(* array, later kernels only those that this operation blocks.             *)
GETZCNT == {w \in asleep \cap Writers : zcnt = "any" \/ sem[READER] # 0}

(* On a removed set semctl returns -1, which is not 0 either.              *)
CheckWriters(r) ==
  /\ proc = "running" /\ handling[r] = "none"
  /\ pc[r] = "lock" /\ r \notin checked
  /\ IF set = "live" /\ GETZCNT = {}
     THEN /\ checked' = checked \cup {r}
          /\ UNCHANGED <<pc, cnt>>
     ELSE /\ pc' = [pc EXCEPT ![r] = Loop(cnt[r] + 1)]
          /\ cnt' = [cnt EXCEPT ![r] = @ + 1]
          /\ UNCHANGED checked
  /\ UNCHANGED <<proc, main, tmp, shared, shm, set, sem, sigVars,
                 asleep, zcnt, overtakes>>

Overtaken(w, r) == IF w \in asleep /\ overtakes[w, r] < 2 THEN 1 ELSE 0

SWreader_lock(r) ==
  /\ r \in checked
  /\ reader_lock(r)
  /\ checked' = checked \ {r}
  /\ asleep' = asleep \ {r}
  /\ overtakes' = [p \in Writers \X Readers |->
                     overtakes[p] + IF p[2] = r THEN Overtaken(p[1], r) ELSE 0]
  /\ UNCHANGED zcnt

SWReader(r) ==
  \/ CheckWriters(r)
  \/ Sleep(r)
  \/ SWreader_lock(r)
  \/ (ReadShared(r) \/ reader_unlock(r)) /\ UNCHANGED <<asleep, checked, zcnt, overtakes>>

SWwriter_lock(w) ==
  /\ writer_lock(w)
  /\ asleep' = asleep \ {w}
  /\ overtakes' = [p \in Writers \X Readers |-> IF p[1] = w THEN 0 ELSE overtakes[p]]
  /\ UNCHANGED <<checked, zcnt>>

SWWriter(w) ==
  \/ Sleep(w)
  \/ SWwriter_lock(w)
  \/ /\ LoadShared(w) \/ StoreShared(w) \/ writer_unlock(w)
     /\ UNCHANGED <<asleep, checked, zcnt, overtakes>>

(* main() creates the readers first, and joins the writers first *)
SWMain ==
  /\ \/ MakeSegment
     \/ init_my_sems
     \/ InstallHandler
     \/ Create(Readers, "create W", "create R")
     \/ Create(Writers, "create R", "join W")
     \/ Join(Writers, "join W", "join R")
     \/ Join(Readers, "join R", "removeid")
     \/ removeid
     \/ RemoveSegment
  /\ UNCHANGED <<asleep, checked, zcnt, overtakes>>

(* a sleeper that has to run the handler is asleep no longer (EINTR) *)
SWSigint ==
  /\ Sigint
  /\ asleep' = {t \in asleep : handling'[t] = "none"}
  /\ overtakes' = [p \in Writers \X Readers |->
                     IF handling'[p[1]] = "none" THEN overtakes[p] ELSE 0]
  /\ UNCHANGED <<checked, zcnt>>

SWctrlc_handler(t) == ctrlc_handler(t) /\ UNCHANGED <<asleep, checked, zcnt, overtakes>>

SWNext ==
  \/ SWMain
  \/ \E r \in Readers : SWReader(r)
  \/ \E w \in Writers : SWWriter(w)
  \/ \E t \in Callers : SWctrlc_handler(t)
  \/ SWSigint
  \/ Ended /\ UNCHANGED <<asleep, checked, zcnt, overtakes>>

SWSpec == SWInit /\ [][SWNext]_swVars

SWFairSpec ==
  /\ SWSpec
  /\ WF_swVars(SWMain)
  /\ \A r \in Readers : WF_swVars(SWReader(r))
  /\ \A w \in Writers : WF_swVars(SWWriter(w))
  /\ \A t \in Callers : WF_swVars(SWctrlc_handler(t))

-----------------------------------------------------------------------------
SWTypeOK ==
  /\ TypeOK
  /\ asleep \subseteq Threads
  /\ checked \subseteq Readers
  /\ zcnt \in {"any", "blocking"}
  /\ overtakes \in [Writers \X Readers -> 0..2]

(* Header, l.7-9: "Any writer waiting will be allowed to finish writing    *)
(* before any reader is allowed to read."  A reader is let in while a      *)
(* writer sleeps that cannot be let through.                               *)
WriterPreference ==
  [][(\E w \in asleep \cap Writers : ~CanEnter(w)) /\ set = "live"
       => Inside(Readers)' \subseteq Inside(Readers)]_swVars

(* What the check does buy: where GETZCNT counts every waiting writer, a   *)
(* reader gets past a waiting writer at most once.                         *)
OvertakesOnce ==
  zcnt = "any" => \A p \in Writers \X Readers : overtakes[p] <= 1

(* When main() has joined all threads, and nobody pressed Ctrl-C, the cell *)
(* holds the number of rounds the writers were started for.                *)
EveryWriteCounts ==
  main = "removeid" /\ set = "live" => shared = LIMIT * Cardinality(Writers)
=============================================================================
