-------------------------------- MODULE Pipes --------------------------------
(***************************************************************************)
(* a/dotprod.c, a/lab10.c and a/pipetest.c, one of which is run.  dotprod  *)
(* adds the partial sums of its threads to dotstr.sum under a mutex; in    *)
(* lab10 the threads write them to a pipe and a forked child adds them up; *)
(* in pipetest the parent writes its argument to the pipe and the child    *)
(* echoes it byte by byte.  A child reads until the end of file, which it  *)
(* sees only when nobody holds the writing end open.                       *)
(*                                                                         *)
(* A partial sum is the worker that computed it, a total the workers in    *)
(* it; bytes are their positions.  The reading ends are left out: the one  *)
(* reader closes its own after the last writer has closed.                 *)
(***************************************************************************)
EXTENDS Integers, Sequences

CONSTANTS
  NUMTHRDS,     \* threads (4)
  ARGLEN,       \* bytes of the argument of pipetest
  PIPESIZE      \* items the pipe has room for

ASSUME PipesAssumption ==
  NUMTHRDS \in Nat \ {0} /\ ARGLEN \in Nat /\ PIPESIZE \in Nat \ {0}

Workers == 1 .. NUMTHRDS

VARIABLES
  dotProg,    \* the program that is run
  boss,       \* where main(), or the parent, is
  worker,     \* where each thread is
  mutexsum,   \* the worker that holds the mutex, 0 for nobody
  sum,        \* dotstr.sum: the parts added
  loaded,     \* what each worker loaded from dotstr.sum
  pipe,       \* what is in the pipe
  writers,    \* the processes that hold the writing end open
  kid,        \* where the child is
  got,        \* what the child has read
  written     \* bytes of the argument written so far

pipeVars == <<dotProg, boss, worker, mutexsum, sum, loaded, pipe, writers,
              kid, got, written>>

DotPrograms == {"dotprod", "lab10", "pipetest"}
BossSteps == {"pipe", "fork", "create", "join", "write",
              "close write", "wait", "end"}
WorkerSteps == {"new", "lock", "load", "store", "unlock", "write", "exit"}
KidSteps == {"none", "close write", "read", "print", "exit"}

PipesInit ==
  /\ dotProg \in DotPrograms
  /\ boss = IF dotProg = "dotprod" THEN "create" ELSE "pipe"
  /\ worker = [w \in Workers |-> "new"]
  /\ mutexsum = 0
  /\ sum = {}
  /\ loaded = [w \in Workers |-> {}]
  /\ pipe = <<>>
  /\ writers = {}
  /\ kid = "none"
  /\ got = <<>>
  /\ written = 0

----------------------------------------------------------------------------
(* main()                                                                  *)

BossGoto(from, to) ==
  /\ boss = from
  /\ boss' = to
  /\ UNCHANGED <<dotProg, mutexsum, sum, loaded, got>>

MakePipe ==
  /\ BossGoto("pipe", "fork")
  /\ writers' = {"parent"}
  /\ UNCHANGED <<worker, pipe, kid, written>>

ForkKid ==
  /\ BossGoto("fork", IF dotProg = "lab10" THEN "create" ELSE "write")
  /\ kid' = "close write"
  /\ writers' = writers \cup {"child"}
  /\ UNCHANGED <<worker, pipe, written>>

CreateWorker(w) ==
  /\ worker[w] = "new"
  /\ \A v \in Workers : v < w => worker[v] # "new"
  /\ BossGoto("create", IF w = NUMTHRDS THEN "join" ELSE "create")
  /\ worker' = [worker EXCEPT ![w] = "lock"]
  /\ UNCHANGED <<pipe, writers, kid, written>>

JoinWorkers ==
  /\ \A w \in Workers : worker[w] = "exit"
  /\ BossGoto("join", IF dotProg = "lab10" THEN "close write" ELSE "end")
  /\ UNCHANGED <<worker, pipe, writers, kid, written>>

(* one write of the whole argument, which sleeps while the pipe is full *)
WriteByte ==
  /\ written < ARGLEN
  /\ Len(pipe) < PIPESIZE
  /\ BossGoto("write", "write")
  /\ pipe' = Append(pipe, written + 1)
  /\ written' = written + 1
  /\ UNCHANGED <<worker, writers, kid>>

CloseWrite ==
  /\ boss = "write" => written = ARGLEN
  /\ BossGoto(IF dotProg = "lab10" THEN "close write" ELSE "write", "wait")
  /\ writers' = writers \ {"parent"}
  /\ UNCHANGED <<worker, pipe, kid, written>>

WaitKid ==
  /\ kid = "exit"
  /\ BossGoto("wait", "end")
  /\ UNCHANGED <<worker, pipe, writers, kid, written>>

Boss ==
  \/ MakePipe \/ ForkKid
  \/ \E w \in Workers : CreateWorker(w)
  \/ JoinWorkers
  \/ WriteByte \/ CloseWrite \/ WaitKid

----------------------------------------------------------------------------
(* dotprod(): lab10 locks the mutex too, but for nothing.                  *)

WorkerGoto(w, from, to) ==
  /\ worker[w] = from
  /\ worker' = [worker EXCEPT ![w] = to]
  /\ UNCHANGED <<dotProg, boss, writers, kid, got, written>>

(* mutant: the mutex is not taken *)
LockSum_not(w) ==
  /\ WorkerGoto(w, "lock", IF dotProg = "lab10" THEN "unlock" ELSE "load")
  /\ UNCHANGED <<mutexsum, sum, loaded, pipe>>

LockSum(w) ==
  /\ mutexsum = 0
  /\ WorkerGoto(w, "lock", IF dotProg = "lab10" THEN "unlock" ELSE "load")
  /\ mutexsum' = w
  /\ UNCHANGED <<sum, loaded, pipe>>

(* dotstr.sum += mysum *)
LoadSum(w) ==
  /\ WorkerGoto(w, "load", "store")
  /\ loaded' = [loaded EXCEPT ![w] = sum]
  /\ UNCHANGED <<mutexsum, sum, pipe>>

StoreSum(w) ==
  /\ WorkerGoto(w, "store", "unlock")
  /\ sum' = loaded[w] \cup {w}
  /\ UNCHANGED <<mutexsum, loaded, pipe>>

UnlockSum(w) ==
  /\ WorkerGoto(w, "unlock", IF dotProg = "lab10" THEN "write" ELSE "exit")
  /\ mutexsum' = 0
  /\ UNCHANGED <<sum, loaded, pipe>>

(* four bytes are written at once *)
WriteSum(w) ==
  /\ Len(pipe) < PIPESIZE
  /\ WorkerGoto(w, "write", "exit")
  /\ pipe' = Append(pipe, w)
  /\ UNCHANGED <<mutexsum, sum, loaded>>

dotprod(w) ==
  \/ LockSum(w) \/ LoadSum(w) \/ StoreSum(w) \/ UnlockSum(w) \/ WriteSum(w)

----------------------------------------------------------------------------
(* The child.                                                              *)

KidGoto(from, to) ==
  /\ kid = from
  /\ kid' = to
  /\ UNCHANGED <<dotProg, boss, worker, mutexsum, sum, loaded, written>>

(* mutant: the child keeps its copy of the writing end *)
KidClosesWrite_not ==
  /\ KidGoto("close write", "read")
  /\ UNCHANGED <<pipe, writers, got>>

KidClosesWrite ==
  /\ KidGoto("close write", "read")
  /\ writers' = writers \ {"child"}
  /\ UNCHANGED <<pipe, got>>

KidReads ==
  /\ pipe # <<>>
  /\ KidGoto("read", "read")
  /\ pipe' = Tail(pipe)
  /\ got' = Append(got, Head(pipe))
  /\ UNCHANGED writers

(* end of file *)
KidAtEOF ==
  /\ pipe = <<>> /\ writers = {}
  /\ KidGoto("read", "print")
  /\ UNCHANGED <<pipe, writers, got>>

KidPrints ==
  /\ KidGoto("print", "exit")
  /\ UNCHANGED <<pipe, writers, got>>

Kid == KidClosesWrite \/ KidReads \/ KidAtEOF \/ KidPrints

PipesNext == Boss \/ (\E w \in Workers : dotprod(w)) \/ Kid

PipesSpec == PipesInit /\ [][PipesNext]_pipeVars

----------------------------------------------------------------------------
(* Properties.                                                             *)

PipesTypeOK ==
  /\ dotProg \in DotPrograms
  /\ boss \in BossSteps
  /\ worker \in [Workers -> WorkerSteps]
  /\ mutexsum \in 0 .. NUMTHRDS
  /\ sum \subseteq Workers
  /\ loaded \in [Workers -> SUBSET Workers]
  /\ pipe \in Seq(Nat) /\ Len(pipe) <= PIPESIZE
  /\ writers \subseteq {"parent", "child"}
  /\ kid \in KidSteps
  /\ got \in Seq(Nat)
  /\ written \in 0 .. ARGLEN

(* No part is missing from what is printed: dotprod's sum has every        *)
(* worker's part (l.66-68), the total of lab10's child has every part, and *)
(* each once (l.110-113), and pipetest echoes its argument in order and to *)
(* the last byte (l.70-73).                                                *)
NothingMissing ==
  /\ dotProg = "dotprod" /\ boss = "end" => sum = Workers
  /\ dotProg = "lab10" /\ kid \in {"print", "exit"} =>
       /\ Len(got) = NUMTHRDS
       /\ \A w \in Workers : \E k \in DOMAIN got : got[k] = w
  /\ dotProg = "pipetest" =>
       /\ \A k \in DOMAIN got : got[k] = k
       /\ kid \in {"print", "exit"} => Len(got) = ARGLEN

(* The child sees the end of file, and the parent the end of the child.    *)
PipesEnd == <>(boss = "end")
=============================================================================
