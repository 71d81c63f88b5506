# Formal models of CMPS3600-Operating-Systems

The repository is a course on operating systems: about eighty small C programs
in one directory per week (`1` ... `9`, `a` ... `f`).  Most of them are about
processes and threads that share something: semaphores, shared memory, mutexes,
signals, message queues, pipes.  They share no code; the "system" is a set of
programs, and what they have in common is the kernel's IPC.  This project
models the concurrent ones in TLA+, checks them with TLC and proves the most
important results with TLAPS.

## 1. Inventory

| Component (source) | State | Operations | What is hard | What makes it correct |
|---|---|---|---|---|
| Readers and writer, `6/reader-writer.c` | one int in a segment, two semaphores (readers, writers inside), a SIGINT handler | `reader_lock`, `writer_lock` (atomic arrays of two and three operations), the unlocks, `main`, `ctrlc_handler` | the lock is a count that others wait to be zero; the handler destroys the set in use and the program goes on; its two calls can be cut in two by another SIGINT | exclusion, no lost increment, what may be left behind, termination |
| Strong writers, `6/strong-writer.c` | as above, and who sleeps in `semop` | as above, and `GETZCNT` before a reader locks | question and action are two system calls | as above; how often a reader overtakes a writer |
| Producer and consumer, `6/lab6.c` (successor of `6/echo.c`) | a one-character buffer, two semaphores, two *global* sembufs | store into a sembuf, `semop`, print, read | the sembufs are shared by both threads and changed at run time | every character once and in order; both threads joined |
| Otter and seagull, `6/mine.c` | a *keyed* set of two semaphores, undo adjustments | array {other = 0, own - 1}, {other + 1} | the set outlives a killed process | strict alternation in every run; undo restores the start values |
| Philosophers, `8/lab8.c` = `8/phil8.c` | five fork semaphores, a monitor semaphore | wait monitor, wait forks (sorted), post | waiting for a fork while keeping the monitor | no shared fork, no circular wait, all eat and are joined |
| Philosophers, `8/dining.c` | five mutexes, attempts left of each | lock, trylock, give up and swap, lock after two failures | three ways to wait for the second fork | no shared fork; nobody starves |
| Philosophers, `8/lab8old.c` | six System V semaphores starting at 0..5 | wait for zero and add, release | wrong start values | everyone blocks at the first operation |
| Semaphore between processes, `5/semtest.c`; `5/lab5.c`, `5/lab5old.c`; tools `sem_ctrl.c`, `sem_delete.c`, `sem_get_info.c` | keyed sets, named semaphores, a segment, the global that tells parent from child | set up, fork, grab, release, remove, SIGINT handlers | several instances on one key; who comes first after fork; signals before and after fork | one process inside at a time; the child reads the parent's value; nothing left behind |
| Baton relay, `9/lab9.c`; `fork-exec.c`, `nofork-exec.c` | one semaphore whose value names the next runner | grab -(i+1), release +(i+2), exec of `ipcrm` | a value larger than one's own number also lets one in | the order of the first round; the set removed |
| Pause and resume, `3/startstop.c` | `paused`, the global saved mask, the signal mask | nested handlers, `sigsuspend` | a handler that runs inside another's `sigsuspend` | no wakeup lost, critical pieces uninterrupted; USR2 resumes |
| Signals between processes, `3/lab3.c`, `3/sighand3.c`, `2/fork-wait.c` | pending and blocked signals of parent and child | `kill`, `sigsuspend`, `wait` | signals before the wait, interrupted waits | nobody waits for ever |
| Masks and handlers in one process, `3/sighand1.c`, `sighand2.c`, `handler_masks.c`, `sigmask.c`, `4/sigset.c`, `sigset2.c`, `2/alarm.c` | mask, pending set, a flag | `sigprocmask`, `sigsuspend`, `alarm` | a signal between test and wait | the flag is seen |
| Queues and shared memory, `4/lab4.c`, `msg_send.c`, `msg_rcv.c`, `shared_mem.c`, `shm_io.c` | keyed queue and segment | send, receive and remove, spin on an int | objects of an earlier run; a receiver that removes the queue | the child gets this run's number and word |
| Dot product, `a/dotprod.c`, `a/lab10.c`, `a/pipetest.c` | a mutex and a sum, or a pipe | partial sums, end of file | end of file needs all writers closed | the sum, and the end |
| Thread samples, `6/sample1..3.c`, `threads1.c`, `mythreads.c`, `create_thread.c`, `timedwait.c` | exit codes, a mutex, a condition | create, join, timed wait | results in shared storage | join returns the thread's own result |
| Fork and exit codes, `2/*.c`, `9/*exec.c` | a child and its status | fork, wait, exec | eight bits of exit code | the status of one's own child |
| Files, `3/readwrite*.c`, `b/lab11.c`, `b/maptest.c` | offsets, page-aligned mappings | seek, map, copy | alignment and unsigned arithmetic | the bytes asked for |
| Memory and limits, `a/cache_check.c`, `chunk.c`, ...; language samples in `1`, `4/strings.c`, `9/pointers.c` | none that lasts | | | |
| X11 windows, `c/xwinp*.c` | a keyed segment with a colour, a done flag in each window, threads that move texts by flags or semaphores | key events, polls, drawing | processes of several runs on one segment, one after the other or at once; a turn kept in two flags | the child's key toggles the parent's colour; the texts take turns; Escape closes |
| X11 samples, `1/xwin*.c` | on the screen | | | |

Interactions: threads of one program share its globals and semaphores; parent
and child share segments, sets and pipes made before `fork`; programs that use
`ftok` on the same file `foo` share keyed objects with their own earlier runs
and with each other (`sem_ctrl`, `lab5` use the same key; `msg_send` and
`msg_rcv` another).  All of it goes through the kernel, whose `semop` and
signals are modelled by what they do to these programs.

`PROJECT.json` lists every component with its sources, and under "hazards" what
can go wrong in which line.

## 2. Plan

Order: the programs with several actors and shared state first, then those that
live by signals, then the windows.  All of it is done:

1. `RWLock`, `ReaderWriter`, `StrongWriter`, with `ReaderWriterProofs` and `StrongWriterProofs`.
2. `Handoff`, `Lab6`, `Mine`, `Echo`.
3. `Forks`, `Table`, `Lab8`, `Dining`, with `PhilosophersProofs`.
4. `KeyedLock`, `Semtest`, `Lab5`, `Lab5old`, `SemCtrl`, with `ForkedLocksProofs`.
5. `Signals`, `StartStop`, `ForkWait`, `ParentChild`, `SelfSignals`, with `SignalsProofs`.
6. `Relay`, `Mailbox`, `Cells`, `Pipes`; `TurnProofs` is about `Lab6`, `Mine` and `Relay`, `HandoffsProofs`
   about the others of 2 and 6.
7. `Windows`, `Texts`, with `ScreensProofs`.

What could follow: the refinement of `RWLock` by `StrongWriter` as a theorem (its SIGINT, set and exclusion are those of
`ReaderWriter`, whose proof would carry over); two runs of `mine` at once; two `xwinp4` that share a semaphore
set; the page arithmetic of `b/maptest.c` and `b/lab11.c` as operators against a reference.

## 3. Modules

Common conventions.  Each thread has a program counter that names its next
step; one action is one system call or one access to shared memory, together
with the local statements up to the next one.  Loops test their condition in the
step that leads to the test.  Busy work (`fib`), output and time stamps are left out.
`\* mutant` operators are faulty variants of the definition below them; no
specification uses them.  Programs that share no state are put together in
`Handoffs`, `Philosophers`, `ForkedLocks`, `SignalPrograms` and `Screens`, which
choose at the start the one that is run.

| Module | Models | State | Actions |
|---|---|---|---|
| `RWLock` | what a readers/writers lock promises | lock alive, who is inside, value | start and end of a read and of a write, one increment |
| `ReaderWriter` | `6/reader-writer.c` | `proc main pc cnt tmp shared shm set sem sigaction sa_flags handling sigints` | `reader_lock ReadShared reader_unlock writer_lock LoadShared StoreShared writer_unlock`; `MakeSegment init_my_sems InstallHandler Create Join removeid RemoveSegment`; `Sigint` (handler or default action, on any thread), `ctrlc_handler` (one step for each of its two calls) |
| `StrongWriter` | `6/strong-writer.c`, EXTENDS `ReaderWriter` | also `asleep checked zcnt overtakes` | also `CheckWriters` (GETZCNT), `Sleep`; `SWSigint`, which wakes a sleeper into the handler |
| `Handoff` | turn-taking of two actors | turns kept or lost, given, taken | one more given, one more taken |
| `Lab6` | `6/lab6.c` | `main pc count sem_op sem buf sembufs` | `SetGrab Grab WakeGrab Use SetRelease Release WakeRelease` of both threads; `SetSemaphores Create BlankBuffer Join` |
| `Mine` | `6/mine.c` over several runs | `alive at rounds set val semadj kills` | `Semget SetVal CreateSeagull GrabMine Write GiveYours Cleanup`; `Kill Rerun` |
| `Echo` | `6/echo.c` | `echoMain echoBuf filled consumer putc lastPut` | `Blank Fill Put` and the ends of both loops |
| `Relay` | `9/lab9.c` over several runs | `relay thr turn forkFlag ipcrm batonSet baton batonAdj printed` | `BatonGet BatonSet CreateRunner JoinRunners ExecIpcrm ForkIpcrm`; `GrabBaton PrintNumber ReleaseBaton`; `KillRelay RerunRelay` |
| `Mailbox` | `4/msg_send.c`, `4/msg_rcv.c` | `mail mqid queue lastId received` | `MsgGet MsgSnd MsgRcv MsgRcvFails MsgRmid` |
| `Cells` | `4/lab4.c`, `4/shared_mem.c` over several runs | `par chi cell madeBy hasWordq wordq logNumber logWord` | one per access to the segment and the queue; `KillCells NextCellRun` |
| `Pipes` | `a/dotprod.c`, `a/lab10.c`, `a/pipetest.c` | `boss worker mutexsum sum loaded pipe writers kid got` | pipe, fork, closes, lock, load, store, write, read, end of file, wait |
| `Forks`, `Table` | the round table; what a solution promises | who eats, meals | begin, eat, end |
| `Lab8` | `8/lab8.c`, `8/phil8.c` | `main pc monitor forks eat` | one per `sem_wait`, `sem_post` and meal |
| `Dining` | `8/dining.c` | `at forklft tries_left turn_cnt mutex cnt` | `LockLeft GetRight TryRightFails GiveUp TakeTurn UnlockRight UnlockLeft CreatePhil` |
| `KeyedLock` | what `5/semtest.c` and `5/lab5.c` have in common | `key semid val semadj pc sigint sigints kills` | `Start InstallHandler Semget SetVal Fork AssignChild Grab Release Exit Wait Cleanup CtrlC TakeSigint Kill` |
| `Semtest` | `5/semtest.c`, EXTENDS `KeyedLock` | also `loop` | also `EndRound ChildExit` |
| `Lab5` | `5/lab5.c`, EXTENDS `KeyedLock` | also `shared segment` | also `MakeSegment WriteFib ReadFib RemoveSegment ChildUndo` |
| `Lab5old` | `5/lab5old.c` over several runs | `oldPar oldChi named oldCell` | `OldStart OldSegment SemOpen OldFork`, waits, posts, write, read; `KillOldParent KillOldChild` |
| `SemCtrl` | `5/sem_ctrl.c` over several runs | `ctl context again ctlSet ctlVal ctlAdj` | one per system call; `CtlHandler CtlCtrlC CtlKill CtlRerun` |
| `Signals` | what the signal programs ask of the kernel | `proc` (life, pc, mask, pending, frames, actions, event of each process), `samask reports sends` | `Deliver`, and the operators the programs' steps are built from |
| `StartStop` | `3/startstop.c` | also `savedmask` | the three handlers step by step |
| `ForkWait`, `ParentChild`, `SelfSignals` | fifteen programs of directories 2, 3 and 4 | that of `Signals` | one operator per program, one disjunct per call |
| `Windows` | the main loops of `c/xwinp.c` ... `xwinp4.c`, several runs in a row or at once | `winProg life events done winAt screen key size parentCol shmid attached numwin isdiff`; `beside` and `winKilled` record what happened | `ParentGets` (shmget), `ParentStarts` (shmat and first store), `ChildStarts`, `HandleEvent` (with `check_keys`, `Key1`, `KeyG`), `NoMoreEvents CopyColour Quit`, `ParentTraps ChildTraps`; `XQueues KillWindow NextWinRun` |
| `Texts` | their threads that move texts | `moveText pos direction textAt flag semval textSem textSet` | moves, stores to flags, `TextGrab TextGot TextRelease TextZero`; keys |
| `*Proofs` | theorems about the modules that section 5 names | | |

Details that decide what the models can find:

- *Failing semop.*  In `ReaderWriter` a `semop` on a removed set returns at once
  and the thread goes on without the lock: so does the code, which only calls
  `perror`.
- *`sa_flags` is never set* (`reader-writer.c` l.110-113): the stack value may
  contain `SA_RESETHAND`, in which case the second SIGINT kills the process.
  The model chooses at the start.  So it does for the `sa_mask` of `startstop.c`.
- *The handler of `reader-writer.c` and `strong-writer.c`* makes two system calls (l.218 and
  l.219), and each is a step.  A SIGINT goes to any thread that exists and is not in the
  handler itself: `sa_mask` is the mask of the thread that runs the handler, the others go on.
  With `SA_RESETHAND` the disposition is reset at the delivery, so a second SIGINT may kill
  the process before the first call or between the two.
- *Load and store.*  `*shared` incremented is two steps, and so is `dotstr.sum`.
- *Store and semop* (`lab6.c`).  `sem_op` is stored in a global sembuf and read by
  the kernel in a later step; the kernel copies it, so a sleeper keeps its operation.
  `sembufs` records the first time a thread issues what the other one stored.
- *GETZCNT* counts all sleepers waiting for zero in older kernels and only the
  blocking ones since Linux 3.16; `zcnt` chooses.
- *SEM_UNDO* (`mine.c`, `lab9.c`, `sem_ctrl.c`): threads of a process share their adjustments;
  SETVAL clears them; at a death the kernel adds them and stops at zero.
- *The key* (`KeyedLock`).  A set is named by the run that created it.  `Semget` finds what
  the key names, `SetVal` clears everybody's adjustment, and after a removal the calls on
  the old `semid` fail at once, as no result is looked at.  In `Mailbox` the next
  `msgget` after a removal makes a queue with a new identifier, and whoever holds the old
  one fails, also out of its sleep.  In `Cells` nobody removes the segment, so `madeBy`
  says which run made it.
- *Who is the child* (`KeyedLock`, `sighand3`).  The handler asks the global `child` (`cpid`), which
  is 0 in the parent until the result of `fork` is stored.  Before
  `sigaction` a SIGINT has its default action.  A signal is taken at some step after it
  was sent, also while the process sleeps in `semop` or `wait`.
- *Parents that abandon.*  A parent that is killed, or that takes a SIGINT between `fork` and
  the store, leaves a child that goes on using the key.  `SetVal` of the next run then
  separates the child's adjustment from its operation, and the value may end at 2 with
  nobody inside.  `Abandoned` names these states; `ForkedTypeOK` and `NothingLeft` hold in
  them too, the other invariants say nothing there.
- *Named semaphores* (`Lab5old`) have no adjustments: a kill between wait and post
  loses the token, and an abandoned child goes on waiting on what the next run posts.
- *The handler of `sem_ctrl`* runs with SIGINT blocked, and one SIGINT that comes meanwhile
  is kept; before `main` fills `release` its zeroes are a wait for zero.
- *Signals.*  Masks and pending signals are sets.  A handler pushes a frame with the program
  counter and the mask to restore; `sigsuspend` pushes its own frame, so a second handler
  inside it restores the mask of the first, and `savedmask` of `startstop.c` is shared by all.
  A process takes no step while a signal is deliverable.  A stop, a continue and an
  end leave an event for `waitpid`; a pending stop is cancelled by SIGCONT.
- *A message without a type* (`lab4.c`): `msgsnd` takes the first bytes of the text for it and
  may refuse; the model chooses.
- *Windows.*  `done` is overwritten by each event of the same inner loop, so an Escape
  followed by another event is forgotten.  `xwinp` makes the keyed segment the size of an
  int; while such a segment has the key, `shmget` of `xwinp1` to `xwinp4` fails and the
  first store traps.  Nothing keeps a run from starting while windows of other runs are open,
  the child of a killed parent for one: the run finds the segment of the key and stores red in
  it, and the window that quits first removes it.  A removed segment stays for those attached to
  it, and its key is free.  A parent may find it gone between its `shmget` and its `shmat`, and a
  child at its `shmat`; `beside` says of a run whether its segment ever was that of another run, too.
- *`sighand2.c`.*  Between the `sigaction` and the read there is a `printf`; a Ctrl-C that comes
  before the read is handled there and lets the read be, one that comes during it makes it
  fail if the handler has no `SA_RESTART`.
- *Texts.*  A step of a text with its tests is one action; each store to a flag and
  each `semop` is its own.  In `xwinp4` the second assignment to each sembuf makes all operations go to
  semaphore 1.

## 4. Runs

| Run | Instance | Shows |
|---|---|---|
| `rw` | 2 readers, 2 writers, LIMIT 1, 2 SIGINTs; 177,814 states | while the set exists: exclusion, the counts are what is inside, no stale value; nothing is left behind unless the process was killed inside its handler; the program implements `RWLock` and ends |
| `rw_ctrl_c` (violation) | 1 reader, 1 writer, LIMIT 2, 1 SIGINT | after Ctrl-C the threads run without the lock |
| `sw` | 1 reader, 2 writers, LIMIT 2, 1 SIGINT; 241,580 states | the bookkeeping of sleepers keeps its type; at most one overtaking where all waiting writers are counted; every write counts |
| `sw_priority` (violation) | 2 readers, 1 writer, LIMIT 1 | the preference of the header is not kept |
| `handoffs` | `lab6` with LIMIT 4; `mine` with 3 fish and 2 kills; `echo` with 4 characters; `lab9` with 5 runners of one turn and 2 kills; 2 senders, 3 receivers and room for 2 messages; 3 runs of `lab4` or `shared_mem`; 4 workers, 3 bytes, a pipe of 2; 12,805 states | alternation, order of characters, of the baton and of messages, undo, no part of a sum missing, end of file, termination but for the stated cases |
| `lab6_shared` (violation) | LIMIT 3 | the shared sembufs can put both threads to sleep for ever |
| `philosophers` | N = 5; `lab8` with MAX 1 (two meals each), `dining` with LIMIT 1; 159,166 states | no shared fork, no circular wait, all eat unless the circle closes |
| `dining_starves` (violation) | N = 5, LIMIT 1 | the circle closes |
| `forked_locks` | `semtest` with LOOP 2 or `lab5`: 2 runs in a row, 1 Ctrl-C, 1 kill; `lab5old`: 3 runs, 2 kills; `sem_ctrl`: any number of runs and kills, 2 Ctrl-C each; 23,548 states | exclusion, no lock left by the dead, nothing left behind by a parent that ended, the child reads 0 only in the stated cases, every run ends but for the stated cases |
| `semtest_two` (violation) | 2 instances at once, LOOP 2 | the second instance resets the lock the first one holds |
| `signals` | sixteen programs, 4 keys or kills; 106,885 states | no wakeup lost, critical pieces of handlers uninterrupted, waits and logs in the one order, reasons of each end, USR2 resumes, ends |
| `screens` | 2 X runs at a time, any number in a row, 3 events (or runs started beside another) until all windows are closed, texts that turn after 1 step; 66,097 states | the child's key toggles the colour the parent shows unless another run is on the segment, traps and segments left only for their reasons, Escape closes if it is last, one text of `xwinp2` is away at a time, the texts of `xwinp4` make one step between them |

*Bounds.*  The programs run 3, 10, 50, 55, 100 or 100,000 rounds; the rounds of a
thread differ in nothing but their count, so two or three show every
interleaving of the end of one round with the next, and LIMIT 4 in `lab6` lets
each side be a round ahead in every way the semaphores allow.
`semtest.c` loops eight times; with two each process comes back once while the other is inside.
Two runs are the least for one that finds what the other left; the third of `lab5old` finds
what two kills left, and the third of `Cells` the word of one run in the queue of the next but one.
`reader-writer.c` has one thread of each kind and `strong-writer.c` four and three; two writers are
the least that can exclude each other, two readers the least that can share.
Two SIGINTs are the least for handler, then default action; four keys or kills
let a USR1, a USR2 inside its handler, another USR1 and an INT meet.  Two kills are a run that
finds the leftovers of a run that found leftovers.  One kill and one Ctrl-C in `forked_locks` can hit
the same run or both.  The table has the five seats, the relay the five runners with one turn, and the
dot product the four threads of the programs.  Three receivers can each be before, in and after the removal of a queue that has
fewer places than there are messages.  Three events let an Escape be followed by one and preceded
by the key that opens the child, or a run start beside a window whose child has taken a `g`; two runs at a time are the
least that share a segment; a text that turns after one step passes through all its steps.
Where the theorems of section 5 apply, no bound matters.

`CHECK_DEADLOCK` is off in all runs but those of `reader-writer.c` and `strong-writer.c`: a finished
program of the others stops for good, and the faulty ones hang; `HandoffsEnd`, `MealsEnd`, `RunsEnd`, `SignalsEnd`
and `ScreensGoOn` say where they may.

*Fairness.*  Weak fairness of each thread or process and of `main`: the scheduler
runs every thread that can run, and the kernel performs a sleeping `semop`, `msgrcv`, `wait` or read once it can.
In `SignalPrograms` it is weak fairness of the steps that change a process, delivery of
signals included.  Nothing stronger is used, so no thread is promised to win a race for a
semaphore; the programs end because the others run out of rounds.  Signals from outside, kills, keys,
X events and the starts of further runs (`Rerun`, `Start`, `NextCellRun`, ...) are not fair; a signal
that was sent is taken in the end (it is a step of the process).

## 5. Proofs

All theorems hold for every value of the constants under the named ASSUMEs of
the modules (finite disjoint sets of threads; natural bounds; at least two seats), except
where a condition is named.  All of them are invariants or refinements; induction is over steps only.

`ReaderWriterProofs`.  `TypeCorrect` comes first.  `LifeInv` then says what `main`
has and has not made yet, and what a handled SIGINT has removed; it is inductive alone and
gives `Cleanup`: what is gone, what a thread in the handler has still to remove, and that a process is killed
only once the disposition is the default again.  What survives a kill inside the handler is exactly what was still to be removed,
and in every other case nothing survives.  Exclusion is not inductive: a semaphore of zero means that nobody is
inside only because the values count the threads inside.  So `ExclusionInv`, both
semaphores as cardinalities together with exclusion, is proved inductive under
`TypeOK` and `LifeInv` (theorems `Exclusion` and `CountsAreExact`, with the lemmas `Enter`, `Leave` and `Stay` for the
cardinalities).  `NoStaleValue` adds the loaded values: a store happens only when the writer
is the only thread inside, so no other thread still holds a value.  `Refinement` uses all
of it to map each step to a step of `RWLock` or a stutter.

`StrongWriterProofs`.  `SWTypeCorrect`, and `OvertakesAtMostOnce`: a reader that got past a sleeping
writer must be told once more that nobody waits, and is not while the writer sleeps
(`OneFree`).  Where GETZCNT counts the blocking sleepers only, nothing is claimed.  `NoWriteIsLost`
(`EveryWriteCounts`) would need a sum over the set of writers, which no prover here computes; the invariant
`CountInv` counts a set instead: `Stored` is the set of pairs of a writer and a round it has stored, and the shared
number is its cardinality for as long as the set of semaphores exists.  A store adds one pair, and the value
loaded before is still that cardinality because the writer is alone inside.

`TurnProofs`, of `lab6.c`.  `TurnInv` says, for as long as no sembuf was clobbered, that there is
one turn and whose it is: in a semaphore (`Free`), with a thread that uses the buffer
(`Uses`), or with one about to give it away (`Gives`), and how the two counts differ in
each case.  The type invariant is needed first, since a sembuf may hold -1, 0 or +1.
`Lab6InOrder` and `Lab6Refinement` follow.

Of `mine.c`: the same turn, together with `Undoes`: value plus adjustment of each
semaphore is its value at the start of a run.  That makes `UndoIsComplete` true at every
kill, and since a run sets both values itself the turn holds in every run
(`MineRefinement`).  That a value is 0 or 1 and a count stays within FISH (`MineTypeCorrect`) follows
from the turn and is not inductive without it.

Of `lab9.c`: for one turn each (MAX_TURNS = 1, as in the program) `OneBaton` says that for some k
the threads before k are done, those after it wait, and the baton lies in the
semaphore as k + 1, or is with thread k, which has or has not printed its number.  The numbers are then in order
(`BatonOrder`).  `RelayTypeCorrect` needs no bound on the turns.

`PhilosophersProofs`, of `lab8.c`.  `Inv` says that whoever is between wait and post of the monitor is alone there
(`MonitorInv`), and that a fork in somebody's hand has value 0 and one holder (`ForkInv`); it needs that
no value exceeds 1, which holds because only the holder posts.  A philosopher that waits for a fork
is in the monitor, so the holder of that fork is not (`NoCircularWait`), and two that eat hold
different forks (`Lab8Refinement`).

Of `dining.c`: a mutex names its holder, whichever of the two forks a philosopher calls left
at the moment (`Hold`), and attempts, turns and meals add up (`Count`).  Two that eat then hold four
different mutexes (`DiningRefinement`).  `PhilTypeCorrect` is about both.

`ForkedLocksProofs`.  Only for runs that follow one another (`Overlap = FALSE`): with overlap the
exclusion is false, as `semtest_two` shows.  The invariant says that runs are in order and
the key names a set made by one of them that no parent which exited had (`Shape`, `KeyShape`); that, unless a
parent abandoned its child, the value of the semaphore is the number of processes inside, at most one, and the holder's
adjustment is -1 (`Account`); for `lab5` what the child has removed (`SegmentInv`); for
`sem_ctrl` that value and adjustment cancel (`CtlInv`); for `lab5old` that the two named semaphores and those between a wait and a
post share one token (`Token`).  `ForkedTypeCorrect`, `ForkedExclusion`,
`ForkedRelease` and `ForkedCleanup` follow, for any number of runs, signals and kills.  `ForkedReads` (`ReadsFib`) is about more
than exclusion, which abandoned runs may have lost: in `lab5` the kernel has at most one process to undo, it is inside, and the
value says whether there is one (`UndoInv`); whoever of a run is inside while its parent lives is
that one, and the parent stores before it releases (`CurrentRun`).  In `lab5old`, until somebody is killed, the runs follow one another and a
first semaphore that is up was posted by the run whose child waits for it (`OldFibInv`).

`HandoffsProofs`.  `HandoffsTypeCorrect` is about all programs of the run together.  `HandsOnWhatWasSent`
(`OnlyWhatWasSent`) is proved for each: in `echo.c` the buffer is the character last filled in (`EchoInv`); in the mailbox
what was received and what is still queued, one after the other, is all sent, and what one sender sent is in its order
(`MailInv`: `Flow`, `Placed`, `Ordered`); in `lab4.c`
a run that made the segment finds 0 in it until its own number is there (`NumberInv`), and the queue of words is
empty between the child's last step and the next `msgsnd` unless somebody was killed (`WordInv`).
`NoPartIsMissing` (`NothingMissing`): between load and store of the sum a worker holds the mutex, so what it loaded is
still the sum (`DotInv`); for the pipes, what was read followed by what is in the pipe has a part of every
finished worker, or every byte in order, and the reader ends only when the pipe is empty and no writer is left (`SumsInv`,
`BytesInv`).

`SignalsProofs`.  `SignalsTypeCorrect`, `NoWakeupIsLost` (`NoLostWakeup`) and `NotInterrupted` (`Uninterrupted`) rest on one
invariant, `Sound`: the record of every process is `Good`.  That is, it is well formed and so is everything in it that outlives
a step (`Sane`: a handler that must not be interrupted has a `sa_mask` with all signals the program
handles, and each frame is a `GoodFrame`, which is never critical and restores a mask that blocks what its counter needs
blocked); and it fits where the process is (`Fits`: what must be blocked
there is, and the word that was tested still has the value that was found).  The property alone is not inductive: a return takes counter and mask out of a
frame, which was pushed at a delivery, from a record that was then good.  `Good` is preserved by each of the
kernel's operators, proved once each; the programs are combinations of these.
`EndsForItsReason` (`EndsBecause`) adds `EndsInv`: until a program of one process ends, its reason is
there, in what has been counted, is pending or lies under a handler (`Counted`: every Ctrl-C that was counted, is being
counted or is pending was sent; `SecondTerm`, `KeptPending`, `TimerSet`, `Failed`).
`ReportsInOrder` (`WaitReports`) adds `PlotInv`: each of the eight programs with a child that reports has a plot, which says of every
place of the parent what the child has become, which signal it has got, and how much of the tale was told
(`fork_wait_plot` to `sighand3_plot`).  In `lab3` everything but `USR1` in `sigsuspend` is blocked, so that neither
a Ctrl-C nor the `TERM` ever reaches the child; in `sighand3` a parent returns from its handler only when it has
stored `cpid`, so that it never gets back to its `fork`.

`ScreensProofs`.  `ScreensTypeCorrect` first.  `ColoursAgree` (`ColourToggles`), for any number of runs at a time and of
kills, needs how the windows of a run
follow one another (`Lives`: a child comes after its parent, and a run without windows holds no segment), that a segment
which is that of one run only is red until its child opens (`Clean`), that a run alone on a segment still has the key when it
attaches, while a child that did not get the segment has lost key and parent (`KeyHeld`), that runs with the same segment are all
marked `beside` (`Shared`), and that a segment with a key and no window was left by a kill (`NotLeft`).
Together they are `WinInv`.
`TextsTakeTurns` (`OneTextAway`): in `xwinp2.c` whoever is away
has its flag set, and both are set only while thread 1, which is home, is between its two stores (`ByFlags`);
in `xwinp4.c` the one semaphore is taken once, and only who took it gets as far as a move (`BySemaphore`).

Only model-checked: all termination and every other liveness property (out of the prover's reach).  The violation runs are counterexamples and need no proof.

## 6. Findings

Shown by the violation runs:

- `reader-writer.c`: Ctrl-C removes the set and the program goes on without its
  lock (`rw_ctrl_c`).
- `strong-writer.c`: the preference for writers is a check before the act and can be
  overtaken (`sw_priority`).
- `lab6.c`: the sembufs shared by both threads can turn a release into a grab; the
  program hangs (`lab6_shared`).
- `dining.c`: five philosophers that failed twice each deadlock (`dining_starves`).
- `semtest.c`: a second instance sets the semaphore to 0 while the first is inside
  (`semtest_two`).

Written into the properties of the passing runs as the cases in which something does not hold:

- `lab5.c`: nothing makes the parent the first to grab; a child that is first reads 0 (`ReadsFib`).
- `lab5old.c`: after a kill the child of a later run may read 0, or wait for ever (`ReadsFib`, `RunsEnd`).
- `sem_ctrl.c`: a Ctrl-C that takes the release leaves a handler asleep (`RunsEnd`).
- `lab4.c`: a later run logs the number of an earlier one; a word may be refused (`OnlyWhatWasSent`, `HandoffsEnd`).
- `reader-writer.c`, `strong-writer.c`: if `sa_flags`, never set, happens to reset the disposition, a second SIGINT
  kills the process inside its handler and leaves the segment, or set and segment (`NothingLeftBehind`).
- `xwinp*.c`: an Escape that is not the last event of its loop is forgotten (`ScreensGoOn`).  The segment of an `xwinp` that
  was killed, or is open, makes the others trap; a run that starts beside an open child turns the colour back to red behind
  that child's `isdiffcolor`; and of two runs on one segment the first to quit may make the other trap (`ColourToggles`).
- `xwinp2.c`: a late store leaves both flags 0 and no text moves (`ScreensGoOn`).
- `xwinp4.c`: the three threads make one step between them (`OneTextAway`).

Comments that say something else than the code does, where the property of a passing run is what the code does:

- `semtest.c` l.10-11, "This program does not remove your semaphores.  You need to do it manually": the parent removes the
  set at its end (l.290), and its handler does (l.312).  `NothingLeft` says so; what stays is the set of a parent that was
  killed or took itself for the child.
- `fork-wait.c` l.104 and l.112, "non-blocking": the two `waitpid` have no `WNOHANG` and block, and only therefore are
  stop, continue and death reported one after the other (`WaitReports`).
- `lab2.c` l.61, "My child exited with code": the number is the parent's own `n`.  The status is fetched and not looked at, so a child that
  SIGSEGV ended (argument 0) has "exited with code: 0" (`WaitReports` has both the death and the word of the parent).
- `sighand3.c` l.25-28, "This is called deadlock": after a Ctrl-C while the child is stopped the parent's handler returns (l.127) and
  `main` continues, terminates and reaps the child; both end (`SignalsEnd`).
- `reader-writer.c` l.112, "block signals while in the handler": only in the thread that runs it (`NothingLeftBehind`).
- `startstop.c` l.231-233: the mask `usr1_handler` restores is the one a `usr2_handler` in its `sigsuspend` saved in the same
  variable, not its own.  It returns at once and its frame restores the right one; no property is about the mask in between.

## 7. Not modelled

- Failures of system calls other than those named above (no memory, no
  permission, missing files), real time, output.
- `8/lab8old.c`: its monitor semaphore starts at 5 and every philosopher first waits for it to be 0, so
  nothing happens after the threads are created and there is no protocol to check.
- `6/sample1..3.c`, `threads1.c`, `mythreads.c`, `create_thread.c`, `timedwait.c`: threads that print
  and are joined; what they share they only read, or write where no one reads it.
- `2/zombie.c`, `perror.c`, `9/fork-exec.c`, `9/nofork-exec.c`, `4/shm_io.c`, `5/sem_delete.c`, `5/sem_get_info.c`: one process that
  makes a call or two and ends, with no step of another to meet.
- `3/readwrite*.c`, `b/lab11.c`, `b/maptest.c`: one process and one file in a straight line.
- Programs that measure the machine (`a/cache_check.c`, `chunk.c`, ...) and language samples.
- The X11 samples of directory 1, and of `c` the drawing, the ball and key `u`: their state is on the screen.
- Semaphore 1 of `semtest.c`, which nothing waits for; two runs of `mine.c`, or two `xwinp4` on one
  semaphore set, at the same time.
