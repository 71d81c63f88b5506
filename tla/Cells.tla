-------------------------------- MODULE Cells --------------------------------
(***************************************************************************)
(* 4/lab4.c and 4/shared_mem.c, run one after the other in one directory.  *)
(* Both share an int between parent and child by the segment of one key,   *)
(* which neither ever removes; lab4 also passes a word by a message queue, *)
(* which its child removes.  What a run finds depends on the runs before   *)
(* it and on where they were killed.                                       *)
(*                                                                         *)
(* The number and the word typed in a run stand for themselves: the        *)
(* number is 10 times the run, or 0 for what atoi cannot read; the word is *)
(* the run.  What shared_mem prints is left out.                           *)
(***************************************************************************)
EXTENDS Integers, Sequences

CONSTANT CellRuns      \* bound on the number of runs

ASSUME CellsAssumption == CellRuns \in Nat \ {0}

VARIABLES
  cellProg,   \* the program of this run
  cellRun,    \* the number of this run
  par, chi,   \* where the parent and the child are
  cell,       \* *shared
  madeBy,     \* the run that created the segment, 0 when there is none
  hasWordq,   \* does the queue of the key exist
  wordq,      \* the words in it
  logNumber,  \* the number the child wrote to the log, -1 for none yet
  logWord,    \* the word the child wrote to the log, 0 for none yet
  cellKilled  \* was a run killed so far

cellVars == <<cellProg, cellRun, par, chi, cell, madeBy, hasWordq, wordq,
              logNumber, logWord, cellKilled>>

CellPrograms == {"lab4", "shared_mem"}
ParSteps == {"shmget", "msgget", "fork", "number", "word", "set 2", "set 4",
             "wait", "end", "killed"}
ChiSteps == {"none", "spin", "log number", "msgrcv", "rmid", "set 1",
             "set 3", "exit", "killed"}
Typed == {0, 10 * cellRun}

CellsInit ==
  /\ cellProg \in CellPrograms
  /\ cellRun = 1
  /\ par = "shmget" /\ chi = "none"
  /\ cell = 0 /\ madeBy = 0
  /\ hasWordq = FALSE /\ wordq = <<>>
  /\ logNumber = -1 /\ logWord = 0
  /\ cellKilled = FALSE

ParGoto(from, to) ==
  /\ par = from
  /\ par' = to
  /\ UNCHANGED <<cellProg, cellRun, logNumber, logWord, cellKilled>>

ChiGoto(from, to) ==
  /\ chi = from
  /\ chi' = to
  /\ UNCHANGED <<cellProg, cellRun, par, madeBy, cellKilled>>

----------------------------------------------------------------------------
(* the segment of the key, or a new one of zeroes *)
ShmGet ==
  /\ ParGoto("shmget", IF cellProg = "lab4" THEN "msgget" ELSE "fork")
  /\ IF madeBy = 0 THEN cell' = 0 /\ madeBy' = cellRun
     ELSE UNCHANGED <<cell, madeBy>>
  /\ UNCHANGED <<chi, hasWordq, wordq>>

WordqGet ==
  /\ ParGoto("msgget", "fork")
  /\ hasWordq' = TRUE
  /\ UNCHANGED <<chi, cell, madeBy, wordq>>

ForkChi ==
  /\ ParGoto("fork", IF cellProg = "lab4" THEN "number" ELSE "set 2")
  /\ chi' = IF cellProg = "lab4" THEN "spin" ELSE "set 1"
  /\ UNCHANGED <<cell, madeBy, hasWordq, wordq>>

WaitChi ==
  /\ chi = "exit"
  /\ ParGoto("wait", "end")
  /\ UNCHANGED <<chi, cell, madeBy, hasWordq, wordq>>

----------------------------------------------------------------------------
(* lab4.c after its fork *)

ReadNumber ==
  /\ ParGoto("number", "word")
  /\ cell' \in Typed
  /\ UNCHANGED <<chi, madeBy, hasWordq, wordq>>

(* msgsnd fails, and nobody looks, when the queue is gone; and it may fail *)
(* because mymsg has no type: the first eight bytes of the text are taken  *)
(* for it, and those behind a short word are not initialized (l.71-73). *)
SendWord ==
  /\ ParGoto("word", "wait")
  /\ \/ wordq' = wordq
     \/ hasWordq /\ wordq' = Append(wordq, cellRun)
  /\ UNCHANGED <<chi, cell, madeBy, hasWordq>>

(* mutant: the child does not wait for a number *)
Spin_not ==
  /\ ChiGoto("spin", "log number")
  /\ UNCHANGED <<cell, hasWordq, wordq, logNumber, logWord>>

(* the child polls until the int is positive *)
Spin ==
  /\ cell > 0
  /\ ChiGoto("spin", "log number")
  /\ UNCHANGED <<cell, hasWordq, wordq, logNumber, logWord>>

(* *shared is read once more *)
LogNumber ==
  /\ ChiGoto("log number", "msgrcv")
  /\ logNumber' = cell
  /\ UNCHANGED <<cell, hasWordq, wordq, logWord>>

LogWord ==
  /\ wordq # <<>>
  /\ ChiGoto("msgrcv", "rmid")
  /\ logWord' = Head(wordq)
  /\ wordq' = Tail(wordq)
  /\ UNCHANGED <<cell, hasWordq, logNumber>>

RmidWordq ==
  /\ ChiGoto("rmid", "exit")
  /\ hasWordq' = FALSE
  /\ wordq' = <<>>
  /\ UNCHANGED <<cell, logNumber, logWord>>

----------------------------------------------------------------------------
(* shared_mem.c after its fork *)

ParSet(n, from, to) ==
  /\ ParGoto(from, to)
  /\ cell' = n
  /\ UNCHANGED <<chi, madeBy, hasWordq, wordq>>

ChiSet(n, from, to) ==
  /\ ChiGoto(from, to)
  /\ cell' = n
  /\ UNCHANGED <<hasWordq, wordq, logNumber, logWord>>

----------------------------------------------------------------------------
CellParent ==
  \/ ShmGet \/ WordqGet \/ ForkChi
  \/ ReadNumber \/ SendWord
  \/ ParSet(2, "set 2", "set 4") \/ ParSet(4, "set 4", "wait")
  \/ WaitChi

CellChild ==
  \/ Spin \/ LogNumber \/ LogWord \/ RmidWordq
  \/ ChiSet(1, "set 1", "set 3") \/ ChiSet(3, "set 3", "exit")

(* Ctrl-C reaches both; segment and queue stay. *)
KillCells ==
  /\ par \notin {"end", "killed"}
  /\ par' = "killed" /\ chi' = "killed"
  /\ cellKilled' = TRUE
  /\ UNCHANGED <<cellProg, cellRun, cell, madeBy, hasWordq, wordq, logNumber,
                 logWord>>

NextCellRun ==
  /\ par \in {"end", "killed"}
  /\ cellRun < CellRuns
  /\ cellRun' = cellRun + 1
  /\ cellProg' \in CellPrograms
  /\ par' = "shmget" /\ chi' = "none"
  /\ logNumber' = -1 /\ logWord' = 0
  /\ UNCHANGED <<cell, madeBy, hasWordq, wordq, cellKilled>>

CellsNext == CellParent \/ CellChild \/ KillCells \/ NextCellRun

CellsSpec == CellsInit /\ [][CellsNext]_cellVars

----------------------------------------------------------------------------
(* Properties.                                                             *)

CellsTypeOK ==
  /\ cellProg \in CellPrograms
  /\ cellRun \in 1 .. CellRuns
  /\ par \in ParSteps /\ chi \in ChiSteps
  /\ cell \in Nat /\ logNumber \in Nat \cup {-1}
  /\ madeBy \in 0 .. cellRun
  /\ hasWordq \in BOOLEAN
  /\ wordq \in Seq(1 .. cellRun)
  /\ logWord \in 0 .. cellRun
  /\ cellKilled \in BOOLEAN

(* The log of lab4 (l.53-57) holds what was typed in the same run: the     *)
(* number, when the run made the segment itself; the word, unless an       *)
(* earlier run was killed and left its own in the queue.                   *)
LogsThisRun ==
  /\ logNumber # -1 /\ madeBy = cellRun => logNumber = 10 * cellRun
  /\ logWord # 0 /\ ~cellKilled => logWord = cellRun

(* A run ends, unless no positive number was typed and none was left, or   *)
(* the word was refused and none was left.                                 *)
CellsEnd ==
  []<>(\/ par \in {"end", "killed"}
       \/ par = "wait" /\ chi = "spin" /\ cell = 0
       \/ par = "wait" /\ chi = "msgrcv" /\ wordq = <<>>)
=============================================================================
