------------------------------- MODULE RWLock -------------------------------
(***************************************************************************)
(* What a readers/writers protocol promises to the threads that use it: a  *)
(* memory cell that many readers may inspect together, that a writer       *)
(* changes only while it is alone, and whose every change is one increment *)
(* of the current value.  How a thread waits, and who is let in first, is  *)
(* left open.  The lock can be destroyed while it is in use; after that    *)
(* nothing is promised any more.                                           *)
(***************************************************************************)
EXTENDS Naturals

CONSTANTS Readers, Writers

VARIABLES
  alive,     \* does the lock still exist?
  reading,   \* the readers inside their critical section
  writing,   \* the writers inside their critical section
  value      \* the contents of the cell

rwvars == <<alive, reading, writing, value>>

Init ==
  /\ alive = TRUE
  /\ reading = {}
  /\ writing = {}
  /\ value = 0

StartRead(r) ==
  /\ r \notin reading
  /\ writing = {}
  /\ reading' = reading \cup {r}
  /\ UNCHANGED <<writing, value>>

EndRead(r) ==
  /\ r \in reading
  /\ reading' = reading \ {r}
  /\ UNCHANGED <<writing, value>>

StartWrite(w) ==
  /\ reading = {}
  /\ writing = {}
  /\ writing' = {w}
  /\ UNCHANGED <<reading, value>>

Increment(w) ==
  /\ writing = {w}
  /\ value' = value + 1
  /\ UNCHANGED <<reading, writing>>

EndWrite(w) ==
  /\ w \in writing
  /\ writing' = writing \ {w}
  /\ UNCHANGED <<reading, value>>

Use ==
  \/ \E r \in Readers : StartRead(r) \/ EndRead(r)
  \/ \E w \in Writers : StartWrite(w) \/ Increment(w) \/ EndWrite(w)

Next ==
  \/ alive /\ Use /\ UNCHANGED alive
  \/ alive' = FALSE      \* destroyed, now or before: anything may follow

Spec == Init /\ [][Next]_rwvars
=============================================================================
