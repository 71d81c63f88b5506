------------------------------- MODULE Windows -------------------------------
(***************************************************************************)
(* c/xwinp.c and xwinp1.c to xwinp4.c: a window, which opens at most one   *)
(* child window (key 1), and the segment by which the child's key g turns  *)
(* the parent's background green and back.  Each window takes the events   *)
(* that X queued for it, polls the segment, and quits after Escape.        *)
(*                                                                         *)
(* The segment has a key: xwinp makes it the size of an int, the others of *)
(* a struct, and shmget of more than is there fails, which nobody checks.  *)
(* Nothing keeps a run from starting while windows of others are open: it  *)
(* finds the segment of the key, whoever is attached to it, and stores its *)
(* colour.  A segment that a window removes loses its key, and is gone     *)
(* when nobody is attached to it any more.  Drawing, the ball and key u    *)
(* are left out; the moving texts are module Texts.                        *)
(***************************************************************************)
EXTENDS Integers, Sequences, FiniteSets

CONSTANTS
  Runs,         \* the runs there can be at the same time
  WinEvents     \* bound on the events sent, and the runs started beside
                \* others, before all windows are gone

ASSUME WindowsAssumption == WinEvents \in Nat /\ "none" \notin Runs

VARIABLES
  winProg,    \* the program of each run, for as long as it makes a difference
  life,       \* of each window: "none", "starting" or "open"
  events,     \* what X has queued for each window
  done,       \* the variable of each main()
  winAt,      \* where each main loop is: "events", "copy" or "quit"
  screen,     \* screen_color of each parent
  key,        \* the segment the key leads to
  size,       \* the size of that segment
  parentCol,  \* parent_screen_color in each segment
  shmid,      \* g.shmid of each run
  attached,   \* did the child's shmat succeed
  numwin,     \* the counter of the parent, up to 2
  isdiff,     \* isdiffcolor of the child
  eventsSent, \* events, and runs started beside others, so far
  beside,     \* was the run's segment that of another run, too
  winKilled   \* was a window killed so far

winVars == <<winProg, life, events, done, winAt, screen, key, size, parentCol,
             shmid, attached, numwin, isdiff, eventsSent, beside, winKilled>>

WinPrograms == {"xwinp", "xwinp1 to xwinp4"}
AnyProgram == "any"
Roles == {"parent", "child"}
Wins == Runs \X Roles
Parent(r) == <<r, "parent">>
Child(r) == <<r, "child">>
Segments == Runs       \* there are no more in use than runs
NoSegment == "none"
SizeOf(p) == IF p = "xwinp" THEN "int" ELSE "struct"

(* the events that a window does something with, and one it only takes *)
XEvents == {"1", "g", "Escape", "motion"}
EventsOf(role) == XEvents \ {IF role = "parent" THEN "g" ELSE "1"}

WinAlive(w) == life[w] # "none"
RunAlive(r) == \E role \in Roles : WinAlive(<<r, role>>)
InUse(s) == \E r \in Runs : shmid[r] = s

WindowsInit ==
  /\ winProg = [r \in Runs |-> AnyProgram]
  /\ life = [w \in Wins |-> "none"]
  /\ events = [w \in Wins |-> <<>>]
  /\ done = [w \in Wins |-> 0]
  /\ winAt = [w \in Wins |-> "events"]
  /\ screen = [r \in Runs |-> "red"]
  /\ key = NoSegment
  /\ size = "int"
  /\ parentCol = [s \in Segments |-> "red"]
  /\ shmid = [r \in Runs |-> NoSegment]
  /\ attached = [r \in Runs |-> FALSE]
  /\ numwin = [r \in Runs |-> 0]
  /\ isdiff = [r \in Runs |-> 0]
  /\ eventsSent = 0
  /\ beside = [r \in Runs |-> FALSE]
  /\ winKilled = FALSE

(* A window ends, and its variables with it, those of the run with the last. *)
IsLast(r, role) == \A other \in Roles \ {role} : life[<<r, other>>] = "none"
WindowEnds(r, role) ==
  LET w == <<r, role>>
  IN  /\ life' = [life EXCEPT ![w] = "none"]
      /\ events' = [events EXCEPT ![w] = <<>>]
      /\ done' = [done EXCEPT ![w] = 0]
      /\ winAt' = [winAt EXCEPT ![w] = "events"]
      /\ IF role = "parent"
         THEN /\ screen' = [screen EXCEPT ![r] = "red"]
              /\ numwin' = [numwin EXCEPT ![r] = 0]
              /\ UNCHANGED <<attached, isdiff>>
         ELSE /\ attached' = [attached EXCEPT ![r] = FALSE]
              /\ isdiff' = [isdiff EXCEPT ![r] = 0]
              /\ UNCHANGED <<screen, numwin>>
      /\ IF IsLast(r, role)
         THEN /\ shmid' = [shmid EXCEPT ![r] = NoSegment]
              /\ beside' = [beside EXCEPT ![r] = FALSE]
         ELSE UNCHANGED <<shmid, beside>>
      /\ winProg' = [winProg EXCEPT ![r] = AnyProgram]
      /\ UNCHANGED <<size, parentCol, eventsSent>>

----------------------------------------------------------------------------
(* The start of a window.  A shmat that failed shows at the first store,   *)
(* which traps.                                                            *)

(* a segment is there while the key leads to it or a window is attached *)
Exists(s) ==
  \/ key = s
  \/ \E q \in Runs : shmid[q] = s /\ (life[Parent(q)] = "open" \/ attached[q])

(* is the program of r at its shmget, or between shmget and shmat *)
Gets(r) == life[Parent(r)] = "starting" /\ shmid[r] = NoSegment
Got(r) == life[Parent(r)] = "starting" /\ shmid[r] # NoSegment

(* the segment of the key is too small for the program of r *)
TooSmall(r) == key # NoSegment /\ size = "int" /\ SizeOf(winProg[r]) = "struct"

(* shmget: a new segment, or that of the key; the programs differ no more *)
ParentGets(r) ==
  /\ Gets(r) /\ ~TooSmall(r)
  /\ \E s \in Segments :
       /\ \/ key = NoSegment /\ ~InUse(s) /\ size' = SizeOf(winProg[r])
          \/ key = s /\ UNCHANGED size
       /\ key' = s
       /\ shmid' = [shmid EXCEPT ![r] = s]
       /\ beside' = [q \in Runs |-> \/ beside[q]
                                    \/ shmid[q] = s
                                    \/ q = r /\ InUse(s)]
  /\ winProg' = [winProg EXCEPT ![r] = AnyProgram]
  /\ UNCHANGED <<life, events, done, winAt, screen, parentCol, attached,
                 numwin, isdiff, eventsSent, winKilled>>

(* shmat, and the colour is stored *)
ParentStarts(r) ==
  /\ Got(r) /\ Exists(shmid[r])
  /\ life' = [life EXCEPT ![Parent(r)] = "open"]
  /\ parentCol' = [parentCol EXCEPT ![shmid[r]] = "red"]
  /\ UNCHANGED <<winProg, events, done, winAt, screen, key, size, shmid, attached,
                 numwin, isdiff, eventsSent, beside, winKilled>>

ParentTraps(r) ==
  /\ (Gets(r) /\ TooSmall(r)) \/ (Got(r) /\ ~Exists(shmid[r]))
  /\ WindowEnds(r, "parent")
  /\ UNCHANGED <<key, winKilled>>

(* shmat of the identifier in argv[2] *)
ChildStarts(r) ==
  /\ life[Child(r)] = "starting"
  /\ life' = [life EXCEPT ![Child(r)] = "open"]
  /\ attached' = [attached EXCEPT ![r] = Exists(shmid[r])]
  /\ UNCHANGED <<winProg, events, done, winAt, screen, key, size, parentCol,
                 shmid, numwin, isdiff, eventsSent, beside, winKilled>>

(* external: X queues an event *)
XQueues(r, role) ==
  LET w == <<r, role>>
  IN  /\ life[w] = "open"
      /\ eventsSent < WinEvents
      /\ \E e \in EventsOf(role) : events' = [events EXCEPT ![w] = Append(@, e)]
      /\ eventsSent' = eventsSent + 1
      /\ UNCHANGED <<winProg, life, done, winAt, screen, key, size, parentCol,
                     shmid, attached, numwin, isdiff, beside, winKilled>>

----------------------------------------------------------------------------
(* The main loop.                                                          *)

Opens(r) ==
  /\ life' = [life EXCEPT ![Child(r)] = "starting"]
  /\ numwin' = [numwin EXCEPT ![r] = @ + 1]

(* mutant: a second child window may be opened after the first has ended *)
Key1_twice(r) ==
  /\ \/ numwin[r] < 2 /\ life[Child(r)] = "none" /\ Opens(r)
     \/ ~(numwin[r] < 2 /\ life[Child(r)] = "none") /\ UNCHANGED <<life, numwin>>
  /\ UNCHANGED <<parentCol, isdiff>>

(* the first key 1 of the parent opens the child *)
Key1(r) ==
  /\ \/ numwin[r] = 0 /\ Opens(r)
     \/ /\ numwin[r] > 0
        /\ numwin' = [numwin EXCEPT ![r] = 2]
        /\ UNCHANGED life
  /\ UNCHANGED <<parentCol, isdiff>>

(* key g turns the colour, in a child that has the segment *)
KeyG(r) ==
  /\ attached[r]
  /\ parentCol' = [parentCol EXCEPT ![shmid[r]] =
                     IF isdiff[r] = 0 THEN "green" ELSE "red"]
  /\ isdiff' = [isdiff EXCEPT ![r] = 1 - @]
  /\ UNCHANGED <<life, numwin>>

(* check_keys: what a key does in this window, if anything *)
check_keys(r, role, e) ==
  \/ e = "1" /\ role = "parent" /\ Key1(r)
  \/ e = "g" /\ role = "child" /\ KeyG(r)
  \/ /\ <<e, role>> \notin {<<"1", "parent">>, <<"g", "child">>}
     /\ UNCHANGED <<life, numwin, parentCol, isdiff>>

(* mutant: Escape does not set done *)
HandleEvent_forgets(r, role) ==
  LET w == <<r, role>>
  IN  /\ life[w] = "open" /\ winAt[w] = "events" /\ events[w] # <<>>
      /\ events' = [events EXCEPT ![w] = Tail(@)]
      /\ check_keys(r, role, Head(events[w]))
      /\ UNCHANGED <<winProg, done, winAt, screen, key, size, shmid, attached,
                     eventsSent, beside, winKilled>>

(* XNextEvent; done = check_keys(&e) overwrites what it was *)
HandleEvent(r, role) ==
  LET w == <<r, role>>
      e == Head(events[w])
  IN  /\ life[w] = "open" /\ winAt[w] = "events" /\ events[w] # <<>>
      /\ events' = [events EXCEPT ![w] = Tail(@)]
      /\ done' = [done EXCEPT ![w] = IF e = "Escape" THEN 1 ELSE 0]
      /\ check_keys(r, role, e)
      /\ UNCHANGED <<winProg, winAt, screen, key, size, shmid, attached,
                     eventsSent, beside, winKilled>>

(* key g in a child without a segment *)
ChildTraps(r) ==
  LET w == Child(r)
  IN  /\ life[w] = "open" /\ winAt[w] = "events" /\ events[w] # <<>>
      /\ Head(events[w]) = "g" /\ ~attached[r]
      /\ WindowEnds(r, "child")
      /\ UNCHANGED <<key, winKilled>>

WinGoto(w, from, to) ==
  /\ life[w] = "open" /\ winAt[w] = from
  /\ winAt' = [winAt EXCEPT ![w] = to]
  /\ UNCHANGED <<winProg, life, events, done, key, size, parentCol, shmid,
                 attached, numwin, isdiff, eventsSent, beside, winKilled>>

(* while (!done) *)
NextTurn(w) == IF done[w] = 1 THEN "quit" ELSE "events"

(* no event is left; a parent compares its colour with the segment's *)
NoMoreEvents(r, role) ==
  LET w == <<r, role>>
  IN  /\ events[w] = <<>>
      /\ WinGoto(w, "events",
                 IF role = "parent" /\ parentCol[shmid[r]] # screen[r]
                 THEN "copy" ELSE NextTurn(w))
      /\ UNCHANGED screen

(* ... and reads it once more *)
CopyColour(r) ==
  LET w == Parent(r)
  IN  /\ WinGoto(w, "copy", NextTurn(w))
      /\ screen' = [screen EXCEPT ![r] = parentCol[shmid[r]]]

(* shmdt, shmctl(IPC_RMID) and the end *)
Quit(r, role) ==
  /\ life[<<r, role>>] = "open" /\ winAt[<<r, role>>] = "quit"
  /\ WindowEnds(r, role)
  /\ key' = IF key = shmid[r] THEN NoSegment ELSE key
  /\ UNCHANGED winKilled

Window(r, role) ==
  \/ role = "parent" /\ (ParentGets(r) \/ ParentStarts(r) \/ ParentTraps(r) \/ CopyColour(r))
  \/ role = "child" /\ (ChildStarts(r) \/ ChildTraps(r))
  \/ HandleEvent(r, role) \/ NoMoreEvents(r, role) \/ Quit(r, role)

----------------------------------------------------------------------------
(* external: the close button, Ctrl-C, kill: nothing is cleaned up *)
KillWindow(r, role) ==
  /\ WinAlive(<<r, role>>)
  /\ WindowEnds(r, role)
  /\ winKilled' = TRUE
  /\ UNCHANGED key

(* a program is started; other runs may have windows open *)
NextWinRun(r) ==
  /\ ~RunAlive(r)
  /\ \E p \in WinPrograms : winProg' = [winProg EXCEPT ![r] = p]
  /\ life' = [life EXCEPT ![Parent(r)] = "starting"]
  /\ \/ (\A q \in Runs : ~RunAlive(q)) /\ eventsSent' = 0
     \/ /\ \E q \in Runs : RunAlive(q)
        /\ eventsSent < WinEvents /\ eventsSent' = eventsSent + 1
  /\ UNCHANGED <<events, done, winAt, screen, key, size, parentCol, shmid,
                 attached, numwin, isdiff, beside, winKilled>>

WindowsNext ==
  \/ \E r \in Runs, role \in Roles :
       Window(r, role) \/ XQueues(r, role) \/ KillWindow(r, role)
  \/ \E r \in Runs : NextWinRun(r)

WindowsSpec == WindowsInit /\ [][WindowsNext]_winVars

----------------------------------------------------------------------------
(* Properties.                                                             *)

WindowsTypeOK ==
  /\ winProg \in [Runs -> WinPrograms \cup {AnyProgram}]
  /\ life \in [Wins -> {"none", "starting", "open"}]
  /\ events \in [Wins -> Seq(XEvents)]
  /\ done \in [Wins -> {0, 1}]
  /\ winAt \in [Wins -> {"events", "copy", "quit"}]
  /\ screen \in [Runs -> {"red", "green"}]
  /\ key \in Segments \cup {NoSegment}
  /\ size \in {"int", "struct"}
  /\ parentCol \in [Segments -> {"red", "green"}]
  /\ shmid \in [Runs -> Segments \cup {NoSegment}]
  /\ attached \in [Runs -> BOOLEAN]
  /\ numwin \in [Runs -> 0 .. 2]
  /\ isdiff \in [Runs -> {0, 1}]
  /\ eventsSent \in 0 .. WinEvents
  /\ beside \in [Runs -> BOOLEAN]
  /\ winKilled \in BOOLEAN

(* The static isdiffcolor of a child says what is in the segment, so the   *)
(* next g does the opposite, unless the segment came to be that of two     *)
(* runs: the second stores red while the child of the first may believe in *)
(* green.                                                                  *)
ToggleAgrees(r) ==
  attached[r] /\ ~beside[r] => (isdiff[r] = 1 <=> parentCol[shmid[r]] = "green")

(* A program traps only because of another: a parent because a window of   *)
(* another run removed the segment between its shmget and shmat, a child   *)
(* because its own parent has ended.                                       *)
TrapsForAReason(r) ==
  /\ Got(r) /\ ~Exists(shmid[r]) => beside[r]
  /\ life[Child(r)] = "open" /\ ~attached[r] => life[Parent(r)] = "none"

(* The colours and the segment are what the windows of a run rely on, and  *)
(* no segment is left with its key but without a window unless one was     *)
(* killed: for want of that, one of xwinp that is too small for the others *)
(* belongs to windows that are there.                                      *)
ColourToggles ==
  /\ \A r \in Runs : ToggleAgrees(r) /\ TrapsForAReason(r)
  /\ key # NoSegment /\ ~InUse(key) => winKilled

(* A parent's poll shows what was stored last, unless it ends.             *)
ColourArrives ==
  \A r \in Runs :
    LET Behind == life[Parent(r)] = "open" /\ screen[r] # parentCol[shmid[r]]
    IN  Behind ~> ~Behind

(* "Quit the program by pressing Esc." (l.26): a window closes if Escape   *)
(* is the last event it is sent.  An event that is handled in the same     *)
(* inner loop after Escape, the mouse's motion say, sets done back to 0.   *)
EscapeQuitsIfLast ==
  \A w \in Wins :
    LET LastIs(E) == events[w] # <<>> /\ events[w][Len(events[w])] \in E
    IN  life[w] = "open" /\ LastIs({"Escape"})
          ~> life[w] # "open" \/ LastIs(XEvents \ {"Escape"})
=============================================================================
