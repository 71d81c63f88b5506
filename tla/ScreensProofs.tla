---------------------------- MODULE ScreensProofs ----------------------------
(***************************************************************************)
(* Proofs about Screens, for any number of runs at a time and of events,   *)
(* and any distance that the texts go: the types of both views, that the   *)
(* child's toggle agrees with the segment while no other run is on it, why *)
(* a window traps and a segment is left, and that the texts take turns.    *)
(***************************************************************************)
EXTENDS Screens, SequenceTheorems, TLAPS

----------------------------------------------------------------------------
(* Windows.                                                                *)

(* A parent starts before its child, and the child once in its life.       *)
Lives(r) ==
  /\ life[Parent(r)] = "starting" => life[Child(r)] = "none"
  /\ life[Parent(r)] = "open" /\ numwin[r] = 0 => life[Child(r)] = "none"
  /\ life[Child(r)] # "open" => isdiff[r] = 0 /\ ~attached[r]
  /\ life[Parent(r)] = "open" \/ life[Child(r)] # "none" => shmid[r] # NoSegment
  /\ life[Parent(r)] = "none" /\ life[Child(r)] = "none" => shmid[r] = NoSegment

(* The segment of a run alone is red until its child attaches.             *)
ChildToCome(r) ==
  life[Child(r)] = "starting" \/ (life[Parent(r)] = "open" /\ numwin[r] = 0)
Clean(r) ==
  /\ ~beside[r] /\ ChildToCome(r) => parentCol[shmid[r]] = "red"
  /\ ToggleAgrees(r)

(* The key leads to the segment that a run alone has just got, and never   *)
(* again to one that was gone when a child wanted it.                      *)
KeyHeld(r) ==
  /\ Got(r) /\ ~beside[r] => key = shmid[r]
  /\ life[Child(r)] = "open" /\ ~attached[r] =>
       key # shmid[r] /\ life[Parent(r)] = "none"

RunInv(r) == Lives(r) /\ Clean(r) /\ KeyHeld(r)
RunsInv == \A r \in Runs : RunInv(r)

(* Two runs that have the same segment both know of it in beside.          *)
Shared ==
  \A r, q \in Runs :
    shmid[r] = shmid[q] /\ shmid[r] # NoSegment /\ r # q => beside[r]
NotLeft == key # NoSegment /\ ~InUse(key) => winKilled

WinInv == RunsInv /\ Shared /\ NotLeft

----------------------------------------------------------------------------
(* Texts.                                                                  *)

(* xwinp2: whoever is away has its flag set; both flags are set only while *)
(* thread 1, which is home, is between its two stores.                     *)
Away(i) == pos[i] > 0
HasTurn(i) == flag[i] = 1
OutByFlag(i) ==
  /\ textAt[i] \in {"loop", "store 1", "store 2"}
  /\ Away(i) => textAt[i] = "loop" /\ HasTurn(i)
ByFlags ==
  /\ OutByFlag(0) /\ OutByFlag(1)
  /\ HasTurn(0) /\ HasTurn(1) => textAt[1] = "store 2"
  /\ textAt[0] = "store 1" => HasTurn(0)
  /\ textAt[0] = "store 2" => ~HasTurn(0) /\ (~HasTurn(1) \/ textAt[1] = "store 2")
  /\ textAt[1] = "store 1" => ~HasTurn(0) /\ HasTurn(1) /\ textAt[0] = "loop"
  /\ textAt[1] = "store 2" => HasTurn(1)

(* xwinp4: until the set is removed the semaphore is taken once, and only  *)
(* who took it gets as far as a move; it comes back to "grab 2" and sleeps.*)
TookIt(i) == textAt[i] \in {"got 1", "move"}
AllHome == \A i \in TextThreads : pos[i] = 0
Taken == textSem = 1
OneStepOut == semval[2] = 0 /\ direction = 1 /\ pos[0] + pos[1] + pos[2] <= 1
BySemaphore ==
  /\ OneStepOut
  /\ ~Taken => semval[1] = 0 /\ AllHome
  /\ \A i \in TextThreads :
       /\ textAt[i] \in {"loop", "grab 1", "got 1", "move", "grab 2"}
       /\ ~Taken => textAt[i] \in {"loop", "grab 1"}
       /\ TookIt(i) => AllHome /\ \A j \in TextThreads : TookIt(j) => i = j

TextInv ==
  /\ textProg = "xwinp2" => ByFlags
  /\ textProg = "xwinp4" /\ textSet = "live" => BySemaphore

----------------------------------------------------------------------------
(* The windows keep their types and their invariant.                       *)

LEMMA WinNames ==
  ASSUME NEW r \in Runs
  PROVE  /\ Parent(r) \in Wins /\ Child(r) \in Wins
         /\ Parent(r) = <<r, "parent">> /\ Child(r) = <<r, "child">>
         /\ Parent(r) # Child(r)
         /\ \A q \in Runs \ {r}, role \in Roles : <<q, role>> # <<r, role>>
         /\ "parent" \in Roles /\ "child" \in Roles
         /\ \A role \in Roles : <<r, role>> \in Wins
BY DEF Wins, Roles, Parent, Child

LEMMA WinStart == WindowsInit => WindowsTypeOK /\ WinInv
<1> SUFFICES ASSUME WindowsInit PROVE WindowsTypeOK /\ WinInv
  OBVIOUS
<1>1. WindowsTypeOK
  <2>1. 0 \in 0 .. WinEvents /\ 0 \in 0 .. 2
    BY WindowsAssumption
  <2>2. events \in [Wins -> Seq(XEvents)]
    BY DEF WindowsInit
  <2>3. QED
    BY <2>1, <2>2 DEF WindowsInit, WindowsTypeOK
<1>2. ASSUME NEW r \in Runs PROVE RunInv(r)
  <2>1. life[Parent(r)] = "none" /\ life[Child(r)] = "none"
    BY WinNames DEF WindowsInit
  <2>2. isdiff[r] = 0 /\ ~attached[r] /\ shmid[r] = NoSegment
    BY DEF WindowsInit
  <2>3. QED
    BY <2>1, <2>2 DEF RunInv, Lives, Clean, ToggleAgrees, ChildToCome, KeyHeld, Got
<1>3. Shared /\ NotLeft
  BY DEF WindowsInit, Shared, NotLeft
<1>4. QED
  BY <1>1, <1>2, <1>3 DEF WinInv, RunsInv

(* A run that an action leaves alone keeps its part. *)
Same(r) ==
  /\ life'[Parent(r)] = life[Parent(r)] /\ life'[Child(r)] = life[Child(r)]
  /\ shmid'[r] = shmid[r] /\ attached'[r] = attached[r]
  /\ numwin'[r] = numwin[r] /\ isdiff'[r] = isdiff[r]

LEMMA SameKept ==
  ASSUME NEW r \in Runs, RunInv(r), Same(r), beside[r] => beside'[r],
         beside'[r] \/ parentCol'[shmid[r]] = parentCol[shmid[r]],
         Got(r) /\ ~beside'[r] => key' = key,
         life[Child(r)] = "open" /\ key' = shmid[r] => key = shmid[r]
  PROVE  RunInv(r)'
<1>1. Lives(r)'
  BY DEF RunInv, Lives, Same
<1>2. Clean(r)'
  BY DEF RunInv, Clean, ChildToCome, ToggleAgrees, Same
<1>3. KeyHeld(r)'
  BY DEF RunInv, KeyHeld, Got, Same
<1>4. QED
  BY <1>1, <1>2, <1>3 DEF RunInv

(* What ends with a window. *)
LEMMA EndTypes ==
  ASSUME WindowsTypeOK, NEW r \in Runs, NEW role \in Roles, WindowEnds(r, role),
         key' \in {key, NoSegment}, winKilled' \in BOOLEAN
  PROVE  WindowsTypeOK'
<1>1. events' \in [Wins -> Seq(XEvents)] /\ done' \in [Wins -> {0, 1}]
  <2>1. <<>> \in Seq(XEvents)
    OBVIOUS
  <2>2. QED
    BY <2>1 DEF WindowEnds, WindowsTypeOK
<1>2. /\ life' \in [Wins -> {"none", "starting", "open"}]
      /\ winAt' \in [Wins -> {"events", "copy", "quit"}]
  BY DEF WindowEnds, WindowsTypeOK
<1>3. screen' \in [Runs -> {"red", "green"}] /\ attached' \in [Runs -> BOOLEAN]
  <2>1. attached' = [attached EXCEPT ![r] = FALSE] \/ attached' = attached
    BY DEF WindowEnds
  <2>2. screen' = [screen EXCEPT ![r] = "red"] \/ screen' = screen
    BY DEF WindowEnds
  <2>3. QED
    BY <2>1, <2>2 DEF WindowsTypeOK
<1>4. /\ beside' \in [Runs -> BOOLEAN]
      /\ shmid' \in [Runs -> Segments \cup {NoSegment}]
  <2>1. beside' = [beside EXCEPT ![r] = FALSE] \/ beside' = beside
    BY DEF WindowEnds
  <2>2. shmid' = [shmid EXCEPT ![r] = NoSegment] \/ shmid' = shmid
    BY DEF WindowEnds
  <2>3. QED
    BY <2>1, <2>2 DEF WindowsTypeOK
<1>5. numwin' \in [Runs -> 0 .. 2] /\ isdiff' \in [Runs -> {0, 1}]
  <2>1. numwin' = [numwin EXCEPT ![r] = 0] \/ numwin' = numwin
    BY DEF WindowEnds
  <2>2. isdiff' = [isdiff EXCEPT ![r] = 0] \/ isdiff' = isdiff
    BY DEF WindowEnds
  <2>3. numwin \in [Runs -> 0 .. 2] /\ isdiff \in [Runs -> {0, 1}] /\ 0 \in 0 .. 2
    BY DEF WindowsTypeOK
  <2>4. QED
    BY ONLY <2>1, <2>2, <2>3
<1>6. winProg' \in [Runs -> WinPrograms \cup {AnyProgram}]
  BY DEF WindowEnds, WindowsTypeOK
<1>7. /\ size' \in {"int", "struct"} /\ parentCol' \in [Segments -> {"red", "green"}]
      /\ key' \in Segments \cup {NoSegment} /\ eventsSent' \in 0 .. WinEvents
  BY DEF WindowEnds, WindowsTypeOK
<1>8. QED
  BY <1>1, <1>2, <1>3, <1>5, <1>6, <1>7, <1>4 DEF WindowsTypeOK

(* The others notice the end of a window only by the key. *)
LEMMA EndKeeps ==
  ASSUME WindowsTypeOK, WinInv, NEW r \in Runs, NEW role \in Roles,
         WindowEnds(r, role),
         \/ key' = key
         \/ key = shmid[r] /\ key' = NoSegment /\ life[<<r, role>>] = "open"
  PROVE  RunsInv' /\ Shared'
<1>1. ASSUME NEW q \in Runs, q # r PROVE Same(q) /\ beside'[q] = beside[q]
  BY <1>1, WinNames DEF WindowEnds, WindowsTypeOK, Same, Wins
<1>2. shmid'[r] \in {shmid[r], NoSegment} /\ (beside'[r] => beside[r])
  BY DEF WindowEnds, WindowsTypeOK
<1>3. /\ parentCol' = parentCol
      /\ role = "parent" => life'[Parent(r)] = "none"
      /\ role = "child" => life'[Child(r)] = "none"
      /\ role = "parent" => life'[Child(r)] = life[Child(r)]
      /\ role = "child" => life'[Parent(r)] = life[Parent(r)]
  BY WinNames DEF WindowEnds, WindowsTypeOK
<1>4. life'[Parent(r)] # "none" \/ life'[Child(r)] # "none" =>
        shmid'[r] = shmid[r] /\ beside'[r] = beside[r]
  <2>1. life[<<r, "parent">>] = life[Parent(r)] /\ life[<<r, "child">>] = life[Child(r)]
    BY WinNames
  <2>2. role = "parent" /\ life[Child(r)] # "none" => ~IsLast(r, role)
    BY <2>1 DEF IsLast, Roles
  <2>3. role = "child" /\ life[Parent(r)] # "none" => ~IsLast(r, role)
    BY <2>1 DEF IsLast, Roles
  <2>4. life'[Parent(r)] # "none" \/ life'[Child(r)] # "none" => ~IsLast(r, role)
    BY <1>3, <2>2, <2>3 DEF Roles
  <2>5. QED
    BY <2>4 DEF WindowEnds
<1>5. life'[Parent(r)] = "none" /\ life'[Child(r)] = "none" => shmid'[r] = NoSegment
  <2>1. life[<<r, "parent">>] = life[Parent(r)] /\ life[<<r, "child">>] = life[Child(r)]
    BY WinNames
  <2>2. life'[Parent(r)] = "none" /\ life'[Child(r)] = "none" => IsLast(r, role)
    BY <1>3, <2>1 DEF IsLast, Roles
  <2>3. QED
    BY <2>2 DEF WindowEnds, WindowsTypeOK
<1>6. ASSUME NEW q \in Runs, q # r PROVE RunInv(q)'
  <2>1. RunInv(q)
    BY DEF WinInv, RunsInv
  <2>2. Got(q) /\ ~beside'[q] => key' = key
    BY <1>1, <1>6, <2>1 DEF RunInv, KeyHeld, Got, WinInv, Shared
  <2>3. life[Child(q)] = "open" /\ key' = shmid[q] => key = shmid[q]
    BY <2>1 DEF RunInv, Lives
  <2>4. QED
    BY <1>1, <1>3, <1>6, <2>1, <2>2, <2>3, SameKept
<1>7. RunInv(r)'
  <2>1. RunInv(r)
    BY DEF WinInv, RunsInv
  <2>2. CASE role = "parent"
    <3>1. attached'[r] = attached[r] /\ isdiff'[r] = isdiff[r]
      BY <2>2 DEF WindowEnds
    <3>2. Lives(r)'
      BY <1>3, <1>4, <1>5, <2>1, <2>2, <3>1 DEF RunInv, Lives
    <3>3. life'[Child(r)] = "none" => ~attached'[r]
      BY <1>3, <2>1, <2>2, <3>1 DEF RunInv, Lives
    <3>4. Clean(r)'
      BY <1>3, <1>4, <2>1, <2>2, <3>1, <3>3 DEF RunInv, Clean, ChildToCome, ToggleAgrees
    <3>5. KeyHeld(r)'
      BY <1>3, <1>4, <2>1, <2>2, <3>1 DEF RunInv, KeyHeld, Got, Lives
    <3>6. QED
      BY <3>2, <3>4, <3>5 DEF RunInv
  <2>3. CASE role = "child"
    <3>1. attached'[r] = FALSE /\ isdiff'[r] = 0 /\ numwin'[r] = numwin[r]
      BY <2>3 DEF WindowEnds, WindowsTypeOK
    <3>2. Lives(r)'
      BY <1>3, <1>4, <1>5, <2>1, <2>3, <3>1 DEF RunInv, Lives
    <3>3. Clean(r)'
      BY <1>3, <1>4, <2>1, <2>3, <3>1 DEF RunInv, Clean, ChildToCome, ToggleAgrees
    <3>4. Got(r)' => Got(r) /\ life[Child(r)] = "none" /\ shmid'[r] = shmid[r]
                           /\ (beside[r] <=> beside'[r]) /\ life'[Child(r)] = "none"
      BY <1>3, <1>4, <2>1, <2>3 DEF Got, RunInv, Lives
    <3>5. KeyHeld(r)'
      <4>1. life[<<r, role>>] = life[Child(r)]
        BY <2>3 DEF Child
      <4>2. Got(r)' => key' = key
        BY <3>4, <4>1
      <4>3. QED
        BY <1>3, <1>4, <2>1, <2>3, <3>4, <4>2 DEF RunInv, KeyHeld
    <3>6. QED
      BY <3>2, <3>3, <3>5 DEF RunInv
  <2>4. QED
    BY <2>2, <2>3 DEF Roles
<1>8. Shared'
  <2> SUFFICES ASSUME NEW a \in Runs, NEW b \in Runs, a # b,
                      shmid'[a] = shmid'[b], shmid'[a] # NoSegment
               PROVE  beside'[a]
    BY DEF Shared
  <2>1. shmid'[a] = shmid[a] /\ shmid'[b] = shmid[b]
    BY <1>1, <1>2 DEF Same
  <2>2. beside[a]
    BY <2>1 DEF WinInv, Shared
  <2>3. a = r => beside'[r] = beside[r]
    BY <2>1 DEF WindowEnds, WindowsTypeOK
  <2>4. QED
    BY <1>1, <2>2, <2>3
<1>9. QED
  BY <1>6, <1>7, <1>8 DEF RunsInv

(* What an event that is handled stores. *)
LEMMA HandleTypes ==
  ASSUME WindowsTypeOK, NEW r \in Runs, NEW role \in Roles, HandleEvent(r, role)
  PROVE  WindowsTypeOK'
<1> DEFINE w == <<r, role>>
<1>1. /\ w \in Wins /\ events[w] # <<>> /\ events' = [events EXCEPT ![w] = Tail(@)]
      /\ UNCHANGED <<winProg, winAt, screen, key, size, shmid, attached, eventsSent,
                     beside, winKilled>>
  BY WinNames DEF HandleEvent
<1>2. events' \in [Wins -> Seq(XEvents)]
  <2>1. events \in [Wins -> Seq(XEvents)]
    BY DEF WindowsTypeOK
  <2>2. Tail(events[w]) \in Seq(XEvents)
    BY <1>1, <2>1
  <2>3. QED
    BY <1>1, <2>1, <2>2
<1>3. done' \in [Wins -> {0, 1}]
  BY DEF HandleEvent, WindowsTypeOK
<1>4. \/ Key1(r) \/ KeyG(r)
      \/ UNCHANGED <<life, numwin, parentCol, isdiff>>
  BY DEF HandleEvent, check_keys
<1>5. life' \in [Wins -> {"none", "starting", "open"}]
  BY <1>4 DEF Key1, Opens, KeyG, WindowsTypeOK
<1>6. parentCol' \in [Segments -> {"red", "green"}]
  BY <1>4 DEF Key1, KeyG, WindowsTypeOK
<1>7. numwin' \in [Runs -> 0 .. 2]
  <2>1. \/ numwin' = numwin \/ numwin' = [numwin EXCEPT ![r] = 2]
        \/ numwin[r] = 0 /\ numwin' = [numwin EXCEPT ![r] = @ + 1]
    BY <1>4 DEF Key1, Opens, KeyG
  <2>2. numwin \in [Runs -> 0 .. 2]
    BY DEF WindowsTypeOK
  <2>3. QED
    BY ONLY <2>1, <2>2
<1>8. isdiff' \in [Runs -> {0, 1}]
  <2>1. isdiff' = isdiff \/ isdiff' = [isdiff EXCEPT ![r] = 1 - @]
    BY <1>4 DEF Key1, KeyG
  <2>2. isdiff \in [Runs -> {0, 1}]
    BY DEF WindowsTypeOK
  <2>3. QED
    BY ONLY <2>1, <2>2
<1>9. QED
  BY <1>1, <1>2, <1>3, <1>5, <1>6, <1>7, <1>8 DEF WindowsTypeOK

LEMMA WindowTypes ==
  ASSUME WindowsTypeOK, WinInv, NEW r \in Runs, NEW role \in Roles, Window(r, role)
  PROVE  WindowsTypeOK'
<1>1. CASE ParentGets(r)
  <2>1. size' \in {"int", "struct"} /\ key' \in Segments \cup {NoSegment}
    BY <1>1 DEF ParentGets, SizeOf, WindowsTypeOK
  <2>2. PICK s \in Segments :
          /\ shmid' = [shmid EXCEPT ![r] = s]
          /\ beside' = [q \in Runs |-> \/ beside[q]
                                       \/ shmid[q] = s
                                       \/ q = r /\ InUse(s)]
    BY <1>1 DEF ParentGets
  <2>3. beside' \in [Runs -> BOOLEAN]
    BY <2>2 DEF WindowsTypeOK
  <2>4. shmid' \in [Runs -> Segments \cup {NoSegment}]
    BY <2>2 DEF WindowsTypeOK
  <2>5. winProg' \in [Runs -> WinPrograms \cup {AnyProgram}]
    BY <1>1 DEF ParentGets, WindowsTypeOK
  <2>6. QED
    BY <1>1, <2>1, <2>3, <2>4, <2>5 DEF ParentGets, WindowsTypeOK
<1>2. CASE ParentStarts(r)
  BY <1>2 DEF ParentStarts, WindowsTypeOK
<1>3. CASE ParentTraps(r)
  BY <1>3, EndTypes, WinNames DEF ParentTraps, WindowsTypeOK
<1>4. CASE CopyColour(r)
  <2>1. winAt' \in [Wins -> {"events", "copy", "quit"}]
    BY <1>4 DEF CopyColour, WinGoto, NextTurn, WindowsTypeOK
  <2>2. screen' \in [Runs -> {"red", "green"}]
    <3>1. PICK c : screen' = [screen EXCEPT ![r] = c] /\ c = parentCol[shmid[r]]
      BY <1>4 DEF CopyColour
    <3>2. c \in {"red", "green"}
      <4>1. shmid[r] # NoSegment
        BY <1>4, WinNames DEF CopyColour, WinGoto, WinInv, RunsInv, RunInv, Lives
      <4>2. QED
        BY <3>1, <4>1 DEF WindowsTypeOK
    <3>3. QED
      BY <3>1, <3>2 DEF WindowsTypeOK
  <2>3. QED
    BY <1>4, <2>1, <2>2 DEF CopyColour, WinGoto, WindowsTypeOK
<1>5. CASE ChildStarts(r)
  <2>1. attached' \in [Runs -> BOOLEAN]
    BY <1>5 DEF ChildStarts, Exists, WindowsTypeOK
  <2>2. QED
    BY <1>5, <2>1 DEF ChildStarts, WindowsTypeOK
<1>6. CASE ChildTraps(r)
  BY <1>6, EndTypes, WinNames DEF ChildTraps, WindowsTypeOK
<1>7. CASE HandleEvent(r, role)
  BY <1>7, HandleTypes
<1>8. CASE NoMoreEvents(r, role)
  BY <1>8 DEF NoMoreEvents, WinGoto, NextTurn, WindowsTypeOK
<1>9. CASE Quit(r, role)
  BY <1>9, EndTypes DEF Quit, WindowsTypeOK
<1>10. QED
  BY <1>1, <1>2, <1>3, <1>4, <1>5, <1>6, <1>7, <1>8, <1>9 DEF Window

LEMMA WindowsTypesKept == WindowsTypeOK /\ WinInv /\ WindowsNext => WindowsTypeOK'
<1> SUFFICES ASSUME WindowsTypeOK, WinInv, WindowsNext PROVE WindowsTypeOK'
  OBVIOUS
<1>1. ASSUME NEW r \in Runs, NEW role \in Roles, Window(r, role) PROVE WindowsTypeOK'
  BY <1>1, WindowTypes
<1>2. ASSUME NEW r \in Runs, NEW role \in Roles, KillWindow(r, role)
      PROVE  WindowsTypeOK'
  BY <1>2, EndTypes DEF KillWindow
<1>3. ASSUME NEW r \in Runs, NEW role \in Roles, XQueues(r, role) PROVE WindowsTypeOK'
  <2>1. eventsSent + 1 \in 0 .. WinEvents
    BY <1>3, WindowsAssumption DEF XQueues, WindowsTypeOK
  <2>2. events \in [Wins -> Seq(XEvents)] /\ <<r, role>> \in Wins
    BY WinNames DEF WindowsTypeOK
  <2>3. PICK e \in EventsOf(role) : events' = [events EXCEPT ![<<r, role>>] = Append(@, e)]
    BY <1>3 DEF XQueues
  <2>4. Append(events[<<r, role>>], e) \in Seq(XEvents)
    BY <2>2 DEF EventsOf
  <2>5. events' \in [Wins -> Seq(XEvents)]
    BY <2>2, <2>3, <2>4
  <2>6. QED
    BY <1>3, <2>1, <2>5 DEF XQueues, WindowsTypeOK
<1>4. ASSUME NEW r \in Runs, NextWinRun(r) PROVE WindowsTypeOK'
  <2>1. eventsSent' \in 0 .. WinEvents
    BY <1>4, WindowsAssumption DEF NextWinRun, WindowsTypeOK
  <2>2. winProg' \in [Runs -> WinPrograms \cup {AnyProgram}]
    BY <1>4 DEF NextWinRun, WindowsTypeOK
  <2>3. QED
    BY <1>4, <2>1, <2>2 DEF NextWinRun, WindowsTypeOK
<1>5. QED
  BY <1>1, <1>2, <1>3, <1>4 DEF WindowsNext

(* What is not about the main loops is not about the invariant either. *)
LEMMA NothingKeeps ==
  ASSUME WinInv, UNCHANGED <<life, key, parentCol, shmid, attached, numwin, isdiff,
                             beside, winKilled>>
  PROVE  WinInv'
<1>1. RunsInv'
  <2> SUFFICES ASSUME NEW q \in Runs PROVE RunInv(q)'
    BY DEF RunsInv
  <2>1. RunInv(q)
    BY DEF WinInv, RunsInv
  <2>2. QED
    BY <2>1, SameKept DEF Same
<1>2. Shared' /\ NotLeft'
  BY DEF WinInv, Shared, NotLeft, InUse
<1>3. QED
  BY <1>1, <1>2 DEF WinInv

LEMMA GetsKeeps ==
  ASSUME WindowsTypeOK, WinInv, NEW r \in Runs, ParentGets(r)
  PROVE  WinInv'
<1>1. PICK s \in Segments :
        /\ (key = NoSegment /\ ~InUse(s)) \/ key = s
        /\ key' = s
        /\ shmid' = [shmid EXCEPT ![r] = s]
        /\ beside' = [q \in Runs |-> \/ beside[q]
                                     \/ shmid[q] = s
                                     \/ q = r /\ InUse(s)]
  BY DEF ParentGets
<1>2. /\ Gets(r) /\ shmid'[r] = s
      /\ UNCHANGED <<life, parentCol, attached, numwin, isdiff>>
  BY <1>1 DEF ParentGets, WindowsTypeOK
<1>3. ASSUME NEW q \in Runs, q # r PROVE Same(q) /\ (beside[q] => beside'[q])
  BY <1>1, <1>2, <1>3 DEF Same, WindowsTypeOK
<1>4. ASSUME NEW q \in Runs, q # r PROVE RunInv(q)'
  <2>1. RunInv(q)
    BY DEF WinInv, RunsInv
  <2>2. Got(q) /\ ~beside'[q] => key' = key
    BY <1>1, <1>3, <1>4, <2>1 DEF RunInv, KeyHeld, Got
  <2>3. key' = shmid[q] => key = shmid[q]
    BY <1>1 DEF InUse
  <2>4. QED
    BY <1>2, <1>3, <1>4, <2>1, <2>2, <2>3, SameKept
<1>5. RunInv(r)'
  <2>1. RunInv(r) /\ life[Parent(r)] = "starting" /\ life[Child(r)] = "none"
    BY <1>2 DEF WinInv, RunsInv, RunInv, Lives, Gets
  <2>2. isdiff[r] = 0 /\ ~attached[r]
    BY <2>1 DEF RunInv, Lives
  <2>3. Lives(r)' /\ Clean(r)'
    BY <1>2, <2>1, <2>2 DEF Lives, Clean, ChildToCome, ToggleAgrees
  <2>4. KeyHeld(r)'
    BY <1>1, <1>2, <2>1 DEF KeyHeld
  <2>5. QED
    BY <2>3, <2>4 DEF RunInv
<1>6. Shared'
  <2> SUFFICES ASSUME NEW a \in Runs, NEW b \in Runs, a # b,
                      shmid'[a] = shmid'[b], shmid'[a] # NoSegment
               PROVE  beside'[a]
    BY DEF Shared
  <2>1. CASE a = r
    <3>1. shmid[b] = s
      BY <1>2, <1>3, <2>1 DEF Same
    <3>2. InUse(s)
      BY <3>1 DEF InUse
    <3>3. QED
      BY <1>1, <2>1, <3>2
  <2>2. CASE b = r
    <3>1. shmid[a] = s
      BY <1>2, <1>3, <2>2 DEF Same
    <3>2. QED
      BY <1>1, <3>1
  <2>3. CASE a # r /\ b # r
    <3>1. shmid'[a] = shmid[a] /\ shmid'[b] = shmid[b]
      BY <1>3, <2>3 DEF Same
    <3>2. QED
      BY <1>3, <2>3, <3>1 DEF WinInv, Shared
  <2>4. QED
    BY <2>1, <2>2, <2>3
<1>7. NotLeft'
  BY <1>1, <1>2 DEF NotLeft, InUse
<1>8. QED
  BY <1>4, <1>5, <1>6, <1>7 DEF WinInv, RunsInv

(* A store into the segment of r is one into that of another only if both  *)
(* have it.                                                                *)
LEMMA StoreKeeps ==
  ASSUME WindowsTypeOK, WinInv, NEW r \in Runs, shmid[r] # NoSegment,
         \A s \in Segments : s # shmid[r] => parentCol'[s] = parentCol[s],
         UNCHANGED <<shmid, beside, key, winKilled>>,
         \A q \in Runs : q # r => Same(q),
         RunInv(r)'
  PROVE  WinInv'
<1>1. ASSUME NEW q \in Runs, q # r PROVE RunInv(q)'
  <2>1. RunInv(q)
    BY DEF WinInv, RunsInv
  <2>2. beside'[q] \/ parentCol'[shmid[q]] = parentCol[shmid[q]] \/ shmid[q] = NoSegment
    <3>1. shmid[q] \in Segments \/ shmid[q] = NoSegment
      BY DEF WindowsTypeOK
    <3>2. shmid[q] = shmid[r] => beside[q]
      BY <1>1 DEF WinInv, Shared
    <3>3. QED
      BY <3>1, <3>2
  <2>3. CASE beside'[q] \/ parentCol'[shmid[q]] = parentCol[shmid[q]]
    BY <1>1, <2>1, <2>3, SameKept
  <2>4. CASE shmid[q] = NoSegment
    <3>1. life[Child(q)] = "none" /\ life[Parent(q)] # "open" /\ ~attached[q]
      BY <2>1, <2>4 DEF RunInv, Lives
    <3>2. Same(q)
      BY <1>1
    <3>3. Lives(q)'
      BY <2>1, <3>2 DEF RunInv, Lives, Same
    <3>4. Clean(q)' /\ KeyHeld(q)'
      BY <2>4, <3>1, <3>2 DEF Clean, ChildToCome, ToggleAgrees, KeyHeld, Got, Same
    <3>5. QED
      BY <3>3, <3>4 DEF RunInv
  <2>5. QED
    BY <2>2, <2>3, <2>4
<1>2. Shared' /\ NotLeft'
  BY DEF WinInv, Shared, NotLeft, InUse
<1>3. QED
  BY <1>1, <1>2 DEF WinInv, RunsInv

LEMMA StartKeeps ==
  ASSUME WindowsTypeOK, WinInv, NEW r \in Runs, ParentStarts(r)
  PROVE  WinInv'
<1>1. /\ Got(r) /\ life' = [life EXCEPT ![Parent(r)] = "open"]
      /\ parentCol' = [parentCol EXCEPT ![shmid[r]] = "red"]
      /\ UNCHANGED <<shmid, attached, numwin, isdiff, beside, key, winKilled>>
  BY DEF ParentStarts
<1>2. shmid[r] # NoSegment /\ shmid[r] \in Segments
  BY <1>1 DEF Got, WindowsTypeOK
<1>3. /\ parentCol'[shmid[r]] = "red"
      /\ \A s \in Segments : s # shmid[r] => parentCol'[s] = parentCol[s]
  BY <1>1, <1>2 DEF WindowsTypeOK
<1>4. /\ life'[Parent(r)] = "open" /\ life'[Child(r)] = life[Child(r)]
      /\ \A q \in Runs : q # r => Same(q)
  BY <1>1, WinNames DEF WindowsTypeOK, Same, Parent, Child
<1>5. RunInv(r)'
  <2>1. RunInv(r) /\ life[Child(r)] = "none" /\ isdiff[r] = 0 /\ ~attached[r]
    BY <1>1 DEF WinInv, RunsInv, RunInv, Lives, Got
  <2>2. Lives(r)'
    BY <1>1, <1>2, <1>4, <2>1 DEF Lives
  <2>3. Clean(r)' /\ KeyHeld(r)'
    BY <1>1, <1>3, <1>4, <2>1 DEF Clean, ToggleAgrees, KeyHeld, Got
  <2>4. QED
    BY <2>2, <2>3 DEF RunInv
<1>6. QED
  BY <1>1, <1>2, <1>3, <1>4, <1>5, StoreKeeps

LEMMA ChildKeeps ==
  ASSUME WindowsTypeOK, WinInv, NEW r \in Runs, ChildStarts(r)
  PROVE  WinInv'
<1>1. /\ life[Child(r)] = "starting" /\ life' = [life EXCEPT ![Child(r)] = "open"]
      /\ attached' = [attached EXCEPT ![r] = Exists(shmid[r])]
      /\ UNCHANGED <<shmid, numwin, isdiff, beside, parentCol, key, winKilled>>
  BY DEF ChildStarts
<1>2. /\ life'[Child(r)] = "open" /\ life'[Parent(r)] = life[Parent(r)]
      /\ attached'[r] = Exists(shmid[r])
      /\ \A q \in Runs : q # r => Same(q)
  BY <1>1, WinNames DEF WindowsTypeOK, Same, Parent, Child
<1>3. RunInv(r)'
  <2>1. RunInv(r) /\ ChildToCome(r) /\ isdiff[r] = 0 /\ shmid[r] # NoSegment
    BY <1>1 DEF WinInv, RunsInv, RunInv, Lives, ChildToCome
  <2>2. Lives(r)'
    BY <1>1, <1>2, <2>1 DEF RunInv, Lives
  <2>3. Clean(r)'
    BY <1>1, <1>2, <2>1 DEF RunInv, Lives, Clean, ChildToCome, ToggleAgrees
  <2>4. life[Parent(r)] \in {"none", "open"}
    BY <1>1, <2>1, WinNames DEF RunInv, Lives, WindowsTypeOK
  <2>5. ~attached'[r] => key # shmid[r] /\ life[Parent(r)] = "none"
    BY <1>2, <2>4 DEF Exists
  <2>6. KeyHeld(r)'
    BY <1>1, <1>2, <2>4, <2>5 DEF KeyHeld, Got
  <2>7. QED
    BY <2>2, <2>3, <2>6 DEF RunInv
<1>4. shmid[r] # NoSegment
  BY <1>1 DEF WinInv, RunsInv, RunInv, Lives
<1>5. QED
  BY <1>1, <1>2, <1>3, <1>4, StoreKeeps

LEMMA EventKeeps ==
  ASSUME WindowsTypeOK, WinInv, NEW r \in Runs, NEW role \in Roles,
         HandleEvent(r, role)
  PROVE  WinInv'
<1> DEFINE e == Head(events[<<r, role>>])
<1>1. /\ life[<<r, role>>] = "open" /\ check_keys(r, role, e)
      /\ UNCHANGED <<shmid, attached, beside, key, winKilled>>
  BY DEF HandleEvent
<1>2. RunInv(r)
  BY DEF WinInv, RunsInv
<1>3. shmid[r] # NoSegment
  BY <1>1, <1>2, WinNames DEF RunInv, Lives, Roles
<1> HIDE DEF e
<1>4. CASE Key1(r) /\ role = "parent"
  <2>1. life[Parent(r)] = "open"
    BY <1>1, <1>4 DEF Parent
  <2>2. CASE numwin[r] = 0 /\ Opens(r)
    <3>1. /\ life' = [life EXCEPT ![Child(r)] = "starting"] /\ UNCHANGED <<parentCol, isdiff>>
          /\ \A q \in Runs : q # r => numwin'[q] = numwin[q]
      BY <1>4, <2>2 DEF Key1, Opens, WindowsTypeOK
    <3>2. numwin'[r] # 0
      BY <2>2 DEF Opens, WindowsTypeOK
    <3>3. /\ life'[Child(r)] = "starting" /\ life'[Parent(r)] = "open"
          /\ \A q \in Runs : q # r =>
               life'[Parent(q)] = life[Parent(q)] /\ life'[Child(q)] = life[Child(q)]
      BY <2>1, <3>1, WinNames DEF WindowsTypeOK, Parent, Child
    <3>4. ChildToCome(r) /\ life[Child(r)] = "none" /\ isdiff[r] = 0 /\ ~attached[r]
      BY <1>2, <2>1, <2>2 DEF ChildToCome, RunInv, Lives
    <3>5. Lives(r)'
      BY <1>1, <1>3, <3>1, <3>2, <3>3, <3>4 DEF Lives
    <3>6. Clean(r)' /\ KeyHeld(r)'
      BY <1>1, <1>2, <3>1, <3>3, <3>4 DEF RunInv, Clean, ToggleAgrees, KeyHeld, Got
    <3>7. \A q \in Runs : q # r => Same(q)
      BY <1>1, <3>1, <3>3 DEF Same
    <3>8. QED
      BY <1>1, <1>3, <3>1, <3>5, <3>6, <3>7, StoreKeeps DEF RunInv
  <2>3. CASE numwin[r] > 0 /\ numwin' = [numwin EXCEPT ![r] = 2] /\ UNCHANGED life
    <3>1. UNCHANGED <<parentCol, isdiff>>
      BY <1>4 DEF Key1
    <3>2. numwin'[r] # 0 /\ \A q \in Runs : q # r => numwin'[q] = numwin[q]
      BY <2>3 DEF WindowsTypeOK
    <3>3. Lives(r)'
      BY <1>1, <1>2, <2>1, <2>3, <3>1, <3>2 DEF RunInv, Lives
    <3>4. Clean(r)'
      BY <1>1, <1>2, <2>3, <3>1, <3>2 DEF RunInv, Clean, ChildToCome, ToggleAgrees
    <3>5. KeyHeld(r)'
      BY <1>1, <1>2, <2>3 DEF RunInv, KeyHeld, Got
    <3>6. \A q \in Runs : q # r => Same(q)
      BY <1>1, <2>3, <3>1, <3>2 DEF Same
    <3>7. QED
      BY <1>1, <1>3, <3>1, <3>3, <3>4, <3>5, <3>6, StoreKeeps DEF RunInv
  <2>4. QED
    BY <1>4, <2>2, <2>3 DEF Key1
<1>5. CASE KeyG(r)
  <2>1. /\ parentCol' = [parentCol EXCEPT ![shmid[r]] = IF isdiff[r] = 0 THEN "green" ELSE "red"]
        /\ isdiff' = [isdiff EXCEPT ![r] = 1 - @]
        /\ UNCHANGED <<life, numwin>> /\ attached[r]
    BY <1>5 DEF KeyG
  <2>2. shmid[r] \in Segments
    BY <1>3 DEF WindowsTypeOK
  <2>3. /\ parentCol'[shmid[r]] = IF isdiff[r] = 0 THEN "green" ELSE "red"
        /\ \A s \in Segments : s # shmid[r] => parentCol'[s] = parentCol[s]
    BY <2>1, <2>2 DEF WindowsTypeOK
  <2>4. /\ isdiff'[r] = 1 <=> parentCol'[shmid[r]] = "green"
        /\ \A q \in Runs : q # r => isdiff'[q] = isdiff[q]
    BY <2>1, <2>3 DEF WindowsTypeOK
  <2>5. life[Child(r)] = "open"
    BY <1>2, <2>1 DEF RunInv, Lives
  <2>6. ~(life[Parent(r)] = "open" /\ numwin[r] = 0)
    BY <1>2, <2>5 DEF RunInv, Lives
  <2>7. Lives(r)'
    BY <1>1, <1>2, <2>1, <2>5 DEF RunInv, Lives
  <2>8. Clean(r)'
    BY <1>1, <2>1, <2>4, <2>5, <2>6 DEF Clean, ChildToCome, ToggleAgrees
  <2>9. KeyHeld(r)'
    BY <1>1, <1>2, <2>1 DEF RunInv, KeyHeld, Got
  <2>10. \A q \in Runs : q # r => Same(q)
    BY <1>1, <2>1, <2>4 DEF Same
  <2>11. QED
    BY <1>1, <1>3, <2>3, <2>7, <2>8, <2>9, <2>10, StoreKeeps DEF RunInv
<1>6. CASE UNCHANGED <<life, numwin, parentCol, isdiff>>
  BY <1>1, <1>6, NothingKeeps
<1>7. QED
  BY <1>1, <1>4, <1>5, <1>6 DEF check_keys

(* A window that leaves another segment than that of the key alone. *)
LEMMA LeftKept ==
  ASSUME WindowsTypeOK, NotLeft, NEW r \in Runs, NEW role \in Roles,
         WindowEnds(r, role), UNCHANGED <<key, winKilled>>,
         key # shmid[r] \/ shmid[r] = NoSegment
  PROVE  NotLeft'
<1>1. \A q \in Runs : q # r => shmid'[q] = shmid[q]
  BY DEF WindowEnds, WindowsTypeOK
<1>2. key # NoSegment /\ InUse(key) => InUse(key)'
  BY <1>1 DEF InUse
<1>3. QED
  BY <1>2 DEF NotLeft, InUse

LEMMA WinInvKept == WindowsTypeOK /\ WinInv /\ WindowsNext => WinInv'
<1> SUFFICES ASSUME WindowsTypeOK, WinInv, WindowsNext PROVE WinInv'
  OBVIOUS
<1>1. ASSUME NEW r \in Runs, NEW role \in Roles, Window(r, role) PROVE WinInv'
  <2>1. CASE ParentGets(r)
    BY <2>1, GetsKeeps
  <2>2. CASE ParentStarts(r)
    BY <2>2, StartKeeps
  <2>3. CASE ParentTraps(r)
    <3>1. key # shmid[r] \/ shmid[r] = NoSegment
      BY <2>3 DEF ParentTraps, Gets, Got, Exists
    <3>2. WindowEnds(r, "parent") /\ UNCHANGED <<key, winKilled>>
      BY <2>3 DEF ParentTraps
    <3>3. QED
      BY <3>1, <3>2, EndKeeps, LeftKept, WinNames DEF WinInv
  <2>4. CASE CopyColour(r)
    BY <2>4, NothingKeeps DEF CopyColour, WinGoto
  <2>5. CASE ChildStarts(r)
    BY <2>5, ChildKeeps
  <2>6. CASE ChildTraps(r)
    <3>1. life[Child(r)] = "open" /\ ~attached[r]
      BY <2>6 DEF ChildTraps
    <3>2. key # shmid[r]
      BY <3>1 DEF WinInv, RunsInv, RunInv, KeyHeld
    <3>3. WindowEnds(r, "child") /\ UNCHANGED <<key, winKilled>>
      BY <2>6 DEF ChildTraps
    <3>4. QED
      BY <3>2, <3>3, EndKeeps, LeftKept, WinNames DEF WinInv
  <2>7. CASE HandleEvent(r, role)
    BY <2>7, EventKeeps
  <2>8. CASE NoMoreEvents(r, role)
    BY <2>8, NothingKeeps DEF NoMoreEvents, WinGoto
  <2>9. CASE Quit(r, role)
    <3>1. WindowEnds(r, role) /\ life[<<r, role>>] = "open" /\ UNCHANGED winKilled
      BY <2>9 DEF Quit
    <3>2. CASE key = shmid[r]
      <4>1. key' = NoSegment
        BY <2>9, <3>2 DEF Quit
      <4>2. QED
        BY <3>1, <3>2, <4>1, EndKeeps DEF WinInv, NotLeft
    <3>3. CASE key # shmid[r]
      <4>1. key' = key
        BY <2>9, <3>3 DEF Quit
      <4>2. QED
        BY <3>1, <3>3, <4>1, EndKeeps, LeftKept DEF WinInv
    <3>4. QED
      BY <3>2, <3>3
  <2>10. QED
    BY <1>1, <2>1, <2>2, <2>3, <2>4, <2>5, <2>6, <2>7, <2>8, <2>9 DEF Window
<1>2. ASSUME NEW r \in Runs, NEW role \in Roles, KillWindow(r, role) PROVE WinInv'
  <2>1. WindowEnds(r, role) /\ winKilled' /\ key' = key
    BY <1>2 DEF KillWindow
  <2>2. QED
    BY <2>1, EndKeeps DEF WinInv, NotLeft
<1>3. ASSUME NEW r \in Runs, NEW role \in Roles, XQueues(r, role) PROVE WinInv'
  BY <1>3, NothingKeeps DEF XQueues
<1>4. ASSUME NEW r \in Runs, NextWinRun(r) PROVE WinInv'
  <2>1. /\ life' = [life EXCEPT ![Parent(r)] = "starting"]
        /\ UNCHANGED <<key, parentCol, shmid, attached, numwin, isdiff, beside, winKilled>>
    BY <1>4 DEF NextWinRun
  <2>2. life[Parent(r)] = "none" /\ life[Child(r)] = "none"
    BY <1>4, WinNames DEF NextWinRun, RunAlive, WinAlive
  <2>3. /\ life'[Parent(r)] = "starting" /\ life'[Child(r)] = "none"
        /\ \A q \in Runs : q # r => Same(q)
    BY <2>1, <2>2, WinNames DEF WindowsTypeOK, Same, Parent, Child
  <2>4. ASSUME NEW q \in Runs PROVE RunInv(q)'
    <3>1. RunInv(q)
      BY DEF WinInv, RunsInv
    <3>2. CASE q # r
      BY <2>1, <2>3, <3>1, <3>2, SameKept
    <3>3. CASE q = r
      <4>1. isdiff[r] = 0 /\ ~attached[r] /\ shmid[r] = NoSegment
        BY <2>2, <3>1, <3>3 DEF RunInv, Lives
      <4>2. QED
        BY <2>1, <2>3, <3>3, <4>1
           DEF RunInv, Lives, Clean, ChildToCome, ToggleAgrees, KeyHeld, Got
    <3>4. QED
      BY <3>2, <3>3
  <2>5. Shared' /\ NotLeft'
    BY <2>1 DEF WinInv, Shared, NotLeft, InUse
  <2>6. QED
    BY <2>4, <2>5 DEF WinInv, RunsInv
<1>5. QED
  BY <1>1, <1>2, <1>3, <1>4 DEF WindowsNext

----------------------------------------------------------------------------
(* The texts keep their types and their invariants.                        *)

LEMMA TextsStart == TextsInit => TextsTypeOK /\ TextInv
<1> SUFFICES ASSUME TextsInit PROVE TextsTypeOK /\ TextInv
  OBVIOUS
<1>1. 0 \in Screen /\ 1 \in Screen
  BY TextsAssumption DEF Screen
<1>2. /\ pos \in [TextThreads -> Screen] /\ textAt \in [TextThreads -> TextSteps]
      /\ direction \in {-1, 1}
  BY <1>1 DEF TextsInit, TextSteps
<1>3. flag \in [{0, 1} -> {0, 1}] /\ semval \in [Sems12 -> {0, 1}]
  BY DEF TextsInit, Sems12
<1>4. TextsTypeOK
  BY <1>2, <1>3 DEF TextsTypeOK, TextsInit
<1>5. \A i \in TextThreads : pos[i] = 0 /\ (textProg # "xwinp3" => textAt[i] = "loop")
  BY DEF TextsInit
<1>6. 0 \in TextThreads /\ 1 \in TextThreads /\ 2 \in TextThreads
  BY DEF TextThreads
<1>7. flag[0] = 1 /\ flag[1] = 0 /\ semval[1] = 0 /\ semval[2] = 0
  BY DEF TextsInit
<1>8. textProg = "xwinp2" => ByFlags
  <2>1. ~Away(0) /\ ~Away(1) /\ HasTurn(0) /\ ~HasTurn(1)
    BY <1>5, <1>6, <1>7 DEF Away, HasTurn
  <2>2. textProg = "xwinp2" => textAt[0] = "loop" /\ textAt[1] = "loop"
    BY <1>5, <1>6
  <2>3. QED
    BY <2>1, <2>2 DEF ByFlags, OutByFlag
<1>9. textProg = "xwinp4" => BySemaphore
  <2>1. OneStepOut /\ AllHome /\ semval[1] = 0
    BY <1>5, <1>6, <1>7 DEF OneStepOut, AllHome, TextsInit
  <2>2. textProg = "xwinp4" => \A i \in TextThreads : textAt[i] = "loop"
    BY <1>5
  <2>3. QED
    BY <2>1, <2>2 DEF BySemaphore, TookIt
<1>10. QED
  BY <1>4, <1>8, <1>9 DEF TextInv

(* The moves keep the texts on the screen. *)
LEMMA MoveTypes ==
  ASSUME TextsTypeOK, NEW i \in TextThreads,
         NEW home \in TextSteps, Step(i, home) \/ StepOut(i) \/ StepThird(i)
  PROVE  /\ pos' \in [TextThreads -> Screen] /\ direction' \in {-1, 1}
         /\ textAt' \in [TextThreads -> TextSteps]
         /\ UNCHANGED <<textProg, texts, moveText, textSet>>
<1>1. "loop" \in TextSteps /\ "release 1" \in TextSteps
  BY DEF TextSteps
<1>2. pos[i] \in Int /\ direction \in {-1, 1} /\ FAR \in Nat \ {0}
      /\ pos \in [TextThreads -> Screen] /\ textAt \in [TextThreads -> TextSteps]
  BY TextsAssumption DEF TextsTypeOK, Screen
<1> DEFINE x == pos[i] + direction
<1>3. /\ x \in Int /\ -direction \in {-1, 1}
      /\ 1 \in Screen /\ 0 \in Screen /\ FAR \in Screen /\ FAR + 1 \in Screen
      /\ ~(x > FAR) /\ ~(x < 0) => x \in Screen
  BY ONLY <1>2 DEF Screen
<1> HIDE DEF x
<1>4. /\ \E y \in TextSteps : textAt' = [textAt EXCEPT ![i] = y]
      /\ UNCHANGED <<textProg, texts, moveText, textSet>>
  BY <1>1 DEF Step, StepOut, StepThird, TextGoto
<1>5. \E y \in Screen : pos' = [pos EXCEPT ![i] = y]
  BY <1>3 DEF Step, StepOut, StepThird, x
<1>6. direction' \in {-1, 1}
  BY <1>2, <1>3 DEF Step, StepOut, StepThird
<1>7. QED
  BY <1>2, <1>4, <1>5, <1>6

LEMMA TextsTypesKept == TextsTypeOK /\ TextsNext => TextsTypeOK'
<1> SUFFICES ASSUME TextsTypeOK, TextsNext PROVE TextsTypeOK'
  OBVIOUS
<1>1. ASSUME NEW i \in TextThreads, NEW home \in TextSteps,
             Step(i, home) \/ StepOut(i) \/ StepThird(i), KeepTurns
      PROVE  TextsTypeOK'
  BY <1>1, MoveTypes DEF TextsTypeOK, KeepTurns
<1>2. ASSUME NEW i \in TextThreads, NEW from, NEW to \in TextSteps, TextGoto(i, from, to)
      PROVE  /\ textAt' \in [TextThreads -> TextSteps]
             /\ UNCHANGED <<textProg, texts, moveText, textSet>>
  BY <1>2 DEF TextGoto, TextsTypeOK
<1>3. {"loop", "move", "store 1", "store 2", "grab 1", "grab 2", "started", "got 1",
       "got 2", "release 1", "release 2", "zero 1", "zero 2"} \subseteq TextSteps
  BY DEF TextSteps
<1>4. 0 \in TextThreads
  BY DEF TextThreads
<1>5. CASE MoveOne
  BY <1>1, <1>3, <1>4, <1>5 DEF MoveOne
<1>6. ASSUME NEW i \in TextThreads, MoveByFlag(i) PROVE TextsTypeOK'
  BY <1>1, <1>3, <1>6 DEF MoveByFlag
<1>7. ASSUME NEW i \in TextThreads, HandOver(i) PROVE TextsTypeOK'
  <2>1. PICK k \in {0, 1}, from \in TextSteps, to \in TextSteps :
          StoreFlag(i, k, from, to)
    BY <1>3, <1>7 DEF HandOver
  <2>2. flag' \in [{0, 1} -> {0, 1}]
    BY <2>1 DEF StoreFlag, TextsTypeOK
  <2>3. QED
    BY <1>2, <2>1, <2>2 DEF StoreFlag, KeepText, TextsTypeOK
<1>8. ASSUME NEW i \in TextThreads, LookAtSemval(i) PROVE TextsTypeOK'
  <2>1. \E to \in TextSteps : TextGoto(i, "loop", to)
    BY <1>3, <1>8 DEF LookAtSemval
  <2>2. QED
    BY <1>2, <1>8, <2>1 DEF LookAtSemval, KeepText, KeepTurns, TextsTypeOK
<1>9. ASSUME NEW i \in TextThreads, MoveBySem(i) PROVE TextsTypeOK'
  <2>1. CASE TextGoto(i, "move", "loop") /\ KeepText
    BY <1>2, <1>3, <1>9, <2>1 DEF MoveBySem, KeepText, KeepTurns, TextsTypeOK
  <2>2. CASE \E home \in TextSteps : Step(i, home) \/ StepOut(i) \/ StepThird(i)
    BY <1>1, <1>9, <2>2 DEF MoveBySem
  <2>3. QED
    BY <1>3, <1>9, <2>1, <2>2 DEF MoveBySem
<1>10. ASSUME NEW i \in TextThreads, NEW k \in Sems12,
              TextGrab(i, k) \/ TextRelease(i, k)
       PROVE  TextsTypeOK'
  <2>1. \E from, to \in TextSteps : TextGoto(i, from, to)
    BY <1>3, <1>10 DEF TextGrab, TextRelease, TextSteps
  <2>2. textSem' \in {0, 1}
    BY <1>10 DEF TextGrab, TextRelease, SemAdd, TextsTypeOK
  <2>3. QED
    BY <1>2, <1>10, <2>1, <2>2 DEF TextGrab, TextRelease, KeepText, TextsTypeOK
<1>11. ASSUME NEW i \in TextThreads, NEW k \in Sems12,
              TextGot(i, k) \/ TextZero(i, k)
       PROVE  TextsTypeOK'
  <2>1. \E from, to \in TextSteps : TextGoto(i, from, to)
    BY <1>3, <1>11 DEF TextGot, TextZero
  <2>2. semval' \in [Sems12 -> {0, 1}]
    BY <1>11 DEF TextGot, TextZero, TextsTypeOK
  <2>3. QED
    BY <1>2, <1>11, <2>1, <2>2 DEF TextGot, TextZero, KeepText, TextsTypeOK
<1>12. CASE ToggleMove \/ RemoveTextSet \/ TextsExit
  BY <1>12 DEF ToggleMove, RemoveTextSet, TextsExit, TextsTypeOK
<1>13. QED
  BY <1>5, <1>6, <1>7, <1>8, <1>9, <1>10, <1>11, <1>12 DEF TextsNext, TextThread

(* xwinp2: of its threads only 0 and 1 run, and only by their flags. *)
LEMMA FlagSteps ==
  ASSUME TextsTypeOK, textProg = "xwinp2", ByFlags, NEW i \in TextThreads, TextThread(i)
  PROVE  i \in {0, 1} /\ (MoveByFlag(i) \/ HandOver(i))
<1>1. Running1(i)
  BY DEF TextThread, MoveOne, MoveByFlag, HandOver, StoreFlag, LookAtSemval, MoveBySem,
         TextGrab, TextGot, TextRelease, TextZero, Step, StepOut, StepThird, TextGoto
<1>2. i \in {0, 1}
  BY <1>1 DEF Running1, TextThreads
<1>3. textAt[i] \in {"loop", "store 1", "store 2"}
  BY <1>2 DEF ByFlags, OutByFlag
<1>4. QED
  BY <1>2, <1>3 DEF TextThread, MoveOne, LookAtSemval, MoveBySem,
         TextGrab, TextGot, TextRelease, TextZero, TextGoto

LEMMA ByFlagsKept ==
  ASSUME TextsTypeOK, textProg = "xwinp2", ByFlags, NEW i \in TextThreads, TextThread(i)
  PROVE  ByFlags'
<1> DEFINE j == 1 - i
<1>1. /\ i \in {0, 1} /\ (MoveByFlag(i) \/ HandOver(i))
      /\ j \in {0, 1} /\ j # i /\ j \in TextThreads
      /\ i = 0 => j = 1
      /\ i = 1 => j = 0
  BY FlagSteps DEF TextThreads
<1> HIDE DEF j
<1>2. /\ flag \in [{0, 1} -> {0, 1}] /\ textAt \in [TextThreads -> TextSteps]
      /\ pos \in [TextThreads -> Screen]
  BY DEF TextsTypeOK
<1>3. CASE MoveByFlag(i)
  <2>1. Step(i, "store 1") /\ HasTurn(i) /\ textAt[i] = "loop" /\ flag' = flag
    BY <1>3 DEF MoveByFlag, KeepTurns, HasTurn
  <2>2. \/ /\ textAt' = [textAt EXCEPT ![i] = "store 1"]
           /\ pos' = [pos EXCEPT ![i] = 0]
        \/ /\ textAt' = [textAt EXCEPT ![i] = "loop"]
           /\ \E y : pos' = [pos EXCEPT ![i] = y]
    BY <2>1 DEF Step, TextGoto
  <2>3. \/ textAt'[i] = "store 1" /\ pos'[i] = 0
        \/ textAt'[i] = "loop"
    BY <1>2, <2>2
  <2>4. textAt'[j] = textAt[j] /\ pos'[j] = pos[j]
    BY <1>1, <1>2, <2>2
  <2>5. \/ textAt'[i] = "store 1" /\ ~Away(i)'
        \/ textAt'[i] = "loop"
    <3>1. pos'[i] = 0 => ~Away(i)'
      BY DEF Away
    <3>2. QED
      BY <2>3, <3>1
  <2>6. Away(j)' <=> Away(j)
    BY <2>4 DEF Away
  <2>7. (HasTurn(0)' <=> HasTurn(0)) /\ (HasTurn(1)' <=> HasTurn(1))
    BY <2>1 DEF HasTurn
  <2>8. CASE i = 0
    <3>1. /\ textAt'[1] = textAt[1] /\ HasTurn(0) /\ textAt[0] = "loop"
          /\ Away(1)' <=> Away(1)
          /\ \/ textAt'[0] = "store 1" /\ ~Away(0)'
             \/ textAt'[0] = "loop"
      BY <1>1, <2>1, <2>4, <2>5, <2>6, <2>8
    <3>2. QED
      BY ONLY <2>7, <3>1, ByFlags, Zenon DEF ByFlags, OutByFlag
  <2>9. CASE i = 1
    <3>1. /\ textAt'[0] = textAt[0] /\ HasTurn(1) /\ textAt[1] = "loop"
          /\ Away(0)' <=> Away(0)
          /\ \/ textAt'[1] = "store 1" /\ ~Away(1)'
             \/ textAt'[1] = "loop"
      BY <1>1, <2>1, <2>4, <2>5, <2>6, <2>9
    <3>2. QED
      BY ONLY <2>7, <3>1, ByFlags DEF ByFlags, OutByFlag
  <2>10. QED
    BY <1>1, <2>8, <2>9
<1>4. ASSUME NEW k \in {0, 1}, NEW from, NEW to, StoreFlag(i, k, from, to)
      PROVE  /\ textAt[i] = from /\ textAt'[i] = to /\ textAt'[j] = textAt[j]
             /\ (Away(0)' <=> Away(0)) /\ (Away(1)' <=> Away(1))
             /\ HasTurn(k)' <=> k # i
             /\ HasTurn(1 - k)' <=> HasTurn(1 - k)
  <2>1. textAt[i] = from /\ textAt'[i] = to /\ textAt'[j] = textAt[j]
    BY <1>1, <1>2, <1>4 DEF StoreFlag, TextGoto
  <2>2. (Away(0)' <=> Away(0)) /\ (Away(1)' <=> Away(1))
    BY <1>4 DEF StoreFlag, KeepText, Away
  <2>3. flag' = [flag EXCEPT ![k] = IF k = i THEN 0 ELSE 1] /\ 1 - k \in {0, 1} \ {k}
    BY <1>4 DEF StoreFlag
  <2>4. (HasTurn(k)' <=> k # i) /\ (HasTurn(1 - k)' <=> HasTurn(1 - k))
    BY <1>2, <2>3 DEF HasTurn
  <2>5. QED
    BY <2>1, <2>2, <2>4
<1>5. CASE StoreFlag(i, 0, "store 1", "store 2")
  <2>1. /\ textAt[i] = "store 1" /\ textAt'[i] = "store 2" /\ textAt'[j] = textAt[j]
        /\ (Away(0)' <=> Away(0)) /\ (Away(1)' <=> Away(1))
        /\ HasTurn(0)' <=> 0 # i
        /\ HasTurn(1 - 0)' <=> HasTurn(1 - 0)
    BY <1>4, <1>5
  <2>2. HasTurn(1)' <=> HasTurn(1)
    <3>1. 1 - 0 = 1
      OBVIOUS
    <3>2. QED
      BY <2>1, <3>1
  <2>3. CASE i = 0
    <3>1. /\ textAt[0] = "store 1" /\ textAt'[0] = "store 2" /\ textAt'[1] = textAt[1]
          /\ ~HasTurn(0)' /\ (Away(0)' <=> Away(0)) /\ (Away(1)' <=> Away(1))
      BY <1>1, <2>1, <2>3
    <3>2. QED
      BY ONLY <2>2, <3>1, ByFlags DEF ByFlags, OutByFlag
  <2>4. CASE i = 1
    <3>1. /\ textAt[1] = "store 1" /\ textAt'[1] = "store 2" /\ textAt'[0] = textAt[0]
          /\ HasTurn(0)' /\ (Away(0)' <=> Away(0)) /\ (Away(1)' <=> Away(1))
      BY <1>1, <2>1, <2>4
    <3>2. QED
      BY ONLY <2>2, <3>1, ByFlags DEF ByFlags, OutByFlag
  <2>5. QED
    BY <1>1, <2>3, <2>4
<1>6. CASE StoreFlag(i, 1, "store 2", "loop")
  <2>1. /\ textAt[i] = "store 2" /\ textAt'[i] = "loop" /\ textAt'[j] = textAt[j]
        /\ (Away(0)' <=> Away(0)) /\ (Away(1)' <=> Away(1))
        /\ HasTurn(1)' <=> 1 # i
        /\ HasTurn(1 - 1)' <=> HasTurn(1 - 1)
    BY <1>4, <1>6
  <2>2. HasTurn(0)' <=> HasTurn(0)
    <3>1. 1 - 1 = 0
      OBVIOUS
    <3>2. QED
      BY <2>1, <3>1
  <2>3. CASE i = 0
    <3>1. /\ textAt[0] = "store 2" /\ textAt'[0] = "loop" /\ textAt'[1] = textAt[1]
          /\ HasTurn(1)' /\ (Away(0)' <=> Away(0)) /\ (Away(1)' <=> Away(1))
      BY <1>1, <2>1, <2>3
    <3>2. QED
      BY ONLY <2>2, <3>1, ByFlags DEF ByFlags, OutByFlag
  <2>4. CASE i = 1
    <3>1. /\ textAt[1] = "store 2" /\ textAt'[1] = "loop" /\ textAt'[0] = textAt[0]
          /\ ~HasTurn(1)' /\ (Away(0)' <=> Away(0)) /\ (Away(1)' <=> Away(1))
      BY <1>1, <2>1, <2>4
    <3>2. QED
      BY ONLY <2>2, <3>1, ByFlags DEF ByFlags, OutByFlag
  <2>5. QED
    BY <1>1, <2>3, <2>4
<1>7. QED
  BY <1>1, <1>3, <1>5, <1>6 DEF HandOver

(* xwinp4: one semaphore operation brings one thread as far as a move. *)
LEMMA BySemaphoreKept ==
  ASSUME TextsTypeOK, textProg = "xwinp4", textSet = "live", BySemaphore,
         NEW i \in TextThreads, TextThread(i)
  PROVE  BySemaphore'
<1>1. textAt[i] \in {"loop", "grab 1", "got 1", "move", "grab 2"}
  BY DEF BySemaphore
<1>2. /\ pos \in [TextThreads -> Screen] /\ textAt \in [TextThreads -> TextSteps]
      /\ semval \in [Sems12 -> {0, 1}] /\ textSem \in {0, 1}
      /\ 0 \in TextThreads /\ 1 \in TextThreads /\ 2 \in TextThreads
      /\ \A j \in TextThreads : pos[j] \in Nat
      /\ 1 \in Sems12 /\ 2 \in Sems12
  BY TextsAssumption DEF TextsTypeOK, TextThreads, Screen, Sems12
<1>3. \/ LookAtSemval(i) \/ MoveBySem(i) \/ TextGrab(i, 1) \/ TextGrab(i, 2)
      \/ TextGot(i, 1)
  <2>1. ~(i = 0 /\ MoveOne) /\ ~MoveByFlag(i)
    BY DEF MoveOne, MoveByFlag
  <2>2. ~HandOver(i)
    BY <1>1, Zenon DEF HandOver, StoreFlag, TextGoto
  <2>3. \A k \in Sems12 : ~TextRelease(i, k) /\ ~TextZero(i, k)
    BY <1>1, Zenon DEF TextRelease, TextZero, TextGoto
  <2>4. ~TextGot(i, 2)
    <3>1. 2 # 1
      OBVIOUS
    <3>2. QED
      BY <1>1, <3>1, Zenon DEF TextGot, TextGoto
  <2>5. \A k \in Sems12 : k = 1 \/ k = 2
    BY DEF Sems12
  <2>6. QED
    BY <2>1, <2>2, <2>3, <2>4, <2>5, Zenon DEF TextThread
<1>4. ASSUME NEW from, NEW to, TextGoto(i, from, to)
      PROVE  /\ textAt[i] = from /\ textAt'[i] = to
             /\ \A j \in TextThreads \ {i} : textAt'[j] = textAt[j]
  BY <1>2, <1>4 DEF TextGoto
<1>5. CASE LookAtSemval(i)
  <2>1. /\ textAt[i] = "loop" /\ textAt'[i] \in {"grab 1", "grab 2"}
        /\ semval[1] = 0 => textAt'[i] = "grab 1"
        /\ \A j \in TextThreads \ {i} : textAt'[j] = textAt[j]
        /\ UNCHANGED <<pos, direction, semval, textSem>>
    BY <1>4, <1>5 DEF LookAtSemval, KeepText, KeepTurns, BySemaphore, OneStepOut
  <2>2. /\ Taken' <=> Taken
        /\ AllHome' <=> AllHome
        /\ OneStepOut' <=> OneStepOut
    BY <2>1 DEF Taken, AllHome, OneStepOut
  <2>3. QED
    BY <2>1, <2>2 DEF BySemaphore, TookIt
<1>6. CASE TextGrab(i, 1) \/ TextGrab(i, 2)
  <2>1. UNCHANGED <<pos, direction, semval>>
    BY <1>6 DEF TextGrab, KeepText
  <2>2. ~Taken /\ Taken'
    <3>1. SemAdd(1)
      BY <1>6 DEF TextGrab
    <3>2. textSem + 1 \in {0, 1} /\ textSem' = textSem + 1
      BY <3>1, Zenon DEF SemAdd
    <3>3. textSem \in {0, 1}
      BY <1>2
    <3>4. QED
      BY ONLY <3>2, <3>3 DEF Taken
  <2>3. AllHome /\ \A j \in TextThreads : textAt[j] \in {"loop", "grab 1"}
    BY <2>2 DEF BySemaphore
  <2>4. textAt'[i] = "got 1" /\ \A j \in TextThreads \ {i} : textAt'[j] = textAt[j]
    <3>1. textAt[i] \notin {"start", "grab 2"}
      BY <2>3
    <3>2. /\ ~TextGoto(i, "start", "started")
          /\ ~TextGoto(i, "grab 2", "got 2")
      BY <3>1, Zenon DEF TextGoto
    <3>3. TextGoto(i, "grab 1", "got 1")
      BY <1>6, <3>2, Zenon DEF TextGrab
    <3>4. QED
      BY <1>4, <3>3
  <2>5. AllHome' /\ OneStepOut'
    BY <2>1, <2>3 DEF AllHome, BySemaphore, OneStepOut
  <2>6. \A j \in TextThreads : TookIt(j)' => j = i
    BY <2>3, <2>4 DEF TookIt
  <2>7. \A j \in TextThreads : textAt'[j] \in {"loop", "grab 1", "got 1"}
    BY <2>3, <2>4
  <2>8. QED
    BY <2>2, <2>5, <2>6, <2>7 DEF BySemaphore
<1>7. CASE TextGot(i, 1)
  <2>1. /\ textAt[i] = "got 1" /\ textAt'[i] = "move"
        /\ \A j \in TextThreads \ {i} : textAt'[j] = textAt[j]
        /\ semval' = [semval EXCEPT ![1] = 1] /\ UNCHANGED <<pos, direction, textSem>>
    <3>1. /\ semval' = [semval EXCEPT ![1] = 1] /\ UNCHANGED <<pos, direction, textSem>>
      BY <1>7 DEF TextGot, KeepText
    <3>2. ~TextGoto(i, "started", "loop") /\ ~TextGoto(i, "got 2", "move")
      BY <1>1, Zenon DEF TextGoto
    <3>3. TextGoto(i, "got 1", "move")
      BY <1>7, <3>2, Zenon DEF TextGot
    <3>4. QED
      BY <1>4, <3>1, <3>3
  <2>2. Taken /\ AllHome /\ OneStepOut
    BY <2>1 DEF BySemaphore, TookIt
  <2>3. Taken' /\ AllHome'
    BY <2>1, <2>2 DEF Taken, AllHome
  <2>4. OneStepOut'
    <3>1. semval \in [Sems12 -> {0, 1}] /\ 2 \in Sems12 /\ semval' = [semval EXCEPT ![1] = 1]
      BY <1>2, <2>1
    <3>2. semval'[2] = semval[2]
      BY ONLY <3>1
    <3>3. QED
      BY <2>1, <2>2, <3>2 DEF OneStepOut
  <2>5. QED
    BY <2>1, <2>2, <2>3, <2>4 DEF BySemaphore, TookIt
<1>8. CASE MoveBySem(i)
  <2>1. textAt[i] = "move" /\ UNCHANGED <<semval, textSem>>
    BY <1>8 DEF MoveBySem, KeepTurns
  <2>2. Taken /\ AllHome /\ OneStepOut /\ \A j \in TextThreads : TookIt(j) => i = j
    BY <2>1 DEF BySemaphore, TookIt
  <2>3. /\ direction' = direction /\ textAt'[i] = "loop"
        /\ \A j \in TextThreads \ {i} : textAt'[j] = textAt[j]
        /\ \E y \in {0, 1} : pos' = [pos EXCEPT ![i] = y]
    <3>1. pos[i] = 0 /\ pos[1] = 0 /\ direction = 1 /\ semval[2] = 0
          /\ ~(pos[i] + direction > FAR) /\ ~(pos[i] + direction < 0)
          /\ pos[i] + direction = 1 /\ ~(pos[1] > FAR)
      <4>1. pos[i] = 0 /\ pos[1] = 0 /\ direction = 1 /\ semval[2] = 0
        BY <1>2, <2>2 DEF AllHome, OneStepOut
      <4>2. QED
        BY ONLY <4>1, TextsAssumption DEF TextsAssumption
    <3>2. CASE TextGoto(i, "move", "loop") /\ KeepText
      <4>1. pos' = [pos EXCEPT ![i] = 0] /\ direction' = direction
        BY <1>2, <3>1, <3>2 DEF KeepText
      <4>2. QED
        BY <1>4, <3>2, <4>1
    <3>3. CASE StepOut(i) \/ StepThird(i)
      <4>1. /\ pos' = [pos EXCEPT ![i] = 1] /\ UNCHANGED direction
            /\ TextGoto(i, textAt[i], "loop")
        BY <3>1, <3>3, Zenon DEF StepOut, StepThird
      <4>2. QED
        BY <1>4, <4>1
    <3>4. i = 1 => NotMoving(i)
      <4>1. semval[2] # 1
        BY <3>1
      <4>2. i = 1 => semval[IF i = 1 THEN 2 ELSE 1] # 1
        BY ONLY <4>1
      <4>3. QED
        BY <4>2 DEF NotMoving
    <3>5. QED
      BY <1>8, <3>2, <3>3, <3>4 DEF MoveBySem
  <2>4. OneStepOut'
    <3>1. i \in {0, 1, 2}
      BY DEF TextThreads
    <3>2. pos[0] = 0 /\ pos[1] = 0 /\ pos[2] = 0
      BY <1>2, <2>2 DEF AllHome
    <3>3. pos'[0] + pos'[1] + pos'[2] <= 1
      BY <1>2, <2>3, <3>1, <3>2
    <3>4. QED
      BY <2>1, <2>2, <2>3, <3>3 DEF OneStepOut
  <2>5. Taken'
    BY <2>1, <2>2 DEF Taken
  <2>6. \A j \in TextThreads : ~TookIt(j)'
    BY <2>2, <2>3 DEF TookIt
  <2>7. \A j \in TextThreads : textAt'[j] \in {"loop", "grab 1", "got 1", "move", "grab 2"}
    BY <2>3 DEF BySemaphore
  <2>8. QED
    BY <2>4, <2>5, <2>6, <2>7 DEF BySemaphore
<1>9. QED
  BY <1>3, <1>5, <1>6, <1>7, <1>8

LEMMA TextInvKept == TextsTypeOK /\ TextInv /\ TextsNext => TextInv'
<1> SUFFICES ASSUME TextsTypeOK, TextInv, TextsNext PROVE TextInv'
  OBVIOUS
<1>1. ASSUME NEW i \in TextThreads, TextThread(i) PROVE TextInv'
  <2>1. UNCHANGED <<textProg, textSet>>
    BY <1>1 DEF TextThread, MoveOne, MoveByFlag, HandOver, StoreFlag, LookAtSemval,
         MoveBySem, TextGrab, TextGot, TextRelease, TextZero, Step, StepOut, StepThird,
         TextGoto
  <2>2. QED
    BY <1>1, <2>1, ByFlagsKept, BySemaphoreKept DEF TextInv
<1>2. CASE ToggleMove \/ RemoveTextSet \/ TextsExit
  <2>1. /\ UNCHANGED <<textProg, pos, direction, textAt, flag, semval, textSem>>
        /\ textSet' = "live" => textSet = "live"
    BY <1>2 DEF ToggleMove, RemoveTextSet, TextsExit
  <2>2. QED
    BY <2>1 DEF TextInv, ByFlags, OutByFlag, Away, HasTurn, BySemaphore, TookIt,
                   AllHome, Taken, OneStepOut
<1>3. QED
  BY <1>1, <1>2 DEF TextsNext

----------------------------------------------------------------------------
(* The whole specification.                                                *)

ScreensInv == ScreensTypeOK /\ WinInv /\ TextInv

LEMMA ScreensInductive == ScreensSpec => []ScreensInv
<1>1. ScreensInit => ScreensInv
  BY WinStart, TextsStart DEF ScreensInit, ScreensInv, ScreensTypeOK
<1>2. ScreensInv /\ [ScreensNext]_screenVars => ScreensInv'
  <2> SUFFICES ASSUME ScreensInv, [ScreensNext]_screenVars PROVE ScreensInv'
    OBVIOUS
  <2>1. UNCHANGED winVars => WindowsTypeOK' /\ WinInv'
    BY NothingKeeps DEF ScreensInv, ScreensTypeOK, winVars, WindowsTypeOK
  <2>2. UNCHANGED textVars => TextsTypeOK' /\ TextInv'
    BY DEF ScreensInv, ScreensTypeOK, textVars, TextsTypeOK, TextInv, ByFlags,
           OutByFlag, Away, HasTurn, BySemaphore, TookIt, AllHome, Taken, OneStepOut
  <2>3. CASE ViewWindows(WindowsNext)
    BY <2>2, <2>3, WindowsTypesKept, WinInvKept
       DEF ViewWindows, ScreensInv, ScreensTypeOK
  <2>4. CASE ViewTexts(TextsNext)
    BY <2>1, <2>4, TextsTypesKept, TextInvKept DEF ViewTexts, ScreensInv, ScreensTypeOK
  <2>5. CASE UNCHANGED screenVars
    BY <2>1, <2>2, <2>5 DEF screenVars, ScreensInv, ScreensTypeOK
  <2>6. QED
    BY <2>3, <2>4, <2>5 DEF ScreensNext
<1>3. QED
  BY <1>1, <1>2, PTL DEF ScreensSpec

(* The variables of both views keep their types: no text leaves its screen,*)
(* and the semaphore of the threads stays 0 or 1.                          *)
THEOREM ScreensTypeCorrect == ScreensSpec => []ScreensTypeOK
<1>1. ScreensInv => ScreensTypeOK
  BY DEF ScreensInv
<1>2. QED
  BY <1>1, ScreensInductive, PTL

(* xwinp.c, check_keys: what the static isdiffcolor of a child says of the *)
(* segment is true for as long as no other run is on the segment; a window *)
(* traps only because another one ended; and no segment is left without a  *)
(* window unless one was killed.                                           *)
THEOREM ColoursAgree == ScreensSpec => []ColourToggles
<1>1. ScreensInv => ColourToggles
  <2> SUFFICES ASSUME ScreensInv PROVE ColourToggles
    OBVIOUS
  <2>1. ASSUME NEW r \in Runs PROVE ToggleAgrees(r) /\ TrapsForAReason(r)
    <3>1. Clean(r) /\ KeyHeld(r)
      BY DEF ScreensInv, WinInv, RunsInv, RunInv
    <3>2. QED
      BY <3>1 DEF Clean, KeyHeld, TrapsForAReason, Exists
  <2>2. QED
    BY <2>1 DEF ScreensInv, WinInv, NotLeft, ColourToggles
<1>2. QED
  BY <1>1, ScreensInductive, PTL

(* xwinp2.c and xwinp4.c, moveText: two texts are never away from home at  *)
(* once, however the stores of a handover fall; and the three threads of   *)
(* xwinp4 make one step between them.                                      *)
THEOREM TextsTakeTurns == ScreensSpec => []OneTextAway
<1>1. ScreensInv => OneTextAway
  <2> SUFFICES ASSUME ScreensInv PROVE OneTextAway
    OBVIOUS
  <2>1. textProg = "xwinp2" => ~(pos[0] > 0 /\ pos[1] > 0)
    BY DEF ScreensInv, TextInv, ByFlags, OutByFlag, Away
  <2>2. QED
    BY <2>1 DEF ScreensInv, TextInv, BySemaphore, OneStepOut, OneTextAway
<1>2. QED
  BY <1>1, ScreensInductive, PTL
=============================================================================
