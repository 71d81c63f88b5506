------------------------------- MODULE Screens -------------------------------
(***************************************************************************)
(* The X11 programs of directory c: either the windows of several runs are *)
(* looked at, or the threads of one run that move its texts.               *)
(* The two share key t, Escape and the semaphore set, which module Texts   *)
(* has as steps of its own.                                                *)
(***************************************************************************)
EXTENDS Windows, Texts

VARIABLE view      \* which of the two

screenVars == <<view, winVars, textVars>>

ScreensInit ==
  /\ view \in {"windows", "texts"}
  /\ WindowsInit /\ TextsInit
  (* the choice of program of the texts does not matter to the windows *)
  /\ view = "windows" => textProg = "xwinp1"

ViewWindows(A) == view = "windows" /\ A /\ UNCHANGED <<view, textVars>>
ViewTexts(A) == view = "texts" /\ A /\ UNCHANGED <<view, winVars>>

ScreensNext == ViewWindows(WindowsNext) \/ ViewTexts(TextsNext)

ScreensSpec ==
  /\ ScreensInit
  /\ [][ScreensNext]_screenVars
  /\ \A r \in Runs, role \in Roles : WF_screenVars(ViewWindows(Window(r, role)))
  /\ \A i \in TextThreads : WF_screenVars(ViewTexts(TextThread(i)))

----------------------------------------------------------------------------
(* The variables of both keep their types.                                 *)
ScreensTypeOK == WindowsTypeOK /\ TextsTypeOK

(* The main loops do get to what they poll for, and the threads that move  *)
(* the texts do hand over (check_keys and render, and moveText).           *)
ScreensGoOn ==
  /\ view = "windows" => ColourArrives /\ EscapeQuitsIfLast
  /\ view = "texts" => TextsRoam
=============================================================================
