---------------------------- MODULE WindowModes ----------------------------
(***************************************************************************)
(* The shapes of the window: the full panel, the collapsed one, and the    *)
(* strip that lies on the taskbar and has to raise itself again whenever   *)
(* Explorer raises the taskbar.  Four parties: the page of dist/index.html *)
(* that asks for a shape, the main thread that runs set_mode of            *)
(* crates/loadbear-app/src/main.rs and owns the window, the thread of      *)
(* reclaim_the_top, and the shell.                                         *)
(*                                                                         *)
(* SetWindowPos with SWP_ASYNCWINDOWPOS, called from the other thread,     *)
(* leaves a request with the main thread: a raise happens later than it is *)
(* asked for.                                                              *)
(***************************************************************************)
EXTENDS Naturals, Sequences

CONSTANTS
  MaxClicks   \* shape requests of the page that wait for the main thread

ASSUME WindowModesAssumption == MaxClicks \in Nat \ {0}

VARIABLES
  mode,             \* the page's own idea of the shape
  calls,            \* set_mode calls that wait
  main,             \* what the main thread has left to do of a set_mode
  shape,            \* the shape the window was last given
  ON_THE_TASKBAR,   \* the flag
  reclaimer,        \* "asleep"; "looking", once the flag was set; "cleared" to raise
                    \* by the shell, or "blind": the shell did not say
  posted,           \* has a raise been posted?
  window,           \* "shown", "minimised" or "hidden"
  front,            \* is the window in front of the taskbar?
  fullscreen,       \* is something full screen?
  over,             \* history: raises that were asked for, on the word of the
                    \* shell, since something was last full screen
  off               \* history: raises that were asked for since the strip was left

late == <<over, off>>
windowvars == <<mode, calls, main, shape, ON_THE_TASKBAR, reclaimer, posted,
                window, front, fullscreen, late>>

-----------------------------------------------------------------------------
(* size_for_mode knows these; the page asks for no other. *)
Modes == {"expanded", "collapsed", "taskbar"}

(* The shapes that the page's buttons lead to.  The strip has no title     *)
(* bar, only the way out.                                                  *)
Reachable(m) ==
  CASE m = "expanded"  -> {"collapsed", "taskbar"}
    [] m = "collapsed" -> {"expanded", "taskbar"}
    [] m = "taskbar"   -> {"expanded"}

WindowInit ==
  /\ mode = "expanded"
  /\ calls = <<>>
  /\ main = "idle"
  /\ shape = "expanded"
  /\ ON_THE_TASKBAR = FALSE
  /\ reclaimer = "asleep"
  /\ posted = FALSE
  /\ window = "shown"
  /\ front = TRUE
  /\ fullscreen = FALSE
  /\ over = 0 /\ off = 0

(* setMode: the page rearranges itself first, and then asks. *)
Click ==
  /\ window = "shown"
  /\ Len(calls) < MaxClicks
  /\ \E m \in Reachable(mode) : mode' = m /\ calls' = Append(calls, m)
  /\ UNCHANGED <<main, shape, ON_THE_TASKBAR, reclaimer, posted,
                 window, front, fullscreen, late>>

(* set_mode, first half: a size that cannot be set is an error, and the    *)
(* page keeps the layout it has taken.                                     *)
Resize ==
  /\ main = "idle"
  /\ calls # <<>>
  /\ calls' = Tail(calls)
  /\ \/ /\ shape' = Head(calls)
        /\ main' = "resized"
     \/ UNCHANGED <<shape, main>>
  /\ UNCHANGED <<mode, ON_THE_TASKBAR, reclaimer, posted, window, front,
                 fullscreen, late>>

Flag == ON_THE_TASKBAR' = (shape = "taskbar")

(* Second half: the flag, and one raise at once for the strip, unless the  *)
(* window has no handle to tell.                                           *)
Announce ==
  /\ main = "resized"
  /\ Flag
  /\ main' = "idle"
  /\ front' \in {front, front \/ shape = "taskbar"}
  /\ off' = IF ON_THE_TASKBAR' THEN 0 ELSE off
  /\ UNCHANGED <<mode, calls, shape, reclaimer, posted, window, fullscreen, over>>

(* The thread of reclaim_the_top wakes up and looks at the flag ...        *)
Look ==
  /\ reclaimer = "asleep"
  /\ ON_THE_TASKBAR
  /\ reclaimer' = "looking"
  /\ UNCHANGED <<mode, calls, main, shape, ON_THE_TASKBAR, posted,
                 window, front, fullscreen, late>>

(* Mutant of MayRaise: does not ask what is on the screen. *)
MayRaiseAnyhow == TRUE

(* Mutant of MayRaise: only while the taskbar has not been touched. *)
MayRaiseInFront == ~ fullscreen /\ front

(* What the shell says of the screen. *)
MayRaise == ~ fullscreen

(* ... asks the shell, and takes it for a no when the call fails ...       *)
AskShell ==
  /\ reclaimer = "looking"
  /\ \/ reclaimer' = IF MayRaise THEN "cleared" ELSE "asleep"
     \/ reclaimer' = "blind"
  /\ UNCHANGED <<mode, calls, main, shape, ON_THE_TASKBAR, posted,
                 window, front, fullscreen, late>>

(* ... and raises, whatever has happened since. *)
Post ==
  /\ reclaimer \in {"cleared", "blind"}
  /\ reclaimer' = "asleep"
  /\ posted' = TRUE
  /\ over' = IF fullscreen /\ reclaimer = "cleared" THEN over + 1 ELSE over
  /\ off' = IF ON_THE_TASKBAR THEN off ELSE off + 1
  /\ UNCHANGED <<mode, calls, main, shape, ON_THE_TASKBAR, window,
                 front, fullscreen>>

(* The main thread gets to the request: order changes, nothing else. *)
Raise ==
  /\ posted
  /\ main = "idle"
  /\ posted' = FALSE
  /\ front' = TRUE
  /\ UNCHANGED <<mode, calls, main, shape, ON_THE_TASKBAR, reclaimer,
                 window, fullscreen, late>>

SetWindow(w) ==
  /\ main = "idle"
  /\ window' = w
  /\ UNCHANGED <<mode, calls, main, shape, ON_THE_TASKBAR, reclaimer,
                 posted, front, fullscreen, late>>

(* From the title bar, which the strip does not have. *)
Minimise == window = "shown" /\ mode # "taskbar" /\ SetWindow("minimised")

(* To the tray, by another button of the title bar ...                     *)
Hide == window = "shown" /\ mode # "taskbar" /\ SetWindow("hidden")

(* ... or by the system, in any shape: it asks to close the window, which  *)
(* is hidden instead.                                                      *)
CloseRequested == window # "hidden" /\ SetWindow("hidden")

(* From the tray menu, or from the taskbar button. *)
Show == window # "shown" /\ SetWindow("shown")

(* Somebody touches the taskbar, and Explorer raises it. *)
TouchTaskbar ==
  /\ front' = FALSE
  /\ UNCHANGED <<mode, calls, main, shape, ON_THE_TASKBAR, reclaimer,
                 posted, window, fullscreen, late>>

(* A game, a video or a presentation begins or ends. *)
FullScreen ==
  /\ fullscreen' = ~ fullscreen
  /\ over' = 0
  /\ UNCHANGED <<mode, calls, main, shape, ON_THE_TASKBAR, reclaimer,
                 posted, window, front, off>>

Main    == Resize \/ Announce \/ Raise
Reclaim == Look \/ AskShell \/ Post

WindowNext ==
  \/ Click
  \/ Main
  \/ Reclaim
  \/ Minimise \/ Hide \/ CloseRequested \/ Show
  \/ TouchTaskbar
  \/ FullScreen

WindowSpec == WindowInit /\ [][WindowNext]_windowvars

(* Both threads go on; nothing keeps the main thread from the raises that  *)
(* are posted to it.  Neither the user nor the shell owes anybody a step.  *)
FairWindowSpec == WindowSpec /\ WF_windowvars(Resize \/ Announce) /\ SF_windowvars(Raise) /\ WF_windowvars(Reclaim)

-----------------------------------------------------------------------------
WindowTypeOK ==
  /\ mode \in Modes /\ shape \in Modes
  /\ calls \in Seq(Modes) /\ Len(calls) <= MaxClicks
  /\ main \in {"idle", "resized"}
  /\ reclaimer \in {"asleep", "looking", "cleared", "blind"}
  /\ ON_THE_TASKBAR \in BOOLEAN /\ posted \in BOOLEAN
  /\ front \in BOOLEAN /\ fullscreen \in BOOLEAN
  /\ window \in {"shown", "minimised", "hidden"}
  /\ {over, off} \subseteq Nat

(* "And never over something full screen", "only while the strip is the    *)
(* shape on screen" (reclaim_the_top): the thread looks first and raises   *)
(* after, so one raise may come late, and no second one for as long as     *)
(* something is full screen, or the strip is gone.  Not counted are the    *)
(* raises over something full screen of which the shell did not say, and   *)
(* the one of set_mode, which answers a click.                             *)
OneLateRaiseAtMost == over <= 1 /\ off <= 1

(* While the strip lasts and nothing is full screen, it comes to the front *)
(* again and again, however often the taskbar is touched.                  *)
StripComesBack ==
  <>[](ON_THE_TASKBAR /\ ~ fullscreen) => []<>front
=============================================================================
