------------------------------ MODULE FloatBall ------------------------------
(***************************************************************************)
(* The FloatBall application: an activity whose button starts and stops a  *)
(* service, and the ball, a window above all others, that the service      *)
(* shows and removes.  The ball follows the finger, is docked at an edge   *)
(* of the display when it was dragged, and three seconds after each touch  *)
(* a message of the main thread hides half of it.                          *)
(*                                                                         *)
(* One step is a handler on the main thread.  Android is external: it      *)
(* queues the service's life cycle, removes a window some time after       *)
(* removeView, turns the display, kills the process and starts a service   *)
(* that was running again.  Of positions only the x axis is kept; that the *)
(* finger moved far along y is a choice.                                   *)
(***************************************************************************)
EXTENDS Integers, Sequences

CONSTANTS
    Widths,         \* of the display, by its orientation
    BallWidth,      \* 120, getWidth() of the ball
    Slop,           \* 10, beyond which a touch is a drag
    MaxHides,       \* bound: half-hide messages waiting
    MaxMessages     \* bound: life cycle messages waiting

ASSUME FloatBallAssumption ==
    /\ Widths \subseteq Nat /\ \A w \in Widths : w >= 2 * BallWidth
    /\ BallWidth \in Nat \ {0, 1} /\ BallWidth % 2 = 0 /\ Slop \in Nat
    /\ MaxHides \in Nat \ {0} /\ MaxMessages \in Nat \ {0}

VARIABLES
    process,        \* "alive", or how it ended: "crashed" by an exception, "killed"
    permitted,      \* canDrawOverlays
    isShow,         \* of the activity instance
    running,        \* Android's record of the service
    messages,       \* its life cycle: "create" and "destroy" for the main thread
    window,         \* of the ball: "none", "shown", or "dying" after removeView
    x,              \* mBallParams.x
    hides,          \* the half-hide messages that wait, the one due first
                    \* first, the last one posted, mRunAction, last
    finger,         \* "none", "down", or how the touch ended: "up", "cancelled"
    startX, tempX,  \* of mTouchListener while a finger is down, else 0
    width,          \* getScreenWidth()
    refused,        \* history: the service was created without the permission
    disturbed       \* history: x was not placed by the manager for this display

serviceVars == <<permitted, isShow, running, messages, refused>>
ballVars == <<x, hides, finger, startX, tempX, disturbed>>
vars == <<process, serviceVars, window, width, ballVars>>

\* Of a half-hide message: where the touch ended, and whether the window it
\* was posted by is gone; the view then has another handler, or none.
HideMessages == [endX : Int, late : BOOLEAN]
HideMessage(f) == [endX |-> f, late |-> FALSE]
Late(h) == [endX |-> h.endX, late |-> TRUE]

Init ==
    /\ process = "alive" /\ permitted \in BOOLEAN /\ refused = FALSE
    /\ isShow = FALSE /\ running = FALSE /\ messages = <<>>
    /\ window = "none" /\ x = 0 /\ hides = <<>>
    /\ finger = "none" /\ startX = 0 /\ tempX = 0
    /\ width \in Widths /\ disturbed = FALSE

TypeOK ==
    /\ process \in {"alive", "crashed", "killed"} /\ permitted \in BOOLEAN
    /\ isShow \in BOOLEAN /\ running \in BOOLEAN /\ refused \in BOOLEAN
    /\ messages \in Seq({"create", "destroy"})
    /\ window \in {"none", "shown", "dying"} /\ width \in Widths
    /\ x \in Int /\ startX \in Int /\ tempX \in Int /\ disturbed \in BOOLEAN
    /\ hides \in Seq(HideMessages)
    /\ finger \in {"none", "down", "up", "cancelled"}

-----------------------------------------------------------------------------
(* The process.                                                            *)

\* What is in memory goes.
Dies(how) ==
    /\ process' = how /\ isShow' = FALSE /\ messages' = <<>> /\ refused' = FALSE
    /\ window' = "none" /\ x' = 0 /\ hides' = <<>>
    /\ finger' = "none" /\ startX' = 0 /\ tempX' = 0 /\ disturbed' = FALSE
    /\ UNCHANGED <<permitted, running, width>>

Alive == process = "alive"
Throws == Dies("crashed")
Killed == Alive /\ Dies("killed")

\* The service is sticky: onStartCommand is the default one.
Restart ==
    /\ ~ Alive
    /\ process' = "alive" /\ messages' = IF running THEN <<"create">> ELSE <<>>
    /\ UNCHANGED <<permitted, isShow, running, refused, window, width, ballVars>>

-----------------------------------------------------------------------------
(* MainActivity.                                                           *)

\* mutation: the service is created at every call
StartServiceAlways ==
    running' = TRUE /\ messages' = Append(messages, "create")

\* startService and stopService: Android records the call, and tells the
\* main thread when the service has to be created or destroyed.
StartService ==
    /\ running' = TRUE
    /\ messages' = IF running THEN messages ELSE Append(messages, "create")
StopService ==
    /\ running' = FALSE
    /\ messages' = IF running THEN Append(messages, "destroy") ELSE messages

OnBtnClick ==
    /\ Alive /\ Len(messages) < MaxMessages
    /\ IF ~ isShow THEN StartService ELSE StopService
    /\ isShow' = ~ isShow
    /\ UNCHANGED <<process, permitted, refused, window, width, ballVars>>

\* The display turns: the activity is created anew, the ball's window keeps
\* its place.
Rotate ==
    /\ Alive
    /\ width' \in Widths \ {width}
    /\ isShow' = FALSE /\ disturbed' = (window # "none")
    /\ UNCHANGED <<process, permitted, running, messages, refused, window, x, hides, finger,
                   startX, tempX>>

\* The user gives the permission in the settings.
Grant ==
    /\ ~ permitted /\ permitted' = TRUE
    /\ UNCHANGED <<process, isShow, running, messages, refused, window, width, ballVars>>

-----------------------------------------------------------------------------
(* FloatBallService and the window.                                        *)

Handled == messages' = Tail(messages)

\* onCreate, createFloatView with the permission: new layout parameters and
\* addView, which throws for a view that is shown and lets a dying window go.
ShowBall ==
    /\ Alive /\ messages # <<>> /\ Head(messages) = "create" /\ permitted
    /\ IF window = "shown" THEN Throws
       ELSE /\ Handled
            /\ window' = "shown" /\ x' = 0
            /\ hides' = [i \in DOMAIN hides |-> Late(hides[i])]
            /\ finger' = "none" /\ startX' = 0 /\ tempX' = 0 /\ disturbed' = FALSE
            /\ UNCHANGED <<process, permitted, isShow, running, refused, width>>

\* Without it: the settings are opened from the application's context, which
\* not every version of Android lets pass.
AskPermission ==
    /\ Alive /\ messages # <<>> /\ Head(messages) = "create" /\ ~ permitted
    /\ \/ /\ Handled /\ refused' = TRUE
          /\ UNCHANGED <<process, permitted, isShow, running, window, width, ballVars>>
       \/ Throws

\* onDestroy, removeFloatView: removeView throws when there is no window.
RemoveBall ==
    /\ Alive /\ messages # <<>> /\ Head(messages) = "destroy"
    /\ \/ /\ window # "none"
          /\ Handled /\ window' = "dying" /\ refused' = FALSE
          /\ UNCHANGED <<process, permitted, isShow, running, width, ballVars>>
       \/ window = "none" /\ Throws

\* The window goes, with the gesture on it; its messages stay.
WindowGone ==
    /\ Alive /\ window = "dying"
    /\ window' = "none"
    /\ hides' = [i \in DOMAIN hides |-> Late(hides[i])]
    /\ finger' = "none" /\ startX' = 0 /\ tempX' = 0
    /\ UNCHANGED <<process, serviceVars, x, width, disturbed>>

-----------------------------------------------------------------------------
(* mTouchListener.                                                         *)

OnScreen == 0 .. width - 1

\* mutation: removeCallbacks is left out
KeepCallbacks == hides

\* removeCallbacks of mRunAction, if the view's present handler has it.
RemoveCallbacks ==
    IF hides # <<>> /\ ~ hides[Len(hides)].late THEN SubSeq(hides, 1, Len(hides) - 1) ELSE hides

Down(f) ==
    /\ Alive /\ window # "none" /\ finger # "down"
    /\ x <= f /\ f < x + BallWidth
    /\ finger' = "down" /\ startX' = f /\ tempX' = f
    /\ hides' = RemoveCallbacks
    /\ UNCHANGED <<process, serviceVars, window, x, width, disturbed>>

Move(f) ==
    /\ finger = "down" /\ f # startX
    /\ x' = x + (f - startX) /\ startX' = f
    /\ UNCHANGED <<process, serviceVars, window, hides, finger, tempX, width, disturbed>>

\* mutation: the right edge without the width of the ball
DockedBeyond(f) == IF 2 * f < width THEN 0 ELSE width

\* The edge next to the finger.
Docked(f) == IF 2 * f < width THEN 0 ELSE width - BallWidth

Distance(a, b) == IF a < b THEN b - a ELSE a - b

\* mutation: a tap hides nothing
UpOfDrag(f, farAlongY) ==
    LET drag == Distance(f, tempX) > Slop \/ farAlongY
    IN  /\ finger = "down" /\ Len(hides) < MaxHides
        /\ finger' = "up"
        /\ hides' = IF drag THEN Append(hides, HideMessage(f)) ELSE hides
        /\ x' = IF drag THEN Docked(f) ELSE x
        /\ disturbed' = IF drag THEN FALSE ELSE disturbed
        /\ startX' = 0 /\ tempX' = 0
        /\ UNCHANGED <<process, serviceVars, window, width>>

\* A new half-hide message; the ball is docked after a drag and stays after
\* a tap.
Up(f, farAlongY) ==
    LET drag == Distance(f, tempX) > Slop \/ farAlongY
    IN  /\ finger = "down" /\ Len(hides) < MaxHides
        /\ finger' = "up"
        /\ hides' = Append(hides, HideMessage(f))
        /\ x' = IF drag THEN Docked(f) ELSE x
        /\ disturbed' = IF drag THEN FALSE ELSE disturbed
        /\ startX' = 0 /\ tempX' = 0
        /\ UNCHANGED <<process, serviceVars, window, width>>

\* ACTION_CANCEL, which the listener ignores.
Cancel ==
    /\ finger = "down" /\ finger' = "cancelled"
    /\ startX' = 0 /\ tempX' = 0
    /\ UNCHANGED <<process, serviceVars, window, x, hides, width, disturbed>>

\* The place of a half-hidden ball, at the edge next to the end of the touch.
HalfHidden(endX) ==
    IF 2 * endX < width THEN - (BallWidth \div 2) ELSE width - BallWidth \div 2

\* A half-hide message is due: updateViewLayout throws when there is no
\* window.
Hide ==
    /\ Alive /\ hides # <<>>
    /\ \/ /\ window # "none"
          /\ hides' = Tail(hides) /\ x' = HalfHidden(Head(hides).endX)
          /\ disturbed' = (finger = "down")
          /\ UNCHANGED <<process, serviceVars, window, finger, startX, tempX, width>>
       \/ window = "none" /\ Throws

-----------------------------------------------------------------------------
Touch ==
    \/ \E f \in OnScreen : Down(f) \/ Move(f) \/ \E farAlongY \in BOOLEAN : Up(f, farAlongY)
    \/ Cancel

\* What the main thread does by itself.
MainLoop == ShowBall \/ AskPermission \/ RemoveBall \/ WindowGone

Next ==
    \/ Killed \/ Restart \/ OnBtnClick \/ Rotate \/ Grant
    \/ Touch \/ MainLoop \/ Hide

\* The main thread gets to the messages of its queue; nobody has to touch
\* the ball or the button.
Spec == Init /\ [][Next]_vars /\ WF_vars(Hide)

-----------------------------------------------------------------------------
(* Properties.                                                             *)

\* With the permission, and a service that was created with it, the
\* application dies of no exception but one: a half-hide message comes due
\* after the ball was removed, so within three seconds of the last touch
\* (removeFloatView leaves mRunAction in the queue).  Above all the service
\* never removes a ball it did not show, however the button was pressed, the
\* activity recreated or the process killed and the service started again.
CrashNeedsLateHide ==
    [][Alive /\ process' = "crashed" =>
          \/ refused \/ ~ permitted
          \/ window = "none" /\ hides # <<>> /\ Head(hides).late]_vars

\* Under a finger the ball moves with the finger alone: ACTION_DOWN has
\* removed the message that would hide half of it.  Only a message from
\* before the ball was last shown is out of the reach of removeCallbacks.
FingerKeepsBall ==
    [][finger = "down" /\ finger' = "down" /\ x' # x /\ startX' = startX =>
          hides # <<>> /\ Head(hides).late]_vars

\* A part of the ball can always be seen and touched, after any number of
\* drags, taps, cancelled gestures and half-hides, until the display turns
\* or a half-hide takes the ball away from under a finger.
BallInReach ==
    window = "shown" /\ ~ disturbed => x > - BallWidth /\ x < width

\* A ball that was touched is half hidden in the end, unless it is touched
\* again or removed, even if the display turns: every ACTION_UP leaves a
\* message that nothing but the next ACTION_DOWN takes back.
BallHides ==
    finger = "up" /\ window = "shown" ~>
        \/ x \in {- (BallWidth \div 2)} \cup {w - BallWidth \div 2 : w \in Widths}
        \/ finger # "up" \/ window # "shown"
=============================================================================
