----------------------------- MODULE DisplayPower -----------------------------
(***************************************************************************)
(* handle_display_power of lvgl_ui.c: the screen goes dark when BOOT is    *)
(* not pressed for three minutes, a press wakes it, and a press while it   *)
(* is lit shows the password for thirty seconds.  The UI task takes a turn *)
(* every few milliseconds, or later when the drawing takes long.  Between  *)
(* its turns the httpd task puts a rotated password on the screen, hidden  *)
(* while it is being saved and shown when it is in force, lit or not.      *)
(***************************************************************************)
EXTENDS Naturals

CONSTANTS
  Debounce,   \* WAKE_BUTTON_DEBOUNCE_US
  Reveal,     \* SECRET_REVEAL_TIMEOUT_US
  IdleOff,    \* DISPLAY_IDLE_TIMEOUT_US
  MaxTurn     \* bound of the model: the longest time between two turns

ASSUME DisplayAssumption ==
  /\ Debounce \in Nat /\ IdleOff \in Nat
  /\ Reveal \in Nat \ {0} /\ MaxTurn \in Nat \ {0}

VARIABLES
  wakeDown,    \* the button is down
  raw,         \* button_raw_pressed
  rawAge,      \* time since button_raw_changed_us, up to Debounce
  pressed,     \* button_pressed
  lit,         \* display_on
  visible,     \* secrets_visible
  revealLeft,  \* time until secret_reveal_until_us
  idleFor,     \* time since last_activity_us, up to IdleOff
  sinceTurn,   \* time since the last turn of the UI task
  press,       \* history: time since the first of the latest turns that all
               \* found the button down, and whether the screen was lit then
  asked        \* history: time since somebody asked for the password

displayVars == <<wakeDown, raw, rawAge, pressed, lit, visible, revealLeft, idleFor,
                 sinceTurn, press, asked>>

UpTo(bound, t) == IF t > bound THEN bound ELSE t

NotPressed == [for |-> 0, down |-> FALSE, lit |-> FALSE]
LongAgo == Reveal + MaxTurn
-----------------------------------------------------------------------------
(* lvgl_ui_start: the screen is lit, and a button that is down is no press. *)
DisplayInit ==
  /\ wakeDown \in BOOLEAN
  /\ raw = wakeDown /\ pressed = wakeDown /\ rawAge = 0
  /\ lit = TRUE /\ visible = FALSE /\ revealLeft = 0 /\ idleFor = 0
  /\ sinceTurn = 0
  /\ press = NotPressed /\ asked = LongAgo

TimePasses ==
  /\ sinceTurn < MaxTurn
  /\ sinceTurn' = sinceTurn + 1
  /\ rawAge' = UpTo(Debounce, rawAge + 1)
  /\ revealLeft' = IF revealLeft = 0 THEN 0 ELSE revealLeft - 1
  /\ idleFor' = UpTo(IdleOff, idleFor + 1)
  /\ press' = [press EXCEPT !.for = IF press.down THEN UpTo(Debounce, @ + 1) ELSE 0]
  /\ asked' = UpTo(LongAgo, asked + 1)
  /\ UNCHANGED <<wakeDown, raw, pressed, lit, visible>>

WakeButton ==
  /\ wakeDown' = ~wakeDown
  /\ UNCHANGED <<raw, rawAge, pressed, lit, visible, revealLeft, idleFor, sinceTurn,
                 press, asked>>

(* lvgl_ui_update_credentials, to show or to hide the password.            *)
UpdateCredentials(reveal) ==
  /\ visible' = reveal
  /\ revealLeft' = IF reveal THEN Reveal ELSE revealLeft
  /\ asked' = IF reveal THEN 0 ELSE asked
  /\ UNCHANGED <<wakeDown, raw, rawAge, pressed, lit, idleFor, sinceTurn, press>>

\* Variant: the press that wakes the screen shows the password.
RevealsOnWake(newPress) == newPress

(* What the new press does.                                                *)
Reveals(newPress) == newPress /\ lit

(* A turn of the task: the button, the end of the reveal, the idle time.   *)
Turn ==
  /\ sinceTurn > 0
  /\ sinceTurn' = 0
  /\ raw' = wakeDown
  /\ rawAge' = IF wakeDown # raw THEN 0 ELSE rawAge
  /\ pressed' = IF rawAge' >= Debounce THEN wakeDown ELSE pressed
  /\ LET newPress == pressed' /\ ~pressed
         idle     == IF newPress THEN 0 ELSE idleFor
         goesDark == (lit \/ newPress) /\ idle >= IdleOff
     IN  /\ idleFor' = idle
         /\ revealLeft' = IF Reveals(newPress) THEN Reveal ELSE revealLeft
         /\ lit' = ((lit \/ newPress) /\ ~goesDark)
         /\ visible' = ((visible \/ Reveals(newPress)) /\ revealLeft' > 0 /\ ~goesDark)
  /\ press' = IF ~wakeDown THEN NotPressed
              ELSE IF press.down THEN press ELSE [for |-> 0, down |-> TRUE, lit |-> lit]
  /\ asked' = IF press'.lit /\ press'.for >= Debounce THEN 0 ELSE asked
  /\ UNCHANGED wakeDown

DisplayNext ==
  \/ TimePasses \/ WakeButton \/ Turn
  \/ \E reveal \in BOOLEAN : UpdateCredentials(reveal)

DisplaySpec == DisplayInit /\ [][DisplayNext]_displayVars
-----------------------------------------------------------------------------
(* The types of the variables.                                             *)
DisplayTypeOK ==
  /\ wakeDown \in BOOLEAN /\ raw \in BOOLEAN /\ pressed \in BOOLEAN
  /\ lit \in BOOLEAN /\ visible \in BOOLEAN
  /\ rawAge \in 0..Debounce /\ revealLeft \in 0..Reveal /\ idleFor \in 0..IdleOff
  /\ sinceTurn \in 0..MaxTurn
  /\ press \in [for : 0..Debounce, down : BOOLEAN, lit : BOOLEAN]
  /\ asked \in 0..LongAgo

(* The password can be read on the screen only for the reveal time, and up *)
(* to one turn of the task more, after a rotation or after a press of the  *)
(* lit screen that lasted for the debounce time: never by waking it alone. *)
RevealEnds == lit /\ visible => asked < LongAgo
=============================================================================
