------------------------------ MODULE Gestures -------------------------------
(***************************************************************************)
(* reset_control_task: what the two buttons of the device do.  The task    *)
(* looks at them every 100 ms, or later when a call took long, and sees    *)
(* nothing of what happens in between.  PWR: a short press toggles the     *)
(* emergency lock, a long one switches the device off.  BOOT: a long press *)
(* erases the configuration.  A button may be down while the device starts *)
(* (one press may have switched it on), stay down over a restart, and      *)
(* either request may fail.                                                *)
(***************************************************************************)
EXTENDS Naturals

CONSTANTS
  ShortMin,    \* POWER_BUTTON_SHORT_MIN_MS, in polls
  LongHold,    \* POWER_BUTTON_LONG_MS
  ResetHold,   \* RESET_GESTURE_HOLD_MS
  MaxPoll      \* bound of the model: the longest time between two looks

ASSUME GestureAssumption ==
  /\ ShortMin \in Nat /\ LongHold \in Nat /\ ResetHold \in Nat
  /\ MaxPoll \in Nat \ {0}

Button == {"PWR", "BOOT"}

\* How long a press must last; times are not counted beyond.
Hold == [b \in Button |-> IF b = "PWR" THEN LongHold ELSE ResetHold]
Count(b, t) == IF t > Hold[b] THEN Hold[b] ELSE t

VARIABLES
  down,       \* which buttons are down
  gesture,    \* power_gesture and reset_gesture of the task
  turn,       \* where the task is in its loop; "off" without a task
  look,       \* lock_button_active and wake_button_active
  sinceUp,    \* history: time since the task last saw the button up
  deeds,      \* history: how much the press last seen has caused
  last        \* history: what the last gesture was

gestureVars == <<down, gesture, turn, look, sinceUp, deeds, last>>

\* was_pressed, long_reported or triggered, and now_ms - press_start_ms.
Gesture == [armed : BOOLEAN, pressed : BOOLEAN, done : BOOLEAN, held : Nat]
Fresh == [armed |-> FALSE, pressed |-> FALSE, done |-> FALSE, held |-> 0]

\* The task has not seen the button up since the start.
Never(b) == Hold[b] + 1
-----------------------------------------------------------------------------
GestureInit ==
  /\ down \in SUBSET Button
  /\ gesture = [b \in Button |-> Fresh]
  /\ turn = "sleep" /\ look = {}
  /\ sinceUp = [b \in Button |-> Never(b)]
  /\ deeds = [b \in Button |-> 0]
  /\ last = [button |-> "PWR", kind |-> "none"]

Push(b) ==
  /\ b \notin down
  /\ down' = down \cup {b}
  /\ UNCHANGED <<gesture, turn, look, sinceUp, deeds, last>>

LetGo(b) ==
  /\ b \in down
  /\ down' = down \ {b}
  /\ UNCHANGED <<gesture, turn, look, sinceUp, deeds, last>>

(* The task wakes up and reads the buttons and the clock.                  *)
Wake ==
  /\ turn = "sleep"
  /\ \E d \in 1..MaxPoll :
       /\ gesture' = [b \in Button |->
            [gesture[b] EXCEPT !.held = IF gesture[b].pressed THEN Count(b, @ + d) ELSE 0]]
       /\ sinceUp' = [b \in Button |->
            IF b \notin down THEN 0
            ELSE IF sinceUp[b] = Never(b) THEN Never(b) ELSE Count(b, sinceUp[b] + d)]
       /\ deeds' = [b \in Button |-> IF b \in down /\ sinceUp[b] = 0 THEN 0 ELSE deeds[b]]
  /\ look' = down
  /\ turn' = "PWR"
  /\ UNCHANGED <<down, last>>

-----------------------------------------------------------------------------
(* power_button_gesture_update and reset_gesture_update: the press begins, *)
(* lasts and ends.  A button that is down at the start is not armed.       *)

Released(g) == [armed |-> TRUE, pressed |-> FALSE, done |-> FALSE, held |-> 0]

\* Variant: a button counts from the start.
BegunUnarmed(g) == IF ~g.pressed THEN [g EXCEPT !.pressed = TRUE, !.held = 0] ELSE g

Begun(g) == IF g.armed /\ ~g.pressed THEN [g EXCEPT !.pressed = TRUE, !.held = 0] ELSE g

LongNow(b, g) == g.pressed /\ ~g.done /\ g.held = Hold[b]

Lasting(b, g) == IF LongNow(b, g) THEN [g EXCEPT !.done = TRUE] ELSE Begun(g)

\* Variant: a long press that ends is a short one, too.
ShortAfterLong(g) == g.armed /\ g.pressed /\ g.held >= ShortMin

ShortNow(g) == g.armed /\ g.pressed /\ ~g.done /\ g.held >= ShortMin

Update(b) ==
  gesture' = [gesture EXCEPT ![b] = IF b \in look THEN Lasting(b, @) ELSE Released(@)]

Deed(b, kind) ==
  /\ deeds' = [deeds EXCEPT ![b] = @ + 1]
  /\ last' = [button |-> b, kind |-> kind]

(* PWR first.  The toggle may fail, the power may stay on; either way BOOT *)
(* is next.                                                                *)
PowerNothing ==
  /\ turn = "PWR"
  /\ ~("PWR" \notin look /\ ShortNow(gesture["PWR"]))
  /\ ~("PWR" \in look /\ LongNow("PWR", gesture["PWR"]))
  /\ Update("PWR")
  /\ turn' = "BOOT"
  /\ UNCHANGED <<down, look, sinceUp, deeds, last>>

PowerShort ==
  /\ turn = "PWR" /\ "PWR" \notin look /\ ShortNow(gesture["PWR"])
  /\ Update("PWR")
  /\ Deed("PWR", "toggle")
  /\ turn' = "BOOT"
  /\ UNCHANGED <<down, look, sinceUp>>

PowerLong ==
  /\ turn = "PWR" /\ "PWR" \in look /\ LongNow("PWR", gesture["PWR"])
  /\ Update("PWR")
  /\ Deed("PWR", "off")
  /\ turn' \in {"off", "BOOT"}
  /\ UNCHANGED <<down, look, sinceUp>>

(* Then BOOT.  A reset that succeeds restarts the device 200 ms later.     *)
ResetNothing ==
  /\ turn = "BOOT"
  /\ ~("BOOT" \in look /\ LongNow("BOOT", gesture["BOOT"]))
  /\ Update("BOOT")
  /\ turn' = "sleep"
  /\ UNCHANGED <<down, look, sinceUp, deeds, last>>

ResetLong ==
  /\ turn = "BOOT" /\ "BOOT" \in look /\ LongNow("BOOT", gesture["BOOT"])
  /\ Update("BOOT")
  /\ Deed("BOOT", "reset")
  /\ turn' \in {"off", "sleep"}
  /\ UNCHANGED <<down, look, sinceUp>>

(* The device starts again, by itself or because PWR was pressed.          *)
StartAgain ==
  /\ turn = "off"
  /\ gesture' = [b \in Button |-> Fresh]
  /\ sinceUp' = [b \in Button |-> Never(b)]
  /\ turn' = "sleep"
  /\ UNCHANGED <<down, look, deeds, last>>

GestureNext ==
  \/ \E b \in Button : Push(b) \/ LetGo(b)
  \/ Wake \/ PowerNothing \/ PowerShort \/ PowerLong
  \/ ResetNothing \/ ResetLong \/ StartAgain

GestureSpec == GestureInit /\ [][GestureNext]_gestureVars
-----------------------------------------------------------------------------
(* The types of the variables; what is timed is a press of an armed button *)
(* that the task has seen.                                                 *)
GestureTypeOK ==
  /\ down \subseteq Button /\ look \subseteq Button
  /\ gesture \in [Button -> Gesture]
  /\ \A b \in Button : /\ gesture[b].held \in 0..Hold[b]
                       /\ gesture[b].pressed => gesture[b].armed
                       /\ gesture[b].done => gesture[b].pressed
                       /\ sinceUp[b] \in 0..Never(b)
  /\ turn \in {"sleep", "PWR", "BOOT", "off"}
  /\ deeds \in [Button -> Nat]
  /\ last \in [button : Button, kind : {"none", "toggle", "off", "reset"}]

OnlyWhenHeld ==
  \A b \in Button : deeds'[b] > deeds[b] /\ last'.kind # "toggle" => sinceUp[b] = Hold[b]

(* Off and reset happen only if every look of the whole hold time found    *)
(* the button down, and if it was seen up since the start: neither the     *)
(* press that switched the device on nor one that has lasted since before  *)
(* a restart erases anything.                                              *)
HeldLongEnough == [][OnlyWhenHeld]_gestureVars

(* One press does one thing at most: a long one is not a short one when it *)
(* ends, one that failed is not tried again, and a restart does not make a *)
(* new press of it.                                                        *)
OneDeedPerPress == \A b \in Button : deeds[b] <= 1
=============================================================================
