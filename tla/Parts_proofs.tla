-------------------------------- MODULE Parts_proofs --------------------------
(***************************************************************************)
(* Proofs about the small parts of the device: ApGuard, for any number of  *)
(* stations and connections, any idle time and any bound of a sleep;       *)
(* Gestures, for any times and any delay between two looks at the buttons; *)
(* DisplayPower and Limits, for any times and budgets; Startup, for every  *)
(* call that may fail.  At the end the parts together: in MCParts each of  *)
(* them behaves as alone, so what is proved of it holds there.             *)
(***************************************************************************)
EXTENDS MCParts, Text_proofs, TerminalBridge_proofs

-----------------------------------------------------------------------------
(* ApGuard.                                                                *)

(* The idle time counts no more than the time without a sighting, but for  *)
(* the steps between the sighting and the verdict.                         *)
IdleOK ==
  /\ idle # NotIdle /\ ~(guard \in {"clear", "judge"} /\ seen.stations > 0) =>
       idle <= unseen
  /\ guard = "stop" => idle = IdleTimeout /\ seen.stations = 0

(* Time without a station has been counted by the policy but for the sleep *)
(* in which the last station went, and for the sleep in which the idle     *)
(* time ended.                                                             *)
Lagging ==
  \/ idle = NotIdle /\ vacant <= MaxSleep
  \/ idle < IdleTimeout /\ vacant <= MaxSleep + idle
  \/ idle = IdleTimeout /\ vacant < VacantMax

VacantOK ==
  /\ stations > 0 => vacant = 0
  /\ apUp /\ started =>
       /\ Lagging
       /\ guard \in {"clear", "judge"} => seen.up /\ (seen.stations > 0 => vacant = 0)
       /\ guard = "judge" /\ sockets > 0 => vacant = 0
       /\ guard = "sleep" => idle # IdleTimeout /\ (idle = NotIdle => vacant = 0)

(* The invariant.                                                          *)
ApIInv == ApTypeOK /\ IdleOK /\ VacantOK

(* Without a station nothing has been seen yet.                            *)
LEMMA ApInitIInv == ApInit => ApIInv
  BY ApAssumption DEF ApInit, ApIInv, ApTypeOK, IdleOK, VacantOK, Lagging, Nothing, NotIdle,
                      VacantMax

(* Each action, and for each the three parts it can disturb.               *)
LEMMA ApPreserved ==
  ASSUME ApIInv, [ApNext]_apVars
  PROVE  ApIInv'
  <1> USE ApAssumption DEF ApIInv, NotIdle, VacantMax
  <1>1. CASE StationComes
    <2>1. ApTypeOK'
      BY <1>1 DEF StationComes, ApTypeOK
    <2>2. IdleOK'
      BY <1>1 DEF StationComes, IdleOK
    <2>3. VacantOK'
      BY <1>1 DEF StationComes, VacantOK, Lagging, ApTypeOK
    <2> QED  BY <2>1, <2>2, <2>3
  <1>2. CASE StationGoes
    <2>1. ApTypeOK'
      BY <1>2 DEF StationGoes, ApTypeOK
    <2>2. IdleOK'
      BY <1>2 DEF StationGoes, IdleOK
    <2>3. VacantOK'
      BY <1>2 DEF StationGoes, VacantOK, Lagging
    <2> QED  BY <2>1, <2>2, <2>3
  <1>3. CASE SocketOpens
    <2>1. ApTypeOK'
      BY <1>3 DEF SocketOpens, ApTypeOK
    <2>2. IdleOK'
      BY <1>3 DEF SocketOpens, IdleOK
    <2>3. VacantOK'
      BY <1>3 DEF SocketOpens, VacantOK, Lagging
    <2> QED  BY <2>1, <2>2, <2>3
  <1>4. CASE SocketCloses
    <2>1. ApTypeOK'
      BY <1>4 DEF SocketCloses, ApTypeOK
    <2>2. IdleOK'
      BY <1>4 DEF SocketCloses, IdleOK
    <2>3. VacantOK'
      BY <1>4 DEF SocketCloses, VacantOK, Lagging, ApTypeOK
    <2> QED  BY <2>1, <2>2, <2>3
  <1>5. CASE Look
    <2>1. ApTypeOK'
      BY <1>5 DEF Look, ApTypeOK
    <2>2. IdleOK'
      BY <1>5 DEF Look, IdleOK, ApTypeOK
    <2>3. VacantOK'
      BY <1>5 DEF Look, VacantOK, Lagging
    <2> QED  BY <2>1, <2>2, <2>3
  <1>6. CASE ClearStale
    <2>1. ApTypeOK'
      BY <1>6 DEF ClearStale, ApTypeOK
    <2>2. IdleOK'
      BY <1>6 DEF ClearStale, IdleOK
    <2>3. VacantOK'
      BY <1>6 DEF ClearStale, VacantOK, Lagging, ApTypeOK
    <2> QED  BY <2>1, <2>2, <2>3
  <1>7. CASE Judge
    <2>1. ApTypeOK'
      BY <1>7 DEF Judge, InUse, ApTypeOK
    <2>2. IdleOK'
      BY <1>7 DEF Judge, InUse, IdleOK, ApTypeOK
    <2>3. VacantOK'
      BY <1>7 DEF Judge, InUse, VacantOK, Lagging, ApTypeOK
    <2> QED  BY <2>1, <2>2, <2>3
  <1>8. CASE Stop
    <2>1. ApTypeOK'
      <3>1. CASE apUp' = FALSE /\ stations' = 0
        <4>1. stations' \in 0..MaxStations
          BY <3>1
        <4>2. apUp' \in BOOLEAN /\ started' \in BOOLEAN
          BY <1>8, <3>1, Zenon DEF Stop
        <4> QED  BY <1>8, <3>1, <4>1, <4>2, Zenon DEF Stop, ApTypeOK
      <3>2. CASE UNCHANGED <<apUp, stations>>
        BY <1>8, <3>2 DEF Stop, ApTypeOK
      <3> QED  BY <1>8, <3>1, <3>2 DEF Stop
    <2>2. IdleOK'
      BY <1>8 DEF Stop, IdleOK
    <2>3. VacantOK'
      BY <1>8 DEF Stop, VacantOK
    <2> QED  BY <2>1, <2>2, <2>3
  <1>9. CASE Sleep
    <2> PICK d \in 1..MaxSleep :
          /\ idle' = IF idle = NotIdle THEN NotIdle ELSE Capped(idle + d)
          /\ unseen' = Capped(unseen + d)
          /\ vacant' = IF stations = 0 THEN Counted(vacant + d) ELSE 0
      BY <1>9 DEF Sleep
    <2>1. ApTypeOK'
      BY <1>9 DEF Sleep, Capped, Counted, ApTypeOK
    <2>2. IdleOK'
      BY <1>9 DEF Sleep, Capped, IdleOK, ApTypeOK
    <2>3. VacantOK'
      BY <1>9 DEF Sleep, Capped, Counted, VacantOK, Lagging, ApTypeOK
    <2> QED  BY <2>1, <2>2, <2>3
  <1>10. CASE UNCHANGED apVars
    BY <1>10 DEF apVars, ApTypeOK, IdleOK, VacantOK, Lagging
  <1> QED
    BY <1>1, <1>2, <1>3, <1>4, <1>5, <1>6, <1>7, <1>8, <1>9, <1>10
       DEF ApNext, Environment, ApGuardTask

(* So it always holds.                                                     *)
LEMMA ApInvariant == ApSpec => []ApIInv
  <1>1. ApInit => ApIInv
    BY ApInitIInv
  <1>2. ApIInv /\ [ApNext]_apVars => ApIInv'
    BY ApPreserved
  <1> QED  BY <1>1, <1>2, PTL DEF ApSpec

(* The table and the idle time stay in their bounds.                       *)
THEOREM ApTypeCorrect == ApSpec => []ApTypeOK
  <1>1. ApIInv => ApTypeOK
    BY DEF ApIInv
  <1> QED  BY <1>1, ApInvariant, PTL

(* On the way to the stop, no look of the whole idle time saw a station.   *)
THEOREM ApStopsOnlyUnused == ApSpec => []StopsOnlyUnused
  <1>1. ApIInv => StopsOnlyUnused
    BY ApAssumption DEF ApIInv, IdleOK, StopsOnlyUnused, ApTypeOK, NotIdle
  <1> QED  BY <1>1, ApInvariant, PTL

(* An access point without stations does not outlive the idle time and two *)
(* sleeps.                                                                 *)
THEOREM ApStopsInTime == ApSpec => []IdleApStops
  <1>1. ApIInv => IdleApStops
    BY ApAssumption DEF ApIInv, VacantOK, Lagging, IdleApStops, VacantMax, ApTypeOK
  <1> QED  BY <1>1, ApInvariant, PTL

-----------------------------------------------------------------------------
(* Gestures.                                                               *)

(* Buttons this turn of the task has still to treat.                       *)
Ahead == CASE turn = "PWR" -> Button [] turn = "BOOT" -> {"BOOT"} [] OTHER -> {}

(* A press is timed from a look after the last one that found the button   *)
(* up.                                                                     *)
TimedOK ==
  turn # "off" => \A x \in Button :
    /\ gesture[x].armed => sinceUp[x] <= Hold[x]
    /\ x \in Ahead /\ x \notin look => sinceUp[x] = 0
    /\ gesture[x].pressed /\ (x \in Ahead => x \in look) => gesture[x].held <= sinceUp[x]

(* What can still act has not acted.                                       *)
DeedsOK ==
  /\ \A x \in Button : deeds[x] \in 0..1
  /\ turn # "off" => \A x \in Button :
       /\ gesture[x].pressed /\ ~gesture[x].done => deeds[x] = 0
       /\ gesture[x].armed /\ ~gesture[x].pressed =>
            /\ x \notin Ahead => sinceUp[x] = 0
            /\ x \in Ahead /\ x \in look => deeds[x] = 0

(* The invariant.                                                          *)
GestureIInv == GestureTypeOK /\ TimedOK /\ DeedsOK

(* How long a press must last, and how time is counted.                    *)
LEMMA HoldIsNat == Hold \in [Button -> Nat]
  BY GestureAssumption DEF Hold, Button

LEMMA CountCounts ==
  ASSUME NEW x \in Button, NEW t \in Nat
  PROVE  /\ Count(x, t) \in 0..Hold[x] /\ Count(x, t) <= t
         /\ \A u \in Nat : t <= u => Count(x, t) <= Count(x, u)
  BY HoldIsNat DEF Count

(* Before the first look.                                                  *)
LEMMA GestureInitIInv == GestureInit => GestureIInv
  BY HoldIsNat
     DEF GestureInit, GestureIInv, GestureTypeOK, Gesture, Fresh, Never, TimedOK, DeedsOK,
                   Ahead, Button

(* What a look makes of the gesture of a button that is down, and up.      *)
LEMMA DownLook ==
  ASSUME NEW x \in Button, NEW g \in Gesture,
         g.held \in 0..Hold[x], g.pressed => g.armed, g.done => g.pressed,
         NEW h, h = Lasting(x, g)
  PROVE  /\ h \in Gesture
         /\ h.held \in 0..Hold[x]
         /\ h.pressed => h.armed
         /\ h.done => h.pressed
         /\ h.armed = g.armed
         /\ h.armed => h.pressed
         /\ h.held <= g.held
         /\ h.pressed /\ ~h.done /\ g.pressed => ~g.done
         /\ LongNow(x, g) => h.done
<1>0. /\ Hold[x] \in Nat /\ g.held \in Nat
      /\ g.armed \in BOOLEAN /\ g.pressed \in BOOLEAN /\ g.done \in BOOLEAN
  BY HoldIsNat DEF Gesture
<1>1. CASE LongNow(x, g)
  <2>1. h = [g EXCEPT !.done = TRUE] /\ g.pressed /\ ~g.done
    BY <1>1 DEF LongNow, Lasting
  <2>2. h = [armed |-> g.armed, pressed |-> g.pressed, done |-> TRUE, held |-> g.held]
    BY <2>1 DEF Gesture
  <2>3. /\ h \in Gesture /\ h.armed = g.armed /\ h.pressed = g.pressed /\ h.done
        /\ h.held = g.held
    BY <2>2, <1>0 DEF Gesture
  <2> QED  BY <2>1, <2>3, <1>0
<1>2. CASE ~LongNow(x, g) /\ g.armed /\ ~g.pressed
  <2>1. h = [g EXCEPT !.pressed = TRUE, !.held = 0]
    BY <1>2 DEF Lasting, Begun
  <2>2. h = [armed |-> g.armed, pressed |-> TRUE, done |-> g.done, held |-> 0]
    BY <2>1 DEF Gesture
  <2>3. /\ h \in Gesture /\ h.armed = g.armed /\ h.pressed /\ h.done = g.done
        /\ h.held = 0
    BY <2>2, <1>0 DEF Gesture
  <2> QED  BY <2>3, <1>0, <1>2
<1>3. CASE ~LongNow(x, g) /\ ~(g.armed /\ ~g.pressed)
  BY <1>3, HoldIsNat DEF Lasting, Begun, Gesture
<1> QED  BY <1>1, <1>2, <1>3

LEMMA UpLook ==
  ASSUME NEW x \in Button, NEW g
  PROVE  LET h == Released(g) IN
         /\ h \in Gesture
         /\ h.armed /\ ~h.pressed /\ ~h.done /\ h.held = 0 /\ h.held \in 0..Hold[x]
  BY HoldIsNat DEF Released, Gesture

(* A turn of a button: with nothing done, or with a deed a gesture allows. *)
(* What a turn of a button may do.                                         *)
Acts(x) ==
  \/ UNCHANGED deeds
  \/ /\ deeds' = [deeds EXCEPT ![x] = @ + 1]
     /\ \/ x \notin look /\ ShortNow(gesture[x])
        \/ x \in look /\ LongNow(x, gesture[x])

TurnOf(x) ==
  /\ turn = x /\ Update(x) /\ Acts(x)
  /\ turn' \in {"off"} \cup IF x = "PWR" THEN {"BOOT"} ELSE {"sleep"}
  /\ last' \in [button : Button, kind : {"none", "toggle", "off", "reset"}]
  /\ UNCHANGED <<down, look, sinceUp>>

(* The five actions of the buttons are such turns.                         *)
LEMMA EveryTurn ==
  ASSUME GestureIInv
  PROVE  /\ PowerNothing \/ PowerShort \/ PowerLong => TurnOf("PWR")
         /\ ResetNothing \/ ResetLong => TurnOf("BOOT")
  BY DEF PowerNothing, PowerShort, PowerLong, ResetNothing, ResetLong, TurnOf, Acts, Deed,
         GestureIInv, GestureTypeOK, Button

(* The turn of a button keeps the invariant,                               *)
LEMMA TurnOfKeepsIInv ==
  ASSUME GestureIInv, NEW x \in Button, TurnOf(x)
  PROVE  GestureIInv'
<1> USE DEF GestureIInv
<1>1. Hold \in [Button -> Nat] /\ gesture \in [Button -> Gesture] /\ gesture[x] \in Gesture
      /\ deeds \in [Button -> Nat] /\ turn # "off" /\ x \in Ahead
  BY HoldIsNat DEF GestureTypeOK, TurnOf, Ahead, Button
<1>2. /\ gesture' = [gesture EXCEPT ![x] = IF x \in look THEN Lasting(x, gesture[x])
                                                    ELSE Released(gesture[x])]
      /\ gesture'[x] = IF x \in look THEN Lasting(x, gesture[x]) ELSE Released(gesture[x])
      /\ \A c \in Button : c # x => gesture'[c] = gesture[c]
  BY <1>1 DEF TurnOf, Update
<1>3. /\ x \in look => /\ gesture'[x] = Lasting(x, gesture[x])
                       /\ gesture'[x].armed = gesture[x].armed
                       /\ gesture'[x].armed => gesture'[x].pressed
                       /\ gesture'[x].held <= gesture[x].held
                       /\ gesture'[x].pressed /\ ~gesture'[x].done /\ gesture[x].pressed
                            => ~gesture[x].done
                       /\ LongNow(x, gesture[x]) => gesture'[x].done
      /\ x \notin look => gesture'[x].armed /\ ~gesture'[x].pressed
      /\ gesture'[x] \in Gesture
      /\ gesture'[x].held \in 0..Hold[x]
      /\ gesture'[x].pressed => gesture'[x].armed
      /\ gesture'[x].done => gesture'[x].pressed
  <2>1. /\ gesture[x].held \in 0..Hold[x]
        /\ gesture[x].pressed => gesture[x].armed
        /\ gesture[x].done => gesture[x].pressed
    BY DEF GestureTypeOK
  <2>2. CASE x \in look
    <3>1. gesture'[x] = Lasting(x, gesture[x])
      BY <2>2, <1>2
    <3> QED  BY <2>1, <2>2, <1>1, <3>1, DownLook
  <2>3. CASE x \notin look
    BY <2>3, <1>2, UpLook
  <2> QED  BY <2>2, <2>3
<1>4. /\ deeds' \in [Button -> Nat]
      /\ \A c \in Button : c # x => deeds'[c] = deeds[c]
      /\ deeds'[x] = deeds[x] \/ /\ deeds'[x] = deeds[x] + 1
                                 /\ gesture[x].pressed /\ ~gesture[x].done
                                 /\ x \in look => LongNow(x, gesture[x])
  BY <1>1 DEF TurnOf, Acts, ShortNow, LongNow
<1>5. GestureTypeOK'
  <2>1. gesture' \in [Button -> Gesture]
    BY <1>1, <1>2, <1>3
  <2>2. \A c \in Button : /\ gesture'[c].held \in 0..Hold[c]
                          /\ gesture'[c].pressed => gesture'[c].armed
                          /\ gesture'[c].done => gesture'[c].pressed
                          /\ sinceUp'[c] \in 0..Never(c)
    BY <1>2, <1>3 DEF GestureTypeOK, TurnOf
  <2> QED  BY <1>4, <2>1, <2>2 DEF GestureTypeOK, TurnOf
<1>6. \A c \in Button : c # x => (c \in Ahead' <=> c \in Ahead) \/ turn' = "off"
  BY DEF TurnOf, Ahead, Button
<1>7. x \notin Ahead'
  BY DEF TurnOf, Ahead, Button
<1>8. TimedOK'
  <2> SUFFICES ASSUME turn' # "off", NEW c \in Button
               PROVE  /\ gesture'[c].armed => sinceUp[c] <= Hold[c]
                      /\ c \in Ahead' /\ c \notin look => sinceUp[c] = 0
                      /\ gesture'[c].pressed /\ (c \in Ahead' => c \in look)
                           => gesture'[c].held <= sinceUp[c]
    BY DEF TimedOK, TurnOf
  <2>1. CASE c # x
    BY <2>1, <1>1, <1>2, <1>6 DEF TimedOK
  <2>2. CASE c = x /\ x \notin look
    BY <2>2, <1>1, <1>3, <1>7 DEF TimedOK
  <2>3. CASE c = x /\ x \in look
    <3>1. gesture'[x].armed => sinceUp[x] <= Hold[x]
      BY <2>3, <1>1, <1>3 DEF TimedOK
    <3>2. gesture'[x].pressed => gesture'[x].held <= sinceUp[x]
      <4>1. CASE gesture[x].pressed
        <5>1. gesture[x].held <= sinceUp[x] /\ gesture[x].held \in Nat /\ sinceUp[x] \in Nat
          BY <4>1, <2>3, <1>1 DEF TimedOK, GestureTypeOK, Never
        <5> QED  BY <5>1, <2>3, <1>1, <1>3
      <4>2. CASE ~gesture[x].pressed
        <5>1. gesture'[x].pressed => gesture'[x].held = 0
          BY <4>2, <2>3, <1>1, <1>3 DEF Lasting, LongNow, Begun, Gesture
        <5> QED  BY <5>1, <1>1 DEF GestureTypeOK, Never
      <4> QED  BY <4>1, <4>2
    <3> QED  BY <3>1, <3>2, <2>3, <1>7
  <2> QED  BY <2>1, <2>2, <2>3
<1>9. DeedsOK'
  <2>1. \A c \in Button : deeds'[c] \in 0..1
    BY <1>1, <1>4 DEF DeedsOK
  <2> SUFFICES ASSUME turn' # "off", NEW c \in Button
               PROVE  /\ gesture'[c].pressed /\ ~gesture'[c].done => deeds'[c] = 0
                      /\ gesture'[c].armed /\ ~gesture'[c].pressed =>
                           /\ c \notin Ahead' => sinceUp[c] = 0
                           /\ c \in Ahead' /\ c \in look => deeds'[c] = 0
    BY <2>1 DEF DeedsOK, TurnOf
  <2>2. CASE c # x
    BY <2>2, <1>1, <1>2, <1>4, <1>6 DEF DeedsOK
  <2>3. CASE c = x /\ x \notin look
    BY <2>3, <1>1, <1>3, <1>7 DEF TimedOK
  <2>4. CASE c = x /\ x \in look
    <3>1. gesture'[x].armed => gesture'[x].pressed
      BY <2>4, <1>3
    <3>2. ASSUME gesture'[x].pressed, ~gesture'[x].done
          PROVE  deeds'[x] = 0
      <4>1. ~LongNow(x, gesture[x]) /\ deeds'[x] = deeds[x]
        BY <3>2, <2>4, <1>3, <1>4
      <4>2. gesture[x].armed /\ (gesture[x].pressed => ~gesture[x].done)
        BY <3>2, <2>4, <1>3
      <4> QED  BY <4>1, <4>2, <2>4, <1>1 DEF DeedsOK
    <3> QED  BY <3>1, <3>2, <2>4, <1>7
  <2> QED  BY <2>2, <2>3, <2>4
<1> QED  BY <1>5, <1>8, <1>9

(* a look keeps it, however late,                                          *)
LEMMA WakeKeepsIInv ==
  ASSUME GestureIInv, Wake
  PROVE  GestureIInv'
<1> USE DEF GestureIInv
<1>1. PICK d \in 1..MaxPoll :
        /\ gesture' = [x \in Button |->
             [gesture[x] EXCEPT !.held = IF gesture[x].pressed THEN Count(x, @ + d) ELSE 0]]
        /\ sinceUp' = [x \in Button |->
             IF x \notin down THEN 0
             ELSE IF sinceUp[x] = Never(x) THEN Never(x) ELSE Count(x, sinceUp[x] + d)]
        /\ deeds' = [x \in Button |-> IF x \in down /\ sinceUp[x] = 0 THEN 0 ELSE deeds[x]]
  BY DEF Wake
<1>2. /\ turn = "sleep" /\ turn' = "PWR" /\ look' = down /\ UNCHANGED <<down, last>>
      /\ d \in Nat /\ Hold \in [Button -> Nat] /\ gesture \in [Button -> Gesture]
      /\ deeds \in [Button -> Nat] /\ Ahead = {} /\ Ahead' = Button
  BY HoldIsNat, GestureAssumption DEF Wake, GestureTypeOK, Ahead
<1>3. ASSUME NEW x \in Button
      PROVE  /\ gesture'[x] \in Gesture
             /\ gesture'[x].armed = gesture[x].armed
             /\ gesture'[x].pressed = gesture[x].pressed
             /\ gesture'[x].done = gesture[x].done
             /\ gesture'[x].held \in 0..Hold[x]
             /\ gesture'[x].held = IF gesture[x].pressed THEN Count(x, gesture[x].held + d) ELSE 0
  <2> DEFINE n == IF gesture[x].pressed THEN Count(x, gesture[x].held + d) ELSE 0
  <2>1. gesture[x] \in Gesture /\ gesture[x].held \in Nat
    BY <1>2 DEF Gesture
  <2>2. n \in Nat /\ n \in 0..Hold[x]
    BY <2>1, <1>2, CountCounts
  <2>3. gesture'[x] = [gesture[x] EXCEPT !.held = n]
    BY <1>1
  <2> HIDE DEF n
  <2>4. /\ gesture'[x] \in Gesture
        /\ gesture'[x].armed = gesture[x].armed
        /\ gesture'[x].pressed = gesture[x].pressed
        /\ gesture'[x].done = gesture[x].done
        /\ gesture'[x].held = n
    BY <2>1, <2>2, <2>3 DEF Gesture
  <2> QED  BY <2>2, <2>4 DEF n
<1>4. ASSUME NEW x \in Button
      PROVE  /\ x \notin down => sinceUp'[x] = 0
             /\ x \in down /\ sinceUp[x] = Never(x) => sinceUp'[x] = Never(x)
             /\ x \in down /\ sinceUp[x] # Never(x) =>
                  sinceUp'[x] = Count(x, sinceUp[x] + d) /\ sinceUp'[x] \in 0..Hold[x]
             /\ sinceUp[x] \in Nat /\ sinceUp'[x] \in 0..Never(x)
  BY <1>1, <1>2, CountCounts DEF GestureTypeOK, Never
<1>5. GestureTypeOK'
  <2>1. gesture' \in [Button -> Gesture]
    BY <1>1, <1>3
  <2>2. deeds' \in [Button -> Nat]
    BY <1>1, <1>2
  <2> QED  BY <1>2, <1>3, <1>4, <2>1, <2>2 DEF GestureTypeOK
<1>6. TimedOK'
  <2> SUFFICES ASSUME NEW x \in Button
               PROVE  /\ gesture[x].armed => sinceUp'[x] <= Hold[x]
                      /\ x \notin down => sinceUp'[x] = 0
                      /\ gesture[x].pressed /\ x \in down => gesture'[x].held <= sinceUp'[x]
    BY <1>2, <1>3 DEF TimedOK
  <2>1. gesture[x].armed => sinceUp[x] <= Hold[x] /\ sinceUp[x] # Never(x)
    BY <1>2, <1>4 DEF TimedOK, Never
  <2>2. ASSUME gesture[x].pressed, x \in down
        PROVE  gesture'[x].held <= sinceUp'[x]
    <3>1. gesture[x].held <= sinceUp[x] /\ gesture[x].armed
      BY <2>2, <1>2 DEF TimedOK, GestureTypeOK
    <3>2. gesture[x].held + d \in Nat /\ sinceUp[x] + d \in Nat
          /\ gesture[x].held + d <= sinceUp[x] + d
      BY <3>1, <1>2, <1>4 DEF GestureTypeOK
    <3>3. Count(x, gesture[x].held + d) <= Count(x, sinceUp[x] + d)
      BY <3>2, CountCounts
    <3> QED  BY <2>1, <2>2, <3>1, <3>3, <1>3, <1>4
  <2> QED  BY <2>1, <2>2, <1>2, <1>4
<1>7. DeedsOK'
  <2> SUFFICES ASSUME NEW x \in Button
               PROVE  /\ deeds'[x] \in 0..1
                      /\ gesture[x].pressed /\ ~gesture[x].done => deeds'[x] = 0
                      /\ gesture[x].armed /\ ~gesture[x].pressed /\ x \in down => deeds'[x] = 0
    BY <1>2, <1>3 DEF DeedsOK
  <2> QED  BY <1>1, <1>2 DEF DeedsOK
<1> QED  BY <1>5, <1>6, <1>7

(* and so do presses and a restart.                                        *)
LEMMA OthersKeepIInv ==
  ASSUME GestureIInv, \/ \E x \in Button : Push(x) \/ LetGo(x)
               \/ StartAgain
               \/ UNCHANGED gestureVars
  PROVE  GestureIInv'
<1> USE DEF GestureIInv
<1>1. CASE \E x \in Button : Push(x) \/ LetGo(x)
  BY <1>1 DEF Push, LetGo, GestureTypeOK, TimedOK, DeedsOK, Ahead
<1>2. CASE StartAgain
  BY <1>2, HoldIsNat
     DEF StartAgain, Fresh, Gesture, Never, GestureTypeOK, TimedOK, DeedsOK, Ahead
<1>3. CASE UNCHANGED gestureVars
  BY <1>3 DEF gestureVars, GestureTypeOK, TimedOK, DeedsOK, Ahead
<1> QED  BY <1>1, <1>2, <1>3

(* All the actions.                                                        *)
LEMMA GesturePreserved == GestureIInv /\ [GestureNext]_gestureVars => GestureIInv'
<1> SUFFICES ASSUME GestureIInv, [GestureNext]_gestureVars PROVE GestureIInv'
  OBVIOUS
<1>1. CASE PowerNothing \/ PowerShort \/ PowerLong \/ ResetNothing \/ ResetLong
  BY <1>1, EveryTurn, TurnOfKeepsIInv DEF Button
<1>2. CASE Wake
  BY <1>2, WakeKeepsIInv
<1>3. CASE (\E x \in Button : Push(x) \/ LetGo(x)) \/ StartAgain \/ UNCHANGED gestureVars
  BY <1>3, OthersKeepIInv
<1> QED  BY <1>1, <1>2, <1>3 DEF GestureNext

(* So it always holds.                                                     *)
LEMMA GestureInvariant == GestureSpec => []GestureIInv
  BY GestureInitIInv, GesturePreserved, PTL DEF GestureSpec

(* A press of a button does one thing at most, for every order of presses, *)
(* late looks, failing requests and restarts.                              *)
THEOREM OneDeed == GestureSpec => []OneDeedPerPress
<1>1. GestureIInv => OneDeedPerPress
  BY DEF GestureIInv, DeedsOK, OneDeedPerPress
<1> QED  BY <1>1, GestureInvariant, PTL

(* Nothing is erased or switched off by a press that was not seen to last  *)
(* the whole time, from its begin.                                         *)
THEOREM HeldThroughout == GestureSpec => HeldLongEnough
<1>1. GestureIInv /\ [GestureNext]_gestureVars => [OnlyWhenHeld]_gestureVars
  <2> SUFFICES ASSUME GestureIInv, GestureNext, NEW x \in Button,
                      deeds'[x] > deeds[x], last'.kind # "toggle"
               PROVE  sinceUp[x] = Hold[x]
    BY DEF gestureVars, OnlyWhenHeld
  <2>0. deeds \in [Button -> Nat]
    BY DEF GestureIInv, GestureTypeOK
  <2>1. CASE PowerLong \/ ResetLong
    <3>1. x = turn /\ x \in Ahead /\ x \in look /\ LongNow(x, gesture[x]) /\ turn # "off"
      BY <2>0, <2>1 DEF PowerLong, ResetLong, Deed, Ahead, Button
    <3>2. gesture[x].armed /\ gesture[x].held = Hold[x]
      BY <3>1 DEF LongNow, GestureIInv, GestureTypeOK
    <3>3. sinceUp[x] <= Hold[x] /\ Hold[x] <= sinceUp[x] /\ sinceUp[x] \in Nat /\ Hold[x] \in Nat
      BY <3>1, <3>2, HoldIsNat DEF GestureIInv, TimedOK, LongNow, GestureTypeOK, Never
    <3> QED  BY <3>3
  <2>2. CASE PowerShort
    BY <2>2 DEF PowerShort, Deed
  <2>3. CASE Wake
    BY <2>0, <2>3 DEF Wake, GestureIInv, DeedsOK
  <2>4. CASE UNCHANGED deeds
    BY <2>0, <2>4
  <2> QED  BY <2>1, <2>2, <2>3, <2>4 DEF GestureNext, Push, LetGo, PowerNothing, ResetNothing,
                                         StartAgain
<1> QED  BY <1>1, GestureInvariant, PTL DEF GestureSpec, HeldLongEnough

-----------------------------------------------------------------------------
(* DisplayPower.                                                           *)

(* The history of a press follows the debounced button until the press     *)
(* counts; a button that was down at the start is pressed already.         *)
PressOK ==
  /\ press.down => raw
  /\ raw /\ ~press.down => pressed
  /\ press.down /\ ~pressed => press.for = rawAge /\ (lit => press.lit)

(* The reveal time began when somebody asked; the turn that hides the      *)
(* password is the next one after its end.                                 *)
RevealOK ==
  /\ revealLeft > 0 => asked + revealLeft <= Reveal
  /\ visible /\ revealLeft = 0 => asked < Reveal + sinceTurn

(* The switches of the display,                                            *)
DisplayFlags ==
  /\ wakeDown \in BOOLEAN /\ raw \in BOOLEAN /\ pressed \in BOOLEAN
  /\ lit \in BOOLEAN /\ visible \in BOOLEAN

(* its times,                                                              *)
DisplayTimes ==
  /\ rawAge \in 0..Debounce /\ revealLeft \in 0..Reveal /\ idleFor \in 0..IdleOff
  /\ sinceTurn \in 0..MaxTurn /\ asked \in 0..LongAgo

(* and the press in progress.                                              *)
PressType == press \in [for : 0..Debounce, down : BOOLEAN, lit : BOOLEAN]

(* The invariant.                                                          *)
DisplayIInv == DisplayFlags /\ DisplayTimes /\ PressType /\ PressOK /\ RevealOK

(* The screen starts dark, with no password on it.                         *)
LEMMA DisplayInitIInv == DisplayInit => DisplayIInv
<1> SUFFICES ASSUME DisplayInit PROVE DisplayIInv
  OBVIOUS
<1>1. DisplayFlags
  BY Zenon DEF DisplayInit, DisplayFlags
<1>2. DisplayTimes
  BY DisplayAssumption DEF DisplayInit, DisplayTimes, LongAgo
<1>3. PressType
  BY DisplayAssumption DEF DisplayInit, PressType, NotPressed
<1>4. PressOK
  BY DEF DisplayInit, PressOK, NotPressed
<1>5. RevealOK
  BY DEF DisplayInit, RevealOK
<1> QED  BY <1>1, <1>2, <1>3, <1>4, <1>5 DEF DisplayIInv

(* A tick of the clock, with the button up or down.                        *)
LEMMA TimePassesIInv ==
  ASSUME DisplayIInv, TimePasses
  PROVE  DisplayIInv'
<1> USE DisplayAssumption DEF DisplayIInv
<1>1. DisplayFlags'
  BY DEF TimePasses, DisplayFlags
<1>2. DisplayTimes'
  BY DEF TimePasses, DisplayTimes, UpTo, LongAgo
<1>3. PressType'
  BY DEF TimePasses, PressType, UpTo
<1>4. PressOK'
  BY DEF TimePasses, PressOK, PressType, UpTo
<1>5. RevealOK'
  BY DEF TimePasses, RevealOK, DisplayTimes, UpTo, LongAgo
<1> QED  BY <1>1, <1>2, <1>3, <1>4, <1>5

(* A turn of the task: it debounces, reveals, hides and dims.              *)
LEMMA TurnIInv ==
  ASSUME DisplayIInv, Turn
  PROVE  DisplayIInv'
<1> USE DisplayAssumption DEF DisplayIInv
<1> DEFINE newPress == pressed' /\ ~pressed
           idleNow     == IF newPress THEN 0 ELSE idleFor
           goesDark == (lit \/ newPress) /\ idleNow >= IdleOff
<1>0. /\ sinceTurn' = 0 /\ raw' = wakeDown /\ wakeDown' = wakeDown
      /\ rawAge' = IF wakeDown # raw THEN 0 ELSE rawAge
      /\ pressed' = IF rawAge' >= Debounce THEN wakeDown ELSE pressed
      /\ idleFor' = idleNow
      /\ revealLeft' = IF (newPress /\ lit) THEN Reveal ELSE revealLeft
      /\ lit' = ((lit \/ newPress) /\ ~goesDark)
      /\ visible' = ((visible \/ (newPress /\ lit)) /\ revealLeft' > 0 /\ ~goesDark)
      /\ press' = IF ~wakeDown THEN NotPressed
                  ELSE IF press.down THEN press ELSE [for |-> 0, down |-> TRUE, lit |-> lit]
      /\ asked' = IF press'.lit /\ press'.for >= Debounce THEN 0 ELSE asked
  BY DEF Turn, Reveals
<1>1. DisplayFlags'
  BY <1>0, Zenon DEF DisplayFlags
<1>2. DisplayTimes'
  BY <1>0 DEF DisplayTimes, LongAgo
<1>3. PressType'
  BY <1>0 DEF PressType, NotPressed, DisplayFlags
<1>4. (newPress /\ lit) => asked' = 0
  BY <1>0 DEF PressOK, PressType, DisplayFlags, DisplayTimes, NotPressed
<1>5. PressOK'
  BY <1>0 DEF PressOK, PressType, DisplayFlags, DisplayTimes, NotPressed
<1>6. RevealOK'
  <2>1. visible' => revealLeft' > 0
    BY <1>0, Zenon
  <2>2. asked' = 0 \/ (asked' = asked /\ revealLeft' = revealLeft)
    BY <1>0, <1>4
  <2>3. revealLeft' \in 0 .. Reveal
    BY <1>2 DEF DisplayTimes
  <2> QED  BY <2>1, <2>2, <2>3 DEF RevealOK
<1> QED  BY <1>1, <1>2, <1>3, <1>5, <1>6

(* These, the button, and a rotation of the credentials.                   *)
LEMMA DisplayPreserved ==
  ASSUME DisplayIInv, [DisplayNext]_displayVars
  PROVE  DisplayIInv'
<1>1. ASSUME NEW reveal \in BOOLEAN, UpdateCredentials(reveal)
      PROVE  DisplayIInv'
  <2>1. DisplayFlags'
    BY <1>1, Zenon DEF UpdateCredentials, DisplayIInv, DisplayFlags
  <2>2. DisplayTimes' /\ RevealOK'
    BY <1>1, DisplayAssumption
       DEF UpdateCredentials, DisplayIInv, DisplayTimes, RevealOK, LongAgo
  <2>3. PressType' /\ PressOK'
    BY <1>1 DEF UpdateCredentials, DisplayIInv, PressType, PressOK
  <2> QED  BY <2>1, <2>2, <2>3 DEF DisplayIInv
<1>2. CASE WakeButton
  <2>1. DisplayFlags'
    BY <1>2, Zenon DEF WakeButton, DisplayIInv, DisplayFlags
  <2>2. (DisplayTimes /\ PressType /\ PressOK /\ RevealOK)'
    BY <1>2 DEF WakeButton, DisplayIInv, DisplayTimes, PressType, PressOK, RevealOK
  <2> QED  BY <2>1, <2>2 DEF DisplayIInv
<1>3. CASE UNCHANGED displayVars
  BY <1>3
     DEF displayVars, DisplayIInv, DisplayFlags, DisplayTimes, PressType, PressOK, RevealOK
<1> QED
  BY <1>1, <1>2, <1>3, TimePassesIInv, TurnIInv DEF DisplayNext

(* So it always holds.                                                     *)
LEMMA DisplayInvariant == DisplaySpec => []DisplayIInv
  BY DisplayInitIInv, DisplayPreserved, PTL DEF DisplaySpec

(* No time is counted beyond its bound.                                    *)
THEOREM DisplayTypeCorrect == DisplaySpec => []DisplayTypeOK
<1>1. DisplayIInv => DisplayTypeOK
  BY DEF DisplayIInv, DisplayFlags, DisplayTimes, PressType, DisplayTypeOK
<1> QED  BY <1>1, DisplayInvariant, PTL

(* The password is on the lit screen only for the reveal time and a turn   *)
(* of the task.                                                            *)
THEOREM RevealIsShort == DisplaySpec => []RevealEnds
<1>1. DisplayIInv => RevealEnds
  BY DisplayAssumption DEF DisplayIInv, DisplayTimes, RevealOK, RevealEnds, LongAgo
<1> QED  BY <1>1, DisplayInvariant, PTL

-----------------------------------------------------------------------------
(* Limits.                                                                 *)

(* What was accepted since a moment is no less than since a later one.     *)
Growing(since) == \A i, j \in Ticks : i <= j => since[i] <= since[j]

(* A window that has not ended counts what was accepted since it began;    *)
(* what came before it, and whatever an ended one leaves, is within one    *)
(* budget.                                                                 *)
WindowOK(since, age, counted, budget) ==
  /\ since \in [Ticks -> Nat] /\ Growing(since)
  /\ age < Window => since[age] = counted /\ since[Window - 1] <= counted + budget
  /\ age = Window => since[0] = 0 /\ since[Window - 1] <= budget

(* The three windows: frames and bytes of the input, requests of HTTP.     *)
LimitIInv ==
  /\ LimitTypeOK
  /\ input.frames = 0 => input.bytes = 0
  /\ WindowOK(accepted["frames"], input.age, input.frames, MaxFrames)
  /\ WindowOK(accepted["bytes"], input.age, input.bytes, MaxFrameBytes)
  /\ WindowOK(accepted["requests"], http.age, http.requests, MaxRequests)

(* A tick makes every window older,                                        *)
LEMMA WindowTicks ==
  ASSUME NEW since, NEW age \in 0..Window, NEW counted \in Nat, NEW budget \in Nat,
         WindowOK(since, age, counted, budget), counted <= budget,
         NEW later, later = [i \in Ticks |-> IF i = 0 THEN 0 ELSE since[i - 1]]
  PROVE  WindowOK(later, Older(age), counted, budget)
<1> USE LimitAssumption DEF WindowOK, Ticks
<1>0. /\ 0 \in Ticks /\ Window - 1 \in Ticks /\ Window \in Nat \ {0}
      /\ \A i \in Ticks : i # 0 => i - 1 \in Ticks
      /\ \A i \in Ticks : since[i] \in Nat
  OBVIOUS
<1>1. later \in [Ticks -> Nat]
  BY <1>0
<1>2. Growing(later)
  BY <1>0 DEF Growing
<1>3. later[0] = 0 /\ later[Window - 1] <= since[Window - 1]
  BY <1>0 DEF Growing
<1>4. CASE age + 1 < Window
  <2>1. Older(age) = age + 1 /\ age \in Ticks /\ age + 1 \in Ticks
    BY <1>4 DEF Older
  <2>2. later[age + 1] = since[age]
    BY <2>1
  <2> QED  BY <1>1, <1>2, <1>3, <2>1, <2>2, <1>4, <1>0
<1>5. CASE age + 1 = Window
  <2>1. Older(age) = Window /\ age = Window - 1
    BY <1>5, <1>0 DEF Older
  <2> QED  BY <1>1, <1>2, <1>3, <2>1, <1>0
<1>6. CASE age = Window
  <2>1. Older(age) = Window
    BY <1>6 DEF Older
  <2> QED  BY <1>1, <1>2, <1>3, <2>1, <1>6, <1>0
<1> QED  BY <1>4, <1>5, <1>6

(* a window that ended is followed by an empty one,                        *)
LEMMA WindowBegins ==
  ASSUME NEW since, NEW counted, NEW budget \in Nat, WindowOK(since, Window, counted, budget)
  PROVE  WindowOK(since, 0, 0, budget)
  BY LimitAssumption DEF WindowOK, Ticks

(* and what is accepted counts in all windows that have begun.             *)
LEMMA WindowCounts ==
  ASSUME NEW since, NEW age \in 0..Window, NEW counted \in Nat, NEW budget \in Nat, NEW n \in Nat,
         age < Window, WindowOK(since, age, counted, budget)
  PROVE  WindowOK(More(since, n), age, counted + n, budget)
<1> USE LimitAssumption DEF WindowOK, Ticks, More
<1>1. age \in Ticks /\ Window - 1 \in Ticks /\ \A i \in Ticks : since[i] \in Nat
  OBVIOUS
<1>2. More(since, n) \in [Ticks -> Nat] /\ Growing(More(since, n))
  BY <1>1 DEF Growing
<1> QED  BY <1>1, <1>2

(* What a budget leaves: at most two budgets in any stretch of Window      *)
(* ticks, and nothing is counted after a silence that long.                *)
LEMMA WindowTotal ==
  ASSUME NEW since, NEW age \in 0..Window, NEW counted \in Nat, NEW budget \in Nat,
         WindowOK(since, age, counted, budget), counted <= budget
  PROVE  /\ since[Window - 1] <= 2 * budget
         /\ since[Window - 1] = 0 /\ age < Window => counted = 0
<1> USE LimitAssumption DEF WindowOK, Ticks
<1>1. since[Window - 1] \in Nat /\ 0 \in Ticks
  OBVIOUS
<1>2. age < Window => since[age] <= since[Window - 1] /\ since[age] \in Nat
  BY DEF Growing
<1> QED  BY <1>1, <1>2

(* Nothing was accepted yet.                                               *)
LEMMA LimitInitIInv == LimitInit => LimitIInv
<1> SUFFICES ASSUME LimitInit PROVE LimitIInv
  OBVIOUS
<1> USE LimitAssumption DEF LimitInit, Kind, Ticks
<1>1. LimitTypeOK
  BY DEF LimitTypeOK
<1>2. \A k \in Kind, budget \in Nat : WindowOK(accepted[k], Window, 0, budget)
  BY DEF WindowOK, Growing
<1> QED  BY <1>1, <1>2 DEF LimitIInv, LimitInit

(* The window that the next frame counts in,                               *)
LEMMA InputWindowOK ==
  ASSUME LimitIInv
  PROVE  /\ InputWindow \in [age : 0..Window, frames : 0..MaxFrames, bytes : 0..MaxFrameBytes]
         /\ InputWindow.age < Window
         /\ InputWindow.frames = 0 => InputWindow.bytes = 0
         /\ WindowOK(accepted["frames"], InputWindow.age, InputWindow.frames, MaxFrames)
         /\ WindowOK(accepted["bytes"], InputWindow.age, InputWindow.bytes, MaxFrameBytes)
<1> USE LimitAssumption DEF LimitIInv, LimitTypeOK
<1>1. CASE Ended(input.age)
  <2>1. input.age = Window /\ InputWindow = [age |-> 0, frames |-> 0, bytes |-> 0]
    BY <1>1 DEF Ended, InputWindow
  <2>2. /\ WindowOK(accepted["frames"], 0, 0, MaxFrames)
        /\ WindowOK(accepted["bytes"], 0, 0, MaxFrameBytes)
    BY <2>1, WindowBegins
  <2> QED  BY <2>1, <2>2
<1>2. CASE ~Ended(input.age)
  BY <1>2 DEF Ended, InputWindow
<1> QED  BY <1>1, <1>2

(* and the one of the next request.                                        *)
LEMMA HttpWindowOK ==
  ASSUME LimitIInv
  PROVE  /\ HttpWindow \in [age : 0..Window, requests : 0..MaxRequests]
         /\ HttpWindow.age < Window
         /\ WindowOK(accepted["requests"], HttpWindow.age, HttpWindow.requests, MaxRequests)
<1> USE LimitAssumption DEF LimitIInv, LimitTypeOK
<1>1. CASE Ended(http.age)
  <2>1. http.age = Window /\ HttpWindow = [age |-> 0, requests |-> 0]
    BY <1>1 DEF Ended, HttpWindow
  <2> QED  BY <2>1, WindowBegins
<1>2. CASE ~Ended(http.age)
  BY <1>2 DEF Ended, HttpWindow
<1> QED  BY <1>1, <1>2

(* Each action, and for each the windows.                                  *)
LEMMA LimitPreserved ==
  ASSUME LimitIInv, [LimitNext]_limitVars
  PROVE  LimitIInv'
<1> USE LimitAssumption
<1>0. /\ "frames" \in Kind /\ "bytes" \in Kind /\ "requests" \in Kind
      /\ accepted \in [Kind -> [Ticks -> Nat]]
  BY DEF Kind, LimitIInv, LimitTypeOK
<1>1. CASE Tick
  <2>1. /\ input'.age = Older(input.age) /\ input'.frames = input.frames
        /\ input'.bytes = input.bytes
        /\ http'.age = Older(http.age) /\ http'.requests = http.requests
    BY <1>1 DEF Tick, LimitIInv, LimitTypeOK
  <2>2. \A k \in Kind : accepted'[k] = [i \in Ticks |-> IF i = 0 THEN 0 ELSE accepted[k][i - 1]]
    BY <1>1 DEF Tick
  <2>3. /\ input.age \in 0..Window /\ input.frames \in 0..MaxFrames
        /\ input.bytes \in 0..MaxFrameBytes
        /\ http.age \in 0..Window /\ http.requests \in 0..MaxRequests
    BY DEF LimitIInv, LimitTypeOK
  <2>4. WindowOK(accepted'["frames"], input'.age, input'.frames, MaxFrames)
    <3>1. input.frames \in Nat /\ input.frames <= MaxFrames /\ MaxFrames \in Nat
      BY <2>3
    <3>2. WindowOK(accepted["frames"], input.age, input.frames, MaxFrames)
      BY DEF LimitIInv
    <3>3. WindowOK(accepted'["frames"], Older(input.age), input.frames, MaxFrames)
      BY <3>1, <3>2, <1>0, <2>2, <2>3, WindowTicks
    <3> QED  BY <3>3, <2>1
  <2>5. WindowOK(accepted'["bytes"], input'.age, input'.bytes, MaxFrameBytes)
    <3>1. input.bytes \in Nat /\ input.bytes <= MaxFrameBytes /\ MaxFrameBytes \in Nat
      BY <2>3
    <3>2. WindowOK(accepted["bytes"], input.age, input.bytes, MaxFrameBytes)
      BY DEF LimitIInv
    <3>3. WindowOK(accepted'["bytes"], Older(input.age), input.bytes, MaxFrameBytes)
      BY <3>1, <3>2, <1>0, <2>2, <2>3, WindowTicks
    <3> QED  BY <3>3, <2>1
  <2>6. WindowOK(accepted'["requests"], http'.age, http'.requests, MaxRequests)
    <3>1. http.requests \in Nat /\ http.requests <= MaxRequests /\ MaxRequests \in Nat
      BY <2>3
    <3>2. WindowOK(accepted["requests"], http.age, http.requests, MaxRequests)
      BY DEF LimitIInv
    <3>3. WindowOK(accepted'["requests"], Older(http.age), http.requests, MaxRequests)
      BY <3>1, <3>2, <1>0, <2>2, <2>3, WindowTicks
    <3> QED  BY <3>3, <2>1
  <2>7. LimitTypeOK'
    <3>1. input' \in [age : 0..Window, frames : 0..MaxFrames, bytes : 0..MaxFrameBytes]
      BY <1>1 DEF Tick, LimitIInv, LimitTypeOK, Older
    <3>2. http' \in [age : 0..Window, requests : 0..MaxRequests]
      BY <1>1 DEF Tick, LimitIInv, LimitTypeOK, Older
    <3>3. accepted' \in [Kind -> [Ticks -> Nat]]
      <4>1. \A k \in Kind, i \in Ticks : i # 0 => accepted[k][i - 1] \in Nat
        BY <1>0 DEF Ticks
      <4> QED  BY <1>1, <4>1 DEF Tick
    <3> QED  BY <3>1, <3>2, <3>3 DEF LimitTypeOK
  <2> QED  BY <2>1, <2>4, <2>5, <2>6, <2>7 DEF LimitIInv
<1>2. ASSUME NEW len \in 1..FrameMax, AcceptFrame(len)
      PROVE  LimitIInv'
  <2> DEFINE w == InputWindow
  <2>1. /\ w.age \in 0..Window /\ w.frames \in 0..MaxFrames /\ w.bytes \in 0..MaxFrameBytes
        /\ w.age < Window /\ w.frames < MaxFrames /\ w.bytes + len <= MaxFrameBytes
    BY <1>2, InputWindowOK DEF AcceptFrame, FrameFits
  <2>2. input' = [age |-> w.age, frames |-> w.frames + 1, bytes |-> w.bytes + len]
    BY <1>2, InputWindowOK DEF AcceptFrame
  <2>3. /\ accepted'["frames"] = More(accepted["frames"], 1)
        /\ accepted'["bytes"] = More(accepted["bytes"], len)
        /\ accepted'["requests"] = accepted["requests"]
        /\ http' = http
    BY <1>2, <1>0 DEF AcceptFrame
  <2>4. WindowOK(accepted'["frames"], input'.age, input'.frames, MaxFrames)
    BY <2>1, <2>2, <2>3, InputWindowOK, WindowCounts
  <2>5. WindowOK(accepted'["bytes"], input'.age, input'.bytes, MaxFrameBytes)
    BY <2>1, <2>2, <2>3, InputWindowOK, WindowCounts
  <2>6. WindowOK(accepted'["requests"], http'.age, http'.requests, MaxRequests)
    BY <2>3 DEF LimitIInv
  <2>7. LimitTypeOK'
    <3>1. input' \in [age : 0..Window, frames : 0..MaxFrames, bytes : 0..MaxFrameBytes]
      BY <2>1, <2>2
    <3>2. accepted' \in [Kind -> [Ticks -> Nat]]
      BY <1>2, <1>0 DEF AcceptFrame, More
    <3> QED  BY <3>1, <3>2, <2>3 DEF LimitTypeOK, LimitIInv
  <2> QED  BY <2>1, <2>2, <2>4, <2>5, <2>6, <2>7 DEF LimitIInv
<1>3. ASSUME NEW len \in 1..FrameMax, RejectFrame(len)
      PROVE  LimitIInv'
  BY <1>3, InputWindowOK DEF RejectFrame, LimitIInv, LimitTypeOK
<1>4. CASE AcceptRequest
  <2> DEFINE w == HttpWindow
  <2>1. /\ w.age \in 0..Window /\ w.requests \in 0..MaxRequests
        /\ w.age < Window /\ w.requests < MaxRequests
    BY <1>4, HttpWindowOK DEF AcceptRequest
  <2>2. http' = [age |-> w.age, requests |-> w.requests + 1]
    BY <1>4, HttpWindowOK DEF AcceptRequest
  <2>3. /\ accepted'["frames"] = accepted["frames"]
        /\ accepted'["bytes"] = accepted["bytes"]
        /\ accepted'["requests"] = More(accepted["requests"], 1)
        /\ input' = input
    BY <1>4, <1>0 DEF AcceptRequest
  <2>4. WindowOK(accepted'["requests"], http'.age, http'.requests, MaxRequests)
    BY <2>1, <2>2, <2>3, HttpWindowOK, WindowCounts
  <2>5. LimitTypeOK'
    <3>1. http' \in [age : 0..Window, requests : 0..MaxRequests]
      BY <2>1, <2>2
    <3>2. accepted' \in [Kind -> [Ticks -> Nat]]
      BY <1>4, <1>0 DEF AcceptRequest, More
    <3> QED  BY <3>1, <3>2, <2>3 DEF LimitTypeOK, LimitIInv
  <2> QED  BY <2>3, <2>4, <2>5 DEF LimitIInv
<1>5. CASE RejectRequest
  BY <1>5, HttpWindowOK DEF RejectRequest, LimitIInv, LimitTypeOK
<1>6. CASE UNCHANGED limitVars
  BY <1>6 DEF limitVars, LimitIInv, LimitTypeOK
<1> QED
  BY <1>1, <1>2, <1>3, <1>4, <1>5, <1>6 DEF LimitNext

(* So it always holds.                                                     *)
LEMMA LimitInvariant == LimitSpec => []LimitIInv
  BY LimitInitIInv, LimitPreserved, PTL DEF LimitSpec

(* No count exceeds its budget.                                            *)
THEOREM LimitTypeCorrect == LimitSpec => []LimitTypeOK
<1>1. LimitIInv => LimitTypeOK
  BY DEF LimitIInv
<1> QED  BY <1>1, LimitInvariant, PTL

(* No stretch of time as long as a window lets more than two budgets       *)
(* through, and a silence that long ends every rejection.                  *)
THEOREM BudgetsAreKept == LimitSpec => []BudgetKept
<1>1. ASSUME LimitIInv PROVE BudgetKept
  <2> USE LimitAssumption
  <2>1. /\ input.age \in 0..Window /\ input.frames \in 0..MaxFrames
        /\ input.bytes \in 0..MaxFrameBytes
        /\ http.age \in 0..Window /\ http.requests \in 0..MaxRequests
    BY <1>1 DEF LimitIInv, LimitTypeOK
  <2>2. /\ Total("frames") <= 2 * MaxFrames
        /\ Total("frames") = 0 /\ input.age < Window => input.frames = 0
    BY <1>1, <2>1, WindowTotal DEF LimitIInv, Total
  <2>3. /\ Total("bytes") <= 2 * MaxFrameBytes
        /\ Total("bytes") = 0 /\ input.age < Window => input.bytes = 0
    BY <1>1, <2>1, WindowTotal DEF LimitIInv, Total
  <2>4. /\ Total("requests") <= 2 * MaxRequests
        /\ Total("requests") = 0 /\ http.age < Window => http.requests = 0
    BY <1>1, <2>1, WindowTotal DEF LimitIInv, Total
  <2>5. \A k \in Kind : Total(k) <= 2 * Budget[k]
    BY <2>2, <2>3, <2>4 DEF Kind, Budget
  <2>6. Total("frames") = 0 => \A len \in 1..FrameMax : FrameFits(len)
    BY <1>1, <2>1, <2>2 DEF LimitIInv, FrameFits, InputWindow, Ended
  <2>7. Total("requests") = 0 => HttpWindow.requests < MaxRequests
    BY <2>1, <2>4 DEF HttpWindow, Ended
  <2> QED  BY <2>5, <2>6, <2>7 DEF BudgetKept
<1> QED  BY <1>1, LimitInvariant, PTL

-----------------------------------------------------------------------------
(* Startup.                                                                *)

(* A task that is there.                                                   *)
Live(t) == at[t] \in {"idle", "wants", "holds"}

(* How far the start has come: the steps with the server listening, the    *)
(* ones by which the queue and the tasks are made, and the ones by which   *)
(* they are gone.                                                          *)
Listening == {"queue", "routes", "web_tx", "ap_guard", "callback", "demo", "done",
              "kill web_tx", "kill ap_guard", "delete queue", "forget queue",
              "stop server"}
(* Before that;                                                            *)
BeforeListening == {"ap", "usb", "init", "listen"}
(* the output callback registered;                                         *)
Subscribed == {"demo", "done"}
(* the access-point guard created;                                         *)
GuardMade == {"callback"} \cup Subscribed
(* the transmit task created;                                              *)
WebTxMade == {"ap_guard"} \cup GuardMade
(* the queue created;                                                      *)
QueueMade == {"routes", "web_tx"} \cup WebTxMade
(* no queue;                                                               *)
QueueGone == {"stop server", "failed"} \cup BeforeListening
(* no guard;                                                               *)
GuardGone == {"delete queue", "forget queue"} \cup QueueGone
(* no transmit task.                                                       *)
WebTxGone == {"kill ap_guard"} \cup GuardGone

(* The server and what its status says,                                    *)
ServerOK ==
  /\ step \in Listening => server /\ webStarted
  /\ step \notin Listening => ~server /\ ~webStarted
  /\ step \in Subscribed => subscribed

(* the queue,                                                              *)
QueueOfStep ==
  /\ step \in QueueMade => queue = "ready"
  /\ step \in QueueGone => queue = "none"

(* and the tasks are those of the step.                                    *)
TasksOfStep ==
  /\ Live("httpd") <=> step \in Listening
  /\ step \in WebTxMade => Live("web_tx")
  /\ step \in WebTxGone => ~Live("web_tx")
  /\ step \in GuardMade => Live("ap_guard")
  /\ step \in GuardGone => ~Live("ap_guard")
  /\ subscribed => at["web_tx"] # "absent" /\ at["ap_guard"] # "absent"

(* All of it.                                                              *)
LaunchOK == ServerOK /\ QueueOfStep /\ TasksOfStep

(* Where the tasks, the lock and the queue are,                            *)
StartShapes ==
  /\ step \in Steps
  /\ at \in [Task -> Place]
  /\ holder \in Task \cup {Nobody}
  /\ queue \in {"none", "ready", "dangling"}
  /\ reader \in {"absent", "idle", "sends"}

(* and the flags.                                                          *)
StartFlags ==
  /\ lockReady \in BOOLEAN /\ server \in BOOLEAN /\ wsRoute \in BOOLEAN
  /\ chunk \in BOOLEAN /\ subscribed \in BOOLEAN /\ apStarted \in BOOLEAN
  /\ webStarted \in BOOLEAN /\ crashed \in BOOLEAN

(* The invariant.                                                          *)
StartIInv == StartShapes /\ StartFlags /\ LaunchOK

(* Nothing has been started.                                               *)
LEMMA StartInitIInv == StartInit => StartIInv
<1> SUFFICES ASSUME StartInit PROVE StartIInv
  OBVIOUS
<1>1. StartShapes /\ StartFlags
  BY DEF StartInit, StartShapes, StartFlags, Steps, Place, Task
<1>2. LaunchOK
  BY
     DEF StartInit, LaunchOK, ServerOK, QueueOfStep, TasksOfStep, Live, Task, Listening,
         BeforeListening, Subscribed, GuardMade,
         WebTxMade, QueueMade, QueueGone, GuardGone, WebTxGone
<1> QED  BY <1>1, <1>2 DEF StartIInv

(* Each step of the main task, then the other tasks, which change none of  *)
(* it.                                                                     *)
LEMMA StartPreserved ==
  ASSUME StartIInv, [StartNext]_startVars
  PROVE  StartIInv'
<1> USE DEF Listening, BeforeListening, Subscribed, GuardMade,
         WebTxMade, QueueMade, QueueGone, GuardGone, WebTxGone, Live
<1>t. "web_tx" \in Task /\ "ap_guard" \in Task /\ "httpd" \in Task
  BY DEF Task
<1>1. CASE MainTask
  <2>1. CASE StartAp
    <3>1. StartShapes'
      BY <2>1, <1>t DEF StartAp, StartIInv, StartShapes, Steps, Place
    <3>2. StartFlags'
      BY <2>1, Zenon DEF StartAp, StartIInv, StartFlags
    <3>3. ServerOK'
      BY <2>1, <1>t DEF StartAp, StartIInv, StartShapes, StartFlags, LaunchOK, ServerOK
    <3>4. QueueOfStep'
      BY <2>1, <1>t DEF StartAp, StartIInv, StartShapes, StartFlags, LaunchOK, QueueOfStep
    <3>5. TasksOfStep'
      BY <2>1, <1>t DEF StartAp, StartIInv, StartShapes, StartFlags, LaunchOK, TasksOfStep
    <3> QED  BY <3>1, <3>2, <3>3, <3>4, <3>5 DEF StartIInv, LaunchOK
  <2>2. CASE StartUsb
    <3>1. StartShapes'
      BY <2>2, <1>t DEF StartUsb, StartIInv, StartShapes, Steps, Place
    <3>2. StartFlags'
      BY <2>2, Zenon DEF StartUsb, StartIInv, StartFlags
    <3>3. ServerOK'
      BY <2>2, <1>t DEF StartUsb, StartIInv, StartShapes, StartFlags, LaunchOK, ServerOK
    <3>4. QueueOfStep'
      BY <2>2, <1>t DEF StartUsb, StartIInv, StartShapes, StartFlags, LaunchOK, QueueOfStep
    <3>5. TasksOfStep'
      BY <2>2, <1>t DEF StartUsb, StartIInv, StartShapes, StartFlags, LaunchOK, TasksOfStep
    <3> QED  BY <3>1, <3>2, <3>3, <3>4, <3>5 DEF StartIInv, LaunchOK
  <2>3. CASE InitWeb
    <3>1. StartShapes'
      BY <2>3, <1>t DEF InitWeb, StartIInv, StartShapes, Steps, Place
    <3>2. StartFlags'
      BY <2>3, Zenon DEF InitWeb, StartIInv, StartFlags
    <3>3. ServerOK'
      BY <2>3, <1>t DEF InitWeb, StartIInv, StartShapes, StartFlags, LaunchOK, ServerOK
    <3>4. QueueOfStep'
      BY <2>3, <1>t DEF InitWeb, StartIInv, StartShapes, StartFlags, LaunchOK, QueueOfStep
    <3>5. TasksOfStep'
      BY <2>3, <1>t DEF InitWeb, StartIInv, StartShapes, StartFlags, LaunchOK, TasksOfStep
    <3> QED  BY <3>1, <3>2, <3>3, <3>4, <3>5 DEF StartIInv, LaunchOK
  <2>4. CASE Listen
    <3>1. StartShapes'
      BY <2>4, <1>t DEF Listen, StartIInv, StartShapes, Steps, Place
    <3>2. StartFlags'
      BY <2>4, Zenon DEF Listen, StartIInv, StartFlags
    <3>3. ServerOK'
      <4>1. CASE server' = TRUE /\ webStarted' = TRUE /\ step' = "queue"
        BY <4>1 DEF ServerOK
      <4>2. CASE step' = "failed" /\ UNCHANGED <<server, webStarted>> /\ step = "listen"
        BY <4>2 DEF StartIInv, LaunchOK, ServerOK
      <4> QED  BY <2>4, <4>1, <4>2 DEF Listen
    <3>4. QueueOfStep'
      BY <2>4, <1>t DEF Listen, StartIInv, StartShapes, StartFlags, LaunchOK, QueueOfStep
    <3>5. TasksOfStep'
      BY <2>4, <1>t DEF Listen, StartIInv, StartShapes, StartFlags, LaunchOK, TasksOfStep
    <3> QED  BY <3>1, <3>2, <3>3, <3>4, <3>5 DEF StartIInv, LaunchOK
  <2>5. CASE CreateQueue
    <3>1. StartShapes'
      BY <2>5, <1>t DEF CreateQueue, StartIInv, StartShapes, Steps, Place
    <3>2. StartFlags'
      BY <2>5, Zenon DEF CreateQueue, StartIInv, StartFlags
    <3>3. ServerOK'
      BY <2>5, <1>t DEF CreateQueue, StartIInv, StartShapes, StartFlags, LaunchOK, ServerOK
    <3>4. QueueOfStep'
      BY <2>5, <1>t
         DEF CreateQueue, StartIInv, StartShapes, StartFlags, LaunchOK, QueueOfStep
    <3>5. TasksOfStep'
      BY <2>5, <1>t
         DEF CreateQueue, StartIInv, StartShapes, StartFlags, LaunchOK, TasksOfStep
    <3> QED  BY <3>1, <3>2, <3>3, <3>4, <3>5 DEF StartIInv, LaunchOK
  <2>6. CASE RegisterRoutes
    <3>1. StartShapes'
      BY <2>6, <1>t DEF RegisterRoutes, StartIInv, StartShapes, Steps, Place
    <3>2. StartFlags'
      BY <2>6, Zenon DEF RegisterRoutes, StartIInv, StartFlags
    <3>3. ServerOK'
      BY <2>6, <1>t
         DEF RegisterRoutes, StartIInv, StartShapes, StartFlags, LaunchOK, ServerOK
    <3>4. QueueOfStep'
      BY <2>6, <1>t
         DEF RegisterRoutes, StartIInv, StartShapes, StartFlags, LaunchOK, QueueOfStep
    <3>5. TasksOfStep'
      BY <2>6, <1>t
         DEF RegisterRoutes, StartIInv, StartShapes, StartFlags, LaunchOK, TasksOfStep
    <3> QED  BY <3>1, <3>2, <3>3, <3>4, <3>5 DEF StartIInv, LaunchOK
  <2>7. CASE CreateWebTx
    <3>1. StartShapes'
      BY <2>7, <1>t DEF CreateWebTx, CreateTask, StartIInv, StartShapes, Steps, Place
    <3>2. StartFlags'
      BY <2>7, Zenon DEF CreateWebTx, CreateTask, StartIInv, StartFlags
    <3>3. ServerOK'
      BY <2>7, <1>t
         DEF CreateWebTx, CreateTask, StartIInv, StartShapes, StartFlags, LaunchOK, ServerOK
    <3>4. QueueOfStep'
      BY <2>7, <1>t
         DEF CreateWebTx, CreateTask, StartIInv, StartShapes, StartFlags, LaunchOK,
             QueueOfStep
    <3>5. TasksOfStep'
      BY <2>7, <1>t
         DEF CreateWebTx, CreateTask, StartIInv, StartShapes, StartFlags, LaunchOK,
             TasksOfStep
    <3> QED  BY <3>1, <3>2, <3>3, <3>4, <3>5 DEF StartIInv, LaunchOK
  <2>8. CASE CreateApGuard
    <3>1. StartShapes'
      BY <2>8, <1>t DEF CreateApGuard, CreateTask, StartIInv, StartShapes, Steps, Place
    <3>2. StartFlags'
      BY <2>8, Zenon DEF CreateApGuard, CreateTask, StartIInv, StartFlags
    <3>3. ServerOK'
      BY <2>8, <1>t
         DEF CreateApGuard, CreateTask, StartIInv, StartShapes, StartFlags, LaunchOK,
             ServerOK
    <3>4. QueueOfStep'
      BY <2>8, <1>t
         DEF CreateApGuard, CreateTask, StartIInv, StartShapes, StartFlags, LaunchOK,
             QueueOfStep
    <3>5. TasksOfStep'
      BY <2>8, <1>t
         DEF CreateApGuard, CreateTask, StartIInv, StartShapes, StartFlags, LaunchOK,
             TasksOfStep
    <3> QED  BY <3>1, <3>2, <3>3, <3>4, <3>5 DEF StartIInv, LaunchOK
  <2>9. CASE Subscribe
    <3>1. StartShapes'
      BY <2>9, <1>t DEF Subscribe, StartIInv, StartShapes, Steps, Place
    <3>2. StartFlags'
      BY <2>9, Zenon DEF Subscribe, StartIInv, StartFlags
    <3>3. ServerOK'
      BY <2>9, <1>t DEF Subscribe, StartIInv, StartShapes, StartFlags, LaunchOK, ServerOK
    <3>4. QueueOfStep'
      BY <2>9, <1>t DEF Subscribe, StartIInv, StartShapes, StartFlags, LaunchOK, QueueOfStep
    <3>5. TasksOfStep'
      BY <2>9, <1>t DEF Subscribe, StartIInv, StartShapes, StartFlags, LaunchOK, TasksOfStep
    <3> QED  BY <3>1, <3>2, <3>3, <3>4, <3>5 DEF StartIInv, LaunchOK
  <2>10. CASE StartDemo
    <3>1. StartShapes'
      BY <2>10, <1>t DEF StartDemo, StartIInv, StartShapes, Steps, Place
    <3>2. StartFlags'
      BY <2>10, Zenon DEF StartDemo, StartIInv, StartFlags
    <3>3. ServerOK'
      BY <2>10, <1>t DEF StartDemo, StartIInv, StartShapes, StartFlags, LaunchOK, ServerOK
    <3>4. QueueOfStep'
      BY <2>10, <1>t
         DEF StartDemo, StartIInv, StartShapes, StartFlags, LaunchOK, QueueOfStep
    <3>5. TasksOfStep'
      BY <2>10, <1>t
         DEF StartDemo, StartIInv, StartShapes, StartFlags, LaunchOK, TasksOfStep
    <3> QED  BY <3>1, <3>2, <3>3, <3>4, <3>5 DEF StartIInv, LaunchOK
  <2>11. CASE KillWebTx
    <3>1. StartShapes'
      BY <2>11, <1>t DEF KillWebTx, Kill, StartIInv, StartShapes, Steps, Place
    <3>2. StartFlags'
      BY <2>11, Zenon DEF KillWebTx, Kill, StartIInv, StartFlags
    <3>3. ServerOK'
      BY <2>11, <1>t
         DEF KillWebTx, Kill, StartIInv, StartShapes, StartFlags, LaunchOK, ServerOK
    <3>4. QueueOfStep'
      BY <2>11, <1>t
         DEF KillWebTx, Kill, StartIInv, StartShapes, StartFlags, LaunchOK, QueueOfStep
    <3>5. TasksOfStep'
      BY <2>11, <1>t
         DEF KillWebTx, Kill, StartIInv, StartShapes, StartFlags, LaunchOK, TasksOfStep
    <3> QED  BY <3>1, <3>2, <3>3, <3>4, <3>5 DEF StartIInv, LaunchOK
  <2>12. CASE KillApGuard
    <3>1. StartShapes'
      BY <2>12, <1>t DEF KillApGuard, Kill, StartIInv, StartShapes, Steps, Place
    <3>2. StartFlags'
      BY <2>12, Zenon DEF KillApGuard, Kill, StartIInv, StartFlags
    <3>3. ServerOK'
      BY <2>12, <1>t
         DEF KillApGuard, Kill, StartIInv, StartShapes, StartFlags, LaunchOK, ServerOK
    <3>4. QueueOfStep'
      BY <2>12, <1>t
         DEF KillApGuard, Kill, StartIInv, StartShapes, StartFlags, LaunchOK, QueueOfStep
    <3>5. TasksOfStep'
      BY <2>12, <1>t
         DEF KillApGuard, Kill, StartIInv, StartShapes, StartFlags, LaunchOK, TasksOfStep
    <3> QED  BY <3>1, <3>2, <3>3, <3>4, <3>5 DEF StartIInv, LaunchOK
  <2>13. CASE DeleteQueue
    <3>1. StartShapes'
      BY <2>13, <1>t DEF DeleteQueue, StartIInv, StartShapes, Steps, Place
    <3>2. StartFlags'
      BY <2>13, Zenon DEF DeleteQueue, StartIInv, StartFlags
    <3>3. ServerOK'
      BY <2>13, <1>t DEF DeleteQueue, StartIInv, StartShapes, StartFlags, LaunchOK, ServerOK
    <3>4. QueueOfStep'
      BY <2>13, <1>t
         DEF DeleteQueue, StartIInv, StartShapes, StartFlags, LaunchOK, QueueOfStep
    <3>5. TasksOfStep'
      BY <2>13, <1>t
         DEF DeleteQueue, StartIInv, StartShapes, StartFlags, LaunchOK, TasksOfStep
    <3> QED  BY <3>1, <3>2, <3>3, <3>4, <3>5 DEF StartIInv, LaunchOK
  <2>14. CASE ForgetQueue
    <3>1. StartShapes'
      BY <2>14, <1>t DEF ForgetQueue, StartIInv, StartShapes, Steps, Place
    <3>2. StartFlags'
      BY <2>14, Zenon DEF ForgetQueue, StartIInv, StartFlags
    <3>3. ServerOK'
      BY <2>14, <1>t DEF ForgetQueue, StartIInv, StartShapes, StartFlags, LaunchOK, ServerOK
    <3>4. QueueOfStep'
      BY <2>14, <1>t
         DEF ForgetQueue, StartIInv, StartShapes, StartFlags, LaunchOK, QueueOfStep
    <3>5. TasksOfStep'
      BY <2>14, <1>t
         DEF ForgetQueue, StartIInv, StartShapes, StartFlags, LaunchOK, TasksOfStep
    <3> QED  BY <3>1, <3>2, <3>3, <3>4, <3>5 DEF StartIInv, LaunchOK
  <2>15. CASE StopServer
    <3>1. StartShapes'
      BY <2>15, <1>t DEF StopServer, StartIInv, StartShapes, Steps, Place
    <3>2. StartFlags'
      BY <2>15, Zenon DEF StopServer, StartIInv, StartFlags
    <3>3. ServerOK'
      BY <2>15, <1>t DEF StopServer, StartIInv, StartShapes, StartFlags, LaunchOK, ServerOK
    <3>4. QueueOfStep'
      BY <2>15, <1>t
         DEF StopServer, StartIInv, StartShapes, StartFlags, LaunchOK, QueueOfStep
    <3>5. TasksOfStep'
      BY <2>15, <1>t
         DEF StopServer, StartIInv, StartShapes, StartFlags, LaunchOK, TasksOfStep
    <3> QED  BY <3>1, <3>2, <3>3, <3>4, <3>5 DEF StartIInv, LaunchOK
  <2> QED
    BY <1>1, <2>1, <2>2, <2>3, <2>4, <2>5, <2>6, <2>7, <2>8, <2>9, <2>10, <2>11, <2>12,
        <2>13, <2>14, <2>15 DEF MainTask
<1>2. ASSUME NEW t \in Task, Want(t) \/ Take(t) \/ Give(t)
      PROVE StartIInv'
  <2>1. StartShapes'
    BY <1>2 DEF Want, Take, Give, StartIInv, StartShapes, Place
  <2>2. StartFlags'
    BY <1>2, Zenon DEF Want, Take, Give, StartIInv, StartFlags
  <2>3. ServerOK'
    <3>1. UNCHANGED <<step, server, webStarted, subscribed>>
      BY <1>2 DEF Want, Take, Give
    <3> QED  BY <3>1 DEF StartIInv, LaunchOK, ServerOK
  <2>4. QueueOfStep'
    BY <1>2, <1>t
       DEF Want, Take, Give, StartIInv, StartShapes, StartFlags, LaunchOK, QueueOfStep
  <2>5. TasksOfStep'
    <3>1. UNCHANGED <<step, subscribed>>
      BY <1>2 DEF Want, Take, Give
    <3>2. PICK next \in {"idle", "wants", "holds"} : at' = [at EXCEPT ![t] = next]
      BY <1>2 DEF Want, Take, Give
    <3>3. at \in [Task -> Place] /\ at[t] \in {"idle", "wants", "holds"}
      BY <1>2 DEF Want, Take, Give, StartIInv, StartShapes
    <3>4. \A u \in Task : at'[u] = IF u = t THEN next ELSE at[u]
      BY <3>2, <3>3
    <3>5. ASSUME NEW u \in Task
          PROVE  (Live(u)' <=> Live(u)) /\ (at[u] # "absent" => at'[u] # "absent")
      <4>1. CASE u = t
        BY <3>2, <3>3, <3>4, <4>1 DEF Live
      <4>2. CASE u # t
        BY <3>4, <4>2 DEF Live
      <4> QED  BY <4>1, <4>2
    <3> QED  BY <1>t, <3>1, <3>5 DEF StartIInv, LaunchOK, TasksOfStep
  <2> QED  BY <2>1, <2>2, <2>3, <2>4, <2>5 DEF StartIInv, LaunchOK
<1>3. CASE Publish \/ SendChunk
  <2>1. StartShapes'
    BY <1>3 DEF Publish, SendChunk, StartIInv, StartShapes
  <2>2. StartFlags'
    BY <1>3, Zenon DEF Publish, SendChunk, StartIInv, StartFlags
  <2>3. ServerOK'
    <3>1. UNCHANGED <<step, server, webStarted, subscribed>>
      BY <1>3 DEF Publish, SendChunk
    <3> QED  BY <3>1 DEF StartIInv, LaunchOK, ServerOK
  <2>4. QueueOfStep'
    BY <1>3
       DEF Publish, SendChunk, StartIInv, StartShapes, StartFlags, LaunchOK, QueueOfStep
  <2>5. TasksOfStep'
    <3>1. UNCHANGED <<step, at, subscribed>>
      BY <1>3 DEF Publish, SendChunk
    <3> QED  BY <3>1 DEF StartIInv, LaunchOK, TasksOfStep
  <2> QED  BY <2>1, <2>2, <2>3, <2>4, <2>5 DEF StartIInv, LaunchOK
<1>4. CASE UNCHANGED startVars
  <2>1. StartShapes' /\ StartFlags'
    BY <1>4 DEF startVars, StartIInv, StartShapes, StartFlags
  <2>2. ServerOK'
    BY <1>4 DEF startVars, StartIInv, LaunchOK, ServerOK
  <2>3. QueueOfStep'
    BY <1>4 DEF startVars, StartIInv, LaunchOK, QueueOfStep
  <2>4. TasksOfStep'
    BY <1>4 DEF startVars, StartIInv, LaunchOK, TasksOfStep
  <2> QED  BY <2>1, <2>2, <2>3, <2>4 DEF StartIInv, LaunchOK
<1> QED  BY <1>1, <1>2, <1>3, <1>4 DEF StartNext, Others

(* So it always holds.                                                     *)
LEMMA StartInvariant == StartSpec => []StartIInv
  BY StartInitIInv, StartPreserved, PTL DEF StartSpec

(* The main task, the other tasks and the queue are where the model says   *)
(* they can be.                                                            *)
THEOREM StartTypeCorrect == StartSpec => []StartTypeOK
<1>1. StartIInv => StartTypeOK
  BY DEF StartIInv, StartShapes, StartFlags, StartTypeOK
<1> QED  BY <1>1, StartInvariant, PTL

(* At whichever call the start fails, neither server nor queue stays, nor  *)
(* a task that runs, and the status says so; the callback stays registered *)
(* only if the last call of all failed, when both tasks had been made.     *)
THEOREM StartsWhollyOrNotAtAll == StartSpec => []AllOrNothing
<1>1. StartIInv => AllOrNothing
  BY
     DEF StartIInv, StartShapes, Place, LaunchOK, ServerOK, QueueOfStep, TasksOfStep, AllOrNothing, Live, Task,
         Listening, BeforeListening, Subscribed, GuardMade,
         WebTxMade, QueueMade, QueueGone, GuardGone, WebTxGone
<1> QED  BY <1>1, StartInvariant, PTL

-----------------------------------------------------------------------------
(* The parts together.                                                     *)

(* A part that is not in focus stutters: no step of the others changes it. *)
LEMMA OthersStutter ==
  ASSUME [PartsNext]_partsVars
  PROVE  /\ [Next]_vars /\ [FilterNext]_filterVars /\ [ApNext]_apVars
         /\ [DisplayNext]_displayVars /\ [LogNext]_logVars /\ [GestureNext]_gestureVars
         /\ [LimitNext]_limitVars /\ [StartNext]_startVars /\ [TransferNext]_transferVars
<1>1. CASE UNCHANGED <<vars, filterVars, apVars, displayVars, logVars, gestureVars,
                       limitVars, startVars, transferVars>>
  BY <1>1
<1>2. CASE BridgeMoves
  BY <1>2 DEF BridgeMoves
<1>3. CASE FilterMoves
  BY <1>3 DEF FilterMoves
<1>4. CASE ApMoves
  BY <1>4 DEF ApMoves
<1>5. CASE DisplayMoves
  BY <1>5 DEF DisplayMoves
<1>6. CASE LogMoves
  BY <1>6 DEF LogMoves
<1>7. CASE GesturesMove
  BY <1>7 DEF GesturesMove
<1>8. CASE LimitsMove
  BY <1>8 DEF LimitsMove
<1>9. CASE StartMoves
  BY <1>9 DEF StartMoves
<1>10. CASE TransferMoves
  BY <1>10 DEF TransferMoves
<1>11. CASE PartEnds \/ UNCHANGED partsVars
  <2>1. UNCHANGED <<vars, filterVars, apVars, displayVars, logVars, gestureVars,
                    limitVars, startVars, transferVars>>
    BY <1>11 DEF PartEnds, partsVars
  <2> QED  BY <2>1, <1>1
<1> QED  BY <1>2, <1>3, <1>4, <1>5, <1>6, <1>7, <1>8, <1>9, <1>10, <1>11 DEF PartsNext

(* In MCParts each part behaves as its own specification says.             *)
THEOREM PartsAreThemselves ==
  PartsSpec => /\ Spec /\ FilterSpec /\ ApSpec /\ DisplaySpec /\ LogSpec
               /\ GestureSpec /\ LimitSpec /\ StartSpec /\ TransferSpec
<1>1. PartsInit => /\ Init /\ FilterInit /\ ApInit /\ DisplayInit /\ LogInit
                   /\ GestureInit /\ LimitInit /\ StartInit /\ TransferInit
  BY DEF PartsInit
<1>2. [PartsNext]_partsVars =>
        /\ [Next]_vars /\ [FilterNext]_filterVars /\ [ApNext]_apVars
        /\ [DisplayNext]_displayVars /\ [LogNext]_logVars /\ [GestureNext]_gestureVars
        /\ [LimitNext]_limitVars /\ [StartNext]_startVars /\ [TransferNext]_transferVars
  BY OthersStutter
<1> QED
  BY <1>1, <1>2, PTL DEF PartsSpec, Spec, FilterSpec, ApSpec, DisplaySpec, LogSpec,
                         GestureSpec, LimitSpec, StartSpec, TransferSpec

(* No variable of any part ever leaves its type.                           *)
THEOREM PartsTypeCorrect == PartsSpec => []PartsTypeOK
<1>1. GestureIInv => GestureTypeOK
  BY DEF GestureIInv
<1>2. /\ TypeOK /\ FilterTypeOK /\ ApTypeOK /\ DisplayTypeOK /\ LogTypeOK
      /\ GestureTypeOK /\ LimitTypeOK /\ StartTypeOK /\ TransferTypeOK
      => PartsTypeOK
  BY DEF PartsTypeOK
<1> QED
  BY <1>1, <1>2, PartsAreThemselves, TypeCorrect, FilterTypeCorrect, ApTypeCorrect,
     DisplayTypeCorrect, LogTypeCorrect, GestureInvariant, LimitTypeCorrect,
     StartTypeCorrect, TransferTypeCorrect, PTL
=============================================================================
