------------------------------- MODULE ApGuard -------------------------------
(***************************************************************************)
(* ap_guard_task with the idle policy of ap_exposure_policy.c and the end  *)
(* of the access point in wifi_ap.c.                                       *)
(*                                                                         *)
(* The task looks, judges and sleeps.  Stations come and go at any time,   *)
(* between its steps too.  A station's browsers leave entries in the table *)
(* of WebSocket connections, which outlive the station: nothing but the    *)
(* guard is sure to remove them.  Stations are taken from the driver's     *)
(* list; the event counter stands in for it only when that call fails.     *)
(* Time passes while the task sleeps, in units of its 30 s, or longer.     *)
(***************************************************************************)
EXTENDS Naturals

CONSTANTS
  MaxStations,   \* max_connection of the access point
  MaxSockets,    \* WEB_MAX_WS_CLIENTS
  IdleTimeout,   \* AP_EXPOSURE_IDLE_TIMEOUT_MS
  MaxSleep       \* bound of the model: how much a sleep may be too long

ASSUME ApAssumption ==
  /\ MaxStations \in Nat \ {0} /\ MaxSockets \in Nat
  /\ IdleTimeout \in Nat \ {0} /\ MaxSleep \in Nat \ {0}

NotIdle == IdleTimeout + 1
VacantMax == IdleTimeout + 2 * MaxSleep

VARIABLES
  stations,   \* stations the driver has
  sockets,    \* entries of s_ws_clients
  apUp,       \* the driver runs in AP mode
  started,    \* s_status.started of wifi_ap.c
  idle,       \* s_ap_exposure_policy: time since idle_since_ms, or NotIdle
  guard,      \* where ap_guard_task is
  seen,       \* the status it has read: [up, stations]
  unseen,     \* history: time since a look found a station
  vacant      \* history: time since the last station went

apVars == <<stations, sockets, apUp, started, idle, guard, seen, unseen, vacant>>
-----------------------------------------------------------------------------
Nothing == [up |-> FALSE, stations |-> 0]

Capped(t) == IF t > IdleTimeout THEN IdleTimeout ELSE t
Counted(t) == IF t > VacantMax THEN VacantMax ELSE t

ApInit ==
  /\ stations = 0 /\ sockets = 0
  /\ apUp = TRUE /\ started = TRUE
  /\ idle = NotIdle
  /\ guard = "look" /\ seen = Nothing
  /\ unseen = 0 /\ vacant = 0

-----------------------------------------------------------------------------
StationComes ==
  /\ apUp /\ stations < MaxStations
  /\ stations' = stations + 1
  /\ vacant' = 0
  /\ UNCHANGED <<sockets, apUp, started, idle, guard, seen, unseen>>

StationGoes ==
  /\ stations > 0
  /\ stations' = stations - 1
  /\ UNCHANGED <<sockets, apUp, started, idle, guard, seen, unseen, vacant>>

(* A station opens a terminal.  Its request may be answered when it has    *)
(* gone, but not after the next sleep of the guard (at boot the model      *)
(* allows it before any station came).  An entry goes when its connection  *)
(* is closed in order or a send to it fails.                               *)
SocketOpens ==
  /\ stations > 0 \/ vacant = 0
  /\ sockets < MaxSockets
  /\ sockets' = sockets + 1
  /\ UNCHANGED <<stations, apUp, started, idle, guard, seen, unseen, vacant>>

SocketCloses ==
  /\ sockets > 0
  /\ sockets' = sockets - 1
  /\ UNCHANGED <<stations, apUp, started, idle, guard, seen, unseen, vacant>>

Environment == StationComes \/ StationGoes \/ SocketOpens \/ SocketCloses
-----------------------------------------------------------------------------
(* wifi_ap_get_status: what the driver says.                               *)
Look ==
  /\ guard = "look"
  /\ seen' = [up |-> apUp, stations |-> IF apUp THEN stations ELSE 0]
  /\ unseen' = IF apUp /\ stations > 0 THEN 0 ELSE unseen
  /\ guard' = "clear"
  /\ UNCHANGED <<stations, sockets, apUp, started, idle, vacant>>

\* Variant: the table is left to those who send.
ClearNothing ==
  /\ guard = "clear"
  /\ guard' = "judge"
  /\ UNCHANGED <<stations, sockets, apUp, started, idle, seen, unseen, vacant>>

(* Without stations no connection can be alive: clear_ws_fds.              *)
ClearStale ==
  /\ guard = "clear"
  /\ sockets' = IF seen.stations = 0 THEN 0 ELSE sockets
  /\ guard' = "judge"
  /\ UNCHANGED <<stations, apUp, started, idle, seen, unseen, vacant>>

\* Variant: somebody who was there does not end the idle time.
InUseNever == FALSE

InUse == seen.stations > 0 \/ sockets > 0

(* ap_exposure_policy_evaluate.                                            *)
Judge ==
  /\ guard = "judge"
  /\ idle' = CASE ~seen.up \/ InUse -> NotIdle
               [] seen.up /\ ~InUse /\ idle = NotIdle -> 0
               [] OTHER -> idle
  /\ guard' = IF seen.up /\ ~InUse /\ idle = IdleTimeout THEN "stop" ELSE "sleep"
  /\ UNCHANGED <<stations, sockets, apUp, started, seen, unseen, vacant>>

(* wifi_ap_stop.  It gives up the access point in its own status whatever  *)
(* the driver answers; called again after a failure it does nothing.       *)
Stop ==
  /\ guard = "stop"
  /\ started' = FALSE
  /\ \/ /\ started
        /\ apUp' = FALSE /\ stations' = 0
     \/ UNCHANGED <<apUp, stations>>
  /\ guard' = "sleep"
  /\ UNCHANGED <<sockets, idle, seen, unseen, vacant>>

Sleep ==
  /\ guard = "sleep"
  /\ \E d \in 1..MaxSleep :
       /\ idle' = IF idle = NotIdle THEN NotIdle ELSE Capped(idle + d)
       /\ unseen' = Capped(unseen + d)
       /\ vacant' = IF stations = 0 THEN Counted(vacant + d) ELSE 0
  /\ guard' = "look"
  /\ UNCHANGED <<stations, sockets, apUp, started, seen>>

ApGuardTask == Look \/ ClearStale \/ Judge \/ Stop \/ Sleep

ApNext == Environment \/ ApGuardTask

ApSpec == ApInit /\ [][ApNext]_apVars
-----------------------------------------------------------------------------
(* The types of the variables: the table has its size, the idle time stays *)
(* within what the policy compares, and a driver that is down has nobody.  *)
ApTypeOK ==
  /\ stations \in 0..MaxStations
  /\ sockets \in 0..MaxSockets
  /\ apUp \in BOOLEAN /\ started \in BOOLEAN
  /\ idle \in 0..NotIdle
  /\ guard \in {"look", "clear", "judge", "stop", "sleep"}
  /\ seen \in [up : BOOLEAN, stations : 0..MaxStations]
  /\ unseen \in 0..IdleTimeout /\ vacant \in 0..VacantMax
  /\ ~apUp => stations = 0

(* The access point is not stopped while it is used: on the way to the     *)
(* stop, no look of the whole idle time has found a station, this one      *)
(* included.  A station that came after the look is not protected.         *)
StopsOnlyUnused == guard = "stop" => unseen = IdleTimeout

(* docs/production-hardening.md:88 asks for an access point that does not  *)
(* stay open unused.  From the moment the last station has gone it is      *)
(* stopped within the idle time and two sleeps of the task, although       *)
(* entries of connections may be left over: one sleep until the task       *)
(* notices, one because it judges only when it wakes.  A driver that has   *)
(* refused to stop is not asked again.                                     *)
IdleApStops == apUp /\ started => vacant < VacantMax
=============================================================================
