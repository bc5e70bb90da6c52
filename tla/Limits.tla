------------------------------- MODULE Limits --------------------------------
(***************************************************************************)
(* The two budgets of the web server: frames and bytes of terminal input   *)
(* (web_input_policy.c, one for all connections) and HTTP requests         *)
(* (http_rate_limit.c).  Both count in windows that begin with the first   *)
(* frame or request after the last one has ended, not at fixed times.      *)
(* Time is counted in ticks, a window has Window of them.                  *)
(***************************************************************************)
EXTENDS Naturals

CONSTANTS
  Window,        \* WEB_INPUT_POLICY_WINDOW_MS, HTTP_RATE_LIMIT_WINDOW_MS
  FrameMax,      \* WEB_INPUT_POLICY_FRAME_MAX
  MaxFrames,     \* WEB_INPUT_POLICY_MAX_FRAMES_PER_WINDOW
  MaxFrameBytes, \* WEB_INPUT_POLICY_MAX_BYTES_PER_WINDOW
  MaxRequests    \* HTTP_RATE_LIMIT_MAX_REQUESTS_PER_WINDOW

ASSUME LimitAssumption ==
  /\ Window \in Nat \ {0}
  /\ MaxFrames \in Nat \ {0} /\ MaxRequests \in Nat \ {0}
  /\ FrameMax \in Nat \ {0} /\ MaxFrameBytes \in Nat /\ FrameMax <= MaxFrameBytes

VARIABLES
  input,      \* s_input_policy: age of the window, frames and bytes in it
  http,       \* s_http_rate_limit: age of the window, requests in it
  accepted    \* history: frames, bytes and requests accepted since the current
              \* tick began, since the one before it, and so on for Window ticks

limitVars == <<input, http, accepted>>

Kind == {"frames", "bytes", "requests"}
Budget == [k \in Kind |-> CASE k = "frames" -> MaxFrames
                            [] k = "bytes" -> MaxFrameBytes
                            [] k = "requests" -> MaxRequests]

Ticks == 0 .. Window - 1

Total(k) == accepted[k][Window - 1]
-----------------------------------------------------------------------------
\* No window has begun: window_start_ms is 0, initialized is FALSE.
LimitInit ==
  /\ input = [age |-> Window, frames |-> 0, bytes |-> 0]
  /\ http = [age |-> Window, requests |-> 0]
  /\ accepted = [k \in Kind |-> [i \in Ticks |-> 0]]

Older(age) == IF age < Window THEN age + 1 ELSE Window

Tick ==
  /\ input' = [input EXCEPT !.age = Older(@)]
  /\ http' = [http EXCEPT !.age = Older(@)]
  /\ accepted' = [k \in Kind |-> [i \in Ticks |-> IF i = 0 THEN 0 ELSE accepted[k][i - 1]]]

Ended(age) == age >= Window

(* The windows an evaluation at this moment counts in.                     *)
InputWindow == IF Ended(input.age) THEN [age |-> 0, frames |-> 0, bytes |-> 0] ELSE input
HttpWindow == IF Ended(http.age) THEN [age |-> 0, requests |-> 0] ELSE http

FrameFits(len) ==
  /\ InputWindow.frames < MaxFrames
  /\ InputWindow.bytes + len <= MaxFrameBytes

More(since, n) == [i \in Ticks |-> since[i] + n]

(* web_input_policy_evaluate, with a frame that is neither empty nor too   *)
(* long; those change nothing.                                             *)
AcceptFrame(len) ==
  /\ FrameFits(len)
  /\ input' = [InputWindow EXCEPT !.frames = @ + 1, !.bytes = @ + len]
  /\ accepted' = [accepted EXCEPT !["frames"] = More(@, 1), !["bytes"] = More(@, len)]
  /\ UNCHANGED http

\* Variant: a rejection starts the window again.
RejectAndWait(len) ==
  /\ ~FrameFits(len)
  /\ input' = [InputWindow EXCEPT !.age = 0]
  /\ UNCHANGED <<http, accepted>>

RejectFrame(len) ==
  /\ ~FrameFits(len)
  /\ input' = InputWindow
  /\ UNCHANGED <<http, accepted>>

(* http_rate_limit_evaluate.                                               *)
AcceptRequest ==
  /\ HttpWindow.requests < MaxRequests
  /\ http' = [HttpWindow EXCEPT !.requests = @ + 1]
  /\ accepted' = [accepted EXCEPT !["requests"] = More(@, 1)]
  /\ UNCHANGED input

RejectRequest ==
  /\ ~(HttpWindow.requests < MaxRequests)
  /\ http' = HttpWindow
  /\ UNCHANGED <<input, accepted>>

LimitNext ==
  \/ Tick
  \/ \E len \in 1..FrameMax : AcceptFrame(len) \/ RejectFrame(len)
  \/ AcceptRequest \/ RejectRequest

LimitSpec == LimitInit /\ [][LimitNext]_limitVars
-----------------------------------------------------------------------------
(* The types of the variables: no window counts more than its budget.      *)
LimitTypeOK ==
  /\ input \in [age : 0..Window, frames : 0..MaxFrames, bytes : 0..MaxFrameBytes]
  /\ http \in [age : 0..Window, requests : 0..MaxRequests]
  /\ accepted \in [Kind -> [Ticks -> Nat]]

(* Wherever the windows begin, no stretch of time as long as one lets more *)
(* than two budgets through; and whoever has been silent that long is      *)
(* heard, a rejection never prolongs the wait.                             *)
BudgetKept ==
  /\ \A k \in Kind : Total(k) <= 2 * Budget[k]
  /\ Total("frames") = 0 => \A len \in 1..FrameMax : FrameFits(len)
  /\ Total("requests") = 0 => HttpWindow.requests < MaxRequests
=============================================================================
