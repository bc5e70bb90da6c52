------------------------------ MODULE WebSession ------------------------------
(***************************************************************************)
(* Who may type: the one session of web_security.c, the table s_ws_clients *)
(* of terminal connections, the emergency lock and credential rotation.    *)
(* The httpd task runs all handlers, one at a time, and the work other     *)
(* tasks queue for it; web_tx_task and ap_guard_task take connections out  *)
(* of the table, reset_control_task turns a tap of the power button into   *)
(* queued work.  Tokens are numbered as they are made; the code draws 16   *)
(* random bytes, so that no two are the same.                              *)
(***************************************************************************)
EXTENDS Integers, Sequences, FiniteSets

CONSTANTS
  Fd,          \* socket descriptors
  Nobody,      \* not an fd
  MaxClients,  \* WEB_MAX_WS_CLIENTS
  MaxTokens,   \* bound: sessions made in one run of the model
  MaxWork      \* bound: items of work queued for httpd at a time

ASSUME SessionAssumption ==
  /\ IsFiniteSet(Fd) /\ Nobody \notin Fd
  /\ MaxClients \in Nat \ {0} /\ MaxTokens \in Nat /\ MaxWork \in Nat

VARIABLES
  web,       \* web_server_start: "down", "starting" once s_server is set, "ready"
  made,      \* tokens made so far: the last one is number made
  session,   \* token of s_security.sessions[0], 0 if it is not active
  expired,   \* that session's time is over
  table,     \* s_ws_clients: the token kept for an fd, 0 if the fd is not in it
  conn,      \* what an fd is: closed, or open and let in with a token, or
             \* open and refused (0)
  handler,   \* websocket_handler on a data frame: its step, fd and token
  locked,    \* s_runtime_status.locked
  work,      \* httpd_queue_work: functions still to be run by the httpd task
  tap,       \* reset_control_task: the function it is about to queue
  permits,   \* taps made while locked whose unlock has yet to run
  overrun    \* a request answered with an error has changed something

sessions == <<made, session, expired>>
terminals == <<table, conn, handler>>
lock == <<locked, work, tap, permits>>
life == <<web, overrun>>
vars == <<sessions, terminals, lock, life>>

Token == 1 .. MaxTokens
Closed == -1
Waiting == [step |-> "idle", fd |-> Nobody, token |-> 0]
httpdIdle == web = "ready" /\ handler = Waiting

\* web_security_session_valid.
Valid(t) == t # 0 /\ t = session /\ ~expired

ClearedTable == [f \in Fd |-> 0]
Down ==
  /\ web = "down" /\ session = 0 /\ expired = FALSE
  /\ table = ClearedTable /\ conn = [f \in Fd |-> Closed]
  /\ handler = Waiting /\ locked = FALSE /\ work = <<>> /\ tap = "none" /\ permits = 0
Init == made = 0 /\ overrun = FALSE /\ Down

-----------------------------------------------------------------------------
(* web_server_start, in the order its steps become visible.                *)

SetServer ==
  /\ web = "down"
  /\ web' = "starting"
  /\ UNCHANGED <<sessions, terminals, lock, overrun>>

ResetStatus ==
  /\ web = "starting"
  /\ web' = "ready"
  /\ locked' = FALSE
  /\ table' = ClearedTable
  /\ UNCHANGED <<sessions, conn, handler, work, tap, permits, overrun>>

-----------------------------------------------------------------------------
(* Sessions.                                                               *)

\* Variant: a late request makes its expired session live on.
OpenTerminalRenewing(t) ==
  /\ httpdIdle
  /\ ~Valid(t)
  /\ IF t # 0 /\ t = session
     THEN /\ expired' = FALSE
          /\ UNCHANGED <<made, session>>
     ELSE /\ made < MaxTokens
          /\ made' = made + 1 /\ session' = made + 1 /\ expired' = FALSE
  /\ UNCHANGED <<terminals, lock, life>>

\* GET /terminal without the cookie of the session: ensure_web_session makes a
\* new one, which takes the place of the old.
OpenTerminal(t) ==
  /\ httpdIdle
  /\ ~Valid(t)
  /\ made < MaxTokens
  /\ made' = made + 1 /\ session' = made + 1 /\ expired' = FALSE
  /\ UNCHANGED <<terminals, lock, life>>

\* POST /logout with the session's cookie and CSRF token: its CSRF check answers
\* and returns if it fails, but after the error reply of its check of the origin
\* it goes on.
Logout(t, sameOrigin) ==
  /\ httpdIdle
  /\ Valid(t)
  /\ session' = 0 /\ expired' = FALSE
  /\ overrun' = (overrun \/ ~sameOrigin)
  /\ UNCHANGED <<made, terminals, lock, web>>

\* now_ms() passes expires_ms.
Expire ==
  /\ session # 0 /\ ~expired
  /\ expired' = TRUE
  /\ UNCHANGED <<made, session, terminals, lock, life>>

\* t is the token of a request that also has the CSRF token and the origin that
\* go with it, 0 stands for all others.
\* require_mutating_auth_csrf_origin returns what sending its error reply
\* returned: after a refusal whose reply was sent the handler goes on as if
\* the request had passed, and it ends only if the reply could not be sent.
GoesOn(t, replySent) == Valid(t) \/ replySent

\* POST /api/credentials/rotate: the callback of app_main stores the new
\* password, or fails and nothing changes.  Then the device restarts, unless
\* the reboot task could not be made.
Rotate(t, replySent) ==
  /\ httpdIdle
  /\ GoesOn(t, replySent)
  /\ session' = 0 /\ expired' = FALSE
  /\ locked' = TRUE
  /\ overrun' = (overrun \/ ~Valid(t))
  /\ UNCHANGED <<made, terminals, work, tap, permits, web>>

\* esp_restart, a power cut, or the power button held: all of this is RAM.
Restart ==
  /\ web # "down"
  /\ web' = "down" /\ session' = 0 /\ expired' = FALSE
  /\ table' = ClearedTable /\ conn' = [f \in Fd |-> Closed]
  /\ handler' = Waiting /\ locked' = FALSE /\ work' = <<>> /\ tap' = "none"
  /\ permits' = 0
  /\ UNCHANGED <<made, overrun>>

-----------------------------------------------------------------------------
(* Terminal connections.                                                   *)

Registered == {f \in Fd : table[f] # 0}

\* Variant: add_ws_fd leaves an entry that is there as it is.
ConnectKeepingEntry(f, t) ==
  /\ httpdIdle
  /\ conn[f] = Closed
  /\ IF Valid(t) THEN /\ conn' = [conn EXCEPT ![f] = t]
                      /\ table' = IF table[f] = 0 /\ Cardinality(Registered) < MaxClients
                                  THEN [table EXCEPT ![f] = t] ELSE table
     ELSE /\ conn' = [conn EXCEPT ![f] = 0] /\ UNCHANGED table
  /\ UNCHANGED <<sessions, handler, lock, life>>

\* Variant: the table takes any number of connections.
ConnectAny(f, t) ==
  /\ httpdIdle
  /\ conn[f] = Closed
  /\ IF Valid(t) THEN conn' = [conn EXCEPT ![f] = t] /\ table' = [table EXCEPT ![f] = t]
     ELSE conn' = [conn EXCEPT ![f] = 0] /\ UNCHANGED table
  /\ UNCHANGED <<sessions, handler, lock, life>>

\* GET /ws: the request is refused, or let in and put into the table if the
\* table has room or still has the fd from an earlier connection.  httpd has
\* answered the handshake before: the connection stays open in every case.
Connect(f, t) ==
  /\ httpdIdle
  /\ conn[f] = Closed
  /\ IF Valid(t) THEN /\ conn' = [conn EXCEPT ![f] = t]
                      /\ table' = IF table[f] # 0 \/ Cardinality(Registered) < MaxClients
                                  THEN [table EXCEPT ![f] = t] ELSE table
     ELSE /\ conn' = [conn EXCEPT ![f] = 0] /\ UNCHANGED table
  /\ UNCHANGED <<sessions, handler, lock, life>>

\* A data frame, or a close frame: the connection's entry must have the token
\* of the session, or it is taken out and the frame refused.
Frame(f) ==
  /\ httpdIdle
  /\ conn[f] # Closed
  /\ IF Valid(table[f])
     THEN /\ handler' = [step |-> "check", fd |-> f, token |-> table[f]]
          /\ UNCHANGED table
     ELSE /\ table' = [table EXCEPT ![f] = 0]
          /\ UNCHANGED handler
  /\ UNCHANGED <<sessions, conn, lock, life>>

\* The payload is there, and it is a close frame.
CloseFrame ==
  /\ handler.step = "check"
  /\ table' = [table EXCEPT ![handler.fd] = 0]
  /\ handler' = Waiting
  /\ UNCHANGED <<sessions, conn, lock, life>>

\* It does not come: the handler returns an error and httpd closes the socket.
FrameFails ==
  /\ handler.step = "check"
  /\ conn' = [conn EXCEPT ![handler.fd] = Closed]
  /\ handler' = Waiting
  /\ UNCHANGED <<sessions, table, lock, life>>

\* It is input: dropped if locked, if the session is over by now, or if
\* web_input_policy says so; else it is about to be submitted.
CheckInput(accepted) ==
  /\ handler.step = "check"
  /\ handler' = IF ~locked /\ Valid(handler.token) /\ accepted
                THEN [handler EXCEPT !.step = "write"] ELSE Waiting
  /\ UNCHANGED <<sessions, table, conn, lock, life>>

\* terminal_bridge_submit_input: the bytes are on their way to USB.
WriteInput ==
  /\ handler.step = "write"
  /\ handler' = Waiting
  /\ UNCHANGED <<sessions, table, conn, lock, life>>

\* The socket closes; the entry stays.
Disconnect(f) ==
  /\ httpdIdle
  /\ conn[f] # Closed
  /\ conn' = [conn EXCEPT ![f] = Closed]
  /\ UNCHANGED <<sessions, table, handler, lock, life>>

\* web_tx_task after a failed send, and the httpd task itself while it greets
\* a connection: remove_ws_fd.
RemoveFd(f) ==
  /\ table[f] # 0
  /\ table' = [table EXCEPT ![f] = 0]
  /\ UNCHANGED <<sessions, conn, handler, lock, life>>

\* ap_guard_task finds no station: clear_ws_fds.
ClearFds ==
  /\ table # ClearedTable
  /\ table' = ClearedTable
  /\ UNCHANGED <<sessions, conn, handler, lock, life>>

-----------------------------------------------------------------------------
(* The emergency lock.                                                     *)

\* POST /api/emergency-lock; queueing may fail, which is answered.
RequestLock(t, replySent) ==
  /\ httpdIdle
  /\ GoesOn(t, replySent)
  /\ Len(work) < MaxWork
  /\ work' = Append(work, "lock")
  /\ overrun' = (overrun \/ ~Valid(t))
  /\ UNCHANGED <<sessions, terminals, locked, tap, permits, web>>

\* Variant: the lock is set at once by the task that sees the tap.
TapSetsLock ==
  /\ web # "down"
  /\ tap = "none"
  /\ locked' = ~locked
  /\ permits' = IF locked THEN 0 ELSE permits
  /\ UNCHANGED <<sessions, terminals, work, tap, life>>

\* A tap of the power button: web_server_emergency_lock_toggle looks at the
\* lock as it is now.
Tap ==
  /\ web # "down"
  /\ tap = "none"
  /\ tap' = IF locked THEN "unlock" ELSE "lock"
  /\ permits' = IF locked THEN permits + 1 ELSE permits
  /\ UNCHANGED <<sessions, terminals, locked, work, life>>

\* Then it queues what it decided, which may fail and is only logged.
QueueTap(queued) ==
  /\ tap # "none"
  /\ IF queued THEN /\ Len(work) < MaxWork
                    /\ work' = Append(work, tap)
                    /\ UNCHANGED permits
     ELSE /\ permits' = IF tap = "unlock" THEN permits - 1 ELSE permits
          /\ UNCHANGED work
  /\ tap' = "none"
  /\ UNCHANGED <<sessions, terminals, locked, life>>

\* Variant: the work toggles the lock when it runs.
DoWorkToggling ==
  /\ web # "down" /\ handler = Waiting
  /\ work # <<>>
  /\ locked' = ~locked
  /\ permits' = IF Head(work) = "unlock" THEN permits - 1 ELSE permits
  /\ work' = Tail(work)
  /\ UNCHANGED <<sessions, terminals, tap, life>>

\* Variant: locking is skipped while there is no session.
DoWorkIfSession ==
  /\ web # "down" /\ handler = Waiting
  /\ work # <<>>
  /\ locked' = IF Head(work) = "lock" THEN locked \/ session # 0 ELSE FALSE
  /\ permits' = IF Head(work) = "unlock" THEN permits - 1 ELSE permits
  /\ work' = Tail(work)
  /\ UNCHANGED <<sessions, terminals, tap, life>>

\* The httpd task runs emergency_lock_work or emergency_unlock_work, between
\* two requests.
DoWork ==
  /\ web # "down" /\ handler = Waiting
  /\ work # <<>>
  /\ locked' = (Head(work) = "lock")
  /\ permits' = IF Head(work) = "unlock" THEN permits - 1 ELSE permits
  /\ work' = Tail(work)
  /\ UNCHANGED <<sessions, terminals, tap, life>>

-----------------------------------------------------------------------------

Request(t) ==
  \/ OpenTerminal(t)
  \/ \E sameOrigin \in BOOLEAN : Logout(t, sameOrigin)
  \/ \E replySent \in BOOLEAN : RequestLock(t, replySent) \/ Rotate(t, replySent)

HandlerGoesOn ==
  CloseFrame \/ FrameFails \/ WriteInput \/ \E accepted \in BOOLEAN : CheckInput(accepted)

Terminal ==
  \/ \E f \in Fd : \/ \E t \in 0 .. made : Connect(f, t)
                   \/ Frame(f) \/ Disconnect(f) \/ RemoveFd(f)
  \/ HandlerGoesOn
  \/ ClearFds

Next ==
  \/ SetServer \/ ResetStatus \/ Restart
  \/ \E t \in 0 .. made : Request(t)
  \/ Expire
  \/ Terminal
  \/ Tap \/ (\E queued \in BOOLEAN : QueueTap(queued)) \/ DoWork

Spec == Init /\ [][Next]_vars

\* The httpd task ends the handler it is in and then turns to queued work,
\* also if requests keep coming (its select loop reads the control socket).
FairSpec ==
  Spec /\ WF_vars(HandlerGoesOn) /\ SF_vars(DoWork)

-----------------------------------------------------------------------------

\* Every variable keeps its type; the table never holds more connections than
\* it has slots.
TypeOK ==
  /\ web \in {"down", "starting", "ready"}
  /\ made \in 0 .. MaxTokens /\ session \in 0 .. made /\ expired \in BOOLEAN
  /\ table \in [Fd -> 0 .. made] /\ Cardinality(Registered) <= MaxClients
  /\ conn \in [Fd -> {Closed} \cup 0 .. made]
  /\ handler \in [step : {"idle", "check", "write"}, fd : Fd \cup {Nobody}, token : 0 .. made]
  /\ {locked, overrun} \subseteq BOOLEAN
  /\ work \in Seq({"lock", "unlock"}) /\ Len(work) <= MaxWork
  /\ tap \in {"none", "lock", "unlock"}
  /\ permits \in Nat

\* Input about to reach the host came while nothing was locked and under the
\* token of the session that is still current, from a connection that this
\* session let in or from one that was refused: lock work, logout, a new session
\* and the reuse of the descriptor wait for their turn on the httpd task, so none
\* comes between the check of a frame and its write.  The time of the session may
\* run out in between, and InputAuthorised is about refused connections.
InputOfSession ==
  handler.step = "write" =>
    ~locked /\ handler.token = session /\ conn[handler.fd] \in {0, session}

\* A session that was replaced, logged out, rotated away or that expired never
\* comes back, whatever requests its browser goes on sending.
EndedStaysEnded ==
  [][\A t \in 1 .. made : ~Valid(t) => ~Valid(t)']_vars

\* A connection that was let in is known by the session that let it in, also
\* when its descriptor was in the table from an earlier connection.
EntryMatchesConnection ==
  \A f \in Fd : (conn[f] > 0 /\ table[f] # 0) => table[f] = conn[f]

\* Unlocking takes a tap on the device made while it was locked: no request,
\* repeated lock or late work item unlocks.  A restart does, and so does the
\* end of web_server_start (ResetStatus).
UnlockNeedsTap ==
  [][(locked /\ ~locked' /\ web = "ready" /\ web' = "ready") => permits > 0]_vars

\* A lock that was queued takes effect, unless the device restarts.
LockQueued == \E i \in 1 .. Len(work) : work[i] = "lock"
LockTakesEffect == LockQueued ~> (locked \/ web = "down")

\* "ninguna pagina sensible ni WebSocket de terminal funciona sin sesion
\* autenticada": what is about to reach the host comes from a connection that the
\* current session let in.
InputAuthorised == handler.step = "write" => conn[handler.fd] = session

\* "POST autenticado externo sin token valido no puede [...] cambiar
\* configuracion": a request that is answered with an error changes nothing.
RefusedChangesNothing == ~overrun
=============================================================================
