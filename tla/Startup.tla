------------------------------ MODULE Startup --------------------------------
(***************************************************************************)
(* The end of app_main: access point, USB console, web server, and what a  *)
(* start of the web server that fails takes back.                          *)
(*                                                                         *)
(* The parts that are already running do not wait for the main task: the   *)
(* USB reader publishes, the HTTP server accepts connections from the      *)
(* moment it listens, web_tx and ap_guard run once they are created, the   *)
(* display looks at the number of connections every two seconds.  All but  *)
(* the reader take s_ws_fds_lock.  A failed start deletes the two tasks    *)
(* and the queue wherever they are.                                        *)
(***************************************************************************)
EXTENDS Naturals

CONSTANT Nobody     \* nobody holds the lock

VARIABLES
  step,         \* where the main task is
  at,           \* where the tasks are that take s_ws_fds_lock
  holder,       \* holder of s_ws_fds_lock
  lockReady,    \* s_ws_fds_lock is created
  server,       \* the HTTP server listens
  wsRoute,      \* the handler of /ws is registered
  queue,        \* s_tx_queue: "none", "ready", "dangling" once deleted, "none" again
  chunk,        \* something is in the queue
  reader,       \* where usb_rx_task is
  subscribed,   \* bridge_output_cb is registered with the bridge
  apStarted,    \* s_status.started of wifi_ap.c
  webStarted,   \* s_runtime_status.started of web_server.c
  crashed       \* somebody used a queue that is not there

startVars == <<step, at, holder, lockReady, server, wsRoute, queue, chunk, reader,
               subscribed, apStarted, webStarted, crashed>>

Task == {"web_tx", "ap_guard", "httpd", "lvgl"}

ASSUME StartupAssumption == Nobody \notin Task

Place == {"absent", "idle", "wants", "holds", "deleted"}
Steps == {"ap", "usb", "init", "listen", "queue", "routes", "web_tx", "ap_guard",
          "callback", "demo", "done",
          "kill web_tx", "kill ap_guard", "delete queue", "forget queue",
          "stop server", "failed"}
-----------------------------------------------------------------------------
StartInit ==
  /\ step = "ap"
  /\ at = [t \in Task |-> IF t = "lvgl" THEN "idle" ELSE "absent"]
  /\ holder = Nobody /\ lockReady = FALSE
  /\ server = FALSE /\ wsRoute = FALSE
  /\ queue = "none" /\ chunk = FALSE
  /\ reader = "absent" /\ subscribed = FALSE
  /\ apStarted = FALSE /\ webStarted = FALSE
  /\ crashed = FALSE

-----------------------------------------------------------------------------
(* The main task.                                                          *)

(* wifi_ap_start undoes what it has done when a call of it fails; then     *)
(* there is no web server.                                                 *)
StartAp ==
  /\ step = "ap"
  /\ apStarted' \in BOOLEAN
  /\ step' = "usb"
  /\ UNCHANGED <<at, holder, lockReady, server, wsRoute, queue, chunk, reader,
                 subscribed, webStarted, crashed>>

(* usb_console_start may fail before or after usb_rx is created; app_main  *)
(* goes on either way.                                                     *)
StartUsb ==
  /\ step = "usb"
  /\ reader' \in {"absent", "idle"}
  /\ step' = IF apStarted THEN "init" ELSE "failed"
  /\ UNCHANGED <<at, holder, lockReady, server, wsRoute, queue, chunk, subscribed,
                 apStarted, webStarted, crashed>>

(* web_server_start: policies, locks, log and configuration.               *)
InitWeb ==
  /\ step = "init"
  /\ \/ lockReady' = TRUE /\ step' = "listen"
     \/ step' = "failed" /\ UNCHANGED lockReady
  /\ UNCHANGED <<at, holder, server, wsRoute, queue, chunk, reader, subscribed,
                 apStarted, webStarted, crashed>>

(* httpd_start or httpd_ssl_start; nothing is to be undone when it fails.  *)
Listen ==
  /\ step = "listen"
  /\ \/ /\ server' = TRUE /\ webStarted' = TRUE
        /\ at' = [at EXCEPT !["httpd"] = "idle"]
        /\ step' = "queue"
     \/ step' = "failed" /\ UNCHANGED <<server, webStarted, at>>
  /\ UNCHANGED <<holder, lockReady, wsRoute, queue, chunk, reader, subscribed,
                 apStarted, crashed>>

CreateQueue ==
  /\ step = "queue"
  /\ \/ queue' = "ready" /\ step' = "routes"
     \/ step' = "kill web_tx" /\ UNCHANGED queue
  /\ UNCHANGED <<at, holder, lockReady, server, wsRoute, chunk, reader, subscribed,
                 apStarted, webStarted, crashed>>

(* The registrations, with /ws near their end.                             *)
RegisterRoutes ==
  /\ step = "routes"
  /\ \/ wsRoute' = TRUE /\ step' = "web_tx"
     \/ wsRoute' \in BOOLEAN /\ step' = "kill web_tx"
  /\ UNCHANGED <<at, holder, lockReady, server, queue, chunk, reader, subscribed,
                 apStarted, webStarted, crashed>>

(* xTaskCreate for web_tx and for ap_guard.                                *)
CreateTask(t, next) ==
  /\ step = t
  /\ \/ at' = [at EXCEPT ![t] = "idle"] /\ step' = next
     \/ step' = "kill web_tx" /\ UNCHANGED at
  /\ UNCHANGED <<holder, lockReady, server, wsRoute, queue, chunk, reader, subscribed,
                 apStarted, webStarted, crashed>>

CreateWebTx == CreateTask("web_tx", "ap_guard")
CreateApGuard == CreateTask("ap_guard", "callback")

(* terminal_bridge_register_output_callback, for good.  It cannot fail:    *)
(* the bridge has static objects and four places, and this call is the     *)
(* only one for a place.                                                   *)
Subscribe ==
  /\ step = "callback"
  /\ subscribed' = TRUE
  /\ step' = "demo"
  /\ UNCHANGED <<at, holder, lockReady, server, wsRoute, queue, chunk, reader,
                 apStarted, webStarted, crashed>>

(* demo_serial_runtime_start creates a task.                               *)
StartDemo ==
  /\ step = "demo"
  /\ step' \in {"done", "kill web_tx"}
  /\ UNCHANGED <<at, holder, lockReady, server, wsRoute, queue, chunk, reader,
                 subscribed, apStarted, webStarted, crashed>>
-----------------------------------------------------------------------------
(* cleanup_failed_start.                                                   *)

\* Variant: the task is deleted only if it does nothing.
KillIfIdle(t, here, next) ==
  /\ step = here
  /\ at' = [at EXCEPT ![t] = IF @ = "idle" THEN "deleted" ELSE @]
  /\ step' = next
  /\ UNCHANGED <<holder, lockReady, server, wsRoute, queue, chunk, reader, subscribed,
                 apStarted, webStarted, crashed>>

(* vTaskDelete, wherever the task is.  It keeps the locks it holds.        *)
Kill(t, here, next) ==
  /\ step = here
  /\ at' = [at EXCEPT ![t] = IF @ = "absent" THEN "absent" ELSE "deleted"]
  /\ step' = next
  /\ UNCHANGED <<holder, lockReady, server, wsRoute, queue, chunk, reader, subscribed,
                 apStarted, webStarted, crashed>>

KillWebTx == Kill("web_tx", "kill web_tx", "kill ap_guard")
KillApGuard == Kill("ap_guard", "kill ap_guard", "delete queue")

DeleteQueue ==
  /\ step = "delete queue"
  /\ queue' = IF queue = "ready" THEN "dangling" ELSE queue
  /\ chunk' = FALSE
  /\ step' = "forget queue"
  /\ UNCHANGED <<at, holder, lockReady, server, wsRoute, reader, subscribed,
                 apStarted, webStarted, crashed>>

ForgetQueue ==
  /\ step = "forget queue"
  /\ queue' = "none"
  /\ step' = "stop server"
  /\ UNCHANGED <<at, holder, lockReady, server, wsRoute, chunk, reader, subscribed,
                 apStarted, webStarted, crashed>>

(* httpd_stop waits for the server's task, which looks for the request to  *)
(* stop between two handlers.                                              *)
StopServer ==
  /\ step = "stop server"
  /\ at["httpd"] = "idle"
  /\ at' = [at EXCEPT !["httpd"] = "deleted"]
  /\ server' = FALSE /\ wsRoute' = FALSE /\ webStarted' = FALSE
  /\ step' = "failed"
  /\ UNCHANGED <<holder, lockReady, queue, chunk, reader, subscribed, apStarted, crashed>>

MainTask ==
  \/ StartAp \/ StartUsb \/ InitWeb \/ Listen \/ CreateQueue \/ RegisterRoutes
  \/ CreateWebTx \/ CreateApGuard \/ Subscribe \/ StartDemo
  \/ KillWebTx \/ KillApGuard \/ DeleteQueue \/ ForgetQueue \/ StopServer
-----------------------------------------------------------------------------
(* The others.                                                             *)

(* A reason to look at the table of connections: a chunk to send, a tick   *)
(* of the guard, a request of /ws, a refresh of the display (which gets 0  *)
(* before the lock is there).                                              *)
Want(t) ==
  /\ at[t] = "idle" /\ lockReady
  /\ t = "httpd" => wsRoute
  /\ t = "web_tx" => chunk
  /\ chunk' = IF t = "web_tx" THEN FALSE ELSE chunk
  /\ at' = [at EXCEPT ![t] = "wants"]
  /\ UNCHANGED <<step, holder, lockReady, server, wsRoute, queue, reader, subscribed,
                 apStarted, webStarted, crashed>>

Take(t) ==
  /\ at[t] = "wants" /\ holder = Nobody
  /\ holder' = t
  /\ at' = [at EXCEPT ![t] = "holds"]
  /\ UNCHANGED <<step, lockReady, server, wsRoute, queue, chunk, reader, subscribed,
                 apStarted, webStarted, crashed>>

(* web_tx takes the lock again for each connection a send to fails; a      *)
(* greeting and the guard may take it several times, too.                  *)
Give(t) ==
  /\ at[t] = "holds"
  /\ holder' = Nobody
  /\ \E next \in {"idle", "wants"} : at' = [at EXCEPT ![t] = next]
  /\ UNCHANGED <<step, lockReady, server, wsRoute, queue, chunk, reader, subscribed,
                 apStarted, webStarted, crashed>>

(* terminal_bridge_publish_usb_output calls bridge_output_cb, which looks  *)
(* at s_tx_queue, filters, and sends.                                      *)
Publish ==
  /\ reader = "idle" /\ subscribed /\ queue # "none"
  /\ reader' = "sends"
  /\ UNCHANGED <<step, at, holder, lockReady, server, wsRoute, queue, chunk, subscribed,
                 apStarted, webStarted, crashed>>

SendChunk ==
  /\ reader = "sends"
  /\ crashed' = (crashed \/ queue # "ready")
  /\ chunk' = (chunk \/ queue = "ready")
  /\ reader' = "idle"
  /\ UNCHANGED <<step, at, holder, lockReady, server, wsRoute, queue, subscribed,
                 apStarted, webStarted>>

Others ==
  \/ \E t \in Task : Want(t) \/ Take(t) \/ Give(t)
  \/ Publish \/ SendChunk

(* A use of memory that is gone is the end of what the model follows.      *)
StartNext == ~crashed /\ (MainTask \/ Others)

StartSpec == StartInit /\ [][StartNext]_startVars
-----------------------------------------------------------------------------
(* The types of the variables; the holder of the lock is where it says.    *)
StartTypeOK ==
  /\ step \in Steps
  /\ at \in [Task -> Place]
  /\ holder \in Task \cup {Nobody}
  /\ lockReady \in BOOLEAN /\ server \in BOOLEAN /\ wsRoute \in BOOLEAN
  /\ queue \in {"none", "ready", "dangling"} /\ chunk \in BOOLEAN
  /\ reader \in {"absent", "idle", "sends"} /\ subscribed \in BOOLEAN
  /\ apStarted \in BOOLEAN /\ webStarted \in BOOLEAN /\ crashed \in BOOLEAN

(* A start that failed, at whichever call, leaves neither server nor queue *)
(* nor a task that runs, and says so in its status.  It leaves             *)
(* bridge_output_cb registered if it failed at the last call of all, with  *)
(* both tasks made; the callback then finds no queue and does nothing.  A  *)
(* start that did not fail leaves everything.                              *)
AllOrNothing ==
  LET alive == {t \in Task \ {"lvgl"} : at[t] \in {"idle", "wants", "holds"}}
  IN  /\ step = "failed" => /\ alive = {}
                            /\ ~server /\ ~webStarted /\ queue = "none"
                            /\ subscribed => /\ at["web_tx"] = "deleted"
                                             /\ at["ap_guard"] = "deleted"
      /\ step = "done" => /\ alive = Task \ {"lvgl"}
                          /\ server /\ webStarted /\ queue = "ready" /\ subscribed

(* main/app_main.c:531, "web/auth service failed after WiFi startup;       *)
(* keeping AP alive for rescue diagnostics": whatever fails, the others go *)
(* on: nobody uses a queue that was deleted, and nobody waits for a lock   *)
(* whose holder was.                                                       *)
RescueAlive ==
  /\ ~crashed
  /\ \A t \in Task : at[t] = "wants" => holder = Nobody \/ at[holder] # "deleted"
=============================================================================
