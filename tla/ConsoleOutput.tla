----------------------------- MODULE ConsoleOutput -----------------------------
(***************************************************************************)
(* The way of console output to the browsers.  usb_rx_task publishes what  *)
(* it reads and, in the bridge's callback, filters it and queues it for    *)
(* web_tx_task, which sends every chunk to the connections in              *)
(* s_ws_clients; the httpd task registers a new terminal connection and    *)
(* then greets it with the end of the scrollback.  Bytes are numbered in   *)
(* the order they are published, a chunk is the set of its bytes, and the  *)
(* ANSI filter is reduced to its contract, which AnsiFilter checks.        *)
(***************************************************************************)
EXTENDS Integers, Sequences, FiniteSets

CONSTANTS
  Fd,           \* socket descriptors a terminal connection may have
  Nobody,       \* not an fd
  MaxClients,   \* WEB_MAX_WS_CLIENTS
  QueueDepth,   \* WEB_TX_QUEUE_DEPTH
  ReadMax,      \* USB_CONSOLE_BUF_SIZE
  ChunkMax,     \* WEB_TX_CHUNK_MAX
  SnapshotMax,  \* sizeof(snapshot) of send_scrollback_to_ws_client, which
                \* is less than the scrollback retains
  PieceMax,     \* WEB_SCROLLBACK_SEND_CHUNK_MAX
  MaxBytes      \* bound: bytes published in one run of the model

ASSUME OutputAssumption ==
  /\ IsFiniteSet(Fd) /\ Nobody \notin Fd
  /\ {MaxClients, QueueDepth, ReadMax, ChunkMax, SnapshotMax, PieceMax} \subseteq Nat \ {0}
  /\ MaxBytes \in Nat

VARIABLES
  published,  \* bytes published, all of them in the scrollback
  fed,        \* bytes bridge_output_cb has passed to the filter or given up
  held,       \* bytes in s_web_ansi_state: an escape sequence not yet complete
  hidden,     \* bytes the filter took out
  dropped,    \* bytes lost because the queue was full
  queue,      \* s_tx_queue
  tx,         \* web_tx_task: its chunk, who is still to get it, whose send failed
  registered, \* the fds in s_ws_clients
  open,       \* the fds of open connections that asked for /ws
  greeting,   \* the httpd task in websocket_handler: for whom, doing what
  owed,       \* per connection: it is to get the bytes from this one on
  live,       \* per connection: bytes broadcast to it
  replayed    \* per connection: bytes it was greeted with

usbRx == <<published, fed, held, hidden, dropped>>
clients == <<open, greeting, owed, replayed>>
vars == <<usbRx, queue, tx, registered, clients, live>>

Position == 1 .. MaxBytes
Smaller(m, n) == IF m < n THEN m ELSE n
Before(s, t) == \A p \in s, q \in t : p < q
Idle == [fd |-> Nobody, step |-> "idle", rest |-> {}]
NoChunk == [chunk |-> {}, to |-> {}, failed |-> Nobody]
Unseen == [f \in Fd |-> {}]

Init ==
  /\ published = 0 /\ fed = 0
  /\ held = {} /\ hidden = {} /\ dropped = {}
  /\ queue = <<>>
  /\ tx = NoChunk
  /\ registered = {} /\ open = {}
  /\ greeting = Idle
  /\ owed = [f \in Fd |-> 1]
  /\ live = Unseen /\ replayed = Unseen

-----------------------------------------------------------------------------
(* usb_rx_task.                                                            *)

\* A read and the part of terminal_bridge_publish_usb_output under s_lock.
UsbRead(n) ==
  /\ fed = published
  /\ published + n <= MaxBytes
  /\ published' = published + n
  /\ UNCHANGED <<fed, held, hidden, dropped, queue, tx, registered, clients, live>>

\* What web_terminal_ansi_filter may do with the bytes it has not decided on:
\* show some, in order, and keep an unfinished sequence for the next call.
Filter(pool, shown, kept) ==
  /\ Before(shown, kept)
  /\ held' = kept
  /\ hidden' = hidden \cup (pool \ (shown \cup kept))

\* Variant: the callback waits for room in the queue.
FilterChunkWaiting(shown, kept) ==
  /\ fed < published
  /\ LET upto == Smaller(fed + ChunkMax, published)
         pool == held \cup (fed + 1 .. upto)
     IN  /\ shown \cup kept \subseteq pool /\ shown \cap kept = {}
         /\ Filter(pool, shown, kept)
         /\ Len(queue) < QueueDepth
         /\ queue' = IF shown = {} THEN queue ELSE Append(queue, shown)
         /\ fed' = upto
  /\ UNCHANGED <<published, dropped, tx, registered, clients, live>>

\* Variant: the queue takes one chunk too many.
FilterChunkTooMany(shown, kept) ==
  /\ fed < published
  /\ LET upto == Smaller(fed + ChunkMax, published)
         pool == held \cup (fed + 1 .. upto)
     IN  /\ shown \cup kept \subseteq pool /\ shown \cap kept = {}
         /\ Filter(pool, shown, kept)
         /\ \/ /\ shown = {} \/ Len(queue) <= QueueDepth
               /\ queue' = IF shown = {} THEN queue ELSE Append(queue, shown)
               /\ fed' = upto
               /\ UNCHANGED dropped
            \/ /\ shown # {} /\ Len(queue) > QueueDepth
               /\ dropped' = dropped \cup shown \cup (upto + 1 .. published)
               /\ fed' = published
               /\ UNCHANGED queue
  /\ UNCHANGED <<published, tx, registered, clients, live>>

\* One turn of the loop of bridge_output_cb.  It never waits: if the queue is
\* full, the chunk and all that is left of the read is dropped.
FilterChunk(shown, kept) ==
  /\ fed < published
  /\ LET upto == Smaller(fed + ChunkMax, published)
         pool == held \cup (fed + 1 .. upto)
     IN  /\ shown \cup kept \subseteq pool /\ shown \cap kept = {}
         /\ Filter(pool, shown, kept)
         /\ \/ /\ shown = {}
               /\ fed' = upto
               /\ UNCHANGED <<queue, dropped>>
            \/ /\ shown # {} /\ Len(queue) < QueueDepth
               /\ queue' = Append(queue, shown)
               /\ fed' = upto
               /\ UNCHANGED dropped
            \/ /\ shown # {} /\ Len(queue) = QueueDepth
               /\ dropped' = dropped \cup shown \cup (upto + 1 .. published)
               /\ fed' = published
               /\ UNCHANGED queue
  /\ UNCHANGED <<published, tx, registered, clients, live>>

Undecided == held \cup (fed + 1 .. Smaller(fed + ChunkMax, published))
Callback == \E shown, kept \in SUBSET Undecided : FilterChunk(shown, kept)

-----------------------------------------------------------------------------
(* web_tx_task.                                                            *)

\* Take a chunk and copy the table of connections.
TxReceive ==
  /\ tx = NoChunk
  /\ queue # <<>>
  /\ tx' = [chunk |-> Head(queue), to |-> registered, failed |-> Nobody]
  /\ queue' = Tail(queue)
  /\ UNCHANGED <<usbRx, registered, clients, live>>

\* httpd_ws_send_frame_async succeeds for one fd of the copy; an fd that no
\* terminal connection has is refused.
TxSend(f) ==
  /\ tx.failed = Nobody
  /\ f \in tx.to \cap open
  /\ tx' = IF tx.to = {f} THEN NoChunk ELSE [tx EXCEPT !.to = @ \ {f}]
  /\ live' = [live EXCEPT ![f] = @ \cup tx.chunk]
  /\ UNCHANGED <<usbRx, queue, registered, clients>>

\* Variant: a failed chunk is queued again, to be sent once more.
TxFailRequeue(f) ==
  /\ tx.failed = Nobody
  /\ f \in tx.to
  /\ tx' = [tx EXCEPT !.failed = f]
  /\ queue' = IF Len(queue) < QueueDepth THEN Append(queue, tx.chunk) ELSE queue
  /\ UNCHANGED <<usbRx, registered, clients, live>>

\* Variant: a failed chunk is tried again until the client takes it.
TxFailRetry(f) ==
  /\ tx.failed = Nobody
  /\ f \in tx.to
  /\ UNCHANGED vars

\* The send fails, whether or not the connection is gone.
TxFail(f) ==
  /\ tx.failed = Nobody
  /\ f \in tx.to
  /\ tx' = [tx EXCEPT !.failed = f]
  /\ UNCHANGED <<usbRx, queue, registered, clients, live>>

\* Then remove_ws_fd, which knows the connection by its fd only.
TxRemove ==
  /\ tx.failed # Nobody
  /\ registered' = registered \ {tx.failed}
  /\ tx' = IF tx.to = {tx.failed} THEN NoChunk
           ELSE [tx EXCEPT !.to = @ \ {tx.failed}, !.failed = Nobody]
  /\ UNCHANGED <<usbRx, queue, clients, live>>

\* Nobody is connected: the chunk is forgotten.
TxNobody ==
  /\ tx.chunk # {} /\ tx.to = {}
  /\ tx' = NoChunk
  /\ UNCHANGED <<usbRx, queue, registered, clients, live>>

WebTx == TxReceive \/ TxRemove \/ TxNobody \/ \E f \in Fd : TxSend(f) \/ TxFail(f)

-----------------------------------------------------------------------------
(* The httpd task, which handles one connection at a time.                 *)

\* What snapshot_recent_output has for a new connection.
Oldest == IF published <= SnapshotMax THEN 1 ELSE published - SnapshotMax + 1
Snapshot == Oldest .. published

\* Variant: the scrollback is copied first and the fd registered afterwards.
AcceptSnapshotFirst(f) ==
  \/ /\ greeting = Idle
     /\ f \notin open
     /\ f \in registered \/ Cardinality(registered) < MaxClients
     /\ Snapshot # {}
     /\ open' = open \cup {f}
     /\ owed' = [owed EXCEPT ![f] = Oldest]
     /\ greeting' = [fd |-> f, step |-> "send", rest |-> Snapshot]
     /\ live' = [live EXCEPT ![f] = {}]
     /\ replayed' = [replayed EXCEPT ![f] = {}]
     /\ UNCHANGED <<usbRx, queue, tx, registered>>
  \/ /\ greeting.fd = f
     /\ registered' = registered \cup {f}
     /\ UNCHANGED <<usbRx, queue, tx, clients, live>>

\* A GET on /ws passed its checks: add_ws_fd.  The fd may still be in the
\* table from a connection that went away without a close frame.
Accept(f) ==
  /\ greeting = Idle
  /\ f \notin open
  /\ f \in registered \/ Cardinality(registered) < MaxClients
  /\ open' = open \cup {f}
  /\ registered' = registered \cup {f}
  /\ greeting' = [fd |-> f, step |-> "copy", rest |-> {}]
  /\ live' = [live EXCEPT ![f] = {}]
  /\ replayed' = [replayed EXCEPT ![f] = {}]
  /\ UNCHANGED <<usbRx, queue, tx, owed>>

\* A GET on /ws is refused: no valid session, a foreign origin, no room in the
\* table.  The socket stays open, and if its fd is in the table from an earlier
\* connection, it gets what is broadcast to that entry.
Refuse(f) ==
  /\ greeting = Idle
  /\ f \notin open
  /\ open' = open \cup {f}
  /\ owed' = IF f \in registered THEN [owed EXCEPT ![f] = published + 1] ELSE owed
  /\ live' = [live EXCEPT ![f] = {}]
  /\ replayed' = [replayed EXCEPT ![f] = {}]
  /\ UNCHANGED <<usbRx, queue, tx, registered, greeting>>

\* send_scrollback_to_ws_client copies the end of the scrollback.
CopySnapshot ==
  /\ greeting.step = "copy"
  /\ owed' = [owed EXCEPT ![greeting.fd] = Oldest]
  /\ greeting' = IF Snapshot = {} THEN Idle
                 ELSE [greeting EXCEPT !.step = "send", !.rest = Snapshot]
  /\ UNCHANGED <<usbRx, queue, tx, registered, open, live, replayed>>

\* One frame of it; what the filter takes out of it counts as sent.
SendPiece ==
  /\ greeting.step = "send"
  /\ LET piece == {p \in greeting.rest :
                     Cardinality({q \in greeting.rest : q <= p}) <= PieceMax}
         rest  == greeting.rest \ piece
     IN  /\ replayed' = [replayed EXCEPT ![greeting.fd] = @ \cup piece]
         /\ greeting' = IF rest = {} THEN Idle ELSE [greeting EXCEPT !.rest = rest]
  /\ UNCHANGED <<usbRx, queue, tx, registered, open, owed, live>>

\* The send fails: the connection is taken out of the table.
GreetingFails ==
  /\ greeting.step = "send"
  /\ registered' = registered \ {greeting.fd}
  /\ greeting' = Idle
  /\ UNCHANGED <<usbRx, queue, tx, open, owed, live, replayed>>

\* A close frame, or a frame of a session that is no longer valid: the handler
\* takes the connection out of the table.
CloseFrame(f) ==
  /\ greeting = Idle
  /\ f \in open
  /\ open' = open \ {f}
  /\ registered' = registered \ {f}
  /\ UNCHANGED <<usbRx, queue, tx, greeting, owed, live, replayed>>

\* The connection breaks: httpd closes the socket and tells nobody.
Break(f) ==
  /\ greeting = Idle
  /\ f \in open
  /\ open' = open \ {f}
  /\ UNCHANGED <<usbRx, queue, tx, registered, greeting, owed, live, replayed>>

\* ap_guard_task found no WiFi station: clear_ws_fds.
ClearClients ==
  /\ registered # {}
  /\ registered' = {}
  /\ UNCHANGED <<usbRx, queue, tx, clients, live>>

Httpd ==
  \/ \E f \in Fd : Accept(f) \/ Refuse(f) \/ CloseFrame(f) \/ Break(f)
  \/ CopySnapshot \/ SendPiece \/ GreetingFails

Next == (\E n \in 1 .. ReadMax : UsbRead(n)) \/ Callback \/ WebTx \/ Httpd \/ ClearClients

Spec == Init /\ [][Next]_vars

\* usb_rx_task runs on, and nothing else is sure to: clients may stall web_tx
\* and httpd for as long as they like.
StalledWebSpec == Spec /\ WF_vars(Callback)

-----------------------------------------------------------------------------

\* Every variable keeps its type, the queue and the table of connections
\* their size, and the chunk being sent is never an empty frame.
TypeOK ==
  /\ published \in 0 .. MaxBytes /\ fed \in 0 .. published
  /\ {held, hidden, dropped} \subseteq SUBSET Position
  /\ queue \in Seq((SUBSET Position) \ {{}}) /\ Len(queue) <= QueueDepth
  /\ tx \in [chunk : SUBSET Position, to : SUBSET Fd, failed : Fd \cup {Nobody}]
  /\ registered \subseteq Fd /\ Cardinality(registered) <= MaxClients
  /\ open \subseteq Fd
  /\ greeting \in [fd : Fd \cup {Nobody}, step : {"idle", "copy", "send"},
                   rest : SUBSET Position]
  /\ owed \in [Fd -> Nat \ {0}]
  /\ live \in [Fd -> SUBSET Position] /\ replayed \in [Fd -> SUBSET Position]

Queued == UNION {queue[i] : i \in 1 .. Len(queue)}

\* Where a byte may be that connection f has not got: still on its way to f,
\* or taken out for everybody.
OnItsWay(f) ==
  (fed + 1 .. published) \cup held \cup Queued
    \cup (IF f \in tx.to THEN tx.chunk ELSE {})
    \cup (IF greeting.fd = f THEN greeting.rest ELSE {})

\* A terminal that stays connected misses nothing between the scrollback it is
\* greeted with and the live output, although the two come from two tasks: from
\* its oldest byte on, each is delivered, on its way, filtered or dropped for
\* all because the queue was full.
NoGap ==
  \A f \in registered \cap open :
    ~(greeting.fd = f /\ greeting.step = "copy") =>
      owed[f] .. published
        \subseteq live[f] \cup replayed[f] \cup hidden \cup dropped \cup OnItsWay(f)

\* Live output comes in order and once: all that is still to be broadcast to a
\* connection is newer than all that was.
LiveInOrder ==
  /\ \A i, j \in 1 .. Len(queue) : i < j => Before(queue[i], queue[j])
  /\ \A f \in Fd :
       /\ Before(live[f], Queued)
       /\ f \in tx.to => Before(live[f], tx.chunk)

\* Reading USB never waits for the web side ("no bloquea si el cliente o USB se
\* atascan"): with web_tx and httpd stalled, all that is read is soon dealt with.
UsbReaderNeverWaits == []<>(fed = published)

\* A client that fails does not hold up the others: as long as web_tx_task runs
\* and a send ends, well or not (httpd's send timeout), all that was queued for
\* broadcast leaves the queue and the task once the host is silent, which it is
\* here when its bytes are used up.
QueueDrains == WF_vars(WebTx) => []<>(queue = <<>> /\ tx = NoChunk)
=============================================================================
