---------------------------- MODULE TerminalBridge ----------------------------
(***************************************************************************)
(* The output half of the terminal bridge: the scrollback ring             *)
(* (terminal_scrollback.c) behind the mutex s_lock (terminal_bridge.c).    *)
(* Several tasks publish output, others take snapshots or read the status. *)
(* The ring is written one byte per step while the publisher holds s_lock; *)
(* the copy of a snapshot and of the status are single steps, since they   *)
(* only read and hold the same mutex from start to end.                    *)
(***************************************************************************)
EXTENDS Integers, Sequences

CONSTANTS
  Byte, Nul,    \* byte values; s_scrollback_storage starts zeroed
  Batches,      \* batches a task may publish in one call
  Publishers,   \* tasks that publish (usb_rx, demo_serial)
  NoTask,       \* s_lock is free
  Capacity,     \* BRIDGE_SCROLLBACK_SIZE
  SnapshotMax,  \* sizeof(snapshot) of send_scrollback_to_ws_client
  MaxTotal      \* bound: bytes published in one run of the model

ASSUME ByteAssumption == Nul \in Byte
ASSUME BatchAssumption == Batches \subseteq Seq(Byte) \ {<<>>}
ASSUME TaskAssumption == NoTask \notin Publishers
ASSUME SizeAssumption ==
  /\ Capacity \in Nat \ {0}
  /\ SnapshotMax \in Nat \ {0}
  /\ MaxTotal \in Nat

VARIABLES
  lock,                                \* holder of s_lock
  storage, start, count, dropped,      \* s_scrollback
  status,                              \* s_status
  pending,                             \* bytes the publisher has yet to write
  shown,                               \* result of the last snapshot
  reported                             \* result of the last get_status

ring == <<storage, start, count, dropped>>
vars == <<lock, ring, status, pending, shown, reported>>

Index == 0 .. Capacity - 1

\* The status fields this model follows.
StatusType == [bytesFromUsb : Nat, retained : Nat, droppedOldest : Nat]
ZeroStatus == [bytesFromUsb |-> 0, retained |-> 0, droppedOldest |-> 0]

\* Variant: the start of the ring is not wrapped.
NextIndexUnwrapped(i) == i + 1
NextIndex(i) == (i + 1) % Capacity

\* The retained bytes, oldest first.
Contents == [i \in 1 .. count |-> storage[(start + i - 1) % Capacity]]

-----------------------------------------------------------------------------

Init ==
  /\ lock = NoTask
  /\ storage = [i \in Index |-> Nul]
  /\ start = 0 /\ count = 0 /\ dropped = 0
  /\ status = ZeroStatus
  /\ pending = <<>>
  /\ shown = <<>>
  /\ reported = ZeroStatus

\* terminal_bridge_publish_usb_output takes s_lock and counts the batch.
PublishBegin(t, batch) ==
  /\ lock = NoTask
  /\ status.bytesFromUsb + Len(batch) <= MaxTotal
  /\ lock' = t
  /\ status' = [status EXCEPT !.bytesFromUsb = @ + Len(batch)]
  /\ pending' = batch
  /\ UNCHANGED <<ring, shown, reported>>

\* One iteration of terminal_scrollback_write.
WriteByte ==
  /\ pending # <<>>
  /\ pending' = Tail(pending)
  /\ \/ /\ count < Capacity
        /\ storage' = [storage EXCEPT ![(start + count) % Capacity] = Head(pending)]
        /\ count' = count + 1
        /\ UNCHANGED <<start, dropped>>
     \/ /\ count = Capacity
        /\ storage' = [storage EXCEPT ![start] = Head(pending)]
        /\ start' = NextIndex(start)
        /\ dropped' = dropped + 1
        /\ UNCHANGED count
  /\ UNCHANGED <<lock, status, shown, reported>>

\* The batch is in: the status takes the ring's figures and s_lock is given.
PublishEnd(t) ==
  /\ lock = t
  /\ pending = <<>>
  /\ status' = [status EXCEPT !.retained = count, !.droppedOldest = dropped]
  /\ lock' = NoTask
  /\ UNCHANGED <<ring, pending, shown, reported>>

\* Variant: the copy does not wait for s_lock.
SnapshotUnlocked ==
  /\ LET toCopy == IF count < SnapshotMax THEN count ELSE SnapshotMax
         first  == count - toCopy
     IN  shown' = [i \in 1 .. toCopy |-> storage[(start + first + i - 1) % Capacity]]
  /\ UNCHANGED <<lock, ring, status, pending, reported>>

\* terminal_bridge_snapshot_recent_output with terminal_scrollback_snapshot.
Snapshot ==
  /\ lock = NoTask
  /\ LET toCopy == IF count < SnapshotMax THEN count ELSE SnapshotMax
         first  == count - toCopy
     IN  shown' = [i \in 1 .. toCopy |-> storage[(start + first + i - 1) % Capacity]]
  /\ UNCHANGED <<lock, ring, status, pending, reported>>

\* Variant: the status is copied without s_lock.
GetStatusUnlocked ==
  /\ reported' = status
  /\ UNCHANGED <<lock, ring, status, pending, shown>>

\* terminal_bridge_get_status.
GetStatus ==
  /\ lock = NoTask
  /\ reported' = status
  /\ UNCHANGED <<lock, ring, status, pending, shown>>

Next ==
  \/ \E t \in Publishers :
       \/ \E batch \in Batches : PublishBegin(t, batch)
       \/ PublishEnd(t)
  \/ WriteByte
  \/ Snapshot
  \/ GetStatus

Spec == Init /\ [][Next]_vars

-----------------------------------------------------------------------------

\* Every variable keeps the type of the C field it stands for; the ring's
\* indices stay inside the storage array, and the status fields are counters.
TypeOK ==
  /\ lock \in Publishers \cup {NoTask}
  /\ storage \in [Index -> Byte]
  /\ start \in Index
  /\ count \in 0 .. Capacity
  /\ dropped \in Nat
  /\ status \in StatusType
  /\ pending \in Seq(Byte)
  /\ shown \in Seq(Byte)
  /\ reported \in StatusType

\* What the diagnostics page gets from terminal_bridge_get_status adds up:
\* every byte counted as received from USB is either retained or counted as
\* dropped from the scrollback, whatever publication was under way.
ReportConsistent ==
  reported.bytesFromUsb = reported.retained + reported.droppedOldest

\* The byte stream as its clients see it: a publication counts from the moment
\* it takes s_lock, since nobody reads the ring before it gives the lock back.
LastN(s, n) == IF Len(s) <= n THEN s ELSE SubSeq(s, Len(s) - n + 1, Len(s))
Latest == LastN(Contents \o pending, Capacity)
H == INSTANCE BridgeHistory WITH
       recent <- Latest,
       total  <- status.bytesFromUsb

\* Publishing a batch into the ring, a byte at a time, snapshots and status
\* queries by other tasks look like the atomic operations of BridgeHistory: a
\* snapshot is the end of the output stream and never shows half a batch.
ImplementsHistory == H!Spec
=============================================================================
