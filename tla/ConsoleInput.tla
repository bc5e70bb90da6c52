----------------------------- MODULE ConsoleInput -----------------------------
(***************************************************************************)
(* The path of an accepted keystroke: terminal_bridge_submit_input puts    *)
(* the bytes of a WebSocket frame (or a macro) into a FreeRTOS stream      *)
(* buffer without waiting, usb_tx_task takes them out in chunks and writes *)
(* them to the USB Serial/JTAG driver.  Bytes are numbered in the order    *)
(* they are submitted; a counter is updated in a step of its own, since    *)
(* the code takes a lock for it after the bytes have moved.                *)
(***************************************************************************)
EXTENDS Integers, Sequences

CONSTANTS
  FrameMax,    \* longest frame or macro submitted (WEB_INPUT_POLICY_FRAME_MAX)
  StreamSize,  \* what s_to_usb_stream holds: BRIDGE_TO_USB_BUFFER_SIZE, less
               \* the byte FreeRTOS keeps free
  ChunkMax,    \* USB_CONSOLE_BUF_SIZE
  MaxBytes     \* bound: bytes submitted in one run of the model

ASSUME InputAssumption ==
  /\ FrameMax \in Nat \ {0}
  /\ StreamSize \in Nat \ {0}
  /\ ChunkMax \in Nat \ {0}
  /\ MaxBytes \in Nat

VARIABLES
  submitted,   \* bytes handed to terminal_bridge_submit_input
  uncounted,   \* the submitter's frame: bytes written and refused, not yet counted
  stream,      \* s_to_usb_stream
  hand,        \* usb_tx_task's buffer from offset to read
  unreported,  \* bytes written to USB that add_sent has yet to count
  sent,        \* bytes the USB driver took, in order
  lost,        \* bytes given up when the driver took nothing
  bridge,      \* terminal_bridge status: bytes_to_usb and dropped_to_usb
  bytesSent    \* usb_console status: bytes_sent

submitter == <<submitted, uncounted, bridge>>
usbTx == <<hand, unreported, sent, lost, bytesSent>>
vars == <<submitter, stream, usbTx>>

Position == 1 .. MaxBytes   \* the number of a byte
Nothing == [written |-> 0, refused |-> 0]
Smaller(m, n) == IF m < n THEN m ELSE n
Numbers(from, to) == [i \in 1 .. (to - from) |-> from + i]

Init ==
  /\ submitted = 0
  /\ uncounted = Nothing
  /\ stream = <<>>
  /\ hand = <<>>
  /\ unreported = 0
  /\ sent = <<>>
  /\ lost = 0
  /\ bridge = [bytesToUsb |-> 0, droppedToUsb |-> 0]
  /\ bytesSent = 0

-----------------------------------------------------------------------------
(* The httpd task: the only submitter.                                     *)

\* Variant: the frame is queued whole, whatever the room left.
SubmitWhole(len) ==
  /\ uncounted = Nothing
  /\ submitted + len <= MaxBytes
  /\ stream' = stream \o Numbers(submitted, submitted + len)
  /\ uncounted' = [written |-> len, refused |-> 0]
  /\ submitted' = submitted + len
  /\ UNCHANGED <<bridge, usbTx>>

\* xStreamBufferSend with a zero timeout takes what fits of the frame.
Submit(len) ==
  /\ uncounted = Nothing
  /\ submitted + len <= MaxBytes
  /\ LET written == Smaller(len, StreamSize - Len(stream))
     IN  /\ stream' = stream \o Numbers(submitted, submitted + written)
         /\ uncounted' = [written |-> written, refused |-> len - written]
  /\ submitted' = submitted + len
  /\ UNCHANGED <<bridge, usbTx>>

\* Variant: a frame that did not fit is counted as queued in full.
CountFullFrame ==
  /\ uncounted # Nothing
  /\ bridge' = [bridge EXCEPT !.bytesToUsb = @ + uncounted.written + uncounted.refused]
  /\ uncounted' = Nothing
  /\ UNCHANGED <<submitted, stream, usbTx>>

\* The rest of the call: the status is updated under s_lock.
Count ==
  /\ uncounted # Nothing
  /\ bridge' = [bytesToUsb   |-> bridge.bytesToUsb + uncounted.written,
                droppedToUsb |-> bridge.droppedToUsb + uncounted.refused]
  /\ uncounted' = Nothing
  /\ UNCHANGED <<submitted, stream, usbTx>>

-----------------------------------------------------------------------------
(* usb_tx_task: the only reader of the stream.                             *)

\* Variant: the task waits until a full buffer is available.
ReceiveFull ==
  /\ hand = <<>> /\ unreported = 0
  /\ Len(stream) >= ChunkMax
  /\ hand' = SubSeq(stream, 1, ChunkMax)
  /\ stream' = SubSeq(stream, ChunkMax + 1, Len(stream))
  /\ UNCHANGED <<submitter, unreported, sent, lost, bytesSent>>

\* The stream's trigger level is 1: the task wakes for any byte and takes
\* what is there, up to its buffer.
Receive ==
  /\ hand = <<>> /\ unreported = 0
  /\ stream # <<>>
  /\ LET n == Smaller(Len(stream), ChunkMax)
     IN  /\ hand' = SubSeq(stream, 1, n)
         /\ stream' = SubSeq(stream, n + 1, Len(stream))
  /\ UNCHANGED <<submitter, unreported, sent, lost, bytesSent>>

\* Variant: after a partial write the whole buffer is written again.
WriteFromStart(n) ==
  /\ hand # <<>> /\ unreported = 0
  /\ n <= Len(hand)
  /\ sent' = sent \o SubSeq(hand, 1, n)
  /\ hand' = IF n = Len(hand) THEN <<>> ELSE hand
  /\ unreported' = n
  /\ UNCHANGED <<submitter, stream, lost, bytesSent>>

\* The driver takes n bytes of what is left of the buffer.
Write(n) ==
  /\ hand # <<>> /\ unreported = 0
  /\ n <= Len(hand)
  /\ sent' = sent \o SubSeq(hand, 1, n)
  /\ hand' = SubSeq(hand, n + 1, Len(hand))
  /\ unreported' = n
  /\ UNCHANGED <<submitter, stream, lost, bytesSent>>

\* add_sent.
AddSent ==
  /\ unreported > 0
  /\ bytesSent' = bytesSent + unreported
  /\ unreported' = 0
  /\ UNCHANGED <<submitter, stream, hand, sent, lost>>

\* The driver takes nothing before the write timeout: the rest of the buffer
\* is given up, with a line in the ESP log.
Backpressure ==
  /\ hand # <<>> /\ unreported = 0
  /\ lost' = lost + Len(hand)
  /\ hand' = <<>>
  /\ UNCHANGED <<submitter, stream, unreported, sent, bytesSent>>

Transmit == Receive \/ (\E n \in 1 .. ChunkMax : Write(n)) \/ AddSent \/ Backpressure
Next == (\E len \in 1 .. FrameMax : Submit(len)) \/ Count \/ Transmit

Spec == Init /\ [][Next]_vars

\* Both tasks are scheduled for ever and none of their calls blocks: the write
\* to the driver has a timeout.
FairSpec == Spec /\ WF_vars(Count) /\ WF_vars(Transmit)

-----------------------------------------------------------------------------

\* Every variable keeps the type of the C field it stands for, and the stream
\* and the task's buffer never hold more than their size.
TypeOK ==
  /\ submitted \in 0 .. MaxBytes
  /\ uncounted \in [written : Nat, refused : Nat]
  /\ stream \in Seq(Position) /\ Len(stream) <= StreamSize
  /\ hand \in Seq(Position) /\ Len(hand) <= ChunkMax
  /\ unreported \in 0 .. ChunkMax
  /\ sent \in Seq(Position)
  /\ lost \in Nat
  /\ bridge \in [bytesToUsb : Nat, droppedToUsb : Nat]
  /\ bytesSent \in Nat

Increasing(s) == \A i, j \in 1 .. Len(s) : i < j => s[i] < s[j]

\* What the USB host types on its console is what was submitted, in order and
\* without repeats: partial writes, refused frames and backpressure may leave
\* bytes out and never reorder or duplicate them.
HostSeesInputOrder == Increasing(sent \o hand \o stream)

\* No byte is unaccounted for: every submitted byte is refused or accepted,
\* and every accepted one is in the stream, in the task's hand, sent or lost;
\* the status counters are those figures, but for the update under way.
EveryByteAccounted ==
  /\ submitted = bridge.bytesToUsb + bridge.droppedToUsb
                   + uncounted.written + uncounted.refused
  /\ bridge.bytesToUsb + uncounted.written
       = Len(stream) + Len(hand) + Len(sent) + lost
  /\ Len(sent) = bytesSent + unreported

\* A byte that was accepted does not wait for ever: it is sent or given up.
InStream(p) == \E i \in 1 .. Len(stream) : stream[i] = p
AcceptedLeavesStream == \A p \in Position : InStream(p) ~> ~InStream(p)

\* "Backpressure y drops deben ser visibles en diagnostico": once both tasks
\* are idle, the bytes that never reached the host are in dropped_to_usb.
DropsVisible ==
  (uncounted = Nothing /\ stream = <<>> /\ hand = <<>> /\ unreported = 0)
    => submitted = Len(sent) + bridge.droppedToUsb
=============================================================================
