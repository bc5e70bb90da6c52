---------------------------- MODULE BridgeHistory ----------------------------
(***************************************************************************)
(* What the terminal bridge promises about console output: the bytes that  *)
(* came from the USB host form one stream, publishing a batch is atomic,   *)
(* and a reader sees the end of that stream, never a torn batch and never  *)
(* counters from two different moments.  TerminalBridge implements it.     *)
(***************************************************************************)
EXTENDS Naturals, Sequences

CONSTANTS
  Byte,       \* the byte values the host sends
  Batches,    \* the batches a task may publish in one call
  Capacity,   \* bytes of output kept for clients that connect later
  SnapshotMax,\* bytes one reader asks for
  MaxTotal    \* bound: bytes published in one run of the model

VARIABLES
  recent,     \* the retained end of the output stream
  total,      \* bytes published so far
  shown,      \* what the last snapshot returned
  reported    \* what the last status query returned

LastN(s, n) == IF Len(s) <= n THEN s ELSE SubSeq(s, Len(s) - n + 1, Len(s))

Report(n, kept) == [bytesFromUsb |-> n, retained |-> kept, droppedOldest |-> n - kept]

Init ==
  /\ recent = <<>>
  /\ total = 0
  /\ shown = <<>>
  /\ reported = Report(0, 0)

Publish(batch) ==
  /\ total + Len(batch) <= MaxTotal
  /\ recent' = LastN(recent \o batch, Capacity)
  /\ total' = total + Len(batch)
  /\ UNCHANGED <<shown, reported>>

Snapshot ==
  /\ shown' = LastN(recent, SnapshotMax)
  /\ UNCHANGED <<recent, total, reported>>

Status ==
  /\ reported' = Report(total, Len(recent))
  /\ UNCHANGED <<recent, total, shown>>

Next == (\E batch \in Batches : Publish(batch)) \/ Snapshot \/ Status

vars == <<recent, total, shown, reported>>
Spec == Init /\ [][Next]_vars
=============================================================================
