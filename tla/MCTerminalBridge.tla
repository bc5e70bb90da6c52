--------------------------- MODULE MCTerminalBridge ---------------------------
(***************************************************************************)
(* A small bridge for TLC: a ring of three bytes, batches of up to four    *)
(* (longer than the ring), snapshots of two, two publishing tasks.         *)
(***************************************************************************)
EXTENDS TerminalBridge

CONSTANTS nul, a, b, usb_rx, demo_serial, none

MCByte == {nul, a, b}
MCBatches == {<<a>>, <<b, a>>, <<a, b, b, a>>}
MCPublishers == {usb_rx, demo_serial}
=============================================================================
