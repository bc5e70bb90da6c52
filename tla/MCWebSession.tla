----------------------------- MODULE MCWebSession -----------------------------
(***************************************************************************)
(* A small web server for TLC: two descriptors, one slot in the table, up  *)
(* to three sessions and two items of queued work.                         *)
(***************************************************************************)
EXTENDS WebSession

CONSTANTS fd1, fd2

MCFd == {fd1, fd2}
=============================================================================
