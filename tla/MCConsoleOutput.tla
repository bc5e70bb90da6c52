--------------------------- MODULE MCConsoleOutput ---------------------------
(***************************************************************************)
(* A small web side for TLC: two descriptors, a table that holds both, a   *)
(* queue of one chunk, reads of up to two bytes cut into chunks of one.    *)
(***************************************************************************)
EXTENDS ConsoleOutput

CONSTANTS fd1, fd2

MCFd == {fd1, fd2}
=============================================================================
