------------------------------ MODULE BootImage ------------------------------
(***************************************************************************)
(* What updating the firmware promises, without slots, sessions or failing *)
(* uploads: which image runs, which one the next start runs, and whether   *)
(* the device says that a restart is due.                                  *)
(***************************************************************************)

CONSTANT Images      \* the complete images

VARIABLES
  running,           \* the image that runs
  next,              \* the image that runs after a restart at this moment
  chosen,            \* the boot loader was told to start the other slot
  pending            \* the device reports that a restart is pending

vars == <<running, next, chosen, pending>>

Init ==
  /\ running \in Images
  /\ next = running
  /\ chosen = FALSE
  /\ pending = FALSE

\* An upload ends well: the boot loader is told to start its image.
Accept ==
  /\ next' \in Images
  /\ chosen' = TRUE
  /\ pending' = TRUE
  /\ UNCHANGED running

\* A later upload goes to the slot that is already chosen.
Replace ==
  /\ chosen
  /\ next' \in Images
  /\ pending' = FALSE
  /\ UNCHANGED <<running, chosen>>

\* The running image is kept for good.
Confirm ==
  /\ ~chosen
  /\ next' = running
  /\ UNCHANGED <<running, chosen, pending>>

\* The image before stays at hand until the new one is confirmed.
Restart ==
  /\ running' = next
  /\ next' \in {next, running}
  /\ chosen' \in {chosen, FALSE}
  /\ pending' = FALSE

Next == Accept \/ Replace \/ Confirm \/ Restart

Spec == Init /\ [][Next]_vars
=============================================================================
