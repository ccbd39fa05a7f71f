---------------------------- MODULE Interrupts ----------------------------
(***************************************************************************)
(* The interrupts of a machine with one flag, as the kernel takes them to  *)
(* be: while the flag is on an interrupt may arrive, which turns it off;   *)
(* code turns it on and off; and the handler's return turns it on again,   *)
(* for the code that was interrupted.                                      *)
(***************************************************************************)
EXTENDS Integers

VARIABLES
  on,     \* interrupts are enabled
  depth   \* interrupts that have arrived and not returned

Init == on = FALSE /\ depth = 0

Arrive  == on /\ on' = FALSE /\ depth' = depth + 1
Enable  == on' = TRUE /\ UNCHANGED depth
Disable == on' = FALSE /\ UNCHANGED depth
Return  == depth > 0 /\ on' = TRUE /\ depth' = depth - 1

Next == Arrive \/ Enable \/ Disable \/ Return

Spec == Init /\ [][Next]_<<on, depth>>
===========================================================================
