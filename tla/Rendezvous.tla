---------------------------- MODULE Rendezvous ----------------------------
(***************************************************************************)
(* What a microcsp channel promises: synchronous, unbuffered, one to one.  *)
(* A writer offers a message, the reader takes it, and only then does the  *)
(* writer go on; nothing is lost, duplicated or taken before it is offered.*)
(***************************************************************************)
CONSTANT Chans

VARIABLE phase

Phases == {"idle", "offered", "taken"}

Init == phase = [c \in Chans |-> "idle"]

Offer(c)   == phase[c] = "idle"    /\ phase' = [phase EXCEPT ![c] = "offered"]
Take(c)    == phase[c] = "offered" /\ phase' = [phase EXCEPT ![c] = "taken"]
Release(c) == phase[c] = "taken"   /\ phase' = [phase EXCEPT ![c] = "idle"]

Next == \E c \in Chans : Offer(c) \/ Take(c) \/ Release(c)

Spec == Init /\ [][Next]_phase
===========================================================================
