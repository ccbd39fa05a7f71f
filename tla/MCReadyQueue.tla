--------------------------- MODULE MCReadyQueue ---------------------------
(* Five records on three levels: three share a level, one is the idle process. *)
EXTENDS ReadyQueueSpec, TLC
CONSTANTS p1, p2, p3, p4
MCProcs == {p1, p2, p3, p4}
MCPri == p1 :> 2 @@ p2 :> 2 @@ p3 :> 3 @@ p4 :> 2
===========================================================================
