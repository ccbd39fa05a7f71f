----------------------------- MODULE Allocator -----------------------------
(***************************************************************************)
(* What the dynamic memory of microcsp promises.  Memory is a pool of      *)
(* blocks, each of one size class, and a rest that belongs to no class     *)
(* yet.  A request gets a block of its class from the pool if there is one *)
(* and a new block otherwise; it is refused only when there is neither.    *)
(* Blocks are never split, joined or moved, nor do they change class.      *)
(***************************************************************************)
EXTENDS Integers

CONSTANTS Classes, BlockLen, MemLen

VARIABLES
  owned,    \* blocks the program holds
  pool,     \* blocks it has given back
  rest,     \* bytes that were never used
  refused   \* a request could not be met

Blocks == [addr : 0 .. MemLen, index : Classes]

\* The bytes of two blocks are disjoint.
Apart(b, c) == \/ b.addr + BlockLen[b.index] <= c.addr
               \/ c.addr + BlockLen[c.index] <= b.addr

Init == owned = {} /\ pool = {} /\ rest = MemLen /\ ~refused

Reuse(b) ==
  /\ b \in pool
  /\ owned' = owned \cup {b}
  /\ pool' = pool \ {b}
  /\ UNCHANGED <<rest, refused>>

New(b) ==
  /\ \A c \in pool : c.index # b.index
  /\ \A c \in owned \cup pool : Apart(b, c)
  /\ b.addr + BlockLen[b.index] <= MemLen
  /\ rest >= BlockLen[b.index]
  /\ owned' = owned \cup {b}
  /\ rest' = rest - BlockLen[b.index]
  /\ UNCHANGED <<pool, refused>>

Refuse(i) ==
  /\ \A c \in pool : c.index # i
  /\ rest < BlockLen[i]
  /\ refused' = TRUE
  /\ UNCHANGED <<owned, pool, rest>>

GiveBack(b) ==
  /\ b \in owned
  /\ owned' = owned \ {b}
  /\ pool' = pool \cup {b}
  /\ UNCHANGED <<rest, refused>>

Next ==
  \/ \E b \in pool : Reuse(b)
  \/ \E b \in Blocks : New(b)
  \/ \E i \in Classes : Refuse(i)
  \/ \E b \in owned : GiveBack(b)

Spec == Init /\ [][Next]_<<owned, pool, rest, refused>>
===========================================================================
