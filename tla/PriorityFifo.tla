--------------------------- MODULE PriorityFifo ---------------------------
(***************************************************************************)
(* What the ready queues promise: processes leave in order of priority,    *)
(* and within a priority in the order in which they arrived.               *)
(***************************************************************************)
EXTENDS Integers, Sequences

CONSTANTS Records, Levels, PriOf(_), NoProc

VARIABLES queue,   \* the waiting processes of every level, oldest first
          taken    \* the process handed out last

fifoVars == <<queue, taken>>

Holds(l, p) == \E n \in DOMAIN queue[l] : queue[l][n] = p

Init == /\ queue = [l \in Levels |-> << >>]
        /\ taken = NoProc

Add(p) ==
  /\ \A l \in Levels : ~Holds(l, p)
  /\ queue' = [queue EXCEPT ![PriOf(p)] = Append(@, p)]
  /\ UNCHANGED taken

RemoveHighest(l) ==
  /\ queue[l] # << >>
  /\ \A m \in Levels : m > l => queue[m] = << >>
  /\ taken' = Head(queue[l])
  /\ queue' = [queue EXCEPT ![l] = Tail(@)]

RemoveNone ==
  /\ \A l \in Levels : queue[l] = << >>
  /\ taken' = NoProc
  /\ UNCHANGED queue

Next == \/ \E p \in Records : Add(p)
        \/ \E l \in Levels : RemoveHighest(l)
        \/ RemoveNone

Spec == Init /\ [][Next]_fifoVars
===========================================================================
