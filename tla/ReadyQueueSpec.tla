-------------------------- MODULE ReadyQueueSpec --------------------------
(***************************************************************************)
(* The ready queues used as their comments ask: every operation runs with  *)
(* interrupts disabled, and a process is appended only while it is on no   *)
(* queue.  Under that contract the pointer structure implements            *)
(* PriorityFifo.  (Sched.tla shows where the scheduler breaks it.)         *)
(***************************************************************************)
EXTENDS ReadyQueue, Sequences

VARIABLES rq,      \* readyQ, the next fields, and priority_mask
          taken,   \* the result of the last take()
          fifo     \* history: the processes of every level, oldest first

queueVars == <<rq, taken, fifo>>

TypeOK ==
  /\ rq \in QueueType
  /\ taken \in Records \cup {NoProc}
  /\ fifo \in [Levels -> Seq(Records)]

OnQueue(p) == \E l \in Levels : \E n \in 1 .. Len(fifo[l]) : fifo[l][n] = p

Init ==
  /\ rq = EmptyQueues
  /\ taken = NoProc
  /\ fifo = [l \in Levels |-> << >>]

\* The contract of append(): the process is on no queue.
Enqueue(p) ==
  /\ ~OnQueue(p)
  /\ rq' = append(rq, p)
  /\ fifo' = [fifo EXCEPT ![PriOf(p)] = Append(@, p)]
  /\ UNCHANGED taken

\* schedule(): take(highest_ready()).
TakeHighest ==
  LET l == highest_ready(rq.mask)
  IN  /\ taken' = rq.head[l]
      /\ rq' = take(rq, l)
      /\ fifo' = [fifo EXCEPT ![l] = IF @ = << >> THEN @ ELSE Tail(@)]

Next == \/ \E p \in Records : Enqueue(p)
        \/ TakeHighest

Spec == Init /\ [][Next]_queueVars

-----------------------------------------------------------------------------
\* The lists spell out the arrival order: head and tail are the ends of the
\* sequence, each record links to its successor, the last one to NULL.
Linked ==
  \A l \in Levels :
    /\ fifo[l] = << >> <=> rq.head[l] = NoProc
    /\ fifo[l] = << >> <=> rq.tail[l] = NoProc
    /\ fifo[l] # << >> => /\ rq.head[l] = fifo[l][1]
                          /\ rq.tail[l] = fifo[l][Len(fifo[l])]
                          /\ rq.next[rq.tail[l]] = NoProc
    /\ \A n \in 1 .. Len(fifo[l]) - 1 : rq.next[fifo[l][n]] = fifo[l][n + 1]

\* A process stands once, on the queue of its own priority.
Disjoint ==
  \A l \in Levels : \A n \in 1 .. Len(fifo[l]) :
    /\ PriOf(fifo[l][n]) = l
    /\ \A m \in 1 .. Len(fifo[l]) : fifo[l][n] = fifo[l][m] => n = m

\* A bit of priority_mask is set exactly when its level has a process.
MaskExact == \A l \in Levels : l \in rq.mask <=> fifo[l] # << >>

\* The representation invariant of readyQ and priority_mask (sched.c:61-74):
\* the three parts above, together inductive.
QueueInv == TypeOK /\ Linked /\ Disjoint /\ MaskExact

Fifo == INSTANCE PriorityFifo WITH queue <- fifo

\* take() and append() hand processes out by priority and then first come
\* first served, and never drop, invent or repeat one.
ImplementsFifo == Fifo!Spec
===========================================================================
