---------------------------- MODULE ReadyQueue ----------------------------
(***************************************************************************)
(* The ready queues of sched.c: one singly linked list of process records  *)
(* per priority level, linked through the `next' field of the records, and *)
(* the bit set priority_mask of the levels whose list is not empty.        *)
(*                                                                         *)
(* A queue structure is a record                                           *)
(*   head, tail : the ReadyQ descriptor of every level (NoProc is NULL)    *)
(*   next       : the `next' field of every process record                 *)
(*   mask       : priority_mask, as the set of its one bits                *)
(* and the C functions are operators from a structure to a structure.      *)
(***************************************************************************)
EXTENDS Integers

CONSTANTS
  Procs,    \* the application's process records
  Idle,     \* the record of the idle process
  NoProc,   \* NULL
  Pri       \* the priority each process is started with

PRI_MIN == 0
PRI_MAX == 7
Levels  == PRI_MIN .. PRI_MAX

Records == Procs \cup {Idle}

\* start() refuses a priority outside 1..PRI_MAX; start_idle() uses PRI_MIN.
ASSUME RecordAssumption ==
  /\ NoProc \notin Records
  /\ Idle \notin Procs
  /\ Pri \in [Procs -> 1 .. PRI_MAX]

\* The `pri' field of a process record.
PriOf(p) == IF p = Idle THEN PRI_MIN ELSE Pri[p]

QueueType ==
  [head : [Levels -> Records \cup {NoProc}],
   tail : [Levels -> Records \cup {NoProc}],
   next : [Records -> Records \cup {NoProc}],
   mask : SUBSET Levels]

EmptyQueues ==
  [head |-> [l \in Levels |-> NoProc],
   tail |-> [l \in Levels |-> NoProc],
   next |-> [p \in Records |-> NoProc],
   mask |-> {}]

\* Mutant: the bottom half of the decision tree tests the wrong bit.
highest_ready_WrongBit(mask) ==
  IF mask \cap 4 .. 7 # {}
  THEN IF mask \cap 6 .. 7 # {}
       THEN IF 7 \in mask THEN 7 ELSE 6
       ELSE IF 5 \in mask THEN 5 ELSE 4
  ELSE IF mask \cap 2 .. 3 # {}
       THEN IF 2 \in mask THEN 2 ELSE 3
       ELSE IF 1 \in mask THEN 1 ELSE 0

\* The decision tree over the bits of the mask; level 0 when no bit is set.
highest_ready(mask) ==
  IF mask \cap 4 .. 7 # {}
  THEN IF mask \cap 6 .. 7 # {}
       THEN IF 7 \in mask THEN 7 ELSE 6
       ELSE IF 5 \in mask THEN 5 ELSE 4
  ELSE IF mask \cap 2 .. 3 # {}
       THEN IF 3 \in mask THEN 3 ELSE 2
       ELSE IF 1 \in mask THEN 1 ELSE 0

\* Mutant: the tail is not reset when the last process is taken.
take_StaleTail(rq, l) ==
  LET proc == rq.head[l]
      rest == rq.next[proc]
  IN  IF proc = NoProc THEN rq
      ELSE [rq EXCEPT !.head[l] = rest,
                      !.mask = IF rest = NoProc THEN @ \ {l} ELSE @]

\* Mutant: the mask bit is not cleared when the last process is taken.
take_KeepMask(rq, l) ==
  LET proc == rq.head[l]
      rest == rq.next[proc]
  IN  IF proc = NoProc THEN rq
      ELSE [rq EXCEPT !.head[l] = rest,
                      !.tail[l] = IF rest = NoProc THEN NoProc ELSE @]

\* take(): the queues once the head of level l is unlinked (rq.head[l] is
\* the process it returns).
take(rq, l) ==
  LET proc == rq.head[l]
      rest == rq.next[proc]
  IN  IF proc = NoProc THEN rq
      ELSE [rq EXCEPT !.head[l] = rest,
                      !.tail[l] = IF rest = NoProc THEN NoProc ELSE @,
                      !.mask = IF rest = NoProc THEN @ \ {l} ELSE @]

\* append(): the old tail is linked to p before p's own link is cleared, and
\* the mask bit is set only when the list has no head.
append(rq, p) ==
  LET l == PriOf(p)
      t == rq.tail[l]
      linked == IF t = NoProc THEN rq.next ELSE [rq.next EXCEPT ![t] = p]
  IN  [rq EXCEPT !.tail[l] = p,
                 !.next = [linked EXCEPT ![p] = NoProc],
                 !.head[l] = IF @ = NoProc THEN p ELSE @,
                 !.mask = IF rq.head[l] = NoProc THEN @ \cup {l} ELSE @]
===========================================================================
