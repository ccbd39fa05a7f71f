---------------------------- MODULE TimerQueue ----------------------------
(***************************************************************************)
(* The timeout queue of timer.c as a sequence of entries [time, proc],     *)
(* earliest first (timerQ.head is its first element).                      *)
(***************************************************************************)
EXTENDS Integers, Sequences

\* Longest prefix of q whose entries all satisfy P: how far a while loop
\* over the list walks.
Walked(q, P(_)) ==
  CHOOSE n \in 0 .. Len(q) :
    /\ \A i \in 1 .. n : P(q[i])
    /\ n < Len(q) => ~P(q[n + 1])

\* The place insertInQueue() finds: behind every entry that is not later.
insertAt(q, t) == Walked(q, LAMBDA e : t.time >= e.time)

\* The list part of insertInQueue().
insertInQueue(q, t) ==
  LET n == insertAt(q, t)
  IN  SubSeq(q, 1, n) \o <<t>> \o SubSeq(q, n + 1, Len(q))

\* removeFromQueue(): past the earlier entries, past the entries of other
\* processes at the same time; the entry found there is unlinked if it matches.
removeFromQueue(q, time, proc) ==
  LET n == Walked(q, LAMBDA e : \/ e.time < time
                                \/ e.time = time /\ e.proc # proc)
      match == n < Len(q) /\ q[n + 1].time = time /\ q[n + 1].proc = proc
  IN  IF match THEN SubSeq(q, 1, n) \o SubSeq(q, n + 2, Len(q)) ELSE q
===========================================================================
