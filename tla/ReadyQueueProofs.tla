-------------------------- MODULE ReadyQueueProofs --------------------------
(***************************************************************************)
(* Proofs about the ready queues: the pointer structure of readyQ and the  *)
(* mask stay consistent, and implement PriorityFifo.                       *)
(***************************************************************************)
EXTENDS ReadyQueueSpec, SequenceTheorems, TLAPS

-----------------------------------------------------------------------------
\* The operators of ReadyQueue.tla.

\* The decision tree of highest_ready() finds the highest set bit of the mask,
\* and level 0 when there is none.
LEMMA HighestReady ==
  ASSUME NEW mask \in SUBSET Levels
  PROVE  /\ highest_ready(mask) \in Levels
         /\ mask = {} => highest_ready(mask) = 0
         /\ mask # {} => highest_ready(mask) \in mask
         /\ \A m \in mask : m <= highest_ready(mask)
<1>1. \A m \in mask : m \in 0 .. 7 /\ m \in Int
  BY DEF Levels, PRI_MIN, PRI_MAX
<1>2. CASE mask \cap (4 .. 7) # {}
  <2>1. CASE mask \cap (6 .. 7) # {}
    BY <1>1, <1>2, <2>1 DEF highest_ready, Levels, PRI_MIN, PRI_MAX
  <2>2. CASE mask \cap (6 .. 7) = {}
    BY <1>1, <1>2, <2>2 DEF highest_ready, Levels, PRI_MIN, PRI_MAX
  <2>3. QED BY <2>1, <2>2
<1>3. CASE mask \cap (4 .. 7) = {}
  <2>1. CASE mask \cap (2 .. 3) # {}
    BY <1>1, <1>3, <2>1 DEF highest_ready, Levels, PRI_MIN, PRI_MAX
  <2>2. CASE mask \cap (2 .. 3) = {}
    <3>1. \A m \in mask : m = 0 \/ m = 1
      BY <1>1, <1>3, <2>2
    <3>2. highest_ready(mask) = IF 1 \in mask THEN 1 ELSE 0
      BY <1>3, <2>2 DEF highest_ready
    <3>3. CASE 1 \in mask
      BY <3>1, <3>2, <3>3 DEF Levels, PRI_MIN, PRI_MAX
    <3>4. CASE 1 \notin mask
      <4>1. highest_ready(mask) = 0 /\ \A m \in mask : m = 0
        BY <3>1, <3>2, <3>4
      <4>2. mask # {} => 0 \in mask
        BY <4>1
      <4>3. QED BY <4>1, <4>2 DEF Levels, PRI_MIN, PRI_MAX
    <3>5. QED BY <3>3, <3>4
  <2>3. QED BY <2>1, <2>2
<1>4. QED BY <1>2, <1>3

\* Every record has a level of its own, and NULL is not a record.
LEMMA PriOfLevel ==
  /\ \A p \in Records : PriOf(p) \in Levels /\ PriOf(p) \in Int
  /\ NoProc \notin Records
  /\ \A p \in Procs : p \in Records /\ p # Idle
BY RecordAssumption DEF PriOf, Levels, Records, PRI_MIN, PRI_MAX

LEMMA InitQueueInv == Init => QueueInv
BY DEF Init, QueueInv, TypeOK, Linked, Disjoint, MaskExact, EmptyQueues, QueueType,
       Levels, PRI_MIN, PRI_MAX

-----------------------------------------------------------------------------
\* Enqueue: p becomes the last of its own list, the others stay.

LEMMA EnqueueQueueInv ==
  ASSUME QueueInv, NEW p \in Records, Enqueue(p)
  PROVE  QueueInv'
<1> DEFINE l == PriOf(p)
           t == rq.tail[l]
<1>1. /\ l \in Levels /\ p # NoProc
      /\ rq \in QueueType /\ fifo \in [Levels -> Seq(Records)]
      /\ taken' = taken /\ taken \in Records \cup {NoProc}
  BY PriOfLevel DEF Enqueue, QueueInv, TypeOK
<1>2. \A m \in Levels : \A n \in 1 .. Len(fifo[m]) : fifo[m][n] # p /\ fifo[m][n] \in Records
  BY <1>1 DEF Enqueue, OnQueue
<1>3. /\ \A m \in Levels : m # l => fifo'[m] = fifo[m]
      /\ fifo'[l] = Append(fifo[l], p)
      /\ fifo' \in [Levels -> Seq(Records)]
  BY <1>1 DEF Enqueue
<1>4. /\ Len(fifo'[l]) = Len(fifo[l]) + 1
      /\ fifo'[l][Len(fifo[l]) + 1] = p
      /\ \A n \in 1 .. Len(fifo[l]) : fifo'[l][n] = fifo[l][n]
      /\ Len(fifo[l]) \in Nat
      /\ fifo'[l] # << >>
  BY <1>1, <1>3
<1>5. /\ rq'.head = [rq.head EXCEPT ![l] = IF @ = NoProc THEN p ELSE @]
      /\ rq'.tail = [rq.tail EXCEPT ![l] = p]
      /\ rq'.mask = IF rq.head[l] = NoProc THEN rq.mask \cup {l} ELSE rq.mask
      /\ t = NoProc => rq'.next = [rq.next EXCEPT ![p] = NoProc]
      /\ t # NoProc => rq'.next = [[rq.next EXCEPT ![t] = p] EXCEPT ![p] = NoProc]
      /\ rq' \in QueueType
  <2>1. rq' = append(rq, p)
    BY DEF Enqueue
  <2>2. t \in Records \cup {NoProc} /\ rq.head[l] \in Records \cup {NoProc}
    BY <1>1 DEF QueueType
  <2>3. QED BY <1>1, <2>1, <2>2 DEF append, QueueType
<1>6. /\ t = NoProc <=> fifo[l] = << >>
      /\ rq.head[l] = NoProc <=> fifo[l] = << >>
      /\ fifo[l] # << >> => /\ rq.head[l] = fifo[l][1]
                            /\ t = fifo[l][Len(fifo[l])]
                            /\ Len(fifo[l]) > 0
  BY <1>1, <1>4 DEF QueueInv, Linked
<1>7. \A m \in Levels : \A n \in 1 .. Len(fifo[m]) :
        PriOf(fifo[m][n]) = m /\ \A k \in 1 .. Len(fifo[m]) : fifo[m][n] = fifo[m][k] => n = k
  BY DEF QueueInv, Disjoint
<1>8. TypeOK'
  BY <1>1, <1>3, <1>5 DEF TypeOK
<1>9. Linked'
  <2>1. ASSUME NEW m \in Levels, m # l PROVE
          /\ fifo'[m] = << >> <=> rq'.head[m] = NoProc
          /\ fifo'[m] = << >> <=> rq'.tail[m] = NoProc
          /\ fifo'[m] # << >> => /\ rq'.head[m] = fifo'[m][1]
                                 /\ rq'.tail[m] = fifo'[m][Len(fifo'[m])]
                                 /\ rq'.next[rq'.tail[m]] = NoProc
          /\ \A n \in 1 .. Len(fifo'[m]) - 1 : rq'.next[fifo'[m][n]] = fifo'[m][n + 1]
    <3>1. rq'.head[m] = rq.head[m] /\ rq'.tail[m] = rq.tail[m]
      BY <1>1, <1>5, <2>1 DEF QueueType
    <3>2. \A n \in 1 .. Len(fifo[m]) : rq'.next[fifo[m][n]] = rq.next[fifo[m][n]]
      <4>1. ASSUME NEW n \in 1 .. Len(fifo[m]) PROVE fifo[m][n] # t \/ t = NoProc
        <5>1. CASE fifo[l] = << >>
          BY <5>1, <1>6
        <5>2. CASE fifo[l] # << >>
          <6>1. PriOf(t) = l
            BY <5>2, <1>1, <1>4, <1>6, <1>7
          <6>2. PriOf(fifo[m][n]) = m
            BY <1>7
          <6>3. QED BY <6>1, <6>2, <2>1
        <5>3. QED BY <5>1, <5>2
      <4>2. QED BY <4>1, <1>1, <1>2, <1>5 DEF QueueType
    <3>3. fifo'[m] = fifo[m] /\ Len(fifo[m]) \in Nat /\ (fifo[m] # << >> => Len(fifo[m]) > 0)
      BY <1>1, <1>3, <2>1
    <3>4. QED BY <3>1, <3>2, <3>3 DEF QueueInv, Linked
  <2>2. /\ fifo'[l] = << >> <=> rq'.head[l] = NoProc
        /\ fifo'[l] = << >> <=> rq'.tail[l] = NoProc
        /\ fifo'[l] # << >> => /\ rq'.head[l] = fifo'[l][1]
                               /\ rq'.tail[l] = fifo'[l][Len(fifo'[l])]
                               /\ rq'.next[rq'.tail[l]] = NoProc
    <3>1. rq'.tail[l] = p /\ rq'.next[p] = NoProc
      BY <1>1, <1>5 DEF QueueType
    <3>2. rq'.head[l] = IF rq.head[l] = NoProc THEN p ELSE rq.head[l]
      BY <1>1, <1>5 DEF QueueType
    <3>3. rq'.head[l] = fifo'[l][1]
      BY <3>2, <1>4, <1>6
    <3>4. QED BY <3>1, <3>2, <3>3, <1>1, <1>4
  <2>3. ASSUME NEW n \in 1 .. Len(fifo'[l]) - 1 PROVE rq'.next[fifo'[l][n]] = fifo'[l][n + 1]
    <3>1. n \in 1 .. Len(fifo[l]) /\ t # NoProc
      BY <1>4, <1>6, <2>3
    <3>2. CASE n = Len(fifo[l])
      <4>1. fifo'[l][n] = t /\ t \in Records /\ t # p
        BY <1>1, <1>2, <1>4, <1>6, <3>1, <3>2
      <4>2. rq'.next[t] = p
        BY <4>1, <3>1, <1>1, <1>5 DEF QueueType
      <4>3. QED BY <4>1, <4>2, <1>4, <3>2
    <3>3. CASE n # Len(fifo[l])
      <4>1. n \in 1 .. Len(fifo[l]) - 1 /\ n + 1 \in 1 .. Len(fifo[l])
        BY <3>1, <3>3, <1>4
      <4>2. fifo[l][n] # t
        BY <4>1, <1>4, <1>6, <1>7, <1>1, <3>3
      <4>3. rq'.next[fifo[l][n]] = rq.next[fifo[l][n]]
        BY <4>2, <3>1, <1>1, <1>2, <1>5 DEF QueueType
      <4>4. rq.next[fifo[l][n]] = fifo[l][n + 1]
        BY <4>1, <1>1 DEF QueueInv, Linked
      <4>5. QED BY <4>1, <4>3, <4>4, <1>4
    <3>4. QED BY <3>2, <3>3
  <2>4. QED BY <2>1, <2>2, <2>3 DEF Linked
<1>10. Disjoint'
  <2>1. ASSUME NEW m \in Levels, m # l, NEW n \in 1 .. Len(fifo'[m]) PROVE
          /\ PriOf(fifo'[m][n]) = m
          /\ \A k \in 1 .. Len(fifo'[m]) : fifo'[m][n] = fifo'[m][k] => n = k
    BY <2>1, <1>3, <1>7
  <2>2. ASSUME NEW n \in 1 .. Len(fifo'[l]) PROVE
          /\ PriOf(fifo'[l][n]) = l
          /\ \A k \in 1 .. Len(fifo'[l]) : fifo'[l][n] = fifo'[l][k] => n = k
    BY <2>2, <1>1, <1>2, <1>4, <1>7
  <2>3. QED BY <2>1, <2>2 DEF Disjoint
<1>11. MaskExact'
  <2>1. ASSUME NEW m \in Levels PROVE m \in rq'.mask <=> fifo'[m] # << >>
    <3>1. CASE m = l
      BY <3>1, <1>4, <1>5, <1>6 DEF QueueInv, MaskExact
    <3>2. CASE m # l
      BY <3>2, <1>3, <1>5 DEF QueueInv, MaskExact
    <3>3. QED BY <3>1, <3>2
  <2>2. QED BY <2>1 DEF MaskExact
<1>12. QED BY <1>8, <1>9, <1>10, <1>11 DEF QueueInv

-----------------------------------------------------------------------------
\* TakeHighest: the first process of the highest list leaves, or nobody.

\* The level chosen has the highest nonempty list, if there is one.
LEMMA ChosenLevel ==
  ASSUME QueueInv
  PROVE  LET l == highest_ready(rq.mask)
         IN  /\ l \in Levels
             /\ \A m \in Levels : m > l => fifo[m] = << >>
             /\ fifo[l] = << >> => \A m \in Levels : fifo[m] = << >>
             /\ rq.head[l] = NoProc <=> fifo[l] = << >>
<1> DEFINE l == highest_ready(rq.mask)
<1>1. rq.mask \in SUBSET Levels
  BY DEF QueueInv, TypeOK, QueueType
<1>2. /\ l \in Levels /\ l \in Int
      /\ rq.mask # {} => l \in rq.mask
      /\ \A m \in rq.mask : m <= l
  BY <1>1, HighestReady DEF Levels, PRI_MIN, PRI_MAX
<1>3. \A m \in Levels : m \in rq.mask <=> fifo[m] # << >>
  BY DEF QueueInv, MaskExact
<1>4. \A m \in Levels : m > l => fifo[m] = << >>
  BY <1>2, <1>3 DEF Levels, PRI_MIN, PRI_MAX
<1>5. fifo[l] = << >> => \A m \in Levels : fifo[m] = << >>
  BY <1>2, <1>3
<1>6. rq.head[l] = NoProc <=> fifo[l] = << >>
  BY <1>2 DEF QueueInv, Linked
<1>7. QED BY <1>2, <1>4, <1>5, <1>6

LEMMA TakeQueueInv ==
  ASSUME QueueInv, TakeHighest
  PROVE  QueueInv'
<1> DEFINE l == highest_ready(rq.mask)
           h == rq.head[l]
           rest == rq.next[h]
<1>1. /\ l \in Levels
      /\ h = NoProc <=> fifo[l] = << >>
      /\ rq \in QueueType /\ fifo \in [Levels -> Seq(Records)]
      /\ h \in Records \cup {NoProc} /\ NoProc \notin Records
  BY ChosenLevel, PriOfLevel DEF QueueInv, TypeOK, QueueType
<1>2. /\ rq' = take(rq, l) /\ taken' = h
      /\ fifo' = [fifo EXCEPT ![l] = IF @ = << >> THEN @ ELSE Tail(@)]
  BY DEF TakeHighest
<1>3. CASE h = NoProc
  <2>1. rq' = rq
    BY <1>2, <1>3 DEF take
  <2>2. fifo' = fifo
    BY <1>1, <1>2, <1>3
  <2>3. taken' \in Records \cup {NoProc}
    BY <1>1, <1>2
  <2>4. QED BY <2>1, <2>2, <2>3 DEF QueueInv, TypeOK, Linked, Disjoint, MaskExact
<1>4. CASE h # NoProc
  <2> DEFINE len == Len(fifo[l])
  <2>1. /\ fifo[l] # << >> /\ fifo[l] \in Seq(Records)
        /\ len \in Nat /\ len > 0
        /\ h = fifo[l][1] /\ h \in Records
        /\ rq.tail[l] = fifo[l][len] /\ rq.next[rq.tail[l]] = NoProc
        /\ \A n \in 1 .. len - 1 : rq.next[fifo[l][n]] = fifo[l][n + 1]
        /\ \A n \in 1 .. len : fifo[l][n] \in Records
    BY <1>1, <1>4 DEF QueueInv, Linked
  <2>0. len \in Nat /\ len > 0
    BY <2>1
  <2>2. /\ \A m \in Levels : m # l => fifo'[m] = fifo[m]
        /\ fifo'[l] = Tail(fifo[l])
        /\ fifo' \in [Levels -> Seq(Records)]
        /\ Len(fifo'[l]) = len - 1
        /\ \A n \in 1 .. len - 1 : fifo'[l][n] = fifo[l][n + 1]
        /\ fifo'[l] = << >> <=> len = 1
    <3>1. /\ \A m \in Levels : m # l => fifo'[m] = fifo[m]
          /\ fifo'[l] = Tail(fifo[l])
      BY <1>1, <1>2, <2>1
    <3>2. /\ Tail(fifo[l]) \in Seq(Records)
          /\ Len(Tail(fifo[l])) = len - 1
          /\ \A n \in 1 .. Len(Tail(fifo[l])) : Tail(fifo[l])[n] = fifo[l][n + 1]
      BY <2>1, HeadTailProperties
    <3>3. fifo' \in [Levels -> Seq(Records)]
      BY <1>1, <1>2, <3>2
    <3>4. fifo'[l] = << >> <=> Len(fifo'[l]) = 0
      BY <3>1, <3>2, EmptySeq
    <3>5. QED BY <3>1, <3>2, <3>3, <3>4, <2>0
  <2>3. /\ rest \in Records \cup {NoProc}
        /\ rest = NoProc <=> len = 1
        /\ rest # NoProc => rest = fifo[l][2]
    <3>1. rest \in Records \cup {NoProc}
      BY <1>1, <2>1 DEF QueueType
    <3>2. CASE len = 1
      BY <2>1, <3>1, <3>2
    <3>3. CASE len # 1
      <4>1. 1 \in 1 .. len - 1 /\ 2 \in 1 .. len
        <5> HIDE DEF len
        <5>1. QED BY <2>0, <3>3
      <4>2. rest = fifo[l][2] /\ rest \in Records
        BY <2>1, <4>1
      <4>3. QED BY <4>2, <3>3, <1>1
    <3>4. QED BY <3>1, <3>2, <3>3
  <2>4. /\ rq'.head = [rq.head EXCEPT ![l] = rest]
        /\ rq'.tail = [rq.tail EXCEPT ![l] = IF rest = NoProc THEN NoProc ELSE @]
        /\ rq'.mask = IF rest = NoProc THEN rq.mask \ {l} ELSE rq.mask
        /\ rq'.next = rq.next
        /\ rq' \in QueueType
    BY <1>1, <1>2, <1>4, <2>3 DEF take, QueueType
  <2>5. TypeOK'
    BY <1>1, <1>2, <2>2, <2>4 DEF TypeOK
  <2>6. Linked'
    <3>1. ASSUME NEW m \in Levels, m # l PROVE
            /\ fifo'[m] = << >> <=> rq'.head[m] = NoProc
            /\ fifo'[m] = << >> <=> rq'.tail[m] = NoProc
            /\ fifo'[m] # << >> => /\ rq'.head[m] = fifo'[m][1]
                                   /\ rq'.tail[m] = fifo'[m][Len(fifo'[m])]
                                   /\ rq'.next[rq'.tail[m]] = NoProc
            /\ \A n \in 1 .. Len(fifo'[m]) - 1 : rq'.next[fifo'[m][n]] = fifo'[m][n + 1]
      <4>1. rq'.head[m] = rq.head[m] /\ rq'.tail[m] = rq.tail[m] /\ rq'.next = rq.next
        BY <1>1, <2>4, <3>1 DEF QueueType
      <4>2. QED BY <4>1, <2>2, <3>1 DEF QueueInv, Linked
    <3>2. /\ fifo'[l] = << >> <=> rq'.head[l] = NoProc
          /\ fifo'[l] = << >> <=> rq'.tail[l] = NoProc
          /\ fifo'[l] # << >> => /\ rq'.head[l] = fifo'[l][1]
                                 /\ rq'.tail[l] = fifo'[l][Len(fifo'[l])]
                                 /\ rq'.next[rq'.tail[l]] = NoProc
      <4>1. /\ rq'.head[l] = rest
            /\ rq'.tail[l] = IF rest = NoProc THEN NoProc ELSE rq.tail[l]
        BY <1>1, <2>4 DEF QueueType
      <4>2. CASE len = 1
        BY <4>1, <4>2, <2>2, <2>3
      <4>3. CASE len # 1
        <5>1. 1 \in 1 .. len - 1 /\ len - 1 \in 1 .. len - 1 /\ (len - 1) + 1 = len
          <6> HIDE DEF len
          <6>1. QED BY <2>0, <4>3
        <5>2. fifo'[l][1] = fifo[l][2] /\ fifo'[l][len - 1] = fifo[l][len]
          BY <2>2, <5>1
        <5>3. rest # NoProc /\ fifo[l][len] # NoProc
          BY <2>1, <2>3, <4>3, <1>1
        <5>4. QED BY <4>1, <4>3, <5>2, <5>3, <2>1, <2>2, <2>3, <2>4
      <4>4. QED BY <4>2, <4>3
    <3>3. ASSUME NEW n \in 1 .. Len(fifo'[l]) - 1 PROVE rq'.next[fifo'[l][n]] = fifo'[l][n + 1]
      <4>1. n \in 1 .. len - 1 /\ n + 1 \in 1 .. len - 1
        BY <2>1, <2>2
      <4>2. fifo'[l][n] = fifo[l][n + 1] /\ fifo'[l][n + 1] = fifo[l][n + 2]
        BY <2>2, <4>1
      <4>3. rq.next[fifo[l][n + 1]] = fifo[l][n + 2]
        BY <2>1, <4>1
      <4>4. QED BY <4>2, <4>3, <2>4
    <3>4. QED BY <3>1, <3>2, <3>3 DEF Linked
  <2>7. Disjoint'
    <3>1. \A m \in Levels : \A n \in 1 .. Len(fifo[m]) :
            PriOf(fifo[m][n]) = m /\ \A k \in 1 .. Len(fifo[m]) : fifo[m][n] = fifo[m][k] => n = k
      BY DEF QueueInv, Disjoint
    <3>2. ASSUME NEW m \in Levels, m # l, NEW n \in 1 .. Len(fifo'[m]) PROVE
            /\ PriOf(fifo'[m][n]) = m
            /\ \A k \in 1 .. Len(fifo'[m]) : fifo'[m][n] = fifo'[m][k] => n = k
      BY <3>1, <3>2, <2>2
    <3>3. ASSUME NEW n \in 1 .. Len(fifo'[l]) PROVE
            /\ PriOf(fifo'[l][n]) = l
            /\ \A k \in 1 .. Len(fifo'[l]) : fifo'[l][n] = fifo'[l][k] => n = k
      <4>1. n \in 1 .. len - 1 /\ n + 1 \in 1 .. len
        BY <2>1, <2>2
      <4>2. PriOf(fifo'[l][n]) = l
        BY <4>1, <3>1, <2>2, <1>1
      <4>3. ASSUME NEW k \in 1 .. Len(fifo'[l]), fifo'[l][n] = fifo'[l][k] PROVE n = k
        <5>1. k \in 1 .. len - 1 /\ k + 1 \in 1 .. len
          BY <2>1, <2>2
        <5>2. fifo[l][n + 1] = fifo[l][k + 1]
          BY <4>1, <4>3, <5>1, <2>2
        <5>3. n + 1 = k + 1
          BY <5>1, <5>2, <4>1, <3>1, <1>1
        <5>4. QED BY <5>1, <5>3, <4>1
      <4>4. QED BY <4>2, <4>3
    <3>4. QED BY <3>2, <3>3 DEF Disjoint
  <2>8. MaskExact'
    <3>1. ASSUME NEW m \in Levels PROVE m \in rq'.mask <=> fifo'[m] # << >>
      BY <2>1, <2>2, <2>3, <2>4 DEF QueueInv, MaskExact
    <3>2. QED BY <3>1 DEF MaskExact
  <2>9. QED BY <2>5, <2>6, <2>7, <2>8 DEF QueueInv
<1>5. QED BY <1>3, <1>4

LEMMA StutterQueueInv ==
  ASSUME QueueInv, UNCHANGED queueVars
  PROVE  QueueInv'
BY DEF queueVars, QueueInv, TypeOK, Linked, Disjoint, MaskExact

\* Every reachable structure is a set of proper lists with an exact mask
\* (readyQ, the next fields and priority_mask of sched.c).
THEOREM QueueInvariant == Spec => []QueueInv
<1>1. QueueInv /\ [Next]_queueVars => QueueInv'
  BY EnqueueQueueInv, TakeQueueInv, StutterQueueInv DEF Next
<1>2. QED BY <1>1, InitQueueInv, PTL DEF Spec

-----------------------------------------------------------------------------
\* The refinement: Enqueue is Add, TakeHighest is RemoveHighest of the chosen
\* level or RemoveNone.

LEMMA EnqueueIsAdd ==
  ASSUME QueueInv, NEW p \in Records, Enqueue(p)
  PROVE  Fifo!Add(p)
<1>1. \A l \in Levels : DOMAIN fifo[l] = 1 .. Len(fifo[l])
  BY DEF QueueInv, TypeOK
<1>2. \A l \in Levels : ~Fifo!Holds(l, p)
  BY <1>1 DEF Enqueue, OnQueue, Fifo!Holds
<1>3. QED BY <1>2 DEF Enqueue, Fifo!Add

LEMMA TakeIsRemove ==
  ASSUME QueueInv, TakeHighest
  PROVE  Fifo!Next
<1> DEFINE l == highest_ready(rq.mask)
<1>1. /\ l \in Levels
      /\ \A m \in Levels : m > l => fifo[m] = << >>
      /\ fifo[l] = << >> => \A m \in Levels : fifo[m] = << >>
      /\ rq.head[l] = NoProc <=> fifo[l] = << >>
      /\ fifo \in [Levels -> Seq(Records)]
  BY ChosenLevel DEF QueueInv, TypeOK
<1>2. taken' = rq.head[l] /\ fifo' = [fifo EXCEPT ![l] = IF @ = << >> THEN @ ELSE Tail(@)]
  BY DEF TakeHighest
<1>3. CASE fifo[l] = << >>
  <2>1. Fifo!RemoveNone
    BY <1>1, <1>2, <1>3 DEF Fifo!RemoveNone
  <2>2. QED BY <2>1 DEF Fifo!Next
<1>4. CASE fifo[l] # << >>
  <2>1. rq.head[l] = Head(fifo[l])
    BY <1>1, <1>4 DEF QueueInv, Linked
  <2>2. Fifo!RemoveHighest(l)
    BY <1>1, <1>2, <1>4, <2>1 DEF Fifo!RemoveHighest
  <2>3. QED BY <1>1, <2>2 DEF Fifo!Next
<1>5. QED BY <1>3, <1>4

\* take(highest_ready()) and append(), used under their contract, serve
\* processes by priority and then first come, first served.
THEOREM QueueImplementsFifo == Spec => ImplementsFifo
<1>1. Init => Fifo!Init
  BY DEF Init, Fifo!Init
<1>2. QueueInv /\ [Next]_queueVars => [Fifo!Next]_(Fifo!fifoVars)
  <2>1. ASSUME QueueInv, NEW p \in Records, Enqueue(p) PROVE Fifo!Next
    BY <2>1, EnqueueIsAdd DEF Fifo!Next
  <2>2. ASSUME UNCHANGED queueVars PROVE UNCHANGED Fifo!fifoVars
    BY <2>2 DEF queueVars, Fifo!fifoVars
  <2>3. QED BY <2>1, <2>2, TakeIsRemove DEF Next
<1>3. QED BY <1>1, <1>2, QueueInvariant, PTL DEF Spec, ImplementsFifo, Fifo!Spec
=============================================================================
