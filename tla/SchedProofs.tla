---------------------------- MODULE SchedProofs ----------------------------
(***************************************************************************)
(* Proof that the activations of schedule() on the single C stack are in   *)
(* strictly increasing order of priority, for every application.  In an    *)
(* orderly one, moreover, `current' is the process whose code executes,    *)
(* nobody more urgent is ready while it does, and the level chosen by      *)
(* schedule() has a process to take.                                       *)
(***************************************************************************)
EXTENDS SchedProps, SequenceTheorems, FiniteSetTheorems, TLAPS

-----------------------------------------------------------------------------
\* The operators of ReadyQueue.tla (as in ReadyQueueProofs.tla).

\* The decision tree of highest_ready() finds the highest set bit of the mask,
\* and level 0 when there is none.
LEMMA HighestReady ==
  ASSUME NEW mask \in SUBSET Levels
  PROVE  /\ highest_ready(mask) \in Levels
         /\ mask = {} => highest_ready(mask) = 0
         /\ mask # {} => highest_ready(mask) \in mask
         /\ \A m \in mask : m <= highest_ready(mask)
<1>1. \A m \in mask : m \in 0 .. 7 /\ m \in Int
  BY DEF Levels, PRI_MIN, PRI_MAX
<1>2. CASE mask \cap (4 .. 7) # {}
  <2>1. CASE mask \cap (6 .. 7) # {}
    BY <1>1, <1>2, <2>1 DEF highest_ready, Levels, PRI_MIN, PRI_MAX
  <2>2. CASE mask \cap (6 .. 7) = {}
    BY <1>1, <1>2, <2>2 DEF highest_ready, Levels, PRI_MIN, PRI_MAX
  <2>3. QED BY <2>1, <2>2
<1>3. CASE mask \cap (4 .. 7) = {}
  <2>1. CASE mask \cap (2 .. 3) # {}
    BY <1>1, <1>3, <2>1 DEF highest_ready, Levels, PRI_MIN, PRI_MAX
  <2>2. CASE mask \cap (2 .. 3) = {}
    <3>1. \A m \in mask : m = 0 \/ m = 1
      BY <1>1, <1>3, <2>2
    <3>2. highest_ready(mask) = IF 1 \in mask THEN 1 ELSE 0
      BY <1>3, <2>2 DEF highest_ready
    <3>3. CASE 1 \in mask
      BY <3>1, <3>2, <3>3 DEF Levels, PRI_MIN, PRI_MAX
    <3>4. CASE 1 \notin mask
      <4>1. highest_ready(mask) = 0 /\ \A m \in mask : m = 0
        BY <3>1, <3>2, <3>4
      <4>2. mask # {} => 0 \in mask
        BY <4>1
      <4>3. QED BY <4>1, <4>2 DEF Levels, PRI_MIN, PRI_MAX
    <3>5. QED BY <3>3, <3>4
  <2>3. QED BY <2>1, <2>2
<1>4. QED BY <1>2, <1>3

\* Every record has a level of its own, and NULL is not a record.
LEMMA PriOfLevel ==
  /\ \A p \in Records : PriOf(p) \in Levels /\ PriOf(p) \in Int
  /\ NoProc \notin Records
  /\ \A p \in Procs : p \in Records /\ p # Idle
BY RecordAssumption DEF PriOf, Levels, Records, PRI_MIN, PRI_MAX

\* The part of the invariant about the stack and `current'.
OrderInv == StackShape /\ BaseAbove /\ CurrentAbove

LEMMA TopFacts ==
  ASSUME StackShape
  PROVE  /\ Len(stack) \in Nat /\ Len(stack) >= 1
         /\ Len(stack) \in Frames
         /\ Top = stack[Len(stack)]
         /\ FrameOK(Top)
<1>1. Len(stack) \in Nat /\ Len(stack) # 0
  BY EmptySeq DEF StackShape
<1>2. QED BY <1>1 DEF StackShape, Top, Frames

-----------------------------------------------------------------------------
\* What Goto, Call and Return do to the sequence.

LEMMA SeqOfElements ==
  ASSUME NEW S, NEW s \in Seq(S)
  PROVE  s \in Seq({s[n] : n \in 1 .. Len(s)})
BY SeqOfRange, RangeEquality

LEMMA GotoSeq ==
  ASSUME StackShape, NEW f, Goto(f)
  PROVE  /\ Len(stack') = Len(stack)
         /\ \A n \in Frames : stack'[n] = IF n = Len(stack) THEN f ELSE stack[n]
         /\ stack' \in Seq({stack'[n] : n \in Frames'})
         /\ stack' # << >>
<1> DEFINE S == {stack[n] : n \in Frames} \cup {f}
<1>1. stack \in Seq(S) /\ f \in S
  BY DEF StackShape
<1>2. /\ Len(stack) \in 1 .. Len(stack)
      /\ Len(stack) \in Nat
  BY TopFacts DEF Frames
<1>3. stack' = [stack EXCEPT ![Len(stack)] = f]
  BY DEF Goto
<1> HIDE DEF S
<1>4. /\ stack' \in Seq(S)
      /\ Len(stack') = Len(stack)
      /\ \A n \in 1 .. Len(stack) : stack'[n] = IF n = Len(stack) THEN f ELSE stack[n]
  BY <1>1, <1>2, <1>3, ExceptSeq
<1>5. stack' \in Seq({stack'[n] : n \in 1 .. Len(stack')})
  BY <1>4, SeqOfElements
<1>6. stack' # << >>
  BY <1>2, <1>4, EmptySeq
<1>7. QED BY <1>4, <1>5, <1>6 DEF Frames

LEMMA PushSeq ==
  ASSUME StackShape, NEW g, stack' = Append(stack, g)
  PROVE  /\ Len(stack') = Len(stack) + 1
         /\ \A n \in Frames : stack'[n] = stack[n]
         /\ stack'[Len(stack) + 1] = g
         /\ stack' \in Seq({stack'[n] : n \in Frames'})
         /\ stack' # << >>
<1> DEFINE S == {stack[n] : n \in Frames} \cup {g}
<1>1. stack \in Seq(S) /\ g \in S
  BY DEF StackShape
<1> HIDE DEF S
<1>2. /\ stack' \in Seq(S)
      /\ stack' # << >>
      /\ Len(stack') = Len(stack) + 1
      /\ \A n \in 1 .. Len(stack) : stack'[n] = stack[n]
      /\ stack'[Len(stack) + 1] = g
  BY <1>1, AppendProperties
<1>3. stack' \in Seq({stack'[n] : n \in 1 .. Len(stack')})
  BY <1>2, SeqOfElements
<1>4. QED BY <1>2, <1>3 DEF Frames

LEMMA CallSeq ==
  ASSUME StackShape, NEW f, NEW g, Call(f, g)
  PROVE  /\ Len(stack') = Len(stack) + 1
         /\ \A n \in Frames : stack'[n] = IF n = Len(stack) THEN f ELSE stack[n]
         /\ stack'[Len(stack) + 1] = g
         /\ stack' \in Seq({stack'[n] : n \in Frames'})
         /\ stack' # << >>
<1> DEFINE S == {stack[n] : n \in Frames} \cup {f, g}
           t == [stack EXCEPT ![Len(stack)] = f]
<1>1. stack \in Seq(S) /\ f \in S /\ g \in S
  BY DEF StackShape
<1>2. Len(stack) \in 1 .. Len(stack) /\ Len(stack) \in Nat
  BY TopFacts DEF Frames
<1>3. stack' = Append(t, g)
  BY DEF Call
<1> HIDE DEF S
<1>4. /\ t \in Seq(S)
      /\ Len(t) = Len(stack)
      /\ \A n \in 1 .. Len(stack) : t[n] = IF n = Len(stack) THEN f ELSE stack[n]
  BY <1>1, <1>2, ExceptSeq
<1> HIDE DEF t
<1>5. /\ stack' \in Seq(S)
      /\ stack' # << >>
      /\ Len(stack') = Len(t) + 1
      /\ \A n \in 1 .. Len(t) : stack'[n] = t[n]
      /\ stack'[Len(t) + 1] = g
  BY <1>1, <1>3, <1>4, AppendProperties
<1>6. stack' \in Seq({stack'[n] : n \in 1 .. Len(stack')})
  BY <1>5, SeqOfElements
<1>7. QED BY <1>4, <1>5, <1>6 DEF Frames

LEMMA ReturnSeq ==
  ASSUME StackShape, Return, Len(stack) > 1
  PROVE  /\ Len(stack') = Len(stack) - 1
         /\ \A n \in 1 .. Len(stack) - 1 : stack'[n] = stack[n] /\ n \in Frames
         /\ stack' \in Seq({stack'[n] : n \in Frames'})
         /\ stack' # << >>
<1> DEFINE S == {stack[n] : n \in Frames}
           m == Len(stack) - 1
<1>1. stack \in Seq(S)
  BY DEF StackShape
<1>2. Len(stack) \in Nat /\ Frames = 1 .. Len(stack)
  BY TopFacts DEF Frames
<1>3. m \in Int /\ 1 \in Int /\ m >= 1 /\ \A n \in 1 .. m : n \in Frames
  BY <1>2
<1>4. \A n \in 1 .. m : stack[n] \in S
  BY <1>3
<1>5. stack' = SubSeq(stack, 1, m)
  BY DEF Return
<1> HIDE DEF S, m
<1>6. /\ stack' \in Seq(S)
      /\ Len(stack') = IF 1 <= m THEN m - 1 + 1 ELSE 0
      /\ \A n \in 1 .. m - 1 + 1 : stack'[n] = stack[1 + n - 1]
  BY <1>3, <1>4, <1>5, SubSeqProperties
<1>7. Len(stack') = m /\ \A n \in 1 .. m : stack'[n] = stack[n]
  BY <1>3, <1>6
<1>8. stack' \in Seq({stack'[n] : n \in 1 .. Len(stack')})
  BY <1>6, SeqOfElements
<1>9. stack' # << >>
  BY <1>3, <1>7, EmptySeq
<1>10. QED BY <1>3, <1>7, <1>8, <1>9 DEF Frames, m

-----------------------------------------------------------------------------
\* Every step of the kernel does one of five things to the activations.

\* 1. The top activation moves on, keeping its process or giving it up; a
\* return from a call may restore `current' from `prev'.
LEMMA GotoInv ==
  ASSUME OrderInv, NEW f, Goto(f), FrameOK(f),
         f.fn = Top.fn, f.base = Top.base, f.proc \in {Top.proc, NoProc}, f.prev = NoProc,
         current' \in {current, Restored}
  PROVE  OrderInv'
<1> DEFINE N == Len(stack)
<1>1. /\ N \in Nat /\ N >= 1 /\ N \in Frames /\ Top = stack[N] /\ FrameOK(Top)
      /\ Frames = 1 .. N
  BY TopFacts DEF OrderInv, Frames
<1>2. /\ Len(stack') = N /\ Frames' = Frames
      /\ \A n \in Frames : stack'[n] = IF n = N THEN f ELSE stack[n]
      /\ stack' \in Seq({stack'[n] : n \in Frames'})
      /\ stack' # << >>
  BY GotoSeq DEF OrderInv, Frames
<1>3. current' \in Records
      /\ \A m \in Frames : stack[m].proc # NoProc => PriOf(stack[m].proc) <= PriOf(current')
  <2>1. CASE current' = current
    BY <2>1 DEF OrderInv, CurrentAbove
  <2>2. CASE current' # current
    <3>1. current' = Top.prev /\ Top.prev # NoProc
      BY <2>2 DEF Restored
    <3>2. current' \in Records
      BY <3>1, <1>1 DEF FrameOK
    <3>3. \A m \in Frames : m <= N
      BY <1>1
    <3>4. QED BY <3>1, <3>2, <3>3, <1>1 DEF OrderInv, CurrentAbove
  <2>3. QED BY <2>1, <2>2
<1>4. StackShape'
  <2>1. stack'[1].fn = "main"
    BY <1>1, <1>2 DEF OrderInv, StackShape
  <2>2. \A n \in Frames : FrameOK(stack'[n]) /\ (stack'[n].fn = "main" => n = 1)
    BY <1>1, <1>2 DEF OrderInv, StackShape
  <2>3. \A n \in Frames' : FrameOK(stack[n])'
    BY <1>2, <2>2 DEF FrameOK, IsFrame
  <2>4. QED BY <1>2, <2>1, <2>2, <2>3 DEF StackShape
<1>5. \A n \in Frames : stack'[n].proc \in {stack[n].proc, NoProc}
      /\ stack'[n].fn = stack[n].fn /\ stack'[n].base = stack[n].base
      /\ stack'[n].prev \in {stack[n].prev, NoProc}
  BY <1>1, <1>2
<1>6. BaseAbove'
  BY <1>2, <1>5 DEF OrderInv, BaseAbove
<1>7. CurrentAbove'
  BY <1>2, <1>3, <1>5 DEF OrderInv, CurrentAbove
<1>8. QED BY <1>4, <1>6, <1>7 DEF OrderInv

\* 2. The top activation calls schedule(), with a base no lower than what runs
\* below it, or the signal handler; it may save `current'.
LEMMA CallInv ==
  ASSUME OrderInv, NEW f, NEW g, Call(f, g), FrameOK(f), FrameOK(g),
         f.fn = Top.fn, f.base = Top.base, f.proc = Top.proc, f.prev \in {NoProc, current},
         g.proc = NoProc, g.prev = NoProc, g.fn # "main",
         g.fn = "schedule" =>
           \A m \in Frames : stack[m].proc # NoProc => PriOf(stack[m].proc) <= g.base,
         current' = current
  PROVE  OrderInv'
<1> DEFINE N == Len(stack)
<1>1. /\ N \in Nat /\ N >= 1 /\ N \in Frames /\ Top = stack[N] /\ FrameOK(Top)
      /\ Frames = 1 .. N
  BY TopFacts DEF OrderInv, Frames
<1>2. /\ Len(stack') = N + 1 /\ Frames' = 1 .. N + 1
      /\ \A n \in Frames : stack'[n] = IF n = N THEN f ELSE stack[n]
      /\ stack'[N + 1] = g
      /\ stack' \in Seq({stack'[n] : n \in Frames'})
      /\ stack' # << >>
  BY CallSeq DEF OrderInv, Frames
<1>3. \A n \in Frames' : n \in Frames \/ n = N + 1
  BY <1>1, <1>2
<1>4. StackShape'
  <2>1. stack'[1].fn = "main"
    BY <1>1, <1>2 DEF OrderInv, StackShape
  <2>2. \A n \in Frames' : FrameOK(stack'[n]) /\ (stack'[n].fn = "main" => n = 1)
    BY <1>1, <1>2, <1>3 DEF OrderInv, StackShape
  <2>3. \A n \in Frames' : FrameOK(stack[n])'
    BY <2>2 DEF FrameOK, IsFrame
  <2>4. QED BY <1>2, <2>1, <2>2, <2>3 DEF StackShape
<1>5. \A n \in Frames : stack'[n].proc = stack[n].proc
      /\ stack'[n].fn = stack[n].fn /\ stack'[n].base = stack[n].base
      /\ stack'[n].prev \in {stack[n].prev, NoProc, current}
  BY <1>1, <1>2
<1>6. /\ current \in Records /\ current # NoProc /\ PriOf(current) \in Int
      /\ \A m \in Frames : stack[m].proc # NoProc => /\ PriOf(stack[m].proc) <= PriOf(current)
                                                     /\ PriOf(stack[m].proc) \in Int
  BY PriOfLevel DEF OrderInv, CurrentAbove, StackShape, FrameOK
<1>7. BaseAbove'
  <2>1. ASSUME NEW m \in Frames', NEW n \in Frames', m < n,
               stack'[m].proc # NoProc, stack'[n].fn = "schedule"
        PROVE  PriOf(stack'[m].proc) <= stack'[n].base
    <3>1. m \in Frames
      BY <1>1, <1>2, <2>1
    <3>2. CASE n \in Frames
      BY <3>1, <3>2, <2>1, <1>5 DEF OrderInv, BaseAbove
    <3>3. CASE n = N + 1
      <4>1. stack'[n] = g /\ stack'[m].proc = stack[m].proc
        BY <3>1, <3>3, <1>2, <1>5
      <4>2. QED BY <3>1, <2>1, <4>1
    <3>4. QED BY <3>2, <3>3, <1>3, <2>1
  <2>2. QED BY <2>1 DEF BaseAbove
<1>8. CurrentAbove'
  <2>1. ASSUME NEW m \in Frames', stack'[m].proc # NoProc
        PROVE  m \in Frames /\ PriOf(stack'[m].proc) <= PriOf(current)
    BY <2>1, <1>2, <1>3, <1>5, <1>6
  <2>2. ASSUME NEW m \in Frames', NEW n \in Frames', m <= n,
               stack'[m].proc # NoProc, stack'[n].prev # NoProc
        PROVE  PriOf(stack'[m].proc) <= PriOf(stack'[n].prev)
    <3>1. m \in Frames /\ n \in Frames
      BY <2>1, <2>2, <1>2, <1>3
    <3>2. QED BY <3>1, <2>2, <1>5, <1>6 DEF OrderInv, CurrentAbove
  <2>3. QED BY <2>1, <2>2, <1>6 DEF CurrentAbove
<1>9. QED BY <1>4, <1>7, <1>8 DEF OrderInv

\* 3. An interrupt pushes a handler.
LEMMA PushInv ==
  ASSUME OrderInv, NEW g, stack' = Append(stack, g), FrameOK(g),
         g.proc = NoProc, g.prev = NoProc, g.fn = "handler", current' = current
  PROVE  OrderInv'
<1> DEFINE N == Len(stack)
<1>1. N \in Nat /\ N >= 1 /\ Frames = 1 .. N
  BY TopFacts DEF OrderInv, Frames
<1>2. /\ Len(stack') = N + 1 /\ Frames' = 1 .. N + 1
      /\ \A n \in Frames : stack'[n] = stack[n]
      /\ stack'[N + 1] = g
      /\ stack' \in Seq({stack'[n] : n \in Frames'})
      /\ stack' # << >>
  BY PushSeq DEF OrderInv, Frames
<1>3. \A n \in Frames' : n \in Frames \/ n = N + 1
  BY <1>1, <1>2
<1>4. StackShape'
  <2>1. stack'[1].fn = "main"
    BY <1>1, <1>2 DEF OrderInv, StackShape
  <2>2. \A n \in Frames' : FrameOK(stack'[n]) /\ (stack'[n].fn = "main" => n = 1)
    BY <1>1, <1>2, <1>3 DEF OrderInv, StackShape
  <2>3. \A n \in Frames' : FrameOK(stack[n])'
    BY <2>2 DEF FrameOK, IsFrame
  <2>4. QED BY <1>2, <2>1, <2>2, <2>3 DEF StackShape
<1>5. BaseAbove'
  <2>1. ASSUME NEW m \in Frames', NEW n \in Frames', m < n,
               stack'[m].proc # NoProc, stack'[n].fn = "schedule"
        PROVE  PriOf(stack'[m].proc) <= stack'[n].base
    <3>1. m \in Frames /\ n \in Frames
      BY <2>1, <1>2, <1>3
    <3>2. QED BY <3>1, <2>1, <1>2 DEF OrderInv, BaseAbove
  <2>2. QED BY <2>1 DEF BaseAbove
<1>6. CurrentAbove'
  BY <1>2, <1>3 DEF OrderInv, CurrentAbove
<1>7. QED BY <1>4, <1>5, <1>6 DEF OrderInv

\* 4. The top activation returns.
LEMMA ReturnInv ==
  ASSUME OrderInv, Return, Top.fn # "main", current' = current
  PROVE  OrderInv'
<1> DEFINE N == Len(stack)
<1>1. N \in Nat /\ N > 1 /\ Frames = 1 .. N
  <2>1. N \in Nat /\ N >= 1 /\ Top = stack[N] /\ Frames = 1 .. N
    BY TopFacts DEF OrderInv, Frames
  <2>2. N # 1
    BY <2>1 DEF OrderInv, StackShape
  <2> HIDE DEF N
  <2>3. QED BY <2>1, <2>2
<1>2. /\ Len(stack') = N - 1 /\ Frames' = 1 .. N - 1
      /\ \A n \in Frames' : stack'[n] = stack[n] /\ n \in Frames
      /\ 1 \in Frames'
      /\ stack' \in Seq({stack'[n] : n \in Frames'})
      /\ stack' # << >>
  BY <1>1, ReturnSeq DEF OrderInv, Frames
<1>3. StackShape'
  <2>1. stack'[1].fn = "main"
    BY <1>2 DEF OrderInv, StackShape
  <2>2. \A n \in Frames' : FrameOK(stack'[n]) /\ (stack'[n].fn = "main" => n = 1)
    BY <1>1, <1>2 DEF OrderInv, StackShape
  <2>3. \A n \in Frames' : FrameOK(stack[n])'
    BY <2>2 DEF FrameOK, IsFrame
  <2>4. QED BY <1>2, <2>1, <2>2, <2>3 DEF StackShape
<1>4. BaseAbove'
  BY <1>2 DEF OrderInv, BaseAbove
<1>5. CurrentAbove'
  BY <1>2 DEF OrderInv, CurrentAbove
<1>6. QED BY <1>3, <1>4, <1>5 DEF OrderInv

\* 5. schedule() takes a process of a level above its base: the process becomes
\* that of the top activation, and `current'.
LEMMA TakeInv ==
  ASSUME OrderInv, NEW p \in Records, NEW f, Goto(f), FrameOK(f),
         f.fn = "schedule", Top.fn = "schedule", f.base = Top.base, f.proc = p,
         f.prev = NoProc, Top.prev = NoProc, PriOf(p) > Top.base,
         current' = p
  PROVE  OrderInv'
<1> DEFINE N == Len(stack)
<1>1. /\ N \in Nat /\ N >= 1 /\ N \in Frames /\ Top = stack[N] /\ FrameOK(Top)
      /\ Frames = 1 .. N
  BY TopFacts DEF OrderInv, Frames
<1>2. /\ Len(stack') = N /\ Frames' = Frames
      /\ \A n \in Frames : stack'[n] = IF n = N THEN f ELSE stack[n]
      /\ stack' \in Seq({stack'[n] : n \in Frames'})
      /\ stack' # << >>
  BY GotoSeq DEF OrderInv, Frames
<1>3. StackShape'
  <2>1. stack'[1].fn = "main"
    BY <1>1, <1>2 DEF OrderInv, StackShape
  <2>2. \A n \in Frames : FrameOK(stack'[n]) /\ (stack'[n].fn = "main" => n = 1)
    BY <1>1, <1>2 DEF OrderInv, StackShape
  <2>3. \A n \in Frames' : FrameOK(stack[n])'
    BY <1>2, <2>2 DEF FrameOK, IsFrame
  <2>4. QED BY <1>2, <2>1, <2>2, <2>3 DEF StackShape
<1>4. \A n \in Frames : stack'[n].fn = stack[n].fn /\ stack'[n].base = stack[n].base
                        /\ stack'[n].prev = stack[n].prev
                        /\ (n # N => stack'[n].proc = stack[n].proc)
  BY <1>1, <1>2
<1>5. stack'[N].proc = p /\ stack'[N].prev = NoProc
  BY <1>1, <1>2
<1>6. \A m \in Frames : m # N => m < N
  <2> HIDE DEF N
  <2>1. QED BY <1>1
<1>7. /\ PriOf(p) \in Int /\ Top.base \in Int
      /\ \A m \in Frames : stack[m].proc # NoProc => PriOf(stack[m].proc) \in Int
  BY <1>1, PriOfLevel DEF FrameOK, OrderInv, StackShape
<1>8. \A m \in Frames : m # N /\ stack[m].proc # NoProc => PriOf(stack[m].proc) < PriOf(p)
  <2>1. ASSUME NEW m \in Frames, m # N, stack[m].proc # NoProc
        PROVE  PriOf(stack[m].proc) <= Top.base
    BY <2>1, <1>1, <1>6 DEF OrderInv, BaseAbove
  <2>2. QED BY <2>1, <1>7
<1>9. BaseAbove'
  <2>1. ASSUME NEW m \in Frames, NEW n \in Frames, m < n,
               stack'[m].proc # NoProc, stack'[n].fn = "schedule"
        PROVE  PriOf(stack'[m].proc) <= stack'[n].base
    <3>1. m # N
      <4> HIDE DEF N
      <4>1. QED BY <1>1, <2>1
    <3>2. QED BY <3>1, <2>1, <1>4 DEF OrderInv, BaseAbove
  <2>2. QED BY <2>1, <1>2 DEF BaseAbove
<1>10. CurrentAbove'
  <2>1. \A m \in Frames : stack'[m].proc # NoProc => PriOf(stack'[m].proc) <= PriOf(p)
    BY <1>4, <1>5, <1>7, <1>8
  <2>2. ASSUME NEW m \in Frames, NEW n \in Frames, m <= n,
               stack'[m].proc # NoProc, stack'[n].prev # NoProc
        PROVE  PriOf(stack'[m].proc) <= PriOf(stack'[n].prev)
    <3>1. n # N /\ m # N
      <4>1. n # N
        BY <2>2, <1>5
      <4> HIDE DEF N
      <4>2. QED BY <4>1, <1>1, <2>2
    <3>2. QED BY <3>1, <2>2, <1>4 DEF OrderInv, CurrentAbove
  <2>3. QED BY <2>1, <2>2, <1>2 DEF CurrentAbove
<1>11. QED BY <1>3, <1>9, <1>10 DEF OrderInv

-----------------------------------------------------------------------------
\* The ready queues link processes of one priority, whatever is appended.

LEMMA AppendLevels ==
  ASSUME QueueLevels, NEW p \in Records, rq' = append(rq, p)
  PROVE  QueueLevels'
<1> DEFINE l == PriOf(p)
           t == rq.tail[l]
<1>1. l \in Levels /\ p # NoProc /\ rq \in QueueType /\ t \in Records \cup {NoProc}
      /\ rq.head[l] \in Records \cup {NoProc}
      /\ (t # NoProc => PriOf(t) = l)
  BY PriOfLevel DEF QueueLevels, QueueType
<1>2. /\ rq'.head = [rq.head EXCEPT ![l] = IF @ = NoProc THEN p ELSE @]
      /\ rq'.tail = [rq.tail EXCEPT ![l] = p]
      /\ t = NoProc => rq'.next = [rq.next EXCEPT ![p] = NoProc]
      /\ t # NoProc => rq'.next = [[rq.next EXCEPT ![t] = p] EXCEPT ![p] = NoProc]
      /\ rq' \in QueueType
  BY <1>1 DEF append, QueueType
<1>3. \A q \in Records : rq'.next[q] \in {rq.next[q], NoProc} \/ (q = t /\ rq'.next[q] = p)
  BY <1>1, <1>2 DEF QueueType
<1>4. ASSUME NEW q \in Records, rq'.next[q] # NoProc
      PROVE  PriOf(rq'.next[q]) = PriOf(q)
  <2>1. CASE rq'.next[q] = rq.next[q]
    BY <2>1, <1>4 DEF QueueLevels
  <2>2. CASE q = t /\ rq'.next[q] = p
    <3>1. t # NoProc
      BY <2>2, PriOfLevel
    <3>2. PriOf(q) = l
      BY <3>1, <2>2, <1>1
    <3>3. QED BY <3>2, <2>2
  <2>3. QED BY <2>1, <2>2, <1>3, <1>4
<1>5. \A m \in Levels : rq'.head[m] \in {rq.head[m]} \/ (m = l /\ rq'.head[m] = p)
  BY <1>1, <1>2 DEF QueueType
<1>6. \A m \in Levels : rq'.tail[m] \in {rq.tail[m]} \/ (m = l /\ rq'.tail[m] = p)
  BY <1>1, <1>2 DEF QueueType
<1>7. QED BY <1>2, <1>4, <1>5, <1>6 DEF QueueLevels

LEMMA TakeLevels ==
  ASSUME QueueLevels, NEW l \in Levels, rq' = take(rq, l), rq.head[l] # NoProc
  PROVE  QueueLevels' /\ rq.head[l] \in Records /\ PriOf(rq.head[l]) = l
<1> DEFINE h == rq.head[l]
           rest == rq.next[h]
<1>1. /\ rq \in QueueType /\ h \in Records /\ PriOf(h) = l
      /\ rest \in Records \cup {NoProc}
      /\ rest # NoProc => PriOf(rest) = l
  BY DEF QueueLevels, QueueType
<1>2. /\ rq'.head = [rq.head EXCEPT ![l] = rest]
      /\ rq'.tail = [rq.tail EXCEPT ![l] = IF rest = NoProc THEN NoProc ELSE @]
      /\ rq'.next = rq.next
      /\ rq' \in QueueType
  BY <1>1 DEF take, QueueType
<1>3. \A m \in Levels : rq'.head[m] = IF m = l THEN rest ELSE rq.head[m]
  BY <1>1, <1>2 DEF QueueType
<1>4. \A m \in Levels : rq'.tail[m] \in {rq.tail[m], NoProc}
  BY <1>1, <1>2 DEF QueueType
<1>5. QED BY <1>1, <1>2, <1>3, <1>4 DEF QueueLevels

\* release_mem() overwrites the link of the record with that of a free list
\* that holds nothing but the record itself.
LEMMA ReleaseLevels ==
  ASSUME QueueLevels, NEW p, rq' = [rq EXCEPT !.next[p] = IF p \in freed THEN p ELSE NoProc]
  PROVE  QueueLevels'
<1>1. rq \in QueueType
  BY DEF QueueLevels
<1>2. /\ rq'.head = rq.head /\ rq'.tail = rq.tail
      /\ rq'.next = [rq.next EXCEPT ![p] = IF p \in freed THEN p ELSE NoProc]
      /\ rq' \in QueueType
  BY <1>1 DEF QueueType
<1>3. QED BY <1>1, <1>2 DEF QueueLevels, QueueType

LEMMA SameLevels ==
  ASSUME QueueLevels, rq' = rq
  PROVE  QueueLevels'
BY DEF QueueLevels

-----------------------------------------------------------------------------
\* The same five kinds of step for the whole invariant.

\* An activation of schedule() moves on with the process it runs.
ProcPcs == SchedulePcs \ {"select", "take", "load", "idle"}

LEMMA MoveInv ==
  ASSUME StackInv, Top.pc \in ProcPcs, NEW f, Goto(f), IsFrame(f),
         f.fn = Top.fn, f.base = Top.base, f.proc = Top.proc, f.prev = NoProc,
         f.pc \in ProcPcs,
         current' \in {current, Restored}, rq' = rq
  PROVE  StackInv'
<1>1. OrderInv /\ QueueLevels /\ FrameOK(Top)
  BY TopFacts DEF StackInv, OrderInv
<1>2. FrameOK(f)
  BY <1>1 DEF FrameOK, ProcPcs, SchedulePcs, StartPcs, HandlerPcs, ReturnPcs
<1>3. OrderInv'
  BY <1>1, <1>2, GotoInv
<1>4. QED BY <1>1, <1>3, SameLevels DEF StackInv, OrderInv

\* The signal handler moves on.
LEMMA HandlerInv ==
  ASSUME StackInv, Top.pc \in HandlerPcs, NEW f, Goto(f), IsFrame(f),
         f.fn = Top.fn, f.base = Top.base, f.proc = Top.proc, f.prev = NoProc,
         f.pc \in HandlerPcs,
         current' \in {current, Restored}, rq' = rq
  PROVE  StackInv'
<1>1. OrderInv /\ QueueLevels /\ FrameOK(Top)
  BY TopFacts DEF StackInv, OrderInv
<1>2. FrameOK(f)
  BY <1>1 DEF FrameOK, SchedulePcs, StartPcs, HandlerPcs, ReturnPcs
<1>3. OrderInv'
  BY <1>1, <1>2, GotoInv
<1>4. QED BY <1>1, <1>3, SameLevels DEF StackInv, OrderInv

\* The program stops, or time passes.
LEMMA QuietInv ==
  ASSUME StackInv, UNCHANGED <<stack, rq, current>>
  PROVE  StackInv'
BY DEF StackInv, StackShape, BaseAbove, CurrentAbove, QueueLevels, Frames, FrameOK, IsFrame

\* start() clears the link of the record, and the assignments of append() each
\* keep the level of what they link.
LEMMA ClearLevels ==
  ASSUME QueueLevels, NEW p, rq' = [rq EXCEPT !.next[p] = NoProc]
  PROVE  QueueLevels'
<1>1. rq \in QueueType
  BY DEF QueueLevels
<1>2. /\ rq'.head = rq.head /\ rq'.tail = rq.tail
      /\ rq'.next = [rq.next EXCEPT ![p] = NoProc]
      /\ rq' \in QueueType
  BY <1>1 DEF QueueType
<1>3. QED BY <1>1, <1>2 DEF QueueLevels, QueueType

LEMMA LinkLevels ==
  ASSUME QueueLevels, NEW p \in Records, NEW q \in Records, PriOf(p) = PriOf(q),
         rq' = [rq EXCEPT !.next[q] = p]
  PROVE  QueueLevels'
<1>1. rq \in QueueType
  BY DEF QueueLevels
<1>2. /\ rq'.head = rq.head /\ rq'.tail = rq.tail
      /\ rq'.next = [rq.next EXCEPT ![q] = p]
      /\ rq' \in QueueType
  BY <1>1 DEF QueueType
<1>3. \A r \in Records : rq'.next[r] = IF r = q THEN p ELSE rq.next[r]
  BY <1>1, <1>2 DEF QueueType
<1>4. QED BY <1>2, <1>3 DEF QueueLevels

LEMMA TailLevels ==
  ASSUME QueueLevels, NEW p \in Records, rq' = [rq EXCEPT !.tail[PriOf(p)] = p]
  PROVE  QueueLevels'
<1>1. rq \in QueueType /\ PriOf(p) \in Levels
  BY PriOfLevel DEF QueueLevels
<1>2. /\ rq'.head = rq.head /\ rq'.next = rq.next
      /\ rq'.tail = [rq.tail EXCEPT ![PriOf(p)] = p]
      /\ rq' \in QueueType
  BY <1>1 DEF QueueType
<1>3. \A l \in Levels : rq'.tail[l] = IF l = PriOf(p) THEN p ELSE rq.tail[l]
  BY <1>1, <1>2 DEF QueueType
<1>4. QED BY <1>2, <1>3 DEF QueueLevels

LEMMA HeadLevels ==
  ASSUME QueueLevels, NEW p \in Records,
         rq' = [rq EXCEPT !.head[PriOf(p)] = p, !.mask = @ \cup {PriOf(p)}]
  PROVE  QueueLevels'
<1>1. rq \in QueueType /\ PriOf(p) \in Levels
  BY PriOfLevel DEF QueueLevels
<1>2. /\ rq'.tail = rq.tail /\ rq'.next = rq.next
      /\ rq'.head = [rq.head EXCEPT ![PriOf(p)] = p]
      /\ rq' \in QueueType
  BY <1>1 DEF QueueType
<1>3. \A l \in Levels : rq'.head[l] = IF l = PriOf(p) THEN p ELSE rq.head[l]
  BY <1>1, <1>2 DEF QueueType
<1>4. QED BY <1>2, <1>3 DEF QueueLevels

\* The activations that schedule(), the signal handler and start() begin with.
LEMMA NewFrames ==
  /\ \A b \in Int : /\ FrameOK(ScheduleFrame(b))
                    /\ ScheduleFrame(b).proc = NoProc /\ ScheduleFrame(b).prev = NoProc
                    /\ ScheduleFrame(b).base = b /\ ScheduleFrame(b).fn # "main"
  /\ \A src : /\ FrameOK(HandlerFrame(src))
              /\ HandlerFrame(src).proc = NoProc /\ HandlerFrame(src).prev = NoProc
              /\ HandlerFrame(src).fn = "handler"
  /\ \A p \in Procs : /\ FrameOK(StartFrame(p))
                      /\ StartFrame(p).proc = NoProc /\ StartFrame(p).prev = NoProc
                      /\ StartFrame(p).fn = "start"
<1>1. NoProc \notin Records
  BY PriOfLevel
<1>2. ASSUME NEW b \in Int
      PROVE  /\ FrameOK(ScheduleFrame(b))
             /\ ScheduleFrame(b).proc = NoProc /\ ScheduleFrame(b).prev = NoProc
             /\ ScheduleFrame(b).base = b /\ ScheduleFrame(b).fn # "main"
  BY <1>1 DEF ScheduleFrame, Frame, FrameOK, IsFrame, SchedulePcs, StartPcs, HandlerPcs, ReturnPcs
<1>3. ASSUME NEW src
      PROVE  /\ FrameOK(HandlerFrame(src))
             /\ HandlerFrame(src).proc = NoProc /\ HandlerFrame(src).prev = NoProc
             /\ HandlerFrame(src).fn = "handler"
  BY <1>1 DEF HandlerFrame, Frame, FrameOK, IsFrame, SchedulePcs, StartPcs, HandlerPcs, ReturnPcs
<1>4. ASSUME NEW p \in Procs
      PROVE  /\ FrameOK(StartFrame(p))
             /\ StartFrame(p).proc = NoProc /\ StartFrame(p).prev = NoProc
             /\ StartFrame(p).fn = "start"
  BY <1>1 DEF StartFrame, Frame, FrameOK, IsFrame, SchedulePcs, StartPcs, HandlerPcs, ReturnPcs
<1>5. QED BY <1>2, <1>3, <1>4

\* readyProcessIfNecessary(): the caller moves to its return point, and if the
\* process woken is more urgent it calls schedule() first.
LEMMA WakeInv ==
  ASSUME StackInv, NEW q \in Records, NEW f, readyProcessIfNecessary(q, f), FrameOK(f),
         f.fn = Top.fn, f.base = Top.base, f.proc = Top.proc, f.prev = NoProc,
         f.pc \in ReturnPcs, IsFrame([f EXCEPT !.prev = current]),
         current' = current
  PROVE  StackInv'
<1>1. /\ OrderInv /\ QueueLevels /\ current \in Records
      /\ \A m \in Frames : stack[m].proc # NoProc => PriOf(stack[m].proc) <= PriOf(current)
  BY DEF StackInv, OrderInv, CurrentAbove
<1>2. CASE Goto(f) /\ UNCHANGED rq
  BY <1>1, <1>2, GotoInv, SameLevels DEF StackInv, OrderInv
<1>3. CASE Goto(f) /\ rq' = append(rq, q)
  BY <1>1, <1>3, GotoInv, AppendLevels DEF StackInv, OrderInv
<1>4. CASE /\ Call([f EXCEPT !.prev = current], ScheduleFrame(PriOf(current)))
           /\ rq' = append(rq, q)
  <2> DEFINE g == [f EXCEPT !.prev = current]
  <2>1. /\ g.fn = f.fn /\ g.pc = f.pc /\ g.base = f.base /\ g.proc = f.proc
        /\ g.prev = current /\ g.k = f.k
    BY DEF FrameOK, IsFrame
  <2>2. FrameOK(g)
    BY <1>1, <2>1 DEF FrameOK, ReturnPcs, SchedulePcs
  <2>3. PriOf(current) \in Int
    BY <1>1, PriOfLevel
  <2> DEFINE h == ScheduleFrame(PriOf(current))
  <2>4. /\ FrameOK(h) /\ h.proc = NoProc /\ h.prev = NoProc /\ h.base = PriOf(current)
        /\ h.fn # "main"
    BY <2>3, NewFrames
  <2>5. Call(g, h)
    BY <1>4
  <2> HIDE DEF g, h
  <2>6. OrderInv'
    BY <1>1, <2>1, <2>2, <2>4, <2>5, CallInv
  <2>7. QED BY <1>1, <1>4, <2>6, AppendLevels DEF StackInv, OrderInv
<1>5. QED BY <1>2, <1>3, <1>4 DEF readyProcessIfNecessary

-----------------------------------------------------------------------------
\* The actions.

\* The top activation is at pc, with what FrameOK says of it.
LEMMA AtFacts ==
  ASSUME StackInv, NEW pc, At(pc)
  PROVE  /\ Top.pc = pc /\ FrameOK(Top) /\ IsFrame(Top)
         /\ pc \in ProcPcs => Top.proc \in Procs /\ Top.proc # Idle
         /\ pc \notin ReturnPcs => Top.prev = NoProc
         /\ current \in Records /\ PriOf(current) \in Int
<1>1. FrameOK(Top) /\ Top.pc = pc /\ current \in Records
  BY TopFacts DEF At, StackInv, CurrentAbove
<1>2. QED BY <1>1, PriOfLevel DEF FrameOK, ProcPcs

\* start() is called.
LEMMA StartInv ==
  ASSUME StackInv, NEW p \in Procs, NEW f, start(p, f), FrameOK(f),
         f.fn = Top.fn, f.base = Top.base, f.proc = Top.proc, f.prev = NoProc,
         current' = current
  PROVE  StackInv'
<1> DEFINE g == StartFrame(p)
<1>1. FrameOK(g) /\ g.proc = NoProc /\ g.prev = NoProc /\ g.fn = "start"
  BY NewFrames
<1>2. Call(f, g) /\ rq' = [rq EXCEPT !.next[p] = NoProc]
  BY DEF start
<1>3. OrderInv /\ QueueLevels
  BY DEF StackInv, OrderInv
<1> HIDE DEF g
<1>4. OrderInv'
  BY <1>1, <1>2, <1>3, CallInv
<1>5. QED BY <1>2, <1>3, <1>4, ClearLevels DEF StackInv, OrderInv

\* The assignments of append() in start().
LEMMA StartSteps ==
  ASSUME StackInv, StartStep
  PROVE  StackInv'
<1>1. /\ Top.pc \in StartPcs /\ FrameOK(Top) /\ IsFrame(Top) /\ Top.prev = NoProc
      /\ current' = current
  BY AtFacts DEF StartStep, AppendLink, AppendTail, AppendNext, AppendHead, AppendStep,
                 StartPcs, ReturnPcs
<1>2. OrderInv /\ QueueLevels
  BY DEF StackInv, OrderInv
<1> DEFINE p == Top.partner
           l == PriOf(p)
<1>3. p \in Records /\ Top.fn = "start"
  BY <1>1 DEF FrameOK, Records
<1>4. ASSUME NEW pc \in StartPcs, Goto([Top EXCEPT !.pc = pc])
      PROVE  OrderInv'
  <2> DEFINE f == [Top EXCEPT !.pc = pc]
  <2>1. /\ IsFrame(f) /\ f.fn = Top.fn /\ f.base = Top.base /\ f.proc = Top.proc
        /\ f.partner = Top.partner /\ f.prev = NoProc /\ f.pc = pc
    BY <1>1 DEF IsFrame
  <2>2. Goto(f)
    BY <1>4
  <2> HIDE DEF f
  <2>3. pc \notin SchedulePcs /\ pc \notin HandlerPcs /\ pc # "main"
    BY DEF StartPcs, SchedulePcs, HandlerPcs
  <2>4. FrameOK(f)
    BY <1>1, <2>1, <2>3 DEF FrameOK, SchedulePcs
  <2>5. QED BY <1>1, <1>2, <2>1, <2>2, <2>4, GotoInv
<1>5. CASE AppendLink
  <2>1. OrderInv'
    BY <1>4, <1>5 DEF AppendLink, StartPcs
  <2>2. CASE Oldest = NoProc
    BY <1>2, <1>5, <2>1, <2>2, SameLevels DEF AppendLink, AppendStep, StackInv, OrderInv
  <2>3. CASE Oldest # NoProc
    <3>1. Oldest \in Records /\ PriOf(Oldest) = PriOf(p)
      BY <1>2, <1>3, <2>3, PriOfLevel DEF Oldest, QueueLevels, QueueType
    <3>2. rq' = [rq EXCEPT !.next[Oldest] = p]
      BY <1>5, <2>3 DEF AppendLink, AppendStep
    <3>3. QED BY <1>2, <1>3, <2>1, <3>1, <3>2, LinkLevels DEF StackInv, OrderInv
  <2>4. QED BY <2>2, <2>3
<1>6. CASE AppendTail
  <2>1. OrderInv'
    BY <1>4, <1>6 DEF AppendTail, StartPcs
  <2>2. rq' = [rq EXCEPT !.tail[PriOf(p)] = p]
    BY <1>6 DEF AppendTail, AppendStep
  <2>3. QED BY <1>2, <1>3, <2>1, <2>2, TailLevels DEF StackInv, OrderInv
<1>7. CASE AppendNext
  <2>1. OrderInv'
    BY <1>4, <1>7 DEF AppendNext, StartPcs
  <2>2. rq' = [rq EXCEPT !.next[p] = NoProc]
    BY <1>7 DEF AppendNext, AppendStep
  <2>3. QED BY <1>2, <2>1, <2>2, ClearLevels DEF StackInv, OrderInv
<1>8. CASE AppendHead
  <2>1. OrderInv'
    BY <1>1, <1>2, <1>3, <1>8, ReturnInv DEF AppendHead
  <2>2. CASE rq.head[l] # NoProc
    BY <1>2, <1>8, <2>1, <2>2, SameLevels DEF AppendHead, AppendStep, StackInv, OrderInv
  <2>3. CASE rq.head[l] = NoProc
    <3>1. rq' = [rq EXCEPT !.head[l] = p, !.mask = @ \cup {l}]
      BY <1>8, <2>3 DEF AppendHead, AppendStep
    <3>2. QED BY <1>2, <1>3, <2>1, <3>1, HeadLevels DEF StackInv, OrderInv
  <2>4. QED BY <2>2, <2>3
<1>9. QED BY <1>5, <1>6, <1>7, <1>8 DEF StartStep

LEMMA MainSteps ==
  ASSUME StackInv, MainStep
  PROVE  StackInv'
<1>1. Top.pc = "main" /\ FrameOK(Top) /\ IsFrame(Top) /\ Top.prev = NoProc
  BY AtFacts DEF MainStep, MainStart, MainRun, ReturnPcs
<1>2. OrderInv /\ QueueLevels
  BY DEF StackInv, OrderInv
<1>3. CASE MainStart
  <2> DEFINE f == [Top EXCEPT !.k = @ + 1]
  <2>1. /\ FrameOK(f) /\ f.fn = Top.fn /\ f.base = Top.base
        /\ f.proc = Top.proc /\ f.prev = NoProc
    BY <1>1 DEF FrameOK, IsFrame, SchedulePcs, StartPcs, HandlerPcs, ReturnPcs
  <2>2. MainStarts[Top.k + 1] \in Procs
    BY <1>1, <1>3, ApplicationAssumption DEF MainStart, FrameOK
  <2>3. start(MainStarts[Top.k + 1], f) /\ current' = current
    BY <1>3 DEF MainStart
  <2> HIDE DEF f
  <2>4. QED BY <2>1, <2>2, <2>3, StartInv
<1>4. CASE MainRun
  <2> DEFINE f == [Top EXCEPT !.pc = "returned"]
             g == ScheduleFrame(PRI_MIN - 1)
  <2>1. /\ FrameOK(f) /\ f.fn = Top.fn /\ f.base = Top.base
        /\ f.proc = Top.proc /\ f.prev = NoProc
    BY <1>1 DEF FrameOK, IsFrame, SchedulePcs, StartPcs, HandlerPcs, ReturnPcs
  <2>2. PRI_MIN - 1 \in Int
    BY DEF PRI_MIN
  <2>3. FrameOK(g) /\ g.proc = NoProc /\ g.prev = NoProc /\ g.fn # "main"
    BY <2>2, NewFrames
  <2>4. Call(f, g) /\ current' = current /\ rq' = rq
    BY <1>4 DEF MainRun, procVars
  <2>5. \A m \in Frames : stack[m].proc = NoProc
    <3>1. Top.fn = "main" /\ Top.proc = NoProc
      BY <1>1, PriOfLevel DEF FrameOK
    <3>2. Frames = {1} /\ Top = stack[1]
      <4>1. Len(stack) = 1
        BY <1>2, <3>1, TopFacts DEF OrderInv, StackShape
      <4>2. QED BY <4>1 DEF Frames, Top
    <3>3. QED BY <3>1, <3>2
  <2> HIDE DEF f, g
  <2>6. OrderInv'
    BY <1>2, <2>1, <2>3, <2>4, <2>5, CallInv
  <2>7. QED BY <1>2, <2>4, <2>6, SameLevels DEF StackInv, OrderInv
<1>5. QED BY <1>3, <1>4 DEF MainStep

LEMMA SelectSteps ==
  ASSUME StackInv, SelectSame \/ SelectNone \/ SelectNew
  PROVE  StackInv'
<1>1. Top.pc = "select" /\ FrameOK(Top) /\ IsFrame(Top) /\ Top.prev = NoProc /\ Top.fn = "schedule"
  BY AtFacts DEF SelectSame, SelectNone, SelectNew, ReturnPcs, FrameOK, SchedulePcs
<1>2. OrderInv /\ QueueLevels /\ rq' = rq /\ current' = current /\ QueueLevels'
  BY SameLevels DEF StackInv, OrderInv, SelectSame, SelectNone, SelectNew, procVars
<1>3. CASE SelectSame
  <2> DEFINE f == [Top EXCEPT !.pc = "load"]
  <2>1. /\ FrameOK(f) /\ f.fn = Top.fn /\ f.base = Top.base
        /\ f.proc = Top.proc /\ f.prev = NoProc
    BY <1>1, <1>3 DEF SelectSame, FrameOK, IsFrame, SchedulePcs, StartPcs, HandlerPcs, ReturnPcs
  <2>2. Goto(f)
    BY <1>3 DEF SelectSame
  <2> HIDE DEF f
  <2>3. QED BY <1>2, <2>1, <2>2, GotoInv DEF StackInv, OrderInv
<1>4. CASE SelectNone
  BY <1>1, <1>2, <1>4, ReturnInv DEF SelectNone, StackInv, OrderInv
<1>5. CASE SelectNew
  <2> DEFINE h == highest_ready(rq.mask)
             f == [Top EXCEPT !.pc = "take", !.k = h]
  <2>1. h \in Levels /\ h > Top.base
    <3>1. h \in Levels
      BY DEF highest_ready, Levels, PRI_MIN, PRI_MAX
    <3>2. QED BY <3>1, <1>5 DEF SelectNew
  <2> HIDE DEF h
  <2>2. /\ IsFrame(f) /\ f.pc = "take" /\ f.k = h /\ f.fn = Top.fn /\ f.base = Top.base
        /\ f.proc = Top.proc /\ f.prev = NoProc
    BY <1>1 DEF IsFrame
  <2>3. Goto(f)
    BY <1>5 DEF SelectNew, h
  <2> HIDE DEF f
  <2>4. FrameOK(f)
    BY <1>1, <2>1, <2>2 DEF FrameOK, SchedulePcs, StartPcs, HandlerPcs, ReturnPcs
  <2>5. QED BY <1>2, <2>2, <2>3, <2>4, GotoInv DEF StackInv, OrderInv
<1>6. QED BY <1>3, <1>4, <1>5

\* take() hands out a process of the level chosen, which is above the base.
LEMMA TakeStep ==
  ASSUME StackInv, Take
  PROVE  StackInv'
<1>1. /\ Top.pc = "take" /\ FrameOK(Top) /\ IsFrame(Top) /\ Top.prev = NoProc
      /\ Top.fn = "schedule" /\ Top.k \in Levels /\ Top.k > Top.base
  BY AtFacts DEF Take, ReturnPcs, FrameOK, SchedulePcs
<1>2. OrderInv /\ QueueLevels
  BY DEF StackInv, OrderInv
<1> DEFINE p == rq.head[Top.k]
<1>3. CASE p = NoProc
  BY <1>3, QuietInv DEF Take, Crash, procVars
<1>4. CASE p # NoProc
  <2> DEFINE f == [Top EXCEPT !.pc = "load", !.proc = p, !.k = 0]
  <2>1. /\ current' = p
        /\ rq' = take(rq, Top.k)
        /\ Goto(f)
    BY <1>4 DEF Take
  <2>2. QueueLevels' /\ p \in Records /\ PriOf(p) = Top.k
    BY <1>1, <1>2, <1>4, <2>1, TakeLevels
  <2> HIDE DEF p
  <2>3. /\ IsFrame(f) /\ f.pc = "load" /\ f.fn = Top.fn /\ f.base = Top.base
        /\ f.proc = p /\ f.prev = NoProc
    BY <1>1 DEF IsFrame
  <2> HIDE DEF f
  <2>4. FrameOK(f)
    BY <1>1, <2>2, <2>3 DEF FrameOK, SchedulePcs, StartPcs, HandlerPcs, ReturnPcs
  <2>5. OrderInv'
    BY <1>1, <1>2, <2>1, <2>2, <2>3, <2>4, TakeInv
  <2>6. QED BY <2>2, <2>5 DEF StackInv, OrderInv
<1>5. QED BY <1>3, <1>4

\* Load sends the top activation to the code for the state of its process.
Loaded(f) ==
  /\ IsFrame(f)
  /\ f.fn = Top.fn /\ f.base = Top.base /\ f.proc = Top.proc /\ f.prev = Top.prev
  /\ f.pc \in {"idle", "rtc", "begin", "disable", "finish"}
  /\ f.pc # "idle" => Top.proc # Idle

LEMMA LoadMoves ==
  ASSUME StackInv, Load
  PROVE  \E f : Loaded(f) /\ Goto(f)
<1> DEFINE p == Top.proc
           e == [Top EXCEPT !.flag = FALSE]
<1>1. /\ IsFrame(e) /\ e.fn = Top.fn /\ e.base = Top.base /\ e.proc = Top.proc
      /\ e.prev = Top.prev
  BY AtFacts DEF Load, IsFrame
<1>2. CASE p = Idle
  <2>1. Goto([e EXCEPT !.pc = "idle"])
    BY <1>2 DEF Load
  <2> HIDE DEF e
  <2>2. QED BY <1>1, <2>1 DEF Loaded, IsFrame
<1>3. CASE p # Idle /\ state[p] = "initial"
  <2>1. Goto([e EXCEPT !.pc = "rtc"])
    BY <1>3 DEF Load
  <2> HIDE DEF e
  <2>2. QED BY <1>1, <1>3, <2>1 DEF Loaded, IsFrame
<1>4. CASE p # Idle /\ state[p] = "quiescent"
  <2>1. Goto([e EXCEPT !.pc = "begin"])
    BY <1>4 DEF Load
  <2> HIDE DEF e
  <2>2. QED BY <1>1, <1>4, <2>1 DEF Loaded, IsFrame
<1>5. CASE p # Idle /\ state[p] = "ready"
  <2>1. Goto([e EXCEPT !.pc = "disable", !.i = alt[p].index, !.k = alt[p].count])
    BY <1>5 DEF Load
  <2> HIDE DEF e
  <2>2. QED BY <1>1, <1>5, <2>1 DEF Loaded, IsFrame
<1>6. CASE p # Idle /\ state[p] \notin {"initial", "quiescent", "ready"}
  <2>1. Goto([e EXCEPT !.pc = "finish"])
    BY <1>6 DEF Load
  <2> HIDE DEF e
  <2>2. QED BY <1>1, <1>6, <2>1 DEF Loaded, IsFrame
<1> HIDE DEF p, e
<1>7. QED BY <1>2, <1>3, <1>4, <1>5, <1>6

LEMMA LoadStep ==
  ASSUME StackInv, Load
  PROVE  StackInv'
<1>1. /\ Top.pc = "load" /\ FrameOK(Top) /\ IsFrame(Top) /\ Top.prev = NoProc
      /\ Top.proc \in Records
  BY AtFacts DEF Load, ReturnPcs, FrameOK, SchedulePcs
<1>2. OrderInv /\ QueueLevels
  BY DEF StackInv, OrderInv
<1>3. PICK f : Loaded(f) /\ Goto(f)
  BY LoadMoves
<1>4. FrameOK(f)
  BY <1>1, <1>3 DEF Loaded, FrameOK, SchedulePcs, StartPcs, HandlerPcs, ReturnPcs, Records
<1>5. rq' = rq /\ current' = current
  BY DEF Load, procVars
<1>6. QED BY <1>1, <1>2, <1>3, <1>4, <1>5, GotoInv, SameLevels DEF Loaded, StackInv, OrderInv

LEMMA FinishStep ==
  ASSUME StackInv, Finish
  PROVE  StackInv'
<1>1. /\ Top.pc = "finish" /\ FrameOK(Top) /\ IsFrame(Top) /\ Top.prev = NoProc
      /\ Top.proc \in Procs /\ current' = current
  BY AtFacts DEF Finish, ReturnPcs, ProcPcs, SchedulePcs
<1>2. OrderInv /\ QueueLevels
  BY DEF StackInv, OrderInv
<1>3. PICK f : /\ Goto(f) /\ IsFrame(f)
               /\ f.fn = Top.fn /\ f.base = Top.base /\ f.proc \in {Top.proc, NoProc}
               /\ f.prev = Top.prev /\ f.pc = "select"
  <2> DEFINE f(q) == [Top EXCEPT !.pc = "select", !.proc = q]
  <2>1. \A q : /\ IsFrame(f(q)) /\ f(q).fn = Top.fn /\ f(q).base = Top.base /\ f(q).proc = q
               /\ f(q).prev = Top.prev /\ f(q).pc = "select"
    BY <1>1 DEF IsFrame
  <2>2. \E q \in {Top.proc, NoProc} : Goto(f(q))
    BY DEF Finish
  <2> HIDE DEF f
  <2>3. QED BY <2>1, <2>2
<1>4. FrameOK(f)
  BY <1>1, <1>3 DEF FrameOK, SchedulePcs, StartPcs, HandlerPcs, ReturnPcs
<1>5. OrderInv'
  BY <1>1, <1>2, <1>3, <1>4, GotoInv
<1>6. QueueLevels'
  <2>1. CASE rq' = rq
    BY <1>2, <2>1, SameLevels
  <2>2. CASE rq' = [rq EXCEPT !.next[Top.proc] = IF Top.proc \in freed THEN Top.proc ELSE NoProc]
    BY <1>2, <2>2, ReleaseLevels
  <2>3. QED BY <2>1, <2>2 DEF Finish
<1>7. QED BY <1>5, <1>6 DEF StackInv, OrderInv

-----------------------------------------------------------------------------
\* The steps of enable_alt() and disable_alt() only move the top activation.

\* f is the top activation with other loop variables, pc or partner.
QuietPcs == ProcPcs \ {"partnerRet", "rtcRest"}

Same(f) ==
  /\ IsFrame(f) /\ f.fn = Top.fn /\ f.base = Top.base /\ f.proc = Top.proc
  /\ f.prev = NoProc /\ f.pc \in QuietPcs

Moves == \E f : Same(f) /\ Goto(f)

LEMMA QuietPcFacts ==
  /\ {"begin", "enable", "insert", "enabled", "disable", "partner", "rtc", "finish"} \subseteq QuietPcs
  /\ QuietPcs \subseteq ProcPcs \ ReturnPcs
BY DEF QuietPcs, ProcPcs, SchedulePcs, ReturnPcs

LEMMA MovesInv ==
  ASSUME StackInv, Top.pc \in QuietPcs, Moves, current' \in {current, Restored}, rq' = rq
  PROVE  StackInv'
<1>1. PICK f : Same(f) /\ Goto(f)
  BY DEF Moves
<1>2. QED BY <1>1, QuietPcFacts, MoveInv DEF Same

LEMMA SameTop ==
  ASSUME StackInv, NEW pc \in QuietPcs, At(pc)
  PROVE  Same(Top) /\ Top.pc \in QuietPcs /\ Top.prev = NoProc /\ Top.proc \in Procs
BY AtFacts, QuietPcFacts DEF Same

LEMMA SameGuard ==
  ASSUME NEW f, Same(f)
  PROVE  /\ Same(NextGuard(f)) /\ Same(PrevGuard(f)) /\ Same(Ready(f))
         /\ \A w : Same([f EXCEPT !.partner = w])
         /\ \A pc \in QuietPcs : Same([f EXCEPT !.pc = pc])
<1>1. Same(NextGuard(f))
  BY DEF Same, IsFrame, NextGuard
<1>2. Same(PrevGuard(f))
  BY DEF Same, IsFrame, PrevGuard
<1>3. Same(Ready(f))
  BY QuietPcFacts DEF Same, IsFrame, Ready
<1>4. ASSUME NEW w
      PROVE  Same([f EXCEPT !.partner = w])
  BY DEF Same, IsFrame
<1>5. ASSUME NEW pc \in QuietPcs
      PROVE  Same([f EXCEPT !.pc = pc])
  BY DEF Same, IsFrame
<1>6. QED BY <1>1, <1>2, <1>3, <1>4, <1>5

LEMMA EnableMoves ==
  ASSUME StackInv, EnableStep
  PROVE  /\ rq' = rq /\ current' = current
         /\ Top.pc \in QuietPcs /\ Top.prev = NoProc /\ Top.proc \in Procs
         /\ Moves \/ stack' = stack
<1>1. /\ rq' = rq /\ current' = current
  BY DEF EnableStep, EnableBegin, EnableInactive, EnableChanIn, EnableChanOut, EnableSkip,
         EnableTimeout, EnableInsert, EnableIntr, EnableEnd, EnableDone, Crash, procVars
<1>2. At("begin") \/ At("enable") \/ At("insert") \/ At("enabled")
  BY DEF EnableStep, EnableBegin, EnableInactive, EnableChanIn, EnableChanOut, EnableSkip,
         EnableTimeout, EnableInsert, EnableIntr, EnableEnd, EnableDone, Enabling
<1>3. Same(Top) /\ Top.pc \in QuietPcs /\ Top.prev = NoProc /\ Top.proc \in Procs
  BY <1>2, QuietPcFacts, SameTop
<1>4. CASE EnableBegin
  <2>1. CASE stack' = stack
    BY <1>1, <1>3, <2>1
  <2>2. CASE stack' # stack
    <3>1. PICK i : Goto([Top EXCEPT !.pc = "enable", !.partner = NoProc, !.k = 0, !.i = i])
      BY <1>4, <2>2 DEF EnableBegin, Crash
    <3>2. Moves
      BY <1>3, <3>1, QuietPcFacts DEF Moves, Same, IsFrame
    <3>3. QED BY <1>1, <1>3, <3>2
  <2>3. QED BY <2>1, <2>2
<1>5. ASSUME \/ Goto(NextGuard(Top)) \/ Goto(Ready(Top))
             \/ \E w : Goto(Ready([Top EXCEPT !.partner = w]))
             \/ \E w : Goto(NextGuard([Top EXCEPT !.partner = w]))
             \/ Goto([Top EXCEPT !.pc = "insert"])
             \/ Goto(NextGuard([Top EXCEPT !.pc = "enable"]))
      PROVE  Moves
  BY <1>3, <1>5, QuietPcFacts, SameGuard DEF Moves
<1>6. CASE EnableInactive \/ EnableSkip \/ EnableTimeout
  BY <1>1, <1>3, <1>5, <1>6 DEF EnableInactive, EnableSkip, EnableTimeout
<1>7. CASE EnableChanIn \/ EnableChanOut \/ EnableIntr \/ EnableInsert
  BY <1>1, <1>3, <1>5, <1>7 DEF EnableChanIn, EnableChanOut, EnableIntr, EnableInsert
<1>8. CASE EnableEnd
  <2>1. PICK k, i : Goto([Top EXCEPT !.pc = "enabled", !.k = k, !.i = i])
    BY <1>8 DEF EnableEnd
  <2>2. Moves
    BY <1>3, <2>1, QuietPcFacts DEF Moves, Same, IsFrame
  <2>3. QED BY <1>1, <1>3, <2>2
<1>9. CASE EnableDone
  <2>1. \/ Goto([Top EXCEPT !.pc = "disable", !.partner = NoProc])
        \/ Goto([Top EXCEPT !.pc = "partner", !.flag = FALSE])
    BY <1>9 DEF EnableDone
  <2>2. Moves
    BY <1>3, <2>1, QuietPcFacts DEF Moves, Same, IsFrame
  <2>3. QED BY <1>1, <1>3, <2>2
<1>10. QED BY <1>4, <1>6, <1>7, <1>8, <1>9 DEF EnableStep

LEMMA EnableSteps ==
  ASSUME StackInv, EnableStep
  PROVE  StackInv'
BY EnableMoves, MovesInv, QuietInv

LEMMA DisableMoves ==
  ASSUME StackInv, DisableStep
  PROVE  /\ rq' = rq /\ current' = current
         /\ Top.pc \in QuietPcs /\ Top.prev = NoProc /\ Top.proc \in Procs
         /\ Moves \/ stack' = stack
<1>1. /\ rq' = rq /\ current' = current
  BY DEF DisableStep, DisableInactive, DisableChanIn, DisableOutOrSkip, DisableTimeout,
         DisableIntr, TransferMessage, TransferCount, TransferNothing, Crash, procVars
<1>2. At("disable")
  BY DEF DisableStep, DisableInactive, DisableChanIn, DisableOutOrSkip, DisableTimeout,
         DisableIntr, TransferMessage, TransferCount, TransferNothing, Disabling, Disabled
<1>3. Same(Top) /\ Top.pc \in QuietPcs /\ Top.prev = NoProc /\ Top.proc \in Procs
  BY <1>2, QuietPcFacts, SameTop
<1>4. ASSUME \/ Goto(PrevGuard(Top)) \/ \E w : Goto(PrevGuard([Top EXCEPT !.partner = w]))
             \/ Goto(Leaving)
      PROVE  Moves
  <2>1. Same(Leaving)
    BY <1>3, QuietPcFacts DEF Leaving, Same, IsFrame
  <2>2. QED BY <1>3, <1>4, <2>1, SameGuard DEF Moves
<1>5. CASE DisableInactive \/ DisableOutOrSkip \/ DisableTimeout \/ DisableIntr
  BY <1>1, <1>3, <1>4, <1>5 DEF DisableInactive, DisableOutOrSkip, DisableTimeout, DisableIntr
<1>6. CASE DisableChanIn
  BY <1>1, <1>3, <1>4, <1>6 DEF DisableChanIn
<1>7. CASE TransferMessage
  BY <1>1, <1>3, <1>4, <1>7 DEF TransferMessage, Crash
<1>8. CASE TransferCount \/ TransferNothing
  BY <1>1, <1>3, <1>4, <1>8 DEF TransferCount, TransferNothing
<1>9. QED BY <1>5, <1>6, <1>7, <1>8 DEF DisableStep

LEMMA DisableSteps ==
  ASSUME StackInv, DisableStep
  PROVE  StackInv'
BY DisableMoves, MovesInv, QuietInv

-----------------------------------------------------------------------------
\* The partner, the RTC code, the signal handler, and the environment.

LEMMA PartnerSteps ==
  ASSUME StackInv, NoPartner \/ WakePartner \/ PartnerReturn
  PROVE  StackInv'
<1>1. /\ "partner" \in ProcPcs \ ReturnPcs /\ "partnerRet" \in ProcPcs \cap ReturnPcs
      /\ "rtc" \in ProcPcs /\ "finish" \in ProcPcs
  BY DEF ProcPcs, SchedulePcs, ReturnPcs
<1>2. /\ Top.pc \in {"partner", "partnerRet"} /\ FrameOK(Top) /\ IsFrame(Top)
  BY AtFacts DEF NoPartner, WakePartner, PartnerReturn
<1>3. CASE NoPartner \/ PartnerReturn
  <2> DEFINE f == AfterPartner(Top)
  <2>1. Goto(f) /\ rq' = rq /\ current' \in {current, Restored}
    BY <1>3 DEF NoPartner, PartnerReturn, procVars
  <2>2. /\ IsFrame(f) /\ f.fn = Top.fn /\ f.base = Top.base /\ f.proc = Top.proc
        /\ f.prev = NoProc /\ f.pc \in ProcPcs
    BY <1>1, <1>2 DEF AfterPartner, IsFrame
  <2> HIDE DEF f
  <2>3. QED BY <1>1, <1>2, <2>1, <2>2, MoveInv
<1>4. CASE WakePartner
  <2> DEFINE f == [Top EXCEPT !.pc = "partnerRet"]
             q == Top.partner
  <2>1. q \in Records /\ readyProcessIfNecessary(q, f) /\ current' = current
    BY <1>4 DEF WakePartner
  <2>2. Top.pc = "partner" /\ Top.prev = NoProc /\ Top.proc \in Procs
    BY <1>1, <1>4, AtFacts DEF WakePartner
  <2>3. /\ IsFrame(f) /\ f.fn = Top.fn /\ f.base = Top.base /\ f.proc = Top.proc
        /\ f.prev = NoProc /\ f.pc = "partnerRet" /\ IsFrame([f EXCEPT !.prev = current])
    BY <1>2, <2>2 DEF IsFrame
  <2> HIDE DEF f, q
  <2>4. FrameOK(f)
    BY <1>2, <2>2, <2>3 DEF FrameOK, SchedulePcs, StartPcs, HandlerPcs, ReturnPcs
  <2>5. QED BY <1>1, <2>1, <2>3, <2>4, WakeInv
<1>5. QED BY <1>3, <1>4

LEMMA RtcSteps ==
  ASSUME StackInv, RtcStep
  PROVE  StackInv'
<1>1. /\ "rtc" \in ProcPcs \ ReturnPcs /\ "rtcRest" \in ProcPcs \ ReturnPcs
      /\ "finish" \in ProcPcs
  BY DEF ProcPcs, SchedulePcs, ReturnPcs
<1>2. /\ Top.pc \in {"rtc", "rtcRest"} /\ FrameOK(Top) /\ IsFrame(Top)
      /\ Top.proc \in Procs /\ Top.prev = NoProc
  BY <1>1, AtFacts DEF RtcStep, RtcEnter, RtcRest
<1>3. OrderInv /\ QueueLevels
  BY DEF StackInv, OrderInv
<1>4. CASE RtcRest
  <2> DEFINE f == [Top EXCEPT !.pc = "finish", !.act = NoAct]
  <2>1. Goto(f) /\ rq' = rq /\ current' = current
    BY <1>4 DEF RtcRest
  <2>2. /\ IsFrame(f) /\ f.fn = Top.fn /\ f.base = Top.base /\ f.proc = Top.proc
        /\ f.prev = NoProc /\ f.pc \in ProcPcs
    BY <1>1, <1>2 DEF IsFrame
  <2> HIDE DEF f
  <2>3. QED BY <1>1, <1>2, <2>1, <2>2, MoveInv
<1>5. CASE RtcEnter
  <2> DEFINE p == Top.proc
             s == Selected
             known == s \in -1 .. NrGuards[p] - 1
             f(act) == [Top EXCEPT !.pc = "rtcRest", !.act = act]
  <2>1. PICK act \in IF known THEN Program[p][s] ELSE {[NoAct EXCEPT !.active = active[p]]} :
          \/ Startable(act.start) /\ start(act.start, f(act))
          \/ Goto(f(act)) /\ rq' = rq
          \/ Call(f(act), HandlerFrame(act.send)) /\ rq' = rq
    BY <1>5 DEF RtcEnter
  <2>2. current' = current
    BY <1>5 DEF RtcEnter
  <2> DEFINE g == f(act)
             h == HandlerFrame(act.send)
  <2>3. /\ IsFrame(g) /\ g.fn = Top.fn /\ g.base = Top.base /\ g.proc = Top.proc
        /\ g.prev = NoProc /\ g.pc = "rtcRest"
    BY <1>2 DEF IsFrame
  <2>4. FrameOK(h) /\ h.proc = NoProc /\ h.prev = NoProc /\ h.fn = "handler"
    BY NewFrames
  <2>5. \/ Startable(act.start) /\ start(act.start, g)
        \/ Goto(g) /\ rq' = rq
        \/ Call(g, h) /\ rq' = rq
    BY <2>1
  <2> HIDE DEF g, h
  <2>6. FrameOK(g)
    BY <1>2, <2>3 DEF FrameOK, SchedulePcs, StartPcs, HandlerPcs, ReturnPcs
  <2>7. CASE Startable(act.start) /\ start(act.start, g)
    <3>1. act.start \in Procs
      BY <2>7 DEF Startable
    <3>2. QED BY <2>2, <2>3, <2>6, <2>7, <3>1, StartInv
  <2>8. CASE Goto(g) /\ rq' = rq
    BY <1>3, <2>2, <2>3, <2>6, <2>8, GotoInv, SameLevels DEF StackInv, OrderInv
  <2>9. CASE Call(g, h) /\ rq' = rq
    BY <1>3, <2>2, <2>3, <2>4, <2>6, <2>9, CallInv, SameLevels DEF StackInv, OrderInv
  <2>10. QED BY <2>5, <2>7, <2>8, <2>9
<1>6. QED BY <1>4, <1>5 DEF RtcStep

LEMMA HandlerSteps ==
  ASSUME StackInv, HandlerStep
  PROVE  StackInv'
<1>1. /\ Top.pc \in HandlerPcs /\ FrameOK(Top) /\ IsFrame(Top) /\ Top.fn = "handler"
      /\ Top.proc = NoProc
  <2>1. Top.pc \in HandlerPcs
    BY DEF HandlerStep, HandleUser, HandleTimeout, TimeoutDue, TimeoutRearm, HandlerReturn,
           HandlerExit, HandlerRestore, At, HandlerPcs
  <2>2. FrameOK(Top) /\ IsFrame(Top)
    BY AtFacts DEF HandlerStep, HandleUser, HandleTimeout, TimeoutDue, TimeoutRearm,
                   HandlerReturn, HandlerExit, HandlerRestore
  <2>3. QED BY <2>1, <2>2 DEF FrameOK
<1>2. /\ OrderInv /\ QueueLevels /\ current \in Records /\ PriOf(current) \in Int
      /\ \A m \in Frames : stack[m].proc # NoProc => PriOf(stack[m].proc) <= PriOf(current)
  BY PriOfLevel DEF StackInv, OrderInv, CurrentAbove
\* The handler goes on at pc.
<1>3. ASSUME NEW pc \in HandlerPcs, NEW t,
             \/ Top.prev = NoProc /\ (Goto([Top EXCEPT !.pc = pc]) \/ Goto([Top EXCEPT !.pc = pc, !.time = t]))
             \/ Goto([Top EXCEPT !.pc = pc, !.prev = NoProc]),
             current' \in {current, Restored}, rq' = rq
      PROVE  StackInv'
  <2>1. PICK f : /\ Goto(f) /\ IsFrame(f) /\ f.fn = Top.fn /\ f.base = Top.base
                 /\ f.proc = Top.proc /\ f.prev = NoProc /\ f.pc = pc
    <3> DEFINE a == [Top EXCEPT !.pc = pc]
               b == [Top EXCEPT !.pc = pc, !.time = t]
               c == [Top EXCEPT !.pc = pc, !.prev = NoProc]
               Fits(f) == /\ IsFrame(f) /\ f.fn = Top.fn /\ f.base = Top.base
                          /\ f.proc = Top.proc /\ f.pc = pc
    <3>1. /\ Fits(a) /\ a.prev = Top.prev
          /\ Fits(b) /\ b.prev = Top.prev
          /\ Fits(c) /\ c.prev = NoProc
      BY <1>1 DEF IsFrame
    <3>2. \/ Top.prev = NoProc /\ (Goto(a) \/ Goto(b))
          \/ Goto(c)
      BY <1>3
    <3> HIDE DEF a, b, c
    <3>3. QED BY <3>1, <3>2
  <2>2. QED BY <1>1, <1>3, <2>1, HandlerInv
\* The handler calls readyProcessIfNecessary().
<1>4. ASSUME Top.prev = NoProc, NEW q \in Records, NEW pc \in {"userRet", "dueRet"},
             readyProcessIfNecessary(q, [Top EXCEPT !.pc = pc]), current' = current
      PROVE  StackInv'
  <2> DEFINE f == [Top EXCEPT !.pc = pc]
  <2>1. /\ IsFrame(f) /\ f.fn = Top.fn /\ f.base = Top.base /\ f.proc = Top.proc
        /\ f.prev = NoProc /\ f.pc = pc /\ IsFrame([f EXCEPT !.prev = current])
    BY <1>1, <1>4 DEF IsFrame
  <2>2. readyProcessIfNecessary(q, f)
    BY <1>4
  <2> HIDE DEF f
  <2>3. pc \in HandlerPcs \cap ReturnPcs /\ pc \notin SchedulePcs \cup StartPcs /\ pc # "take" /\ pc # "main"
    BY <1>4 DEF HandlerPcs, ReturnPcs, SchedulePcs, StartPcs
  <2>4. FrameOK(f)
    BY <1>1, <2>1, <2>3 DEF FrameOK
  <2>5. QED BY <1>4, <2>1, <2>2, <2>3, <2>4, WakeInv
<1>5. /\ {"user", "timeout", "due", "exit", "leave"} \subseteq HandlerPcs \ ReturnPcs
      /\ {"userRet", "dueRet"} \subseteq HandlerPcs
  BY DEF HandlerPcs, ReturnPcs
<1>6. CASE HandleUser
  <2>1. Top.prev = NoProc /\ current' = current
    BY <1>5, <1>6, AtFacts DEF HandleUser
  <2>2. QED BY <1>3, <1>4, <1>5, <1>6, <2>1 DEF HandleUser
<1>7. CASE HandleTimeout
  <2>1. Top.prev = NoProc /\ current' = current /\ rq' = rq
    BY <1>5, <1>7, AtFacts DEF HandleTimeout, procVars
  <2>2. QED BY <1>3, <1>5, <1>7, <2>1 DEF HandleTimeout
<1>8. CASE TimeoutDue
  <2>1. Top.prev = NoProc
    BY <1>5, <1>8, AtFacts DEF TimeoutDue
  <2>2. CASE timerQ[1].proc \notin Records
    BY <1>8, <2>2, QuietInv DEF TimeoutDue, Crash, procVars
  <2>3. CASE timerQ[1].proc \in Records
    BY <1>4, <1>8, <2>1, <2>3 DEF TimeoutDue
  <2>4. QED BY <2>2, <2>3
<1>9. CASE TimeoutRearm
  <2>1. Top.prev = NoProc /\ current' = current /\ rq' = rq
    BY <1>5, <1>9, AtFacts DEF TimeoutRearm, procVars
  <2>2. QED BY <1>3, <1>5, <1>9, <2>1 DEF TimeoutRearm
<1>10. CASE HandlerReturn
  BY <1>3, <1>5, <1>10 DEF HandlerReturn
<1>11. CASE HandlerExit
  <2>1. Top.prev = NoProc /\ current' = current /\ rq' = rq
    BY <1>5, <1>11, AtFacts DEF HandlerExit, procVars
  <2> DEFINE f == [Top EXCEPT !.pc = "leave"]
             h == ScheduleFrame(PriOf(current))
  <2>2. CASE Goto(f)
    BY <1>3, <1>5, <2>1, <2>2
  <2>3. CASE Call(f, h)
    <3>1. /\ IsFrame(f) /\ f.fn = Top.fn /\ f.base = Top.base /\ f.proc = Top.proc
          /\ f.prev = NoProc /\ f.pc = "leave"
      BY <1>1, <2>1 DEF IsFrame
    <3>2. FrameOK(h) /\ h.proc = NoProc /\ h.prev = NoProc /\ h.base = PriOf(current) /\ h.fn # "main"
      BY <1>2, NewFrames
    <3> HIDE DEF f, h
    <3>3. FrameOK(f)
      BY <1>1, <3>1 DEF FrameOK, SchedulePcs, StartPcs, HandlerPcs, ReturnPcs
    <3>4. OrderInv'
      BY <1>2, <2>1, <2>3, <3>1, <3>2, <3>3, CallInv
    <3>5. QED BY <1>2, <2>1, <3>4, SameLevels DEF StackInv, OrderInv
  <2>4. QED BY <1>11, <2>2, <2>3 DEF HandlerExit
<1>12. CASE HandlerRestore
  <2>1. Return /\ current' = current /\ rq' = rq
    BY <1>12 DEF HandlerRestore, procVars
  <2>2. OrderInv'
    BY <1>1, <1>2, <2>1, ReturnInv
  <2>3. QED BY <1>2, <2>1, <2>2, SameLevels DEF StackInv, OrderInv
<1>13. QED BY <1>6, <1>7, <1>8, <1>9, <1>10, <1>11, <1>12 DEF HandlerStep

LEMMA EnvironmentSteps ==
  ASSUME StackInv, Environment
  PROVE  StackInv'
<1>1. OrderInv /\ QueueLevels
  BY DEF StackInv, OrderInv
<1>2. ASSUME NEW src, Interrupt(src)
      PROVE  StackInv'
  <2> DEFINE h == HandlerFrame(src)
  <2>1. stack' = Append(stack, h) /\ current' = current /\ rq' = rq
    BY <1>2 DEF Interrupt, procVars
  <2>2. FrameOK(h) /\ h.proc = NoProc /\ h.prev = NoProc /\ h.fn = "handler"
    BY NewFrames
  <2> HIDE DEF h
  <2>3. QED BY <1>1, <2>1, <2>2, PushInv, SameLevels DEF StackInv, OrderInv
<1>3. CASE Clock \/ AlarmFires
  BY <1>3, QuietInv DEF Clock, AlarmFires, procVars, cpuVars
<1>4. QED BY <1>2, <1>3 DEF Environment, ElapsedInterrupt, TimeoutInterrupt, UserInterrupt

-----------------------------------------------------------------------------
\* Initially only main() is active; the idle process is queued, and current.
LEMMA InitStackInv == Init => StackInv
<1> SUFFICES ASSUME Init PROVE StackInv
  OBVIOUS
<1> DEFINE f == Frame("main", "main", 0, None)
<1>1. /\ Idle \in Records /\ NoProc \notin Records /\ PriOf(Idle) = PRI_MIN
  BY PriOfLevel DEF Records, PriOf
<1>2. FrameOK(f) /\ f.fn = "main" /\ f.proc = NoProc /\ f.prev = NoProc
  BY <1>1 DEF Frame, FrameOK, IsFrame, SchedulePcs, StartPcs, HandlerPcs, ReturnPcs
<1>3. stack = <<f>> /\ current = Idle
  BY DEF Init
<1> HIDE DEF f
<1>4. Len(stack) = 1 /\ stack[1] = f /\ Frames = {1}
  BY <1>3 DEF Frames
<1>5. StackShape
  <2>1. stack \in Seq({stack[n] : n \in Frames}) /\ stack # << >>
    BY <1>3, <1>4
  <2>2. QED BY <1>2, <1>4, <2>1 DEF StackShape
<1>6. BaseAbove
  BY <1>4 DEF BaseAbove
<1>7. CurrentAbove
  BY <1>1, <1>2, <1>3, <1>4 DEF CurrentAbove
<1>8. QueueLevels
  <2> DEFINE e == EmptyQueues
  <2>1. /\ e \in QueueType
        /\ \A l \in Levels : e.head[l] = NoProc /\ e.tail[l] = NoProc
        /\ \A p \in Records : e.next[p] = NoProc
    BY DEF EmptyQueues, QueueType
  <2>2. rq = append(e, Idle)
    BY DEF Init
  <2> HIDE DEF e
  <2>3. /\ rq \in QueueType
        /\ \A l \in Levels : rq.head[l] \in {NoProc, Idle} /\ rq.tail[l] \in {NoProc, Idle}
        /\ \A l \in Levels : l # PRI_MIN => rq.head[l] = NoProc /\ rq.tail[l] = NoProc
        /\ \A p \in Records : rq.next[p] = NoProc
    BY <1>1, <2>1, <2>2, PriOfLevel DEF append, QueueType
  <2>4. QED BY <1>1, <2>3 DEF QueueLevels
<1>9. QED BY <1>5, <1>6, <1>7, <1>8 DEF StackInv

LEMMA NextStackInv == StackInv /\ [Next]_vars => StackInv'
<1> SUFFICES ASSUME StackInv, [Next]_vars PROVE StackInv'
  OBVIOUS
<1>1. CASE MainStep
  BY <1>1, MainSteps
<1>2. CASE ScheduleStep
  BY <1>2, SelectSteps, TakeStep, LoadStep, FinishStep, PartnerSteps DEF ScheduleStep
<1>3. CASE RtcStep
  BY <1>3, RtcSteps
<1>4. CASE EnableStep
  BY <1>4, EnableSteps
<1>5. CASE DisableStep
  BY <1>5, DisableSteps
<1>6. CASE HandlerStep
  BY <1>6, HandlerSteps
<1>7. CASE Environment
  BY <1>7, EnvironmentSteps
<1>8. CASE UNCHANGED vars
  BY <1>8, QuietInv DEF vars, procVars, cpuVars
<1>9. CASE StartStep
  BY <1>9, StartSteps
<1>10. CASE DISABLE \/ SigReturn
  BY <1>10, QuietInv DEF DISABLE, SigReturn, procVars, cpuVars
<1>11. QED BY <1>1, <1>2, <1>3, <1>4, <1>5, <1>6, <1>7, <1>8, <1>9, <1>10 DEF Next, CpuStep

\* For every application, number of processes and interrupts, and any clock:
\* the C stack is well formed, every activation of schedule() runs a process
\* above its base priority, and each ready queue links processes of its level.
THEOREM StackInvariant == Spec => []StackInv
<1>1. Init => StackInv
  BY InitStackInv
<1>2. StackInv /\ [Next]_vars => StackInv'
  BY NextStackInv
<1>3. QED BY <1>1, <1>2, PTL DEF Spec

\* The activations run processes of strictly increasing priority: a lower one
\* lies below the base of the upper one, and the upper one's process above it.
LEMMA StackInvOrders == StackInv => StackPriority
<1> SUFFICES ASSUME StackInv, NEW m \in Frames, NEW n \in Frames, m < n,
                    stack[m].proc # NoProc, stack[n].proc # NoProc
             PROVE  PriOf(stack[m].proc) < PriOf(stack[n].proc)
  BY DEF StackPriority
<1>1. FrameOK(stack[m]) /\ FrameOK(stack[n])
  BY DEF StackInv, StackShape
<1>2. stack[n].fn = "schedule" /\ PriOf(stack[n].proc) > stack[n].base /\ stack[n].base \in Int
  BY <1>1 DEF FrameOK
<1>3. PriOf(stack[m].proc) <= stack[n].base
  BY <1>2 DEF StackInv, BaseAbove
<1>4. PriOf(stack[m].proc) \in Int /\ PriOf(stack[n].proc) \in Int
  BY <1>1, PriOfLevel DEF FrameOK
<1>5. QED BY <1>2, <1>3, <1>4

\* No process is entered twice, and at most one activation of schedule() runs
\* a process of each priority, so all processes can share one stack.
THEOREM StackPriorityHolds == Spec => []StackPriority
<1>1. Spec => []StackInv
  BY StackInvariant
<1>2. StackInv => StackPriority
  BY StackInvOrders
<1>3. QED BY <1>1, <1>2, PTL

-----------------------------------------------------------------------------
\* Orderly applications.

\* An activation of schedule() that has no process.
Choosing(f) == f.fn = "schedule" /\ f.proc = NoProc

\* No process has ended.
NoneEnds ==
  state \in [Records -> {"unstarted", "initial", "quiescent", "enabling", "waiting", "ready"}]

\* An activation belongs to one of the four functions, and is at an instruction
\* of it; the code that it runs does not terminate its process.
KindOK(f) ==
  \/ f.fn = "main" /\ f.pc \in {"main", "returned"}
  \/ /\ f.fn = "schedule" /\ f.pc \in SchedulePcs
     /\ f.pc = "take" => f.proc = NoProc
     /\ f.pc = "rtcRest" => ~f.act.term
  \/ f.fn = "start" /\ f.pc \in StartPcs
  \/ f.fn = "handler" /\ f.pc \in HandlerPcs

\* What activation f may be, directly above b: schedule() called by main(), by
\* readyProcessIfNecessary(), which has saved `current', or by the outermost
\* handler; start() called by main() or by the code of a process; a handler on
\* top of code that had interrupts enabled.
OnTopOf(f, b) ==
  /\ f.fn = "schedule" => \/ b.pc = "returned" /\ f.base = PRI_MIN - 1
                          \/ b.prev # NoProc /\ f.base = PriOf(b.prev)
                          \/ b.pc = "leave" /\ f.proc = NoProc /\ f.pc = "select"
  /\ f.fn = "start" => \/ b.pc = "main"
                       \/ b.pc = "rtcRest" /\ b.proc \in Starters /\ PriOf(f.partner) <= PriOf(b.proc)
  /\ f.fn = "handler" => /\ b.fn # "handler" /\ b.pc # "main" /\ b.pc \notin ReturnPcs
                         /\ ~Choosing(b)

Linkage ==
  /\ \A n \in Frames : n > 1 => OnTopOf(stack[n], stack[n - 1])
  /\ \A n \in Frames : n > 1 /\ stack[n].fn = "schedule" /\ stack[n - 1].pc = "leave" => n = Len(stack)
  /\ \A n \in Frames : KindOK(stack[n])

\* No activation above n runs a process.
Innermost(n) ==
  /\ n \in Frames /\ stack[n].proc # NoProc
  /\ \A m \in Frames : m > n => stack[m].proc = NoProc

\* `current' is the innermost process, unless it was saved; what was saved is
\* the process that was innermost then.
CurrentOwed ==
  /\ \A n \in Frames :
       Innermost(n) /\ (\A m \in Frames : m >= n => stack[m].prev = NoProc) =>
         current = stack[n].proc
  /\ \A n, m \in Frames :
       /\ n <= m /\ stack[n].proc # NoProc /\ stack[m].prev # NoProc
       /\ \A j \in Frames : n < j /\ j <= m => stack[j].proc = NoProc
       => stack[m].prev = stack[n].proc

LinkInv == Linkage /\ CurrentOwed

\* main() has not called run(), or schedule() has not taken a process yet.
Booting == Top.pc = "main" \/ (Top.fn = "start" /\ Len(stack) = 2)
AllNew    == \A p \in Procs : state[p] \in {"unstarted", "initial"}

\* Where interrupts are disabled.
Quiet ==
  /\ Top.fn = "handler" \/ Top.pc \in ReturnPcs => ~intr
  /\ Choosing(Top) => ~intr \/ (Len(stack) = 2 /\ AllNew)
  /\ Booting => AllNew
  /\ Len(stack) > 2 => stack[2].fn # "start"

\* Nobody above level l is ready.
NoneAbove(l) == \A m \in rq.mask : m <= l

\* The mask names the queues that are not empty, and the idle process is ready
\* or runs.
MaskInv ==
  /\ \A l \in Levels : l \in rq.mask <=> rq.head[l] # NoProc
  /\ PRI_MIN \in rq.mask \/ \E n \in Frames : stack[n].proc = Idle

\* Nobody is more urgent than `current', or than the process about to be
\* `current' again, unless schedule() is about to choose.
Urgency ==
  /\ ~Choosing(Top) /\ ~Booting => NoneAbove(PriOf(Restored))
  /\ Choosing(Top) /\ Len(stack) > 1 /\ stack[Len(stack) - 1].pc = "leave" =>
       NoneAbove(Top.base) /\ Top.base = PriOf(current)
  /\ Top.pc = "take" => Top.k = highest_ready(rq.mask)

\* Now() is never ahead of the time that has passed, and behind it by a tick
\* that is pending or lost.
TimeInv ==
  /\ now \in Nat /\ currentTime \in Nat /\ tick \in BOOLEAN
  /\ phase \in 0 .. Tick - 1
  /\ currentTime + phase <= now /\ (tick => currentTime + phase + Tick <= now)
  /\ returning \in Seq(Nat)

UrgencyInv == StackInv /\ NoneEnds /\ LinkInv /\ Quiet /\ MaskInv /\ Urgency /\ TimeInv
-----------------------------------------------------------------------------
\* What the five kinds of step of SchedProofs do to the links between
\* activations, and to the process that `current' is owed to.

LEMMA Stacked ==
  ASSUME StackInv
  PROVE  /\ Len(stack) \in Nat /\ Len(stack) >= 1 /\ Frames = 1 .. Len(stack)
         /\ Len(stack) \in Frames /\ 1 \in Frames
         /\ Top = stack[Len(stack)]
         /\ FrameOK(Top)
         /\ \A n \in Frames : FrameOK(stack[n])
         /\ stack[1].fn = "main"
         /\ \A n \in Frames : stack[n].fn = "main" => n = 1
         /\ \A n \in Frames : n > 1 => n - 1 \in Frames
<1>1. StackShape
  BY DEF StackInv
<1>2. Len(stack) \in Nat /\ Len(stack) >= 1 /\ Top = stack[Len(stack)] /\ FrameOK(Top)
  BY <1>1, TopFacts
<1>3. Frames = 1 .. Len(stack)
  BY DEF Frames
<1>4. /\ \A n \in Frames : FrameOK(stack[n]) /\ (stack[n].fn = "main" => n = 1)
      /\ stack[1].fn = "main"
  BY <1>1 DEF StackShape
<1>5. QED BY <1>2, <1>3, <1>4

LEMMA LinkPrime ==
  ASSUME \A n \in Frames' : n > 1 => OnTopOf(stack'[n], stack'[n - 1]),
         \A n \in Frames' : n > 1 /\ stack'[n].fn = "schedule" /\ stack'[n - 1].pc = "leave" => n = Len(stack'),
         \A n \in Frames' : KindOK(stack'[n])
  PROVE  Linkage'
<1>1. \A n \in Frames' : n > 1 => OnTopOf(stack[n], stack[n - 1])'
  BY DEF OnTopOf, Choosing
<1>2. \A n \in Frames' : KindOK(stack[n])'
  BY DEF KindOK
<1>3. QED BY <1>1, <1>2 DEF Linkage

\* A process that somebody waits for, in readyProcessIfNecessary(), is not the
\* innermost one.
LEMMA SaverBelow ==
  ASSUME StackInv, Linkage, NEW m \in Frames, m < Len(stack), stack[m].prev # NoProc
  PROVE  /\ m + 1 \in Frames /\ stack[m + 1].fn = "schedule"
         /\ m + 1 = Len(stack) \/ stack[m + 1].proc # NoProc
<1>1. m + 1 \in Frames /\ m + 1 > 1 /\ (m + 1) - 1 = m
  BY Stacked
<1>2. OnTopOf(stack[m + 1], stack[m]) /\ FrameOK(stack[m]) /\ FrameOK(stack[m + 1])
  BY <1>1, Stacked DEF Linkage
<1>3. stack[m].pc \in ReturnPcs
  BY <1>2 DEF FrameOK
<1>4. stack[m + 1].fn = "schedule"
  <2>1. stack[m + 1].fn \in {"schedule", "start", "handler", "main"}
    BY <1>1 DEF Linkage, KindOK
  <2>2. stack[m + 1].fn # "main"
    BY <1>1, Stacked
  <2>3. stack[m + 1].fn # "start" /\ stack[m + 1].fn # "handler"
    BY <1>2, <1>3 DEF OnTopOf, ReturnPcs
  <2>4. QED BY <2>1, <2>2, <2>3
<1>5. CASE stack[m + 1].proc = NoProc /\ m + 1 # Len(stack)
  <2>1. m + 2 \in Frames /\ m + 2 > 1 /\ (m + 2) - 1 = m + 1
    BY <1>1, <1>5, Stacked
  <2>2. /\ OnTopOf(stack[m + 2], stack[m + 1]) /\ KindOK(stack[m + 2]) /\ KindOK(stack[m + 1])
        /\ stack[m + 2].fn # "main"
    BY <2>1, <1>1, Stacked DEF Linkage
  <2>3. stack[m + 1].pc \in {"select", "take"}
    BY <1>2, <1>4, <1>5, <2>2, PriOfLevel DEF FrameOK, KindOK, HandlerPcs, StartPcs, Records
  <2>4. stack[m + 1].prev = NoProc
    BY <1>2, <2>3 DEF FrameOK, ReturnPcs
  <2>5. QED BY <1>4, <1>5, <2>2, <2>3, <2>4 DEF OnTopOf, Choosing, KindOK
<1>6. QED BY <1>1, <1>4, <1>5

\* What `current' is while the top activation is not about to choose: restored
\* or not, it is the innermost process.
LEMMA CurrentHere ==
  ASSUME StackInv, LinkInv, ~Choosing(Top), NEW n \in Frames, Innermost(n)
  PROVE  Restored = stack[n].proc
<1>1. Linkage /\ CurrentOwed
  BY DEF LinkInv
<1>2. ASSUME NEW m \in Frames, m >= n, m < Len(stack), stack[m].prev # NoProc
      PROVE  FALSE
  <2>1. /\ m + 1 \in Frames /\ stack[m + 1].fn = "schedule"
        /\ m + 1 = Len(stack) \/ stack[m + 1].proc # NoProc
    BY <1>1, <1>2, SaverBelow
  <2>2. m + 1 > n
    BY <1>2, Stacked
  <2>3. stack[m + 1].proc = NoProc /\ m + 1 = Len(stack)
    BY <2>1, <2>2 DEF Innermost
  <2>4. QED BY <2>1, <2>3, Stacked DEF Choosing
<1>3. CASE Top.prev = NoProc
  <2>1. \A m \in Frames : m >= n => stack[m].prev = NoProc
    BY <1>2, <1>3, Stacked
  <2>2. QED BY <1>1, <1>3, <2>1 DEF CurrentOwed, Restored
<1>4. CASE Top.prev # NoProc
  <2>1. n <= Len(stack) /\ Len(stack) \in Frames /\ Top = stack[Len(stack)]
    BY Stacked
  <2>2. stack[n].proc # NoProc /\ \A j \in Frames : n < j /\ j <= Len(stack) => stack[j].proc = NoProc
    BY DEF Innermost
  <2>3. QED BY <1>1, <1>4, <2>1, <2>2 DEF CurrentOwed, Restored
<1>5. QED BY <1>3, <1>4

\* 1. The top activation goes on.
LEMMA GotoLink ==
  ASSUME StackInv, LinkInv, NEW f, Goto(f), KindOK(f), Top.fn # "main",
         f.fn = Top.fn, f.base = Top.base, f.proc = Top.proc, f.prev = NoProc,
         Top.fn = "start" => f.partner = Top.partner,
         Choosing(Top) => stack[Len(stack) - 1].pc # "leave" /\ Top.prev = NoProc,
         current' = Restored
  PROVE  LinkInv'
<1> DEFINE N == Len(stack)
<1>1. /\ N \in Nat /\ N > 1 /\ Frames = 1 .. N /\ N \in Frames /\ N - 1 \in Frames
      /\ Top = stack[N] /\ stack[N].fn # "main" /\ Linkage /\ CurrentOwed
  BY Stacked DEF LinkInv
<1>2. /\ Len(stack') = N /\ Frames' = Frames
      /\ \A n \in Frames : stack'[n] = IF n = N THEN f ELSE stack[n]
  BY GotoSeq DEF StackInv, Frames
<1>3. Linkage'
  <2>1. ASSUME NEW n \in Frames', n > 1
        PROVE  /\ OnTopOf(stack'[n], stack'[n - 1])
               /\ stack'[n].fn = "schedule" /\ stack'[n - 1].pc = "leave" => n = N
    <3>1. n \in Frames /\ n - 1 \in Frames /\ n - 1 # N /\ stack'[n - 1] = stack[n - 1]
      BY <1>1, <1>2, <2>1
    <3>2. OnTopOf(stack[n], stack[n - 1])
      BY <1>1, <2>1, <3>1 DEF Linkage
    <3>3. CASE n # N
      BY <1>1, <1>2, <2>1, <3>1, <3>2, <3>3 DEF Linkage
    <3>4. CASE n = N
      BY <1>1, <1>2, <3>1, <3>2, <3>4 DEF OnTopOf, Choosing
    <3>5. QED BY <3>3, <3>4
  <2>2. \A n \in Frames' : KindOK(stack'[n])
    BY <1>1, <1>2 DEF Linkage
  <2>3. QED BY <1>2, <2>1, <2>2, LinkPrime
<1>4. \A n \in Frames : stack'[n].proc = stack[n].proc /\ stack'[n].prev \in {stack[n].prev, NoProc}
  BY <1>1, <1>2
<1>5. ASSUME NEW n \in Frames, Innermost(n)', \A m \in Frames : m >= n => stack'[m].prev = NoProc
      PROVE  current' = stack'[n].proc
  <2>1. Innermost(n)
    BY <1>2, <1>4, <1>5 DEF Innermost
  <2>2. CASE ~Choosing(Top)
    BY <1>4, <2>1, <2>2, CurrentHere
  <2>3. CASE Choosing(Top)
    <3>1. \A m \in Frames : m >= n => stack[m].prev = NoProc
      BY <1>1, <1>2, <1>5, <2>3
    <3>2. QED BY <1>1, <1>4, <2>1, <2>3, <3>1 DEF CurrentOwed, Restored
  <2>4. QED BY <2>2, <2>3
<1>6. CurrentOwed'
  BY <1>1, <1>2, <1>4, <1>5 DEF CurrentOwed
<1>7. QED BY <1>3, <1>6 DEF LinkInv

\* 2. schedule() is left without a process: `current' is owed to nobody, because
\* it was saved by the caller.
LEMMA GiveUpLink ==
  ASSUME StackInv, LinkInv, NEW f, Goto(f), KindOK(f), Top.fn = "schedule",
         f.fn = Top.fn, f.base = Top.base, Top.proc # NoProc, f.proc = NoProc,
         Top.prev = NoProc, f.prev = NoProc, current' = current
  PROVE  LinkInv'
<1> DEFINE N == Len(stack)
<1>1. /\ N \in Nat /\ N > 1 /\ Frames = 1 .. N /\ N \in Frames /\ N - 1 \in Frames
      /\ Top = stack[N] /\ Linkage /\ CurrentOwed
  BY Stacked DEF LinkInv
<1>2. /\ Len(stack') = N /\ Frames' = Frames
      /\ \A n \in Frames : stack'[n] = IF n = N THEN f ELSE stack[n]
  BY GotoSeq DEF StackInv, Frames
<1>3. OnTopOf(stack[N], stack[N - 1]) /\ FrameOK(stack[N - 1])
  BY <1>1, Stacked DEF Linkage
<1>4. Linkage'
  <2>1. ASSUME NEW n \in Frames', n > 1
        PROVE  /\ OnTopOf(stack'[n], stack'[n - 1])
               /\ stack'[n].fn = "schedule" /\ stack'[n - 1].pc = "leave" => n = N
    <3>1. n \in Frames /\ n - 1 \in Frames /\ n - 1 # N /\ stack'[n - 1] = stack[n - 1]
      BY <1>1, <1>2, <2>1
    <3>2. OnTopOf(stack[n], stack[n - 1])
      BY <1>1, <2>1, <3>1 DEF Linkage
    <3>3. CASE n # N
      BY <1>1, <1>2, <2>1, <3>1, <3>2, <3>3 DEF Linkage
    <3>4. CASE n = N
      BY <1>1, <1>2, <3>1, <3>2, <3>4 DEF OnTopOf, Choosing
    <3>5. QED BY <3>3, <3>4
  <2>2. \A n \in Frames' : KindOK(stack'[n])
    BY <1>1, <1>2 DEF Linkage
  <2>3. QED BY <1>2, <2>1, <2>2, LinkPrime
<1>5. \A n \in Frames : /\ n # N => stack'[n] = stack[n]
                        /\ stack'[n].prev = stack[n].prev
  BY <1>1, <1>2
<1>6. stack'[N].proc = NoProc /\ stack[N].prev = NoProc
  BY <1>1, <1>2
<1>7. ASSUME NEW n \in Frames, stack'[n].proc # NoProc,
             \A m \in Frames : m >= n => stack'[m].prev = NoProc
      PROVE  FALSE
  <2>1. n <= N - 1 /\ stack[n].proc # NoProc
    <3>1. n # N
      BY <1>6, <1>7
    <3> HIDE DEF N
    <3>2. QED BY <1>1, <1>5, <1>7, <3>1
  <2>2. stack[N - 1].prev = NoProc
    BY <1>1, <1>5, <1>7, <2>1
  <2>3. stack[N - 1].pc = "returned"
    BY <1>1, <1>3, <2>2 DEF OnTopOf
  <2>4. stack[N - 1].fn = "main" /\ stack[N - 1].proc = NoProc
    BY <1>1, <1>3, <2>3, PriOfLevel DEF Linkage, KindOK, SchedulePcs, StartPcs, HandlerPcs, FrameOK
  <2>5. N - 1 = 1
    BY <1>1, <2>4, Stacked
  <2>6. n = 1 /\ n = N - 1
    <3> HIDE DEF N
    <3>1. QED BY <1>1, <2>1, <2>5
  <2>7. QED BY <2>1, <2>4, <2>6
<1>8. ASSUME NEW n \in Frames, NEW m \in Frames, n <= m, stack'[n].proc # NoProc, stack'[m].prev # NoProc,
             \A j \in Frames : n < j /\ j <= m => stack'[j].proc = NoProc
      PROVE  stack'[m].prev = stack'[n].proc
  <2>1. m # N /\ n # N
    BY <1>5, <1>6, <1>8
  <2>2. m < N
    <3> HIDE DEF N
    <3>1. QED BY <1>1, <2>1
  <2>3. \A j \in Frames : n < j /\ j <= m => stack[j].proc = NoProc
    BY <1>1, <1>5, <1>8, <2>2
  <2>4. QED BY <1>1, <1>5, <1>8, <2>1, <2>3 DEF CurrentOwed
<1>9. CurrentOwed'
  BY <1>2, <1>7, <1>8 DEF CurrentOwed, Innermost
<1>10. QED BY <1>4, <1>9 DEF LinkInv

\* 3. An activation is called, or pushed by an interrupt.
LEMMA PushLink ==
  ASSUME StackInv, LinkInv, ~Choosing(Top), Top.prev = NoProc, NEW f, NEW g,
         Len(stack') = Len(stack) + 1,
         \A n \in Frames : stack'[n] = IF n = Len(stack) THEN f ELSE stack[n],
         stack'[Len(stack) + 1] = g,
         KindOK(f), f.fn = Top.fn, f.base = Top.base, f.proc = Top.proc,
         Top.fn = "start" => f.partner = Top.partner,
         f.prev \in {NoProc, current},
         KindOK(g), g.proc = NoProc, g.prev = NoProc, OnTopOf(g, f),
         current' = current
  PROVE  LinkInv'
<1> DEFINE N == Len(stack)
<1>1. /\ N \in Nat /\ N >= 1 /\ Frames = 1 .. N /\ N \in Frames
      /\ Top = stack[N] /\ Linkage /\ CurrentOwed
      /\ \A n \in Frames : n > 1 => n - 1 \in Frames
  BY Stacked DEF LinkInv
<1>2. Frames' = 1 .. N + 1 /\ \A n \in Frames' : n \in Frames \/ n = N + 1
  BY <1>1 DEF Frames
<1>3. Linkage'
  <2>1. ASSUME NEW n \in Frames, n > 1
        PROVE  /\ OnTopOf(stack'[n], stack'[n - 1])
               /\ ~(stack'[n].fn = "schedule" /\ stack'[n - 1].pc = "leave")
    <3>1. n - 1 \in Frames /\ n - 1 # N /\ stack'[n - 1] = stack[n - 1]
      BY <1>1, <2>1
    <3>2. /\ OnTopOf(stack[n], stack[n - 1])
          /\ stack[n].fn = "schedule" /\ stack[n - 1].pc = "leave" => n = N
      BY <1>1, <2>1 DEF Linkage
    <3>3. CASE n # N
      BY <1>1, <2>1, <3>1, <3>2, <3>3
    <3>4. CASE n = N
      <4>1. stack'[n] = f /\ stack[n] = Top /\ FrameOK(stack[n - 1])
        BY <1>1, <3>1, <3>4, Stacked
      <4>2. Top.fn = "schedule" => f.proc # NoProc
        BY DEF Choosing
      <4>3. OnTopOf(f, stack[n - 1])
        BY <3>2, <4>1, <4>2 DEF OnTopOf
      <4>4. ~(f.fn = "schedule" /\ stack[n - 1].pc = "leave")
        BY <4>1, <4>2, <4>3 DEF OnTopOf, FrameOK, ReturnPcs
      <4>5. QED BY <3>1, <4>1, <4>3, <4>4
    <3>5. QED BY <3>3, <3>4
  <2>2. OnTopOf(stack'[N + 1], stack'[N])
    BY <1>1
  <2>3. \A n \in Frames' : KindOK(stack'[n])
    BY <1>1, <1>2 DEF Linkage
  <2>4. \A n \in Frames' : n > 1 => OnTopOf(stack'[n], stack'[n - 1])
    <3>1. ASSUME NEW n \in Frames', n > 1
          PROVE  OnTopOf(stack'[n], stack'[n - 1])
      <4>1. CASE n \in Frames
        BY <2>1, <3>1, <4>1
      <4>2. CASE n = N + 1
        <5>1. n - 1 = N
          BY <1>1, <4>2
        <5>2. QED BY <2>2, <4>2, <5>1
      <4>3. QED BY <1>2, <4>1, <4>2
    <3>2. QED BY <3>1
  <2>5. QED BY <1>2, <2>1, <2>3, <2>4, LinkPrime
<1>4. \A n \in Frames : /\ stack'[n].proc = stack[n].proc
                        /\ n # N => stack'[n].prev = stack[n].prev
  BY <1>1
<1>5. stack[N].prev = NoProc /\ stack'[N].prev \in {NoProc, current} /\ stack'[N + 1].proc = NoProc
      /\ stack'[N + 1].prev = NoProc /\ Restored = current
  BY <1>1 DEF Restored
<1>6. ASSUME NEW n \in Frames', Innermost(n)'
      PROVE  n \in Frames /\ Innermost(n) /\ stack[n].proc = current
  <2>1. n \in Frames
    BY <1>2, <1>5, <1>6 DEF Innermost
  <2>2. Innermost(n)
    BY <1>1, <1>2, <1>4, <1>6, <2>1 DEF Innermost
  <2>3. QED BY <1>5, <2>1, <2>2, CurrentHere
<1>7. ASSUME NEW n \in Frames', NEW m \in Frames', n <= m, stack'[n].proc # NoProc, stack'[m].prev # NoProc,
             \A j \in Frames' : n < j /\ j <= m => stack'[j].proc = NoProc
      PROVE  stack'[m].prev = stack'[n].proc
  <2>1. n \in Frames /\ m \in Frames
    BY <1>2, <1>5, <1>7
  <2>2. CASE m # N
    BY <1>1, <1>2, <1>4, <1>7, <2>1, <2>2 DEF CurrentOwed
  <2>3. CASE m = N
    <3>1. \A j \in Frames : j > n => stack[j].proc = NoProc
      BY <1>1, <1>2, <1>4, <1>7, <2>3
    <3>2. Innermost(n)
      BY <1>4, <1>7, <2>1, <3>1 DEF Innermost
    <3>3. stack[n].proc = current
      BY <1>5, <2>1, <3>2, CurrentHere
    <3>4. QED BY <1>4, <1>5, <1>7, <2>1, <2>3, <3>3
  <2>4. QED BY <2>2, <2>3
<1>8. CurrentOwed'
  <2>1. \A n \in Frames' : Innermost(n)' => current' = stack'[n].proc
    BY <1>4, <1>6
  <2>2. QED BY <1>7, <2>1 DEF CurrentOwed
<1>9. QED BY <1>3, <1>8 DEF LinkInv

\* 4. The top activation returns.
LEMMA ReturnLink ==
  ASSUME StackInv, LinkInv, Return, Top.fn # "main", Top.proc = NoProc, Top.prev = NoProc,
         current' = current
  PROVE  LinkInv'
<1> DEFINE N == Len(stack)
<1>1. /\ N \in Nat /\ N > 1 /\ Frames = 1 .. N /\ N \in Frames
      /\ Top = stack[N] /\ Linkage /\ CurrentOwed
  BY Stacked DEF LinkInv
<1>2. /\ Len(stack') = N - 1 /\ Frames' = 1 .. N - 1
      /\ \A n \in Frames' : stack'[n] = stack[n] /\ n \in Frames /\ n # N
      /\ \A n \in Frames : n \in Frames' \/ n = N
  BY <1>1, ReturnSeq DEF StackInv, Frames
<1>3. Linkage'
  <2>1. \A n \in Frames' : n > 1 => n - 1 \in Frames'
    BY <1>1, <1>2
  <2>2. QED BY <1>1, <1>2, <2>1, LinkPrime DEF Linkage
<1>4. CurrentOwed'
  <2>1. ASSUME NEW n \in Frames', Innermost(n)', \A m \in Frames' : m >= n => stack'[m].prev = NoProc
        PROVE  current' = stack'[n].proc
    <3>1. n \in Frames /\ Innermost(n)
      BY <1>1, <1>2, <2>1 DEF Innermost
    <3>2. \A m \in Frames : m >= n => stack[m].prev = NoProc
      BY <1>1, <1>2, <2>1
    <3>3. QED BY <1>1, <1>2, <3>1, <3>2 DEF CurrentOwed
  <2>2. ASSUME NEW n \in Frames', NEW m \in Frames', n <= m, stack'[n].proc # NoProc, stack'[m].prev # NoProc,
               \A j \in Frames' : n < j /\ j <= m => stack'[j].proc = NoProc
        PROVE  stack'[m].prev = stack'[n].proc
    <3>1. n \in Frames /\ m \in Frames /\ m < N
      <4>1. n \in Frames /\ m \in Frames /\ m # N
        BY <1>2
      <4> HIDE DEF N
      <4>2. QED BY <1>1, <4>1
    <3>2. \A j \in Frames : n < j /\ j <= m => stack[j].proc = NoProc
      BY <1>1, <1>2, <2>2, <3>1
    <3>3. QED BY <1>1, <1>2, <2>2, <3>1, <3>2 DEF CurrentOwed
  <2>3. QED BY <2>1, <2>2 DEF CurrentOwed
<1>5. QED BY <1>3, <1>4 DEF LinkInv

\* 5. schedule() takes a process, which becomes `current'.
LEMMA TakeLink ==
  ASSUME StackInv, LinkInv, NEW p \in Records, NEW f, Goto(f), KindOK(f),
         Choosing(Top), Top.pc = "take",
         f.fn = Top.fn, f.base = Top.base, f.proc = p, Top.prev = NoProc, f.prev = NoProc,
         current' = p
  PROVE  LinkInv'
<1> DEFINE N == Len(stack)
<1>1. /\ N \in Nat /\ N > 1 /\ Frames = 1 .. N /\ N \in Frames /\ N - 1 \in Frames
      /\ Top = stack[N] /\ Linkage /\ CurrentOwed /\ stack[N].fn = "schedule" /\ p # NoProc
  BY Stacked, PriOfLevel DEF LinkInv, Choosing
<1>2. /\ Len(stack') = N /\ Frames' = Frames
      /\ \A n \in Frames : stack'[n] = IF n = N THEN f ELSE stack[n]
  BY GotoSeq DEF StackInv, Frames
<1>3. Linkage'
  <2>1. ASSUME NEW n \in Frames', n > 1
        PROVE  /\ OnTopOf(stack'[n], stack'[n - 1])
               /\ stack'[n].fn = "schedule" /\ stack'[n - 1].pc = "leave" => n = N
    <3>1. n \in Frames /\ n - 1 \in Frames /\ n - 1 # N /\ stack'[n - 1] = stack[n - 1]
      BY <1>1, <1>2, <2>1
    <3>2. OnTopOf(stack[n], stack[n - 1])
      BY <1>1, <2>1, <3>1 DEF Linkage
    <3>3. CASE n # N
      BY <1>1, <1>2, <2>1, <3>1, <3>2, <3>3 DEF Linkage
    <3>4. CASE n = N
      BY <1>1, <1>2, <3>1, <3>2, <3>4 DEF OnTopOf, Choosing
    <3>5. QED BY <3>3, <3>4
  <2>2. \A n \in Frames' : KindOK(stack'[n])
    BY <1>1, <1>2 DEF Linkage
  <2>3. QED BY <1>2, <2>1, <2>2, LinkPrime
<1>4. \A n \in Frames : /\ n # N => stack'[n] = stack[n]
                        /\ stack'[n].prev = stack[n].prev
  BY <1>1, <1>2
<1>5. stack'[N].proc = p /\ stack[N].prev = NoProc
  BY <1>1, <1>2
<1>6. \A n \in Frames : n # N => n < N
  <2> HIDE DEF N
  <2>1. QED BY <1>1
<1>7. ASSUME NEW n \in Frames, Innermost(n)'
      PROVE  current' = stack'[n].proc
  BY <1>1, <1>2, <1>5, <1>6, <1>7 DEF Innermost
<1>8. ASSUME NEW n \in Frames, NEW m \in Frames, n <= m, stack'[n].proc # NoProc, stack'[m].prev # NoProc,
             \A j \in Frames : n < j /\ j <= m => stack'[j].proc = NoProc
      PROVE  stack'[m].prev = stack'[n].proc
  <2>1. m # N
    BY <1>4, <1>5, <1>8
  <2>2. m < N
    BY <1>6, <2>1
  <2>3. n # N
    <3> HIDE DEF N
    <3>1. QED BY <1>1, <1>8, <2>2
  <2>4. \A j \in Frames : n < j /\ j <= m => stack[j].proc = NoProc
    BY <1>1, <1>4, <1>8, <2>2
  <2>5. QED BY <1>1, <1>4, <1>8, <2>1, <2>3, <2>4 DEF CurrentOwed
<1>9. CurrentOwed'
  BY <1>2, <1>7, <1>8 DEF CurrentOwed
<1>10. QED BY <1>3, <1>9 DEF LinkInv

\* 6. The program stops, or time passes.
LEMMA SameLink ==
  ASSUME LinkInv, stack' = stack, current' = current
  PROVE  LinkInv'
BY DEF LinkInv, Linkage, CurrentOwed, Innermost, OnTopOf, Choosing, KindOK, Frames

-----------------------------------------------------------------------------
\* The rest of the invariant, for the same kinds of step.

Urgent == LinkInv /\ Quiet /\ MaskInv /\ Urgency

LEMMA UrgentPrime ==
  ASSUME LinkInv', MaskInv',
         Top'.fn = "handler" \/ Top'.pc \in ReturnPcs => ~intr',
         Choosing(Top') => ~intr' \/ (Len(stack') = 2 /\ AllNew'),
         Top'.pc = "main" \/ (Top'.fn = "start" /\ Len(stack') = 2) => AllNew',
         Len(stack') > 2 => stack'[2].fn # "start",
         ~Choosing(Top') /\ Top'.pc # "main" /\ ~(Top'.fn = "start" /\ Len(stack') = 2) =>
           \A m \in rq'.mask : m <= PriOf(IF Top'.prev = NoProc THEN current' ELSE Top'.prev),
         Choosing(Top') /\ Len(stack') > 1 /\ stack'[Len(stack') - 1].pc = "leave" =>
           (\A m \in rq'.mask : m <= Top'.base) /\ Top'.base = PriOf(current'),
         Top'.pc = "take" => Top'.k = highest_ready(rq'.mask)
  PROVE  Urgent'
<1>1. Quiet'
  BY DEF Quiet, Choosing, Booting
<1>2. Urgency'
  BY DEF Urgency, Choosing, Booting, NoneAbove, Restored
<1>3. QED BY <1>1, <1>2 DEF Urgent

\* The mask stays exact, and the idle process stays where it is.
LEMMA SameMask ==
  ASSUME MaskInv, rq'.mask = rq.mask, rq'.head = rq.head,
         \A n \in Frames : stack[n].proc = Idle => n \in Frames' /\ stack'[n].proc = Idle
  PROVE  MaskInv'
BY DEF MaskInv

LEMMA SameUrgent ==
  ASSUME Urgent, stack' = stack, rq' = rq, current' = current, intr' = intr, state' = state
  PROVE  Urgent'
<1>1. LinkInv'
  BY SameLink DEF Urgent
<1>2. MaskInv'
  BY SameMask DEF Urgent, Frames
<1>3. QED BY <1>1, <1>2 DEF Urgent, Quiet, Choosing, Booting, AllNew, Urgency, NoneAbove, Restored, Top

LEMMA GotoTop ==
  ASSUME StackInv, NEW f, Goto(f)
  PROVE  /\ Top' = f /\ Len(stack') = Len(stack) /\ Frames' = Frames
         /\ \A n \in Frames : stack'[n] = IF n = Len(stack) THEN f ELSE stack[n]
         /\ Len(stack) > 1 => stack'[Len(stack) - 1] = stack[Len(stack) - 1]
<1>1. /\ Len(stack') = Len(stack)
      /\ \A n \in Frames : stack'[n] = IF n = Len(stack) THEN f ELSE stack[n]
  BY GotoSeq DEF StackInv
<1>2. Len(stack) \in Frames /\ Len(stack) \in Nat /\ (Len(stack) > 1 => Len(stack) - 1 \in Frames)
  BY Stacked
<1>3. QED BY <1>1, <1>2 DEF Top, Frames

\* The activation that runs a process goes on with it.
LEMMA KeepUrgent ==
  ASSUME StackInv, Urgent, Top.fn = "schedule", Top.proc # NoProc, NEW f, Goto(f),
         f.fn = Top.fn, f.base = Top.base, f.proc = Top.proc, f.prev = NoProc,
         f.pc \in SchedulePcs \ (ReturnPcs \cup {"take"}), f.pc = "rtcRest" => ~f.act.term,
         current' = Restored, rq' = rq
  PROVE  Urgent'
<1>1. /\ Top' = f /\ Len(stack') = Len(stack) /\ Frames' = Frames
      /\ \A n \in Frames : stack'[n] = IF n = Len(stack) THEN f ELSE stack[n]
      /\ Len(stack) \in Nat /\ Top = stack[Len(stack)] /\ FrameOK(Top)
  BY GotoTop, Stacked
<1>2. LinkInv'
  BY GotoLink DEF Urgent, KindOK, Choosing
<1>3. MaskInv'
  BY <1>1, SameMask DEF Urgent
<1>4. ~Choosing(Top) /\ ~Choosing(f) /\ ~Booting
  BY <1>1 DEF Choosing, Booting, FrameOK
<1>5. Len(stack') > 2 => stack'[2].fn # "start"
  BY <1>1 DEF Urgent, Quiet, Frames
<1>6. \A m \in rq'.mask : m <= PriOf(current')
  BY <1>4 DEF Urgent, Urgency, NoneAbove
<1>7. f.pc # "main" /\ f.pc \notin ReturnPcs /\ f.pc # "take"
  BY DEF SchedulePcs
<1>8. QED BY <1>1, <1>2, <1>3, <1>4, <1>5, <1>6, <1>7, UrgentPrime

LEMMA Pushed ==
  ASSUME StackInv, NEW f, NEW g,
         Len(stack') = Len(stack) + 1,
         \A n \in Frames : stack'[n] = IF n = Len(stack) THEN f ELSE stack[n],
         stack'[Len(stack) + 1] = g
  PROVE  /\ Top' = g /\ stack'[Len(stack') - 1] = f /\ Len(stack') > 1
         /\ \A n \in Frames : n \in Frames'
         /\ Len(stack') = 2 <=> Top.fn = "main"
         /\ Len(stack') > 2 => \/ stack'[2] = f /\ Len(stack) = 2
                               \/ stack'[2] = stack[2] /\ Len(stack) > 2
<1>1. /\ Len(stack) \in Nat /\ Len(stack) >= 1 /\ Frames = 1 .. Len(stack) /\ Len(stack) \in Frames
      /\ Top = stack[Len(stack)] /\ stack[1].fn = "main"
      /\ \A n \in Frames : stack[n].fn = "main" => n = 1
  BY Stacked
<1>2. /\ Frames' = 1 .. Len(stack) + 1 /\ Top' = g
      /\ stack'[Len(stack') - 1] = f /\ Len(stack') > 1
      /\ \A n \in Frames : n \in Frames'
  BY <1>1 DEF Frames, Top
<1>3. Len(stack') = 2 <=> Top.fn = "main"
  BY <1>1
<1>4. Len(stack) = 2 => stack'[2] = f
  BY <1>1
<1>5. Len(stack) > 2 => stack'[2] = stack[2]
  <2>1. Len(stack) > 2 => 2 \in Frames
    BY <1>1
  <2>2. QED BY <2>1
<1>6. Len(stack') > 2 => Len(stack) = 2 \/ Len(stack) > 2
  <2>1. \A n \in Nat : n + 1 > 2 => n = 2 \/ n > 2
    OBVIOUS
  <2>2. QED BY <1>1, <2>1
<1>7. QED BY <1>2, <1>3, <1>4, <1>5, <1>6

\* An activation is called or pushed.
LEMMA PushShared ==
  ASSUME StackInv, Urgent, ~Choosing(Top), Top.prev = NoProc, NEW f, NEW g,
         Len(stack') = Len(stack) + 1,
         \A n \in Frames : stack'[n] = IF n = Len(stack) THEN f ELSE stack[n],
         stack'[Len(stack) + 1] = g,
         KindOK(f), f.fn = Top.fn, f.base = Top.base, f.proc = Top.proc,
         Top.fn = "start" => f.partner = Top.partner /\ ~Booting,
         f.prev \in {NoProc, current},
         KindOK(g), g.proc = NoProc, g.prev = NoProc, OnTopOf(g, f),
         \A l \in Levels : l \in rq'.mask <=> rq'.head[l] # NoProc,
         rq.mask \subseteq rq'.mask,
         current' = current
  PROVE  /\ LinkInv' /\ MaskInv'
         /\ Top' = g /\ stack'[Len(stack') - 1] = f /\ Len(stack') > 1
         /\ Len(stack') = 2 => Top.fn = "main"
         /\ Len(stack') > 2 => stack'[2].fn # "start"
         /\ ~Booting => \A m \in rq.mask : m <= PriOf(current)
<1>1. Top' = g /\ stack'[Len(stack') - 1] = f /\ Len(stack') > 1
  BY Pushed
<1>2. LinkInv'
  BY PushLink DEF Urgent
<1>3. MaskInv'
  <2>1. ASSUME NEW n \in Frames, stack[n].proc = Idle
        PROVE  n \in Frames' /\ stack'[n].proc = Idle
    BY <2>1, Pushed, Stacked
  <2>2. QED BY <2>1 DEF Urgent, MaskInv
<1>4. Len(stack') > 2 => stack'[2].fn # "start"
  <2>1. Len(stack) = 2 => Top.fn # "start"
    BY DEF Booting
  <2>2. Len(stack) > 2 => stack[2].fn # "start"
    BY DEF Urgent, Quiet
  <2>3. QED BY <2>1, <2>2, Pushed
<1>5. Len(stack') = 2 => Top.fn = "main"
  BY Pushed
<1>6. ~Booting => \A m \in rq.mask : m <= PriOf(current)
  BY DEF Urgent, Urgency, NoneAbove, Restored
<1>7. QED BY <1>1, <1>2, <1>3, <1>4, <1>5, <1>6

\* A handler is pushed.
LEMMA PushHandler ==
  ASSUME StackInv, Urgent, ~Choosing(Top), ~Booting, Top.prev = NoProc, NEW f, NEW src,
         Len(stack') = Len(stack) + 1,
         \A n \in Frames : stack'[n] = IF n = Len(stack) THEN f ELSE stack[n],
         stack'[Len(stack) + 1] = HandlerFrame(src),
         KindOK(f), f.fn = Top.fn, f.base = Top.base, f.proc = Top.proc, f.prev = NoProc,
         Top.fn = "start" => f.partner = Top.partner,
         f.fn # "handler", f.pc # "main", f.pc \notin ReturnPcs, ~Choosing(f),
         ~intr', rq' = rq, current' = current
  PROVE  Urgent'
<1> DEFINE g == HandlerFrame(src)
<1>1. /\ g.fn = "handler" /\ g.pc \in {"exit", "timeout", "user"} /\ g.proc = NoProc /\ g.prev = NoProc
      /\ stack'[Len(stack) + 1] = g
  BY DEF HandlerFrame, Frame
<1> HIDE DEF g
<1>2. KindOK(g) /\ OnTopOf(g, f)
  BY <1>1 DEF KindOK, OnTopOf, HandlerPcs
<1>3. /\ LinkInv' /\ MaskInv' /\ Top' = g
      /\ Len(stack') > 2 => stack'[2].fn # "start"
      /\ \A m \in rq.mask : m <= PriOf(current)
  BY <1>1, <1>2, PushShared DEF Urgent, MaskInv
<1>4. QED BY <1>1, <1>3, UrgentPrime DEF Choosing

\* start() is called.
LEMMA PushStart ==
  ASSUME StackInv, Urgent, ~Choosing(Top), Top.prev = NoProc, NEW p, NEW f,
         Call(f, StartFrame(p)),
         KindOK(f), f.fn = Top.fn, f.base = Top.base, f.proc = Top.proc, f.prev = NoProc,
         Top.fn # "start",
         f.pc = "main" \/ (f.pc = "rtcRest" /\ f.proc \in Starters /\ PriOf(p) <= PriOf(f.proc)),
         Top.fn = "main" => AllNew',
         Top.fn # "main" => Top.pc # "main",
         rq'.mask = rq.mask, rq'.head = rq.head, current' = current
  PROVE  Urgent'
<1> DEFINE g == StartFrame(p)
<1>1. /\ g.fn = "start" /\ g.pc = "link" /\ g.proc = NoProc /\ g.prev = NoProc /\ g.partner = p
  BY DEF StartFrame, Frame
<1>2. /\ Len(stack') = Len(stack) + 1
      /\ \A n \in Frames : stack'[n] = IF n = Len(stack) THEN f ELSE stack[n]
      /\ stack'[Len(stack) + 1] = g
  BY CallSeq DEF StackInv
<1> HIDE DEF g
<1>3. KindOK(g) /\ OnTopOf(g, f) /\ g.pc # "main" /\ g.pc \notin ReturnPcs /\ g.pc # "take"
  BY <1>1 DEF KindOK, OnTopOf, StartPcs, ReturnPcs
<1>4. /\ LinkInv' /\ MaskInv' /\ Top' = g
      /\ Len(stack') > 2 => stack'[2].fn # "start"
      /\ Len(stack') = 2 => Top.fn = "main"
      /\ ~Booting => \A m \in rq.mask : m <= PriOf(current)
  BY <1>1, <1>2, <1>3, PushShared DEF Urgent, MaskInv
<1>5. Len(stack') # 2 => Top.fn # "main"
  BY <1>2, Stacked
<1>6. QED BY <1>1, <1>3, <1>4, <1>5, UrgentPrime DEF Choosing, Booting

\* schedule() is called.
LEMMA PushSchedule ==
  ASSUME StackInv, Urgent, ~Choosing(Top), Top.fn # "start", Top.prev = NoProc, NEW b, NEW f,
         Call(f, ScheduleFrame(b)),
         KindOK(f), f.fn = Top.fn, f.base = Top.base, f.proc = Top.proc, f.prev \in {NoProc, current},
         OnTopOf(ScheduleFrame(b), f),
         ~intr' \/ (Top.fn = "main" /\ AllNew'),
         f.pc = "leave" => rq' = rq /\ b = PriOf(current) /\ ~Booting,
         \A l \in Levels : l \in rq'.mask <=> rq'.head[l] # NoProc,
         rq.mask \subseteq rq'.mask,
         current' = current
  PROVE  Urgent'
<1> DEFINE g == ScheduleFrame(b)
<1>1. g.fn = "schedule" /\ g.pc = "select" /\ g.proc = NoProc /\ g.prev = NoProc /\ g.base = b
  BY DEF ScheduleFrame, Frame
<1>2. /\ Len(stack') = Len(stack) + 1
      /\ \A n \in Frames : stack'[n] = IF n = Len(stack) THEN f ELSE stack[n]
      /\ stack'[Len(stack) + 1] = g
      /\ OnTopOf(g, f)
  BY CallSeq DEF StackInv
<1> HIDE DEF g
<1>3. KindOK(g) /\ g.pc # "main" /\ g.pc \notin ReturnPcs /\ g.pc # "take"
  BY <1>1 DEF KindOK, SchedulePcs, ReturnPcs
<1>4. /\ LinkInv' /\ MaskInv' /\ Top' = g /\ stack'[Len(stack') - 1] = f
      /\ Len(stack') > 2 => stack'[2].fn # "start"
      /\ ~Booting => \A m \in rq.mask : m <= PriOf(current)
  BY <1>1, <1>2, <1>3, PushShared DEF Urgent
<1>5. Top.fn = "main" => Len(stack') = 2
  BY <1>2, Stacked
<1>6. QED BY <1>1, <1>3, <1>4, <1>5, UrgentPrime DEF Choosing

-----------------------------------------------------------------------------
\* The queues and the mask.

\* append() adds the level of the process to the mask.
LEMMA AppendMask ==
  ASSUME QueueLevels, MaskInv, NEW q \in Records, rq' = append(rq, q)
  PROVE  /\ \A l \in Levels : l \in rq'.mask <=> rq'.head[l] # NoProc
         /\ rq.mask \subseteq rq'.mask /\ rq'.mask \subseteq rq.mask \cup {PriOf(q)}
<1>1. rq \in QueueType /\ PriOf(q) \in Levels /\ q # NoProc
  BY PriOfLevel DEF QueueLevels
<1>2. /\ rq'.head = [rq.head EXCEPT ![PriOf(q)] = IF @ = NoProc THEN q ELSE @]
      /\ rq'.mask = IF rq.head[PriOf(q)] = NoProc THEN rq.mask \cup {PriOf(q)} ELSE rq.mask
  BY <1>1 DEF append, QueueType
<1>3. \A l \in Levels : rq'.head[l] = IF l = PriOf(q) /\ rq.head[l] = NoProc THEN q ELSE rq.head[l]
  BY <1>1, <1>2 DEF QueueType
<1>4. QED BY <1>1, <1>2, <1>3 DEF MaskInv

\* take() removes it with the last process of the level.
LEMMA TakeMask ==
  ASSUME QueueLevels, MaskInv, NEW l \in Levels, rq.head[l] # NoProc, rq' = take(rq, l)
  PROVE  /\ \A m \in Levels : m \in rq'.mask <=> rq'.head[m] # NoProc
         /\ rq'.mask \subseteq rq.mask
         /\ \A m \in rq.mask : m # l => m \in rq'.mask
<1> DEFINE rest == rq.next[rq.head[l]]
<1>1. rq \in QueueType
  BY DEF QueueLevels
<1>2. /\ rq'.head = [rq.head EXCEPT ![l] = rest]
      /\ rq'.mask = IF rest = NoProc THEN rq.mask \ {l} ELSE rq.mask
  BY <1>1 DEF take, QueueType
<1> HIDE DEF rest
<1>3. \A m \in Levels : rq'.head[m] = IF m = l THEN rest ELSE rq.head[m]
  BY <1>1, <1>2 DEF QueueType
<1>4. QED BY <1>2, <1>3 DEF MaskInv

\* The level that schedule() has chosen is not empty: either somebody is ready,
\* or the idle process runs below and the base is not lower than it.
LEMMA SomebodyToTake ==
  ASSUME StackInv, Urgent, Top.pc = "take"
  PROVE  rq.head[Top.k] # NoProc /\ Top.k \in Levels /\ Top.k = highest_ready(rq.mask)
<1>1. /\ rq.mask \in SUBSET Levels /\ Top.k = highest_ready(rq.mask)
      /\ Top.k \in Levels /\ Top.k > Top.base /\ Top.fn = "schedule" /\ Top.base \in Int
  BY Stacked DEF StackInv, QueueLevels, QueueType, Urgent, Urgency, FrameOK, SchedulePcs
<1>2. rq.mask # {}
  <2>1. ASSUME rq.mask = {}
        PROVE  FALSE
    <3>1. Top.k = 0 /\ PRI_MIN \notin rq.mask
      BY <1>1, <2>1, HighestReady
    <3>2. PICK n \in Frames : stack[n].proc = Idle
      BY <3>1 DEF Urgent, MaskInv
    <3>3. Top.proc = NoProc
      BY <1>1, Stacked DEF Urgent, LinkInv, Linkage, KindOK
    <3>4. n < Len(stack) /\ stack[n].proc # NoProc
      BY <3>2, <3>3, Stacked, PriOfLevel DEF Records
    <3>5. PriOf(Idle) <= Top.base
      BY <1>1, <3>2, <3>4, Stacked DEF StackInv, BaseAbove
    <3>6. QED BY <1>1, <3>1, <3>5 DEF PriOf, PRI_MIN
  <2>2. QED BY <2>1
<1>3. Top.k \in rq.mask
  BY <1>1, <1>2, HighestReady
<1>4. QED BY <1>1, <1>3 DEF Urgent, MaskInv
-----------------------------------------------------------------------------
\* The actions.

\* enable_alt(), disable_alt(), and the other steps in which the process that
\* runs goes on.
LEMMA QuietPcUrgent ==
  ASSUME StackInv, Urgent, Top.pc \in QuietPcs, Top.prev = NoProc, Top.proc \in Procs,
         Moves \/ stack' = stack, rq' = rq, current' = current
  PROVE  Urgent'
<1>1. Top.fn = "schedule" /\ Top.proc # NoProc
  BY Stacked, PriOfLevel DEF FrameOK, QuietPcs, ProcPcs
<1>2. CASE Moves
  <2>1. PICK f : Same(f) /\ Goto(f)
    BY <1>2 DEF Moves
  <2>2. QuietPcs \subseteq SchedulePcs \ (ReturnPcs \cup {"take", "rtcRest"})
    BY DEF QuietPcs, ProcPcs, SchedulePcs, ReturnPcs
  <2>3. QED BY <1>1, <2>1, <2>2, KeepUrgent DEF Same, Restored
<1>3. CASE stack' = stack
  <2>1. LinkInv' /\ MaskInv'
    BY <1>3, SameLink, SameMask DEF Urgent, Frames
  <2>2. Top' = Top /\ Top.pc \notin ReturnPcs /\ Top.pc # "take" /\ Top.pc # "main"
    BY <1>3 DEF Top, QuietPcs, ProcPcs, SchedulePcs, ReturnPcs
  <2>3. \A m \in rq.mask : m <= PriOf(current)
    BY <1>1, <2>2 DEF Urgent, Urgency, Choosing, Booting, NoneAbove, Restored
  <2>4. Len(stack) > 2 => stack[2].fn # "start"
    BY DEF Urgent, Quiet
  <2>5. QED BY <1>1, <1>3, <2>1, <2>2, <2>3, <2>4, UrgentPrime DEF Choosing
<1>4. QED BY <1>2, <1>3

LEMMA LoadUrgent ==
  ASSUME StackInv, Urgent, Load
  PROVE  Urgent'
<1>1. /\ Top.fn = "schedule" /\ Top.proc # NoProc /\ Top.prev = NoProc
      /\ rq' = rq /\ current' = current
  BY AtFacts, PriOfLevel DEF Load, FrameOK, SchedulePcs, ReturnPcs, procVars
<1>2. PICK f : Loaded(f) /\ Goto(f)
  BY LoadMoves
<1>3. {"idle", "rtc", "begin", "disable", "finish"} \subseteq SchedulePcs \ (ReturnPcs \cup {"take"})
  BY DEF SchedulePcs, ReturnPcs
<1>4. QED BY <1>1, <1>2, <1>3, KeepUrgent DEF Loaded, Restored

LEMMA SelectSameUrgent ==
  ASSUME StackInv, Urgent, SelectSame
  PROVE  Urgent'
<1>1. /\ Top.fn = "schedule" /\ Top.proc # NoProc /\ Top.prev = NoProc /\ IsFrame(Top)
      /\ rq' = rq /\ current' = current
  BY AtFacts DEF SelectSame, FrameOK, SchedulePcs, ReturnPcs, procVars
<1> DEFINE f == [Top EXCEPT !.pc = "load"]
<1>2. /\ f.fn = Top.fn /\ f.base = Top.base /\ f.proc = Top.proc /\ f.prev = NoProc /\ f.pc = "load"
  BY <1>1 DEF IsFrame
<1>3. Goto(f)
  BY DEF SelectSame
<1>4. "load" \in SchedulePcs \ (ReturnPcs \cup {"take"})
  BY DEF SchedulePcs, ReturnPcs
<1> HIDE DEF f
<1>5. QED BY <1>1, <1>2, <1>3, <1>4, KeepUrgent DEF Restored

\* At the end of the outermost handler nobody is more urgent than `current', so
\* that schedule() returns at once.
LEMMA SelectNewUrgent ==
  ASSUME StackInv, Urgent, SelectNew
  PROVE  Urgent'
<1> DEFINE h == highest_ready(rq.mask)
           f == [Top EXCEPT !.pc = "take", !.k = h]
<1>1. /\ Top.fn = "schedule" /\ Top.pc = "select" /\ Top.proc = NoProc /\ Top.prev = NoProc
      /\ IsFrame(Top) /\ Top.base \in Int
      /\ rq' = rq /\ current' = current /\ state' = state /\ intr' = intr
      /\ Choosing(Top) /\ current \in Records
  BY AtFacts DEF SelectNew, FrameOK, SchedulePcs, ReturnPcs, procVars, Choosing
<1>2. /\ f.fn = Top.fn /\ f.base = Top.base /\ f.proc = Top.proc /\ f.prev = NoProc
      /\ f.pc = "take" /\ f.k = h
  BY <1>1 DEF IsFrame
<1>3. Goto(f) /\ h > Top.base
  BY DEF SelectNew
<1> HIDE DEF f
<1>4. Len(stack) \in Nat /\ Len(stack) > 1
  BY <1>1, Stacked
<1>5. rq.mask \in SUBSET Levels /\ PriOf(current) \in Levels
  BY <1>1, PriOfLevel DEF StackInv, QueueLevels, QueueType
<1>6. stack[Len(stack) - 1].pc # "leave"
  <2>1. ASSUME stack[Len(stack) - 1].pc = "leave"
        PROVE  FALSE
    <3>1. (\A m \in rq.mask : m <= Top.base) /\ Top.base = PriOf(current)
      BY <1>1, <1>4, <2>1 DEF Urgent, Urgency, NoneAbove
    <3>2. h <= Top.base
      BY <1>5, <3>1, HighestReady DEF Levels, PRI_MIN, PRI_MAX
    <3> HIDE DEF h
    <3>3. h \in Int
      BY <1>5, HighestReady DEF h, Levels
    <3>4. QED BY <1>1, <1>3, <3>2, <3>3
  <2>2. QED BY <2>1
<1> HIDE DEF h
<1>7. /\ Top' = f /\ Len(stack') = Len(stack) /\ Frames' = Frames
      /\ \A n \in Frames : stack'[n] = IF n = Len(stack) THEN f ELSE stack[n]
      /\ stack'[Len(stack) - 1] = stack[Len(stack) - 1]
  BY <1>3, <1>4, GotoTop
<1>8. LinkInv'
  BY <1>1, <1>2, <1>3, <1>6, GotoLink DEF Urgent, KindOK, SchedulePcs, Restored
<1>9. MaskInv'
  BY <1>1, <1>2, <1>7, Stacked, SameMask DEF Urgent
<1>10. Len(stack') > 2 => stack'[2].fn # "start"
  BY <1>1, <1>2, <1>4, <1>7 DEF Urgent, Quiet, Frames
<1>11. ~intr \/ (Len(stack) = 2 /\ AllNew)
  BY <1>1 DEF Urgent, Quiet
<1>12. AllNew => AllNew'
  BY <1>1 DEF AllNew
<1>13. f.pc \notin ReturnPcs /\ highest_ready(rq'.mask) = h
  BY <1>1, <1>2 DEF ReturnPcs, h
<1>14. QED BY <1>1, <1>2, <1>6, <1>7, <1>8, <1>9, <1>10, <1>11, <1>12, <1>13, UrgentPrime DEF Choosing

\* schedule() returns to readyProcessIfNecessary() or to the handler: nobody
\* above its base is ready, and that is the priority of `current' to be.
LEMMA SelectNoneUrgent ==
  ASSUME StackInv, Urgent, SelectNone
  PROVE  Urgent'
<1> DEFINE N == Len(stack)
           b == stack[N - 1]
           h == highest_ready(rq.mask)
<1>1. /\ Top.fn = "schedule" /\ Top.pc = "select" /\ Top.proc = NoProc /\ Top.prev = NoProc
      /\ Top.base \in Int /\ rq' = rq /\ current' = current /\ state' = state /\ intr' = intr
      /\ Choosing(Top) /\ current \in Records
  BY AtFacts DEF SelectNone, FrameOK, SchedulePcs, ReturnPcs, procVars, Choosing
<1>2. Return /\ h <= Top.base
  BY DEF SelectNone
<1>3. /\ N \in Nat /\ N > 1 /\ Frames = 1 .. N /\ Top = stack[N] /\ N - 1 \in Frames /\ N \in Frames
      /\ FrameOK(b) /\ stack[1].fn = "main" /\ Linkage
  BY <1>1, Stacked DEF Urgent, LinkInv
<1>4. /\ Len(stack') = N - 1 /\ Frames' = 1 .. N - 1
      /\ \A n \in Frames' : stack'[n] = stack[n] /\ n \in Frames
  BY <1>2, <1>3, ReturnSeq DEF StackInv, Frames
<1>5. Top' = b
  BY <1>3, <1>4 DEF Top
<1>6. KindOK(b) /\ OnTopOf(Top, b)
  BY <1>3 DEF Linkage
<1>7. /\ rq.mask \in SUBSET Levels /\ h \in Levels /\ \A m \in rq.mask : m <= Top.base
  <2>1. rq.mask \in SUBSET Levels
    BY DEF StackInv, QueueLevels, QueueType
  <2>2. QED BY <1>1, <1>2, <2>1, HighestReady DEF Levels, PRI_MIN, PRI_MAX
<1>8. LinkInv'
  BY <1>1, <1>2, ReturnLink DEF Urgent
<1>9. MaskInv'
  <2>1. ASSUME NEW n \in Frames, stack[n].proc = Idle
        PROVE  n \in Frames' /\ stack'[n].proc = Idle
    <3>1. n # N
      BY <1>1, <1>3, <2>1, PriOfLevel DEF Records
    <3>2. QED BY <1>3, <1>4, <2>1, <3>1
  <2>2. QED BY <1>1, <2>1, SameMask DEF Urgent
\* It never returns to main(): the idle process never gives up the CPU.
<1>10. (b.prev # NoProc /\ Top.base = PriOf(b.prev)) \/ b.pc = "leave"
  <2>1. ASSUME Top.base = PRI_MIN - 1
        PROVE  FALSE
    <3> HIDE DEF h
    <3>1. QED BY <1>2, <1>7, <2>1 DEF Levels, PRI_MIN, PRI_MAX
  <2>2. QED BY <1>1, <1>6, <2>1 DEF OnTopOf
<1>11. /\ b.pc # "main" /\ b.fn # "start" /\ ~Choosing(b) /\ b.pc # "take" /\ b.fn # "main"
       /\ b.pc = "leave" => b.prev = NoProc
  BY <1>3, <1>6, <1>10, PriOfLevel DEF KindOK, FrameOK, ReturnPcs, StartPcs, HandlerPcs, SchedulePcs, Choosing, Records
<1>12. ~intr
  <2>1. N # 2
    BY <1>3, <1>11
  <2>2. QED BY <1>1, <2>1 DEF Urgent, Quiet
<1>13. b.pc = "leave" => Top.base = PriOf(current)
  BY <1>1, <1>3 DEF Urgent, Urgency
<1>14. Len(stack') > 2 => stack'[2].fn # "start"
  BY <1>3, <1>4 DEF Urgent, Quiet
<1> HIDE DEF N, b, h
<1>15. QED BY <1>1, <1>5, <1>7, <1>8, <1>9, <1>10, <1>11, <1>12, <1>13, <1>14, UrgentPrime

\* take() hands out the most urgent process.
LEMMA TakeUrgent ==
  ASSUME StackInv, Urgent, Take
  PROVE  Urgent'
<1> DEFINE p == rq.head[Top.k]
           f == [Top EXCEPT !.pc = "load", !.proc = p, !.k = 0]
<1>1. /\ Top.fn = "schedule" /\ Top.pc = "take" /\ Top.prev = NoProc /\ IsFrame(Top)
      /\ Linkage /\ KindOK(Top) /\ QueueLevels /\ MaskInv
  BY AtFacts, Stacked DEF Take, FrameOK, SchedulePcs, ReturnPcs, Urgent, LinkInv, Linkage, StackInv
<1>2. p # NoProc /\ Top.k \in Levels /\ Top.k = highest_ready(rq.mask)
  BY <1>1, SomebodyToTake
<1>3. Choosing(Top)
  BY <1>1 DEF KindOK, Choosing
<1>4. current' = p /\ rq' = take(rq, Top.k) /\ Goto(f)
  BY <1>2 DEF Take
<1>5. p \in Records /\ PriOf(p) = Top.k
  BY <1>1, <1>2, <1>4, TakeLevels
<1>6. /\ \A m \in Levels : m \in rq'.mask <=> rq'.head[m] # NoProc
      /\ rq'.mask \subseteq rq.mask
      /\ \A m \in rq.mask : m # Top.k => m \in rq'.mask
  BY <1>1, <1>2, <1>4, TakeMask
<1> HIDE DEF p
<1>7. /\ f.fn = Top.fn /\ f.base = Top.base /\ f.proc = p /\ f.prev = NoProc /\ f.pc = "load"
  BY <1>1 DEF IsFrame
<1> HIDE DEF f
<1>8. /\ Top' = f /\ Len(stack') = Len(stack) /\ Frames' = Frames
      /\ \A n \in Frames : stack'[n] = IF n = Len(stack) THEN f ELSE stack[n]
  BY <1>4, GotoTop
<1>9. KindOK(f)
  BY <1>1, <1>7 DEF KindOK, SchedulePcs
<1>10. LinkInv'
  BY <1>1, <1>3, <1>4, <1>5, <1>7, <1>9, TakeLink DEF Urgent
<1>11. MaskInv'
  <2>1. CASE p = Idle
    BY <1>6, <1>7, <1>8, <2>1, Stacked DEF MaskInv
  <2>2. CASE p # Idle
    <3>1. Top.k # PRI_MIN
      BY <1>5, <2>2, RecordAssumption DEF PriOf, PRI_MIN, PRI_MAX, Records
    <3>2. \A n \in Frames : stack[n].proc = Idle => stack'[n].proc = Idle
      BY <1>3, <1>8, Stacked, PriOfLevel DEF Choosing, Records
    <3>3. QED BY <1>1, <1>6, <1>8, <3>1, <3>2 DEF MaskInv
  <2>3. QED BY <2>1, <2>2
<1>12. \A m \in rq'.mask : m <= PriOf(p)
  <2>1. rq.mask \in SUBSET Levels
    BY <1>1 DEF QueueLevels, QueueType
  <2>2. QED BY <1>2, <1>5, <1>6, <2>1, HighestReady
<1>13. Len(stack') > 2 => stack'[2].fn # "start"
  BY <1>1, <1>7, <1>8 DEF Urgent, Quiet, Frames
<1>14. ~Choosing(f) /\ f.pc \notin ReturnPcs
  BY <1>5, <1>7, PriOfLevel DEF Choosing, ReturnPcs
<1>15. QED BY <1>1, <1>4, <1>7, <1>8, <1>10, <1>11, <1>12, <1>13, <1>14, UrgentPrime

\* The end of the loop of schedule(), for a process that has not ended.
LEMMA FinishUrgent ==
  ASSUME StackInv, NoneEnds, Urgent, Finish
  PROVE  Urgent'
<1> DEFINE f(q) == [Top EXCEPT !.pc = "select", !.proc = q]
           N == Len(stack)
<1>1. /\ Top.fn = "schedule" /\ Top.pc = "finish" /\ Top.proc \in Procs /\ Top.prev = NoProc
      /\ IsFrame(Top) /\ current' = current /\ Top.proc # NoProc /\ Top.proc # Idle
      /\ Top.proc \in Records
  BY AtFacts, PriOfLevel DEF Finish, FrameOK, SchedulePcs, ReturnPcs, ProcPcs
<1>2. state[Top.proc] # "done"
  BY <1>1 DEF NoneEnds
<1>3. rq' = rq /\ intr' = FALSE /\ (Goto(f(NoProc)) \/ Goto(f(Top.proc)))
  BY <1>2 DEF Finish
<1>4. \A q : /\ f(q).fn = Top.fn /\ f(q).base = Top.base /\ f(q).proc = q /\ f(q).prev = NoProc
             /\ f(q).pc = "select"
  BY <1>1 DEF IsFrame
<1> HIDE DEF f
<1>5. "select" \in SchedulePcs \ (ReturnPcs \cup {"take"})
  BY DEF SchedulePcs, ReturnPcs
<1>6. CASE Goto(f(Top.proc))
  BY <1>1, <1>3, <1>4, <1>5, <1>6, KeepUrgent DEF Restored
<1>7. CASE Goto(f(NoProc))
  <2> DEFINE g == f(NoProc)
  <2>1. /\ Top' = g /\ Len(stack') = N /\ Frames' = Frames
        /\ \A n \in Frames : stack'[n] = IF n = N THEN g ELSE stack[n]
        /\ stack'[N - 1] = stack[N - 1] /\ N \in Nat /\ N > 1 /\ Top = stack[N]
        /\ N \in Frames /\ FrameOK(stack[N - 1])
    BY <1>1, <1>7, GotoTop, Stacked
  <2>2. LinkInv'
    BY <1>1, <1>3, <1>4, <1>5, <1>7, GiveUpLink DEF Urgent, KindOK
  <2>3. MaskInv'
    BY <1>1, <1>3, <2>1, SameMask DEF Urgent
  <2>4. stack[N - 1].pc # "leave"
    <3>1. OnTopOf(Top, stack[N - 1])
      BY <2>1 DEF Urgent, LinkInv, Linkage
    <3>2. QED BY <1>1, <2>1, <3>1 DEF OnTopOf, FrameOK, ReturnPcs
  <2>5. Len(stack') > 2 => stack'[2].fn # "start"
    BY <1>1, <1>4, <2>1 DEF Urgent, Quiet, Frames
  <2> HIDE DEF g, N
  <2>6. g.fn = "schedule" /\ g.proc = NoProc /\ g.pc = "select"
    BY <1>1, <1>4 DEF g
  <2>7. QED BY <1>3, <1>5, <2>1, <2>2, <2>3, <2>4, <2>5, <2>6, UrgentPrime DEF Choosing
<1>8. QED BY <1>3, <1>6, <1>7

\* readyProcessIfNecessary(), called with interrupts disabled: the process woken
\* is no more urgent than `current', or schedule() is called for it.
LEMMA WakeUrgent ==
  ASSUME StackInv, Urgent, ~Choosing(Top), Top.fn \in {"schedule", "handler"}, Top.prev = NoProc,
         NEW q \in Records, NEW f, readyProcessIfNecessary(q, f),
         IsFrame(f), f.fn = Top.fn, f.base = Top.base, f.proc = Top.proc, f.prev = NoProc,
         f.pc \in ReturnPcs, KindOK(f), intr' = FALSE, current' = current
  PROVE  Urgent'
<1>1. /\ Top.pc # "main" /\ ~Booting /\ QueueLevels /\ MaskInv
      /\ current \in Records /\ current # NoProc
  BY Stacked, PriOfLevel DEF FrameOK, Booting, StackInv, CurrentAbove, Urgent
<1>2. \A m \in rq.mask : m <= PriOf(current)
  BY <1>1 DEF Urgent, Urgency, NoneAbove, Restored
<1>3. ASSUME Goto(f), rq' = rq \/ (rq' = append(rq, q) /\ PriOf(q) <= PriOf(current))
      PROVE  Urgent'
  <2>1. /\ Top' = f /\ Len(stack') = Len(stack) /\ Frames' = Frames
        /\ \A n \in Frames : stack'[n] = IF n = Len(stack) THEN f ELSE stack[n]
        /\ Top = stack[Len(stack)]
    BY <1>3, GotoTop, Stacked
  <2>2. LinkInv'
    BY <1>3, GotoLink DEF Urgent, Restored
  <2>3. MaskInv' /\ \A m \in rq'.mask : m <= PriOf(current)
    <3>1. \A n \in Frames : stack[n].proc = Idle => n \in Frames' /\ stack'[n].proc = Idle
      BY <2>1
    <3>2. CASE rq' = rq
      BY <1>1, <1>2, <3>1, <3>2, SameMask
    <3>3. CASE rq' = append(rq, q) /\ PriOf(q) <= PriOf(current)
      BY <1>1, <1>2, <3>1, <3>3, AppendMask DEF MaskInv
    <3>4. QED BY <1>3, <3>2, <3>3
  <2>4. Len(stack') > 2 => stack'[2].fn # "start"
    BY <2>1 DEF Urgent, Quiet, Frames
  <2>5. ~Choosing(f) /\ f.pc # "main" /\ f.fn # "start" /\ f.pc # "take"
    BY DEF Choosing, ReturnPcs
  <2>6. QED BY <2>1, <2>2, <2>3, <2>4, <2>5, UrgentPrime
<1>4. ASSUME Call([f EXCEPT !.prev = current], ScheduleFrame(PriOf(current))), rq' = append(rq, q)
      PROVE  Urgent'
  <2> DEFINE g == [f EXCEPT !.prev = current]
  <2>1. /\ g.fn = f.fn /\ g.pc = f.pc /\ g.base = f.base /\ g.proc = f.proc /\ g.prev = current
    BY DEF IsFrame
  <2>2. KindOK(g) /\ g.pc # "leave"
    BY <2>1 DEF KindOK, ReturnPcs
  <2>3. OnTopOf(ScheduleFrame(PriOf(current)), g)
    BY <1>1, <2>1 DEF OnTopOf, ScheduleFrame, Frame
  <2>4. /\ \A l \in Levels : l \in rq'.mask <=> rq'.head[l] # NoProc
        /\ rq.mask \subseteq rq'.mask
    BY <1>1, <1>4, AppendMask
  <2>5. Call(g, ScheduleFrame(PriOf(current)))
    BY <1>4
  <2> HIDE DEF g
  <2>6. QED BY <2>1, <2>2, <2>3, <2>4, <2>5, PushSchedule
<1>5. CASE state[q] = "enabling"
  BY <1>3, <1>5 DEF readyProcessIfNecessary
<1>6. CASE state[q] # "enabling"
  <2>1. PriOf(q) > PriOf(current) \/ PriOf(q) <= PriOf(current)
    BY <1>1, PriOfLevel
  <2>2. QED BY <1>3, <1>4, <1>6, <2>1 DEF readyProcessIfNecessary
<1>7. QED BY <1>5, <1>6

LEMMA PartnerUrgent ==
  ASSUME StackInv, Urgent, NoPartner \/ WakePartner \/ PartnerReturn
  PROVE  Urgent'
<1>1. /\ Top.fn = "schedule" /\ Top.proc # NoProc /\ IsFrame(Top) /\ Top.proc \in Procs
  BY AtFacts, PriOfLevel DEF NoPartner, WakePartner, PartnerReturn, FrameOK, SchedulePcs, ProcPcs
<1>2. {"rtc", "finish"} \subseteq SchedulePcs \ (ReturnPcs \cup {"take"})
  BY DEF SchedulePcs, ReturnPcs
<1>3. CASE NoPartner \/ PartnerReturn
  <2> DEFINE f == AfterPartner(Top)
  <2>1. /\ f.fn = Top.fn /\ f.base = Top.base /\ f.proc = Top.proc /\ f.prev = NoProc
        /\ f.pc \in {"rtc", "finish"}
    BY <1>1 DEF AfterPartner, IsFrame
  <2>2. Goto(f) /\ rq' = rq
    BY <1>3 DEF NoPartner, PartnerReturn, procVars
  <2>3. current' = Restored
    <3>1. NoPartner => Top.prev = NoProc
      BY AtFacts DEF NoPartner, ReturnPcs
    <3>2. QED BY <1>3, <3>1 DEF NoPartner, PartnerReturn, Restored, procVars
  <2> HIDE DEF f
  <2>4. QED BY <1>1, <1>2, <2>1, <2>2, <2>3, KeepUrgent
<1>4. CASE WakePartner
  <2> DEFINE f == [Top EXCEPT !.pc = "partnerRet"]
             q == Top.partner
  <2>1. q \in Records /\ readyProcessIfNecessary(q, f) /\ current' = current /\ intr' = FALSE
    BY <1>4 DEF WakePartner
  <2>2. Top.prev = NoProc
    BY <1>4, AtFacts DEF WakePartner, ReturnPcs
  <2>3. /\ IsFrame(f) /\ f.fn = Top.fn /\ f.base = Top.base /\ f.proc = Top.proc
        /\ f.prev = NoProc /\ f.pc = "partnerRet"
    BY <1>1, <2>2 DEF IsFrame
  <2> HIDE DEF f, q
  <2>4. f.pc \in ReturnPcs /\ KindOK(f)
    BY <1>1, <2>3 DEF KindOK, ReturnPcs, SchedulePcs
  <2>5. QED BY <1>1, <2>1, <2>2, <2>3, <2>4, WakeUrgent DEF Choosing
<1>5. QED BY <1>3, <1>4

\* The RTC code, which starts nobody more urgent than its own process.
LEMMA RtcUrgent ==
  ASSUME StackInv, Urgent, Orderly, RtcStep
  PROVE  Urgent'
<1>1. /\ Top.pc \in {"rtc", "rtcRest"} /\ Top.fn = "schedule" /\ Top.proc # NoProc /\ IsFrame(Top)
      /\ Top.proc \in Procs /\ Top.prev = NoProc /\ ~Choosing(Top) /\ ~Booting
  <2>1. Top.pc \in {"rtc", "rtcRest"} /\ FrameOK(Top) /\ IsFrame(Top)
    BY AtFacts DEF RtcStep, RtcEnter, RtcRest
  <2>2. Top.fn = "schedule" /\ Top.proc \in Procs /\ Top.prev = NoProc
    BY <2>1 DEF FrameOK, SchedulePcs, ReturnPcs
  <2>3. QED BY <2>1, <2>2, PriOfLevel DEF Choosing, Booting
<1>2. {"rtcRest", "finish"} \subseteq SchedulePcs \ (ReturnPcs \cup {"take"})
  BY DEF SchedulePcs, ReturnPcs
<1>3. CASE RtcRest
  <2> DEFINE f == [Top EXCEPT !.pc = "finish", !.act = NoAct]
  <2>1. Goto(f) /\ rq' = rq /\ current' = current
    BY <1>3 DEF RtcRest
  <2>2. /\ f.fn = Top.fn /\ f.base = Top.base /\ f.proc = Top.proc
        /\ f.prev = NoProc /\ f.pc = "finish"
    BY <1>1 DEF IsFrame
  <2> HIDE DEF f
  <2>3. QED BY <1>1, <1>2, <2>1, <2>2, KeepUrgent DEF Restored
<1>4. CASE RtcEnter
  <2> DEFINE p == Top.proc
             s == Selected
             known == s \in -1 .. NrGuards[p] - 1
             f(act) == [Top EXCEPT !.pc = "rtcRest", !.act = act]
  <2>1. PICK act \in IF known THEN Program[p][s] ELSE {[NoAct EXCEPT !.active = active[p]]} :
          \/ Startable(act.start) /\ start(act.start, f(act))
          \/ Goto(f(act)) /\ rq' = rq
          \/ Call(f(act), HandlerFrame(act.send)) /\ rq' = rq /\ intr' = FALSE
    BY <1>4 DEF RtcEnter
  <2>2. ~act.term /\ (act.start = NoProc \/ (PriOf(act.start) <= PriOf(p) /\ p \in Starters))
    <3>1. CASE known
      BY <1>1, <2>1, <3>1 DEF Orderly, Starters
    <3>2. CASE ~known
      BY <2>1, <3>2 DEF NoAct
    <3>3. QED BY <3>1, <3>2
  <2>3. current' = current
    BY <1>4 DEF RtcEnter
  <2> DEFINE g == f(act)
  <2>4. /\ g.fn = Top.fn /\ g.base = Top.base /\ g.proc = Top.proc
        /\ g.prev = NoProc /\ g.pc = "rtcRest" /\ ~g.act.term
    BY <1>1, <2>2 DEF IsFrame
  <2>5. \/ Startable(act.start) /\ start(act.start, g)
        \/ Goto(g) /\ rq' = rq
        \/ Call(g, HandlerFrame(act.send)) /\ rq' = rq /\ intr' = FALSE
    BY <2>1
  <2> HIDE DEF g
  <2>6. KindOK(g) /\ g.fn # "handler" /\ g.pc # "main" /\ g.pc \notin ReturnPcs /\ ~Choosing(g)
    BY <1>1, <1>2, <2>4 DEF KindOK, Choosing
  <2>7. CASE Startable(act.start) /\ start(act.start, g)
    <3>1. act.start \in Procs
      BY <2>7 DEF Startable
    <3>2. PriOf(act.start) <= PriOf(g.proc) /\ g.proc \in Starters
      BY <2>2, <2>4, <3>1, PriOfLevel
    <3>3. Call(g, StartFrame(act.start)) /\ rq' = [rq EXCEPT !.next[act.start] = NoProc]
      BY <2>7 DEF start
    <3>4. rq'.mask = rq.mask /\ rq'.head = rq.head
      BY <3>3 DEF StackInv, QueueLevels, QueueType
    <3>5. QED BY <1>1, <2>3, <2>4, <2>6, <3>2, <3>3, <3>4, PushStart
  <2>8. CASE Goto(g) /\ rq' = rq
    BY <1>1, <1>2, <2>3, <2>4, <2>8, KeepUrgent DEF Restored
  <2>9. CASE Call(g, HandlerFrame(act.send)) /\ rq' = rq /\ intr' = FALSE
    <3> DEFINE h == HandlerFrame(act.send)
    <3>1. Call(g, h)
      BY <2>9
    <3>2. /\ Len(stack') = Len(stack) + 1
          /\ \A n \in Frames : stack'[n] = IF n = Len(stack) THEN g ELSE stack[n]
          /\ stack'[Len(stack) + 1] = h
      BY <3>1, CallSeq DEF StackInv
    <3>3. QED BY <1>1, <2>3, <2>4, <2>6, <2>9, <3>2, PushHandler
  <2>10. QED BY <2>5, <2>7, <2>8, <2>9
<1>5. QED BY <1>3, <1>4 DEF RtcStep

\* start() called by main(), and run().
LEMMA MainUrgent ==
  ASSUME StackInv, NoneEnds, Urgent, MainStep
  PROVE  Urgent'
<1>1. /\ Top.pc = "main" /\ Top.fn = "main" /\ Top.prev = NoProc /\ IsFrame(Top) /\ ~Choosing(Top)
      /\ Booting /\ AllNew /\ current' = current
  BY AtFacts DEF MainStep, MainStart, MainRun, FrameOK, ReturnPcs, Choosing, Booting, Urgent, Quiet, procVars
<1>2. CASE MainStart
  <2> DEFINE f == [Top EXCEPT !.k = @ + 1]
             p == MainStarts[Top.k + 1]
  <2>1. f.fn = Top.fn /\ f.base = Top.base /\ f.proc = Top.proc /\ f.prev = NoProc /\ f.pc = "main"
    BY <1>1 DEF IsFrame
  <2>2. start(p, f)
    BY <1>2 DEF MainStart
  <2> HIDE DEF f, p
  <2>3. KindOK(f)
    BY <1>1, <2>1 DEF KindOK
  <2>4. /\ Call(f, StartFrame(p)) /\ rq' = [rq EXCEPT !.next[p] = NoProc]
        /\ state' = [state EXCEPT ![p] = "initial"]
    BY <2>2 DEF start
  <2>5. rq'.mask = rq.mask /\ rq'.head = rq.head
    BY <2>4 DEF StackInv, QueueLevels, QueueType
  <2>6. AllNew'
    <3>1. \A q \in Procs : state'[q] \in {state[q], "initial"}
      BY <2>4, PriOfLevel DEF NoneEnds
    <3>2. QED BY <1>1, <3>1 DEF AllNew
  <2>7. QED BY <1>1, <2>1, <2>3, <2>4, <2>5, <2>6, PushStart
<1>3. CASE MainRun
  <2> DEFINE f == [Top EXCEPT !.pc = "returned"]
  <2>1. f.fn = Top.fn /\ f.base = Top.base /\ f.proc = Top.proc /\ f.prev = NoProc /\ f.pc = "returned"
    BY <1>1 DEF IsFrame
  <2>2. Call(f, ScheduleFrame(PRI_MIN - 1)) /\ rq' = rq /\ state' = state
    BY <1>3 DEF MainRun, procVars
  <2> HIDE DEF f
  <2>3. KindOK(f) /\ OnTopOf(ScheduleFrame(PRI_MIN - 1), f)
    BY <1>1, <2>1 DEF KindOK, OnTopOf, ScheduleFrame, Frame
  <2>4. AllNew' /\ MaskInv
    BY <1>1, <2>2 DEF AllNew, Urgent
  <2>5. QED BY <1>1, <2>1, <2>2, <2>3, <2>4, PushSchedule DEF MaskInv
<1>4. QED BY <1>2, <1>3 DEF MainStep

\* append() in start(): main() has started a process, or a process one that is
\* no more urgent.
LEMMA StartUrgent ==
  ASSUME StackInv, Urgent, StartStep
  PROVE  Urgent'
<1> DEFINE N == Len(stack)
           b == stack[N - 1]
           l == PriOf(Top.partner)
<1>1. /\ Top.pc \in StartPcs /\ IsFrame(Top) /\ Top.fn = "start" /\ Top.prev = NoProc
      /\ Top.proc = NoProc /\ Top.partner \in Procs
      /\ current' = current /\ state' = state /\ intr' = intr
  <2>1. Top.pc \in StartPcs /\ FrameOK(Top) /\ IsFrame(Top) /\ Top.prev = NoProc
    BY AtFacts DEF StartStep, AppendLink, AppendTail, AppendNext, AppendHead, AppendStep,
                   StartPcs, ReturnPcs
  <2>2. current' = current /\ state' = state /\ intr' = intr
    BY DEF StartStep, AppendLink, AppendTail, AppendNext, AppendHead, AppendStep
  <2>3. QED BY <2>1, <2>2 DEF FrameOK
<1>2. /\ N \in Nat /\ N > 1 /\ Frames = 1 .. N /\ Top = stack[N] /\ N - 1 \in Frames /\ N \in Frames
      /\ FrameOK(b) /\ stack[1].fn = "main" /\ Linkage /\ KindOK(b) /\ OnTopOf(Top, b)
  BY <1>1, Stacked DEF Urgent, LinkInv, Linkage
<1>3. /\ ~Choosing(Top)
      /\ N # 2 => \A m \in rq.mask : m <= PriOf(current)
      /\ N = 2 => AllNew
      /\ N > 2 => stack[2].fn # "start"
  <2>1. Top.pc # "main"
    BY <1>1 DEF StartPcs
  <2>2. QED BY <1>1, <2>1 DEF Choosing, Urgent, Urgency, Quiet, Booting, NoneAbove, Restored
<1>4. AllNew => AllNew'
  BY <1>1 DEF AllNew
<1>5. ASSUME NEW pc \in StartPcs, Goto([Top EXCEPT !.pc = pc]), rq'.mask = rq.mask, rq'.head = rq.head
      PROVE  Urgent'
  <2> DEFINE f == [Top EXCEPT !.pc = pc]
  <2>1. /\ f.fn = "start" /\ f.base = Top.base /\ f.proc = NoProc /\ f.prev = NoProc
        /\ f.partner = Top.partner /\ f.pc = pc
    BY <1>1 DEF IsFrame
  <2>2. Goto(f)
    BY <1>5
  <2> HIDE DEF f
  <2>3. /\ Top' = f /\ Len(stack') = N /\ Frames' = Frames
        /\ \A n \in Frames : stack'[n] = IF n = N THEN f ELSE stack[n]
    BY <2>2, GotoTop
  <2>4. pc \notin ReturnPcs /\ pc # "take" /\ pc # "main"
    BY DEF StartPcs, ReturnPcs
  <2>5. KindOK(f)
    BY <2>1 DEF KindOK
  <2>6. LinkInv'
    BY <1>1, <1>3, <2>1, <2>2, <2>5, GotoLink DEF Urgent, Restored
  <2>7. MaskInv'
    BY <1>1, <1>2, <1>5, <2>1, <2>3, SameMask DEF Urgent
  <2>8. N > 2 => stack'[2].fn # "start"
    <3> HIDE DEF N
    <3>1. N > 2 => 2 \in Frames /\ 2 # N
      BY <1>2
    <3>2. QED BY <1>3, <2>3, <3>1
  <2>9. ~Choosing(f)
    BY <2>1 DEF Choosing
  <2> HIDE DEF N
  <2>10. QED BY <1>1, <1>3, <1>4, <1>5, <2>1, <2>3, <2>4, <2>6, <2>7, <2>8, <2>9, UrgentPrime
<1>6. CASE AppendLink \/ AppendTail \/ AppendNext
  <2>1. rq'.mask = rq.mask /\ rq'.head = rq.head
    BY <1>6 DEF AppendLink, AppendTail, AppendNext, AppendStep, StackInv, QueueLevels, QueueType
  <2>2. \E pc \in StartPcs : Goto([Top EXCEPT !.pc = pc])
    BY <1>6 DEF AppendLink, AppendTail, AppendNext, StartPcs
  <2>3. QED BY <1>5, <2>1, <2>2
<1>7. CASE AppendHead
  <2>1. /\ Return
        /\ rq' = IF rq.head[l] # NoProc THEN rq
                 ELSE [rq EXCEPT !.head[l] = Top.partner, !.mask = @ \cup {l}]
    BY <1>7 DEF AppendHead, AppendStep
  <2>2. /\ Len(stack') = N - 1 /\ Frames' = 1 .. N - 1
        /\ \A n \in Frames' : stack'[n] = stack[n] /\ n \in Frames
    BY <1>2, <2>1, ReturnSeq DEF StackInv, Frames
  <2>3. Top' = b
    BY <1>2, <2>2 DEF Top
  <2>4. /\ rq'.mask \subseteq rq.mask \cup {l} /\ rq.mask \subseteq rq'.mask
        /\ \A m \in Levels : m \in rq'.mask <=> rq'.head[m] # NoProc
    <3>1. rq \in QueueType /\ Top.partner # NoProc /\ l \in Levels
      BY <1>1, PriOfLevel DEF StackInv, QueueLevels
    <3> HIDE DEF l
    <3>2. CASE rq.head[l] # NoProc
      BY <2>1, <3>2 DEF Urgent, MaskInv
    <3>3. CASE rq.head[l] = NoProc
      <4>1. /\ rq'.mask = rq.mask \cup {l}
            /\ rq'.head = [rq.head EXCEPT ![l] = Top.partner]
        BY <2>1, <3>1, <3>3 DEF QueueType
      <4>2. \A m \in Levels : rq'.head[m] = IF m = l THEN Top.partner ELSE rq.head[m]
        BY <3>1, <4>1 DEF QueueType
      <4>3. QED BY <3>1, <4>1, <4>2 DEF Urgent, MaskInv
    <3>4. QED BY <3>2, <3>3
  <2>5. LinkInv'
    BY <1>1, <2>1, ReturnLink DEF Urgent
  <2>6. MaskInv'
    <3>1. ASSUME NEW n \in Frames, stack[n].proc = Idle
          PROVE  n \in Frames' /\ stack'[n].proc = Idle
      <4>1. n # N
        BY <1>1, <1>2, <3>1, PriOfLevel DEF Records
      <4>2. QED BY <1>2, <2>2, <3>1, <4>1
    <3>2. QED BY <2>4, <3>1 DEF Urgent, MaskInv
  <2>7. N - 1 > 2 => stack'[2].fn # "start"
    BY <1>2, <1>3, <2>2
  <2>8. b.pc = "main" \/ (b.pc = "rtcRest" /\ l <= PriOf(b.proc))
    BY <1>1, <1>2 DEF OnTopOf
  <2>9. CASE b.pc = "main"
    <3>1. b.fn = "main"
      BY <1>2, <2>9 DEF FrameOK
    <3>2. N = 2
      <4>1. N - 1 = 1
        BY <1>2, <3>1, Stacked
      <4>2. \A n \in Nat : n - 1 = 1 => n = 2
        OBVIOUS
      <4> HIDE DEF N
      <4>3. QED BY <1>2, <4>1, <4>2
    <3>3. AllNew' /\ ~Choosing(b) /\ Len(stack') = 1 /\ b.pc \notin ReturnPcs /\ b.pc # "take"
      BY <1>3, <1>4, <2>2, <2>9, <3>1, <3>2 DEF Choosing, ReturnPcs
    <3> HIDE DEF N, b
    <3>4. QED BY <2>3, <2>5, <2>6, <2>9, <3>1, <3>3, UrgentPrime
  <2>10. CASE b.pc = "rtcRest" /\ l <= PriOf(b.proc)
    <3>1. b.fn = "schedule" /\ b.proc \in Records /\ b.prev = NoProc
      BY <1>2, <2>10 DEF FrameOK, SchedulePcs, ReturnPcs
    <3>2. b.pc \notin ReturnPcs /\ b.pc # "take" /\ b.pc # "main" /\ ~Choosing(b)
      BY <2>10, <3>1, PriOfLevel DEF Choosing, ReturnPcs
    <3>3. N # 2
      BY <1>2, <3>1
    <3>4. PriOf(b.proc) <= PriOf(current)
      BY <1>2, <3>1, PriOfLevel DEF StackInv, CurrentAbove
    <3>5. \A m \in rq'.mask : m <= PriOf(current)
      <4>1. l \in Int /\ PriOf(b.proc) \in Int /\ PriOf(current) \in Int
        BY <1>1, <3>1, PriOfLevel DEF StackInv, CurrentAbove
      <4> HIDE DEF l, b, N
      <4>2. l <= PriOf(current)
        BY <2>10, <3>4, <4>1
      <4>3. QED BY <1>3, <2>4, <3>3, <4>2
    <3> HIDE DEF N, b, l
    <3>6. QED BY <1>1, <2>2, <2>3, <2>5, <2>6, <2>7, <3>1, <3>2, <3>5, UrgentPrime
  <2>11. QED BY <2>8, <2>9, <2>10
<1>8. QED BY <1>6, <1>7 DEF StartStep

\* The signal handler, which runs with interrupts disabled.
LEMMA HandlerUrgent ==
  ASSUME StackInv, Urgent, HandlerStep
  PROVE  Urgent'
<1>1. /\ Top.pc \in HandlerPcs /\ IsFrame(Top) /\ Top.fn = "handler" /\ Top.proc = NoProc
      /\ current \in Records /\ FrameOK(Top)
  <2>1. Top.pc \in HandlerPcs
    BY DEF HandlerStep, HandleUser, HandleTimeout, TimeoutDue, TimeoutRearm, HandlerReturn,
           HandlerExit, HandlerRestore, At, HandlerPcs
  <2>2. FrameOK(Top) /\ IsFrame(Top) /\ current \in Records
    BY AtFacts DEF HandlerStep, HandleUser, HandleTimeout, TimeoutDue, TimeoutRearm,
                   HandlerReturn, HandlerExit, HandlerRestore
  <2>3. QED BY <2>1, <2>2 DEF FrameOK
<1>2. /\ ~Choosing(Top) /\ ~Booting /\ ~intr
      /\ \A m \in rq.mask : m <= PriOf(Restored)
      /\ Len(stack) > 2 => stack[2].fn # "start"
      /\ Linkage /\ MaskInv
  <2>1. Top.pc # "main"
    BY <1>1 DEF HandlerPcs
  <2>2. QED BY <1>1, <2>1 DEF Choosing, Booting, Urgent, LinkInv, Quiet, Urgency, NoneAbove
<1>3. /\ {"user", "timeout", "due", "exit", "leave"} \subseteq HandlerPcs \ ReturnPcs
      /\ {"userRet", "dueRet"} \subseteq HandlerPcs
  BY DEF HandlerPcs, ReturnPcs
<1>4. ~Choosing(Top) /\ (Top.pc \notin ReturnPcs => Top.prev = NoProc /\ Restored = current)
  BY <1>1, <1>2 DEF FrameOK, Restored
\* The handler goes on.
<1>5. ASSUME NEW f, Goto(f), f.fn = "handler", f.base = Top.base, f.proc = NoProc, f.prev = NoProc,
             f.pc \in HandlerPcs, current' = Restored, rq' = rq, intr' = FALSE
      PROVE  Urgent'
  <2>1. /\ Top' = f /\ Len(stack') = Len(stack) /\ Frames' = Frames
        /\ \A n \in Frames : stack'[n] = IF n = Len(stack) THEN f ELSE stack[n]
        /\ Top = stack[Len(stack)]
    BY <1>5, GotoTop, Stacked
  <2>2. LinkInv'
    BY <1>1, <1>2, <1>5, GotoLink DEF Urgent, KindOK
  <2>3. MaskInv'
    BY <1>1, <1>2, <1>5, <2>1, SameMask
  <2>4. f.pc # "main" /\ f.pc # "take" /\ ~Choosing(f)
    BY <1>5 DEF HandlerPcs, Choosing
  <2>5. Len(stack') > 2 => stack'[2].fn # "start"
    BY <1>2, <1>5, <2>1 DEF Frames
  <2>6. QED BY <1>2, <1>5, <2>1, <2>2, <2>3, <2>4, <2>5, UrgentPrime
<1>6. ASSUME NEW pc \in HandlerPcs, NEW t,
             \/ Top.prev = NoProc /\ (Goto([Top EXCEPT !.pc = pc]) \/ Goto([Top EXCEPT !.pc = pc, !.time = t]))
             \/ Goto([Top EXCEPT !.pc = pc, !.prev = NoProc]),
             current' = Restored, rq' = rq, intr' = FALSE
      PROVE  Urgent'
  <2> DEFINE a == [Top EXCEPT !.pc = pc]
             b == [Top EXCEPT !.pc = pc, !.time = t]
             c == [Top EXCEPT !.pc = pc, !.prev = NoProc]
             Fits(f) == f.fn = "handler" /\ f.base = Top.base /\ f.proc = NoProc /\ f.pc = pc
  <2>1. Fits(a) /\ a.prev = Top.prev /\ Fits(b) /\ b.prev = Top.prev /\ Fits(c) /\ c.prev = NoProc
    BY <1>1 DEF IsFrame
  <2>2. \/ Top.prev = NoProc /\ (Goto(a) \/ Goto(b))
        \/ Goto(c)
    BY <1>6
  <2> HIDE DEF a, b, c
  <2>3. QED BY <1>5, <1>6, <2>1, <2>2
\* It calls readyProcessIfNecessary().
<1>7. ASSUME Top.prev = NoProc, NEW q \in Records, NEW pc \in {"userRet", "dueRet"},
             readyProcessIfNecessary(q, [Top EXCEPT !.pc = pc]), current' = current, intr' = FALSE
      PROVE  Urgent'
  <2> DEFINE f == [Top EXCEPT !.pc = pc]
  <2>1. /\ IsFrame(f) /\ f.fn = Top.fn /\ f.base = Top.base /\ f.proc = Top.proc
        /\ f.prev = NoProc /\ f.pc = pc
    BY <1>1, <1>7 DEF IsFrame
  <2>2. readyProcessIfNecessary(q, f)
    BY <1>7
  <2> HIDE DEF f
  <2>3. f.pc \in ReturnPcs /\ KindOK(f)
    BY <1>1, <1>3, <1>7, <2>1 DEF KindOK, ReturnPcs
  <2>4. QED BY <1>1, <1>2, <1>7, <2>1, <2>2, <2>3, WakeUrgent
<1>8. CASE HandleUser
  <2>1. Top.prev = NoProc /\ current' = current /\ intr' = FALSE /\ Restored = current
    BY <1>2, <1>3, <1>8, AtFacts DEF HandleUser, Urgent, Quiet, Restored
  <2>2. QED BY <1>3, <1>6, <1>7, <1>8, <2>1 DEF HandleUser
<1>9. CASE HandleTimeout
  <2>1. Top.prev = NoProc /\ current' = Restored /\ rq' = rq /\ intr' = FALSE
    BY <1>2, <1>3, <1>9, AtFacts DEF HandleTimeout, procVars, Restored
  <2>2. QED BY <1>3, <1>6, <1>9, <2>1 DEF HandleTimeout
<1>10. CASE TimeoutDue
  <2>1. Top.prev = NoProc
    BY <1>3, <1>10, AtFacts DEF TimeoutDue
  <2>2. CASE timerQ[1].proc \notin Records
    BY <1>10, <2>2, SameUrgent DEF TimeoutDue, Crash, procVars
  <2>3. CASE timerQ[1].proc \in Records
    <3>1. /\ readyProcessIfNecessary(timerQ[1].proc, [Top EXCEPT !.pc = "dueRet"])
          /\ current' = current /\ intr' = FALSE
      BY <1>2, <1>10, <2>3 DEF TimeoutDue
    <3>2. QED BY <1>7, <2>1, <2>3, <3>1
  <2>4. QED BY <2>2, <2>3
<1>11. CASE TimeoutRearm
  <2>1. Top.prev = NoProc /\ current' = Restored /\ rq' = rq /\ intr' = FALSE
    BY <1>2, <1>3, <1>11, AtFacts DEF TimeoutRearm, procVars, Restored
  <2>2. QED BY <1>3, <1>6, <1>11, <2>1 DEF TimeoutRearm
<1>12. CASE HandlerReturn
  <2>1. current' = Restored /\ rq' = rq /\ intr' = FALSE
    BY <1>2, <1>12 DEF HandlerReturn
  <2>2. QED BY <1>3, <1>6, <1>12, <2>1 DEF HandlerReturn
<1>13. CASE HandlerExit
  <2>1. Top.prev = NoProc /\ current' = current /\ rq' = rq /\ intr' = FALSE /\ Restored = current
    BY <1>3, <1>13, AtFacts DEF HandlerExit, procVars, Restored
  <2> DEFINE f == [Top EXCEPT !.pc = "leave"]
  <2>2. CASE Goto(f)
    BY <1>3, <1>6, <2>1, <2>2
  <2>3. CASE Call(f, ScheduleFrame(PriOf(current)))
    <3>1. f.fn = Top.fn /\ f.base = Top.base /\ f.proc = Top.proc /\ f.prev = NoProc /\ f.pc = "leave"
      BY <1>1, <2>1 DEF IsFrame
    <3> HIDE DEF f
    <3>2. KindOK(f) /\ OnTopOf(ScheduleFrame(PriOf(current)), f)
      BY <1>1, <1>3, <3>1 DEF KindOK, OnTopOf, ScheduleFrame, Frame
    <3>3. QED BY <1>1, <1>2, <2>1, <2>3, <3>1, <3>2, PushSchedule DEF MaskInv
  <2>4. QED BY <1>13, <2>2, <2>3 DEF HandlerExit
<1>14. CASE HandlerRestore
  <2> DEFINE N == Len(stack)
             b == stack[N - 1]
  <2>1. /\ Return /\ current' = current /\ rq' = rq /\ Top.pc = "leave" /\ Top.prev = NoProc
        /\ Restored = current
    BY <1>3, <1>14, AtFacts DEF HandlerRestore, procVars, Restored
  <2>2. /\ N \in Nat /\ N > 1 /\ Frames = 1 .. N /\ Top = stack[N] /\ N - 1 \in Frames /\ N \in Frames
        /\ FrameOK(b) /\ stack[1].fn = "main" /\ KindOK(b) /\ OnTopOf(Top, b)
    BY <1>1, <1>2, Stacked DEF Linkage
  <2>3. /\ Len(stack') = N - 1 /\ Frames' = 1 .. N - 1
        /\ \A n \in Frames' : stack'[n] = stack[n] /\ n \in Frames
    BY <2>1, <2>2, ReturnSeq DEF StackInv, Frames
  <2>4. Top' = b
    BY <2>2, <2>3 DEF Top
  <2>5. LinkInv'
    BY <1>1, <2>1, ReturnLink DEF Urgent
  <2>6. MaskInv'
    <3>1. ASSUME NEW n \in Frames, stack[n].proc = Idle
          PROVE  n \in Frames' /\ stack'[n].proc = Idle
      <4>1. n # N
        BY <1>1, <2>2, <3>1, PriOfLevel DEF Records
      <4>2. QED BY <2>2, <2>3, <3>1, <4>1
    <3>2. QED BY <1>2, <2>1, <3>1, SameMask
  <2>7. /\ b.fn # "handler" /\ b.pc # "main" /\ b.pc \notin ReturnPcs /\ ~Choosing(b)
        /\ b.prev = NoProc /\ b.pc # "take"
    <3>1. b.fn # "handler" /\ b.pc # "main" /\ b.pc \notin ReturnPcs /\ ~Choosing(b)
      BY <1>1, <2>2 DEF OnTopOf
    <3>2. QED BY <2>2, <3>1 DEF FrameOK, KindOK, Choosing, SchedulePcs, StartPcs, HandlerPcs
  <2>8. N - 1 > 1 => stack[2].fn # "start" /\ (N - 1 > 2 => stack'[2] = stack[2])
    BY <1>2, <2>2, <2>3
  <2>9. N - 1 = 2 => b = stack[2]
    BY <2>2
  <2>10. ~(b.fn = "start" /\ N - 1 = 2)
    BY <2>2, <2>8, <2>9
  <2>11. N - 1 > 2 => stack'[2].fn # "start"
    BY <2>2, <2>8
  <2> HIDE DEF N, b
  <2>12. QED BY <1>2, <2>1, <2>3, <2>4, <2>5, <2>6, <2>7, <2>10, <2>11, UrgentPrime
<1>15. QED BY <1>8, <1>9, <1>10, <1>11, <1>12, <1>13, <1>14 DEF HandlerStep

\* A signal is delivered only when run() has taken a process, and never to an
\* activation that is about to choose one.
LEMMA InterruptUrgent ==
  ASSUME StackInv, NoneEnds, Urgent, Orderly, NEW src, Interrupt(src)
  PROVE  Urgent'
<1>1. intr /\ intr' = FALSE /\ rq' = rq /\ current' = current /\ Booted
  BY DEF Interrupt, Orderly, procVars
<1>2. FrameOK(Top) /\ Len(stack) \in Nat /\ Top = stack[Len(stack)] /\ KindOK(Top)
  BY Stacked DEF Urgent, LinkInv, Linkage
<1>3. Top.fn # "handler" /\ Top.pc \notin ReturnPcs /\ Top.prev = NoProc
  BY <1>1, <1>2 DEF Urgent, Quiet, FrameOK
<1>4. AllNew => Len(stack) > 1 /\ stack[2].proc # NoProc
  BY <1>1 DEF Booted, AllNew
<1>5. ~Choosing(Top) /\ ~Booting
  <2>1. Choosing(Top) => Len(stack) = 2 /\ AllNew
    BY <1>1 DEF Urgent, Quiet
  <2>2. ~Choosing(Top)
    BY <1>2, <1>4, <2>1 DEF Choosing
  <2>3. Booting => AllNew
    BY DEF Urgent, Quiet
  <2>4. Top.pc = "main" => Len(stack) = 1
    BY <1>2, Stacked DEF FrameOK
  <2>5. Top.fn = "start" => Top.proc = NoProc
    BY <1>2 DEF FrameOK
  <2>6. ~Booting
    BY <1>2, <1>4, <2>3, <2>4, <2>5 DEF Booting
  <2>7. QED BY <2>2, <2>6
<1>6. Top.pc # "main"
  BY <1>5 DEF Booting
<1>7. /\ Len(stack') = Len(stack) + 1
      /\ \A n \in Frames : stack'[n] = IF n = Len(stack) THEN Top ELSE stack[n]
      /\ stack'[Len(stack) + 1] = HandlerFrame(src)
  <2>1. stack' = Append(stack, HandlerFrame(src))
    BY DEF Interrupt
  <2> DEFINE h == HandlerFrame(src)
  <2> HIDE DEF h
  <2>2. /\ Len(stack') = Len(stack) + 1
        /\ \A n \in Frames : stack'[n] = stack[n]
        /\ stack'[Len(stack) + 1] = h
    BY <2>1, PushSeq DEF StackInv, h
  <2>3. QED BY <1>2, <2>2 DEF h
<1>8. QED BY <1>1, <1>2, <1>3, <1>5, <1>6, <1>7, PushHandler

LEMMA EnvironmentUrgent ==
  ASSUME StackInv, NoneEnds, Urgent, Orderly, Environment
  PROVE  Urgent'
<1>1. CASE Clock \/ AlarmFires
  BY <1>1, SameUrgent DEF Clock, AlarmFires, procVars, cpuVars
<1>2. CASE ElapsedInterrupt \/ TimeoutInterrupt \/ \E u \in Intrs : UserInterrupt(u)
  BY <1>2, InterruptUrgent DEF ElapsedInterrupt, TimeoutInterrupt, UserInterrupt
<1>3. QED BY <1>1, <1>2 DEF Environment

\* Nobody ends: only terminate() sets the state `done'.
LEMMA NextNoneEnds ==
  ASSUME StackInv, NoneEnds, Urgent, [Next]_vars
  PROVE  NoneEnds'
<1> USE DEF NoneEnds
<1>1. CASE MainStep
  BY <1>1 DEF MainStep, MainStart, MainRun, start, procVars
<1>2. CASE StartStep
  BY <1>2 DEF StartStep, AppendLink, AppendTail, AppendNext, AppendHead, AppendStep
<1>3. CASE ScheduleStep
  BY <1>3 DEF ScheduleStep, SelectSame, SelectNone, SelectNew, Take, Crash, Load, Finish, NoPartner,
              WakePartner, PartnerReturn, readyProcessIfNecessary, procVars
<1>4. CASE RtcEnter
  BY <1>4 DEF RtcEnter, start
<1>5. CASE RtcRest
  <2>1. Top.pc = "rtcRest" /\ KindOK(Top)
    BY <1>5, AtFacts, Stacked DEF RtcRest, Urgent, LinkInv, Linkage
  <2>2. ~Top.act.term
    BY <2>1 DEF KindOK, StartPcs, HandlerPcs
  <2>3. state' = IF Top.flag THEN state ELSE [state EXCEPT ![Top.proc] = "quiescent"]
    BY <1>5, <2>2 DEF RtcRest
  <2>4. QED BY <2>3
<1>6. CASE EnableStep
  BY <1>6 DEF EnableStep, EnableBegin, EnableInactive, EnableChanIn, EnableChanOut, EnableSkip,
              EnableTimeout, EnableInsert, EnableIntr, EnableEnd, EnableDone, Crash, procVars
<1>7. CASE DisableStep
  BY <1>7 DEF DisableStep, DisableInactive, DisableChanIn, DisableOutOrSkip, DisableTimeout,
              DisableIntr, TransferMessage, TransferCount, TransferNothing, Crash, procVars
<1>8. CASE HandlerStep
  BY <1>8 DEF HandlerStep, HandleUser, HandleTimeout, TimeoutDue, TimeoutRearm, HandlerReturn,
              HandlerExit, HandlerRestore, readyProcessIfNecessary, Crash, procVars
<1>9. CASE Environment
  <2>1. ASSUME NEW src, Interrupt(src)
        PROVE  state' = state
    BY <2>1 DEF Interrupt, procVars
  <2>2. CASE ElapsedInterrupt \/ TimeoutInterrupt \/ \E u \in Intrs : UserInterrupt(u)
    BY <2>1, <2>2 DEF ElapsedInterrupt, TimeoutInterrupt, UserInterrupt
  <2>3. CASE Clock \/ AlarmFires
    BY <2>3 DEF Clock, AlarmFires, procVars
  <2>4. QED BY <1>9, <2>2, <2>3 DEF Environment
<1>10. CASE UNCHANGED vars
  BY <1>10 DEF vars, procVars
<1>11. CASE DISABLE \/ SigReturn
  BY <1>11 DEF DISABLE, SigReturn, procVars
<1>12. QED BY <1>1, <1>2, <1>3, <1>4, <1>5, <1>6, <1>7, <1>8, <1>9, <1>10, <1>11 DEF Next, CpuStep, RtcStep

-----------------------------------------------------------------------------
LEMMA InitTime ==
  ASSUME Init
  PROVE  TimeInv
<1>1. Tick \in Nat \ {0}
  BY ApplicationAssumption
<1>2. now = 0 /\ currentTime = 0 /\ phase = 0 /\ returning = << >>
  BY DEF Init
<1>3. tick \in BOOLEAN /\ ~tick
  BY Zenon DEF Init
<1>4. QED BY <1>1, <1>2, <1>3 DEF TimeInv

LEMMA InitUrgency ==
  ASSUME Init
  PROVE  NoneEnds /\ Urgent
<1> DEFINE f == Frame("main", "main", 0, None)
<1>1. stack = <<f>> /\ current = Idle /\ intr = TRUE
  BY DEF Init
<1>2. /\ f.fn = "main" /\ f.pc = "main" /\ f.proc = NoProc /\ f.prev = NoProc
  BY DEF Frame
<1> HIDE DEF f
<1>3. Len(stack) = 1 /\ stack[1] = f /\ Frames = {1} /\ Top = f
  BY <1>1 DEF Frames, Top
<1>4. NoneEnds /\ AllNew
  BY PriOfLevel DEF Init, NoneEnds, AllNew, Records
<1>5. LinkInv
  BY <1>2, <1>3 DEF LinkInv, Linkage, CurrentOwed, Innermost, KindOK
<1>6. Quiet
  BY <1>2, <1>3, <1>4 DEF Quiet, Choosing, ReturnPcs
<1>7. MaskInv
  <2> DEFINE e == EmptyQueues
  <2>1. e \in QueueType /\ e.mask = {} /\ \A l \in Levels : e.head[l] = NoProc /\ e.tail[l] = NoProc
    BY DEF EmptyQueues, QueueType
  <2>2. rq = append(e, Idle) /\ Idle \in Records /\ Idle # NoProc /\ PriOf(Idle) = PRI_MIN /\ PRI_MIN \in Levels
    BY PriOfLevel DEF Init, Records, PriOf, Levels, PRI_MIN, PRI_MAX
  <2> HIDE DEF e
  <2>3. rq.mask = {PRI_MIN} /\ \A l \in Levels : rq.head[l] = IF l = PRI_MIN THEN Idle ELSE NoProc
    BY <2>1, <2>2 DEF append, QueueType
  <2>4. QED BY <2>2, <2>3 DEF MaskInv
<1>8. Urgency
  BY <1>2, <1>3 DEF Urgency, Choosing, Booting
<1>9. QED BY <1>4, <1>5, <1>6, <1>7, <1>8 DEF Urgent

LEMMA DisableUrgent ==
  ASSUME StackInv, Urgent, DISABLE
  PROVE  Urgent'
<1>1. At("enable") \/ At("disable")
  BY DEF DISABLE, Enabling, Disabling
<1>2. Top.pc \in QuietPcs /\ Top.prev = NoProc /\ Top.proc \in Procs
  BY <1>1, SameTop, QuietPcFacts
<1>3. stack' = stack /\ rq' = rq /\ current' = current
  BY DEF DISABLE, procVars
<1>4. QED BY <1>2, <1>3, QuietPcUrgent

LEMMA SameTime ==
  ASSUME TimeInv, UNCHANGED <<now, hwVars>>
  PROVE  TimeInv'
BY DEF TimeInv, hwVars, tickVars

\* Whatever the CPU executes, it does not move the clock.
LEMMA CpuTime ==
  ASSUME TimeInv, Len(stack) \in Nat \ {0}, CpuStep
  PROVE  TimeInv'
<1>1. CASE MainStep \/ StartStep
  BY <1>1, SameTime DEF MainStep, MainStart, MainRun, StartStep, AppendLink, AppendTail, AppendNext,
                        AppendHead, AppendStep, timeVars
<1>2. CASE ScheduleStep
  BY <1>2, SameTime DEF ScheduleStep, SelectSame, SelectNone, SelectNew, Take, Crash, Load, Finish,
                        NoPartner, WakePartner, PartnerReturn, timeVars
<1>3. CASE RtcStep
  BY <1>3, SameTime DEF RtcStep, RtcEnter, RtcRest, timeVars
<1>4. CASE EnableStep
  BY <1>4, SameTime DEF EnableStep, EnableBegin, EnableInactive, EnableChanIn, EnableChanOut,
                        EnableSkip, EnableTimeout, EnableInsert, EnableIntr, EnableEnd, EnableDone,
                        Crash, timeVars
<1>5. CASE DisableStep
  BY <1>5, SameTime DEF DisableStep, DisableInactive, DisableChanIn, DisableOutOrSkip,
                        DisableTimeout, DisableIntr, TransferMessage, TransferCount,
                        TransferNothing, Crash, timeVars
<1>6. CASE HandleUser \/ HandleTimeout \/ TimeoutDue \/ TimeoutRearm \/ HandlerReturn \/ HandlerExit \/ DISABLE
  BY <1>6, SameTime DEF HandleUser, HandleTimeout, TimeoutDue, TimeoutRearm, HandlerReturn,
                        HandlerExit, DISABLE, Crash, timeVars
<1>7. CASE HandlerRestore
  <2>1. returning' = Append(returning, Len(stack) - 1) /\ UNCHANGED <<now, tickVars>>
    BY <1>7 DEF HandlerRestore, timeVars
  <2>2. QED BY <2>1 DEF TimeInv, tickVars
<1>8. CASE SigReturn
  <2>1. /\ returning # << >> /\ returning' = SubSeq(returning, 1, Len(returning) - 1)
        /\ UNCHANGED <<now, tickVars>>
    BY <1>8 DEF SigReturn, Returning, timeVars
  <2>2. returning' \in Seq(Nat)
    BY <2>1 DEF TimeInv
  <2>3. QED BY <2>1, <2>2 DEF TimeInv, tickVars
<1>9. QED BY <1>1, <1>2, <1>3, <1>4, <1>5, <1>6, <1>7, <1>8 DEF CpuStep, HandlerStep

LEMMA EnvironmentTime ==
  ASSUME TimeInv, Environment
  PROVE  TimeInv'
<1>1. Tick \in Nat \ {0}
  BY ApplicationAssumption
<1>2. CASE ElapsedInterrupt
  <2>1. /\ UNCHANGED <<now, returning, phase>>
        /\ \/ tick /\ currentTime' = currentTime + Tick /\ tick' = FALSE
           \/ UNCHANGED <<currentTime, tick>>
    BY <1>2 DEF ElapsedInterrupt, Interrupt, tickVars
  <2>2. CASE tick /\ currentTime' = currentTime + Tick /\ tick' = FALSE
    <3>1. currentTime' + phase <= now /\ currentTime' \in Nat
      BY <1>1, <2>2 DEF TimeInv
    <3>2. tick' \in BOOLEAN /\ ~tick'
      BY <2>2
    <3>3. QED BY <2>1, <3>1, <3>2 DEF TimeInv
  <2>3. CASE UNCHANGED <<currentTime, tick>>
    BY <2>1, <2>3, SameTime DEF hwVars, tickVars
  <2>4. QED BY <2>1, <2>2, <2>3
<1>3. CASE TimeoutInterrupt \/ \E u \in Intrs : UserInterrupt(u)
  <2>1. UNCHANGED <<now, returning, tickVars>>
    BY <1>3 DEF TimeoutInterrupt, UserInterrupt, Interrupt
  <2>2. QED BY <2>1, SameTime DEF hwVars
<1>4. CASE Clock
  <2>1. /\ now' = now + 1 /\ UNCHANGED <<currentTime, returning>>
        /\ \/ phase + 1 < Tick /\ phase' = phase + 1 /\ tick' = tick
           \/ phase + 1 = Tick /\ phase' = 0 /\ tick' = TRUE
    BY <1>4 DEF Clock
  <2>2. now' \in Nat /\ phase' \in 0 .. Tick - 1 /\ currentTime' + phase' <= now'
    BY <1>1, <2>1 DEF TimeInv
  <2>3. tick' \in BOOLEAN
    BY <2>1 DEF TimeInv
  <2>4. ASSUME tick'
        PROVE  currentTime' + phase' + Tick <= now'
    <3>1. CASE phase + 1 < Tick /\ phase' = phase + 1 /\ tick' = tick
      <4>1. currentTime + phase + Tick <= now
        BY <2>4, <3>1 DEF TimeInv
      <4>2. QED BY <1>1, <2>1, <3>1, <4>1 DEF TimeInv
    <3>2. CASE phase + 1 = Tick /\ phase' = 0 /\ tick' = TRUE
      BY <1>1, <2>1, <3>2 DEF TimeInv
    <3>3. QED BY <2>1, <3>1, <3>2
  <2>5. QED BY <2>1, <2>2, <2>3, <2>4 DEF TimeInv
<1>5. CASE AlarmFires
  BY <1>5, SameTime DEF AlarmFires, hwVars
<1>6. QED BY <1>2, <1>3, <1>4, <1>5 DEF Environment

LEMMA NextUrgency ==
  ASSUME Orderly, UrgencyInv, [Next]_vars
  PROVE  UrgencyInv'
<1>1. StackInv /\ NoneEnds /\ Urgent
  BY DEF UrgencyInv, Urgent
<1>2. StackInv'
  BY <1>1, NextStackInv
<1>3. NoneEnds'
  BY <1>1, NextNoneEnds
<1>4. Urgent'
  <2>1. CASE MainStep
    BY <1>1, <2>1, MainUrgent
  <2>2. CASE StartStep
    BY <1>1, <2>2, StartUrgent
  <2>3. CASE ScheduleStep
    BY <1>1, <2>3, SelectSameUrgent, SelectNoneUrgent, SelectNewUrgent, TakeUrgent, LoadUrgent,
       FinishUrgent, PartnerUrgent DEF ScheduleStep
  <2>4. CASE RtcStep
    BY <1>1, <2>4, RtcUrgent
  <2>5. CASE EnableStep
    BY <1>1, <2>5, EnableMoves, QuietPcUrgent
  <2>6. CASE DisableStep
    BY <1>1, <2>6, DisableMoves, QuietPcUrgent
  <2>7. CASE HandlerStep
    BY <1>1, <2>7, HandlerUrgent
  <2>8. CASE Environment
    BY <1>1, <2>8, EnvironmentUrgent
  <2>9. CASE UNCHANGED vars
    BY <1>1, <2>9, SameUrgent DEF vars, procVars, cpuVars
  <2>10. CASE DISABLE \/ SigReturn
    BY <1>1, <2>10, DisableUrgent, SameUrgent DEF SigReturn, procVars, cpuVars
  <2>11. QED BY <2>1, <2>2, <2>3, <2>4, <2>5, <2>6, <2>7, <2>8, <2>9, <2>10 DEF Next, CpuStep
<1>5. TimeInv'
  <2>1. CASE CpuStep
    <3>1. Len(stack) \in Nat \ {0}
      BY <1>1, TopFacts DEF StackInv, StackShape, OrderInv, Frames
    <3>2. QED BY <2>1, <3>1, CpuTime DEF UrgencyInv
  <2>2. CASE Environment
    BY <2>2, EnvironmentTime DEF UrgencyInv
  <2>3. CASE UNCHANGED vars
    BY <2>3, SameTime DEF UrgencyInv, vars, timeVars
  <2>4. QED BY <2>1, <2>2, <2>3 DEF Next
<1>6. QED BY <1>2, <1>3, <1>4, <1>5 DEF UrgencyInv, Urgent

\* In an orderly application the whole invariant holds.
THEOREM UrgencyInvariant == Orderly /\ Spec => []UrgencyInv
<1> DEFINE Inv == Orderly /\ UrgencyInv
<1>1. Orderly /\ Init => Inv
  BY InitStackInv, InitUrgency, InitTime DEF UrgencyInv, Urgent
<1>2. Inv /\ [Next]_vars => Inv'
  <2> SUFFICES ASSUME Inv, [Next]_vars
               PROVE  Inv'
    OBVIOUS
  <2>1. UrgencyInv'
    BY NextUrgency
  <2>2. Orderly'
    BY DEF Orderly, PriOf
  <2>3. QED BY <2>1, <2>2
<1>3. Inv => UrgencyInv
  OBVIOUS
<1> HIDE DEF Inv
<1>4. QED BY <1>1, <1>2, <1>3, PTL DEF Spec

\* Whose code executes.
LEMMA CurrentRuns == UrgencyInv => CurrentIsRunning
<1> SUFFICES ASSUME UrgencyInv, Top.fn = "schedule", Top.proc # NoProc, Top.pc # "partnerRet"
             PROVE  current = Top.proc
  BY DEF CurrentIsRunning
<1>1. Top.pc \notin ReturnPcs /\ Top.prev = NoProc /\ ~Choosing(Top)
  BY Stacked DEF UrgencyInv, LinkInv, Linkage, KindOK, FrameOK, SchedulePcs, ReturnPcs, Choosing
<1>2. Innermost(Len(stack))
  BY Stacked DEF UrgencyInv, Innermost
<1>3. Restored = Top.proc
  BY <1>1, <1>2, CurrentHere, Stacked DEF UrgencyInv
<1>4. QED BY <1>1, <1>3 DEF Restored

\* `current' is the process whose code executes (CurrentIsRunning): it was
\* restored, or it is the innermost one.
THEOREM CurrentIsRunningHolds == Orderly /\ Spec => []CurrentIsRunning
BY CurrentRuns, UrgencyInvariant, PTL

\* While the code of a process runs with interrupts enabled nobody more urgent
\* is ready (NoInversion): readyProcessIfNecessary() and schedule() at the end
\* of the outermost handler preempt in time.
THEOREM NoInversionHolds == Orderly /\ Spec => []NoInversion
<1>1. UrgencyInv => NoInversion
  <2> SUFFICES ASSUME UrgencyInv, intr, Top.fn = "schedule", Top.proc # NoProc
               PROVE  highest_ready(rq.mask) <= PriOf(Top.proc)
    BY DEF NoInversion
  <2>1. ~Choosing(Top) /\ ~Booting /\ Top.proc \in Records
    BY Stacked DEF UrgencyInv, Choosing, Booting, FrameOK
  <2>2. Innermost(Len(stack))
    BY Stacked DEF UrgencyInv, Innermost
  <2>3. Restored = Top.proc
    BY <2>1, <2>2, CurrentHere, Stacked DEF UrgencyInv
  <2>4. \A m \in rq.mask : m <= PriOf(Top.proc)
    BY <2>1, <2>3 DEF UrgencyInv, Urgency, NoneAbove
  <2>5. rq.mask \in SUBSET Levels /\ PriOf(Top.proc) \in Levels
    BY <2>1, PriOfLevel DEF UrgencyInv, StackInv, QueueLevels, QueueType
  <2>6. QED BY <2>4, <2>5, HighestReady DEF Levels, PRI_MIN, PRI_MAX
<1>2. QED BY <1>1, UrgencyInvariant, PTL

\* take() is called for a level whose queue has a process (HeadToTake): the idle
\* process is ready, or runs below with a base that keeps schedule() from
\* choosing level 0.
THEOREM HeadToTakeHolds == Orderly /\ Spec => []HeadToTake
<1>1. UrgencyInv => HeadToTake
  BY SomebodyToTake DEF UrgencyInv, Urgent, HeadToTake
<1>2. QED BY <1>1, UrgencyInvariant, PTL

-----------------------------------------------------------------------------
\* How deep the stack gets: every activation, but main(), the one that chooses
\* a process and two that can only lie directly on main(), is charged to an
\* activation of schedule() and thereby to a priority, at most one of each kind
\* to each.

Running    == {n \in Frames : stack[n].proc # NoProc}
Starts     == {n \in Frames : n > 2 /\ stack[n].fn = "start"}
Interrupts == {n \in Frames : n > 2 /\ stack[n].fn = "handler"}

Priorities  == {PriOf(p) : p \in Records}
StarterPris == {PriOf(p) : p \in Starters}

\* The activation that a handler interrupted, or that called the start() it
\* interrupted.
Payer(n) == IF stack[n - 1].fn = "start" THEN n - 2 ELSE n - 1

LEMMA FinitePriorities ==
  /\ IsFiniteSet(Priorities) /\ Cardinality(Priorities) \in Nat
  /\ IsFiniteSet(StarterPris) /\ Cardinality(StarterPris) \in Nat
<1>1. IsFiniteSet(Levels)
  <2>1. 0 \in Int /\ 7 \in Int
    OBVIOUS
  <2>2. IsFiniteSet(0 .. 7)
    BY ONLY <2>1, FS_Interval
  <2>3. QED BY <2>2 DEF Levels, PRI_MIN, PRI_MAX
<1>2. Priorities \subseteq Levels /\ StarterPris \subseteq Levels
  BY PriOfLevel DEF Priorities, StarterPris, Starters, Records
<1>3. QED BY <1>1, <1>2, FS_Subset, FS_CardinalityType

\* No more members than there are priorities to charge them to.
LEMMA Charged ==
  ASSUME NEW S, NEW T, NEW f \in [S -> T], IsFiniteSet(T),
         \A m, n \in S : f[m] = f[n] => m = n
  PROVE  IsFiniteSet(S) /\ Cardinality(S) \in Nat /\ Cardinality(S) <= Cardinality(T)
<1>1. f \in Injection(S, T)
  BY DEF Injection, IsInjective
<1>2. QED BY <1>1, FS_Injection, FS_CardinalityType

LEMMA UnionBound ==
  ASSUME NEW S, NEW T, IsFiniteSet(S), IsFiniteSet(T)
  PROVE  /\ IsFiniteSet(S \cup T) /\ Cardinality(S \cup T) \in Nat
         /\ Cardinality(S \cup T) <= Cardinality(S) + Cardinality(T)
<1>1. IsFiniteSet(S \cup T) /\ IsFiniteSet(S \cap T)
  BY FS_Union, FS_Subset
<1>2. /\ Cardinality(S \cup T) \in Nat /\ Cardinality(S \cap T) \in Nat
      /\ Cardinality(S) \in Nat /\ Cardinality(T) \in Nat
  BY <1>1, FS_CardinalityType
<1>3. Cardinality(S \cup T) = Cardinality(S) + Cardinality(T) - Cardinality(S \cap T)
  BY FS_Union
<1>4. \A a, b, c, d \in Nat : a = b + c - d => a <= b + c
  OBVIOUS
<1>5. QED BY <1>1, <1>2, <1>3, <1>4

\* Two activations that run processes of one priority are one.
LEMMA SamePriority ==
  ASSUME UrgencyInv, NEW m \in Frames, NEW n \in Frames,
         stack[m].proc # NoProc, stack[n].proc # NoProc,
         PriOf(stack[m].proc) = PriOf(stack[n].proc)
  PROVE  m = n
<1>1. StackPriority
  BY StackInvOrders DEF UrgencyInv
<1>2. PriOf(stack[m].proc) \in Int /\ m \in Int /\ n \in Int
  BY Stacked, PriOfLevel DEF UrgencyInv, FrameOK
<1>3. ~(PriOf(stack[m].proc) < PriOf(stack[n].proc)) /\ ~(PriOf(stack[n].proc) < PriOf(stack[m].proc))
  BY <1>2
<1>4. ~(m < n) /\ ~(n < m)
  BY <1>1, <1>3 DEF StackPriority
<1>5. QED BY <1>2, <1>4

\* What lies below a start() and below a handler.
LEMMA BelowStart ==
  ASSUME UrgencyInv, NEW n \in Starts
  PROVE  /\ n - 1 \in Frames /\ stack[n - 1].fn = "schedule"
         /\ stack[n - 1].proc \in Starters
<1>1. n \in Frames /\ n > 2 /\ n - 1 \in Frames /\ n - 1 # 1 /\ stack[n].fn = "start"
  BY Stacked DEF Starts, UrgencyInv
<1>2. OnTopOf(stack[n], stack[n - 1]) /\ FrameOK(stack[n - 1]) /\ stack[n - 1].fn # "main"
  BY <1>1, Stacked DEF UrgencyInv, LinkInv, Linkage
<1>3. stack[n - 1].pc # "main"
  BY <1>2 DEF FrameOK
<1>4. stack[n - 1].pc = "rtcRest" /\ stack[n - 1].proc \in Starters
  BY <1>1, <1>2, <1>3 DEF OnTopOf
<1>5. QED BY <1>1, <1>2, <1>4 DEF FrameOK, SchedulePcs

LEMMA BelowHandler ==
  ASSUME UrgencyInv, NEW n \in Interrupts
  PROVE  /\ n - 1 \in Frames /\ stack[n - 1].fn \in {"schedule", "start"}
         /\ Payer(n) \in Frames /\ stack[Payer(n)].proc # NoProc
         /\ stack[n - 1].fn = "schedule" => Payer(n) = n - 1
         /\ stack[n - 1].fn = "start" => n - 1 \in Starts /\ Payer(n) = n - 2
<1>1. n \in Frames /\ n > 2 /\ n - 1 \in Frames /\ n - 1 # 1 /\ stack[n].fn = "handler"
  BY Stacked DEF Interrupts, UrgencyInv
<1>2. OnTopOf(stack[n], stack[n - 1]) /\ stack[n - 1].fn # "main" /\ KindOK(stack[n - 1])
  BY <1>1, Stacked DEF UrgencyInv, LinkInv, Linkage
<1>3. stack[n - 1].fn \in {"schedule", "start"} /\ ~Choosing(stack[n - 1])
  BY <1>1, <1>2 DEF OnTopOf, KindOK
<1>4. CASE stack[n - 1].fn = "schedule"
  BY <1>1, <1>3, <1>4 DEF Payer, Choosing
<1>5. CASE stack[n - 1].fn = "start"
  <2>1. n - 1 # 2
    <3>1. Len(stack) > 2 => stack[2].fn # "start"
      BY DEF UrgencyInv, Quiet
    <3>2. Len(stack) > 2
      BY <1>1, Stacked DEF UrgencyInv
    <3>3. QED BY <1>5, <3>1, <3>2
  <2>2. n \in Nat
    BY <1>1, Stacked DEF UrgencyInv
  <2>3. n - 1 > 2 /\ (n - 1) - 1 = n - 2
    BY <1>1, <2>1, <2>2
  <2>4. n - 1 \in Starts
    BY <1>1, <1>5, <2>3 DEF Starts
  <2>5. n - 2 \in Frames /\ stack[n - 2].proc \in Starters
    BY <2>3, <2>4, BelowStart
  <2>6. NoProc \notin Starters
    BY PriOfLevel DEF Starters, Records
  <2>7. QED BY <1>1, <1>3, <1>5, <2>4, <2>5, <2>6 DEF Payer
<1>6. QED BY <1>3, <1>4, <1>5

\* An activation that is charged to none.
LEMMA Uncharged ==
  ASSUME UrgencyInv, NEW n \in Frames, n \notin Running, n \notin Starts, n \notin Interrupts
  PROVE  n \in {1, 2, Len(stack)}
<1> SUFFICES ASSUME n > 2, n < Len(stack)
             PROVE  FALSE
  BY Stacked DEF UrgencyInv
<1>1. /\ n + 1 \in Frames /\ n + 1 > 1 /\ (n + 1) - 1 = n /\ n \in Frames /\ n > 1
  BY Stacked DEF UrgencyInv
<1>2. /\ OnTopOf(stack[n + 1], stack[n]) /\ KindOK(stack[n]) /\ KindOK(stack[n + 1]) /\ FrameOK(stack[n])
      /\ stack[n].fn # "main" /\ stack[n + 1].fn # "main"
  BY <1>1, Stacked DEF UrgencyInv, LinkInv, Linkage
<1>3. stack[n].fn = "schedule" /\ stack[n].proc = NoProc
  BY <1>2 DEF KindOK, Running, Starts, Interrupts
<1>4. stack[n].pc \in {"select", "take"}
  BY <1>2, <1>3, PriOfLevel DEF FrameOK, KindOK
<1>5. stack[n].prev = NoProc
  BY <1>2, <1>4 DEF FrameOK, ReturnPcs
<1>6. QED BY <1>2, <1>3, <1>4, <1>5 DEF OnTopOf, Choosing, KindOK

LEMMA RunningBound ==
  ASSUME UrgencyInv
  PROVE  /\ IsFiniteSet(Running) /\ Cardinality(Running) \in Nat
         /\ Cardinality(Running) <= Cardinality(Priorities)
<1> DEFINE f == [n \in Running |-> PriOf(stack[n].proc)]
<1>1. f \in [Running -> Priorities]
  BY Stacked DEF UrgencyInv, Running, Priorities, FrameOK
<1>2. ASSUME NEW m \in Running, NEW n \in Running, f[m] = f[n]
      PROVE  m = n
  BY <1>2, SamePriority DEF Running
<1> HIDE DEF f
<1>3. QED BY <1>1, <1>2, FinitePriorities, Charged

LEMMA StartsBound ==
  ASSUME UrgencyInv
  PROVE  /\ IsFiniteSet(Starts) /\ Cardinality(Starts) \in Nat
         /\ Cardinality(Starts) <= Cardinality(StarterPris)
<1> DEFINE f == [n \in Starts |-> PriOf(stack[n - 1].proc)]
<1>1. f \in [Starts -> StarterPris]
  BY BelowStart DEF StarterPris
<1>2. ASSUME NEW m \in Starts, NEW n \in Starts, f[m] = f[n]
      PROVE  m = n
  <2>1. /\ m - 1 \in Frames /\ stack[m - 1].proc # NoProc
        /\ n - 1 \in Frames /\ stack[n - 1].proc # NoProc
    BY BelowStart, PriOfLevel DEF Starters, Records
  <2>2. m - 1 = n - 1
    BY <1>2, <2>1, SamePriority
  <2>3. QED BY <2>2, Stacked DEF UrgencyInv, Starts
<1> HIDE DEF f
<1>3. QED BY <1>1, <1>2, FinitePriorities, Charged

LEMMA InterruptsBound ==
  ASSUME UrgencyInv
  PROVE  /\ IsFiniteSet(Interrupts) /\ Cardinality(Interrupts) \in Nat
         /\ Cardinality(Interrupts) <= Cardinality(Priorities)
<1> DEFINE f == [n \in Interrupts |-> PriOf(stack[Payer(n)].proc)]
<1>1. f \in [Interrupts -> Priorities]
  BY BelowHandler, Stacked DEF UrgencyInv, Priorities, FrameOK
<1>2. ASSUME NEW m \in Interrupts, NEW n \in Interrupts, f[m] = f[n]
      PROVE  m = n
  <2>1. Payer(m) = Payer(n)
    BY <1>2, BelowHandler, SamePriority
  <2>2. m \in Int /\ n \in Int /\ stack[m].fn = "handler" /\ stack[n].fn = "handler"
    BY Stacked DEF UrgencyInv, Interrupts
  <2>3. CASE stack[m - 1].fn = "schedule" /\ stack[n - 1].fn = "schedule"
    BY <2>1, <2>2, <2>3, BelowHandler
  <2>4. CASE stack[m - 1].fn = "start" /\ stack[n - 1].fn = "start"
    BY <2>1, <2>2, <2>4, BelowHandler
  <2>5. CASE stack[m - 1].fn = "schedule" /\ stack[n - 1].fn = "start"
    <3>1. m - 1 = n - 2
      BY <2>1, <2>5, BelowHandler
    <3>2. m = n - 1
      BY <2>2, <3>1
    <3>3. QED BY <2>2, <2>5, <3>2
  <2>6. CASE stack[m - 1].fn = "start" /\ stack[n - 1].fn = "schedule"
    <3>1. m - 2 = n - 1
      BY <2>1, <2>6, BelowHandler
    <3>2. n = m - 1
      BY <2>2, <3>1
    <3>3. QED BY <2>2, <2>6, <3>2
  <2>7. QED BY <2>3, <2>4, <2>5, <2>6, BelowHandler
<1> HIDE DEF f
<1>3. QED BY <1>1, <1>2, FinitePriorities, Charged

\* The activations in progress are bounded (ActivationsBounded): each priority in
\* use pays for an activation of schedule() and a handler, and for a start() if a
\* process of it starts others.  Signals may be delivered on top of any number of
\* handlers that have restored the signal mask and not returned; these are not
\* counted.
THEOREM ActivationsBoundedHolds == Orderly /\ Spec => []ActivationsBounded
<1>1. UrgencyInv => ActivationsBounded
  <2> SUFFICES ASSUME UrgencyInv
               PROVE  Len(stack) <= 2 * Cardinality(Priorities) + Cardinality(StarterPris) + 3
    BY DEF ActivationsBounded, Priorities, StarterPris
  <2> DEFINE Few == {1, 2, Len(stack)}
             A == Few \cup Running
             B == A \cup Starts
             C == B \cup Interrupts
  <2>1. IsFiniteSet(Few) /\ Cardinality(Few) \in Nat /\ Cardinality(Few) <= 3
    <3>1. IsFiniteSet({1}) /\ Cardinality({1}) = 1
      BY FS_Singleton
    <3>2. IsFiniteSet({1} \cup {2}) /\ Cardinality({1} \cup {2}) \in {1, 2}
      BY <3>1, FS_AddElement
    <3>3. IsFiniteSet(({1} \cup {2}) \cup {Len(stack)}) /\ Cardinality(({1} \cup {2}) \cup {Len(stack)}) \in {1, 2, 3}
      BY <3>2, FS_AddElement
    <3>4. Few = ({1} \cup {2}) \cup {Len(stack)}
      OBVIOUS
    <3>5. IsFiniteSet(Few) /\ Cardinality(Few) \in {1, 2, 3}
      BY <3>3, <3>4
    <3> HIDE DEF Few
    <3>6. QED BY <3>5
  <2> HIDE DEF Few
  <2>2. /\ IsFiniteSet(A) /\ Cardinality(A) \in Nat
        /\ Cardinality(A) <= Cardinality(Few) + Cardinality(Running)
    BY <2>1, RunningBound, UnionBound
  <2> HIDE DEF A
  <2>3. /\ IsFiniteSet(B) /\ Cardinality(B) \in Nat
        /\ Cardinality(B) <= Cardinality(A) + Cardinality(Starts)
    BY <2>2, StartsBound, UnionBound
  <2> HIDE DEF B
  <2>4. /\ IsFiniteSet(C) /\ Cardinality(C) \in Nat
        /\ Cardinality(C) <= Cardinality(B) + Cardinality(Interrupts)
    BY <2>3, InterruptsBound, UnionBound
  <2>5. Frames \subseteq C
    BY Uncharged DEF A, B, Few
  <2> HIDE DEF C
  <2>6. Len(stack) \in Nat /\ Cardinality(Frames) = Len(stack)
    <3>1. Len(stack) \in Nat /\ Len(stack) >= 1 /\ Frames = 1 .. Len(stack)
      BY Stacked DEF UrgencyInv
    <3>2. Cardinality(1 .. Len(stack)) = IF 1 > Len(stack) THEN 0 ELSE Len(stack) - 1 + 1
      BY <3>1, FS_Interval
    <3>3. QED BY <3>1, <3>2
  <2>7. Len(stack) <= Cardinality(C)
    BY <2>4, <2>5, <2>6, FS_Subset
  <2> HIDE DEF C
  <2> DEFINE l == Len(stack)
             few == Cardinality(Few)
             a == Cardinality(A)
             b == Cardinality(B)
             c == Cardinality(C)
             r == Cardinality(Running)
             s == Cardinality(Starts)
             i == Cardinality(Interrupts)
             m == Cardinality(Priorities)
             n == Cardinality(StarterPris)
  <2>8. l \in Nat /\ few \in Nat /\ a \in Nat /\ b \in Nat /\ c \in Nat
    BY <2>1, <2>2, <2>3, <2>4, <2>6
  <2>9. r \in Nat /\ s \in Nat /\ i \in Nat /\ m \in Nat /\ n \in Nat
    BY RunningBound, StartsBound, InterruptsBound, FinitePriorities
  <2>10. r <= m /\ s <= n /\ i <= m
    BY RunningBound, StartsBound, InterruptsBound
  <2>11. l <= c /\ c <= b + i /\ b <= a + s /\ a <= few + r /\ few <= 3
    BY <2>1, <2>2, <2>3, <2>4, <2>7
  <2> HIDE DEF l, few, a, b, c, r, s, i, m, n
  <2>12. l <= 2 * m + n + 3
    BY <2>8, <2>9, <2>10, <2>11
  <2>13. QED BY <2>12 DEF l, m, n
<1>2. QED BY <1>1, UrgencyInvariant, PTL
=============================================================================
