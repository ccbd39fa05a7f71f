--------------------------- MODULE HardwareProofs ---------------------------
(***************************************************************************)
(* handle_signal() of hardware.c, for any number of interrupt sources and  *)
(* any nesting of handlers and of schedulers inside them: the handlers in  *)
(* progress are counted, the outermost one schedules, currently_blocked is *)
(* that of the innermost, and the masks implement one interrupt flag.      *)
(* Then elapsed time, for any length of the tick: the ticks are accounted  *)
(* for, and Now() of timer.c is exact with interrupts enabled and never    *)
(* ahead without.                                                          *)
(***************************************************************************)
EXTENDS Clock, SequenceTheorems, FiniteSetTheorems, TLAPS

-----------------------------------------------------------------------------
\* Signals.

AllPcs    == CodePcs \cup {"handler", "restore", "return"}
FrameType == [sig : all_signals, saved : SUBSET all_signals,
              prev : SUBSET all_signals, pc : AllPcs]

\* The activations up to n of stack fs that have not restored the mask, the
\* innermost of them, and the signals that it has blocked.
OpenUpTo(fs, n)  == {k \in 2 .. n : fs[k].pc # "return"}
Innermost(fs, n) == {m \in OpenUpTo(fs, n) : \A k \in OpenUpTo(fs, n) : k <= m}
Blocked(fs, n)   == UNION {greater_than_or_equal_to(fs[k].sig) : k \in Innermost(fs, n)}

\* main() is below all handlers.
MainBelow ==
  /\ frames[1].pc = "code"
  /\ \A n \in 2 .. Len(frames) : frames[n].pc # "code"

\* All signals are blocked or none, unless a handler is about to return; and
\* none were where a signal was delivered.
MaskShape  == Top.pc # "return" => mask = {} \/ mask = all_signals
SavedShape ==
  \A n \in 2 .. Len(frames) : frames[n - 1].pc # "return" => frames[n].saved = {}

\* Each activation remembers what the one below it has blocked.
PrevOfInnermost ==
  \A n \in 2 .. Len(frames) :
    frames[n].pc # "return" => frames[n].prev = Blocked(frames, n - 1)

SigInv ==
  /\ SigTypeOK
  /\ MainBelow
  /\ MaskShape
  /\ SavedShape
  /\ HandlersCounted
  /\ OutermostSchedules
  /\ currently_blocked = Blocked(frames, Len(frames))
  /\ PrevOfInnermost

-----------------------------------------------------------------------------
\* The stack after a step: the same below the top, and a moved, a new, or a
\* removed frame.
LEMMA TypedFrames == SigTypeOK <=>
  /\ mask \subseteq all_signals /\ pending \subseteq all_signals
  /\ currently_blocked \subseteq all_signals
  /\ activeHandlers \in Nat
  /\ frames \in Seq(FrameType)
  /\ frames # << >>
BY DEF SigTypeOK, FrameType, AllPcs

LEMMA MoveTop ==
  ASSUME frames \in Seq(FrameType), frames # << >>, NEW pc \in AllPcs, Move(pc)
  PROVE  /\ frames' \in Seq(FrameType) /\ frames' # << >> /\ Len(frames') = Len(frames)
         /\ Top' = frames'[Len(frames)] /\ Top'.pc = pc
         /\ Top'.sig = Top.sig /\ Top'.prev = Top.prev /\ Top'.saved = Top.saved
         /\ \A n \in 1 .. Len(frames) - 1 : frames'[n] = frames[n]
<1>1. Top \in FrameType /\ [Top EXCEPT !.pc = pc] \in FrameType
  <2>1. Top \in FrameType
    BY DEF Top
  <2>2. \A f \in FrameType : [f EXCEPT !.pc = pc] \in FrameType
    BY DEF FrameType
  <2> QED BY <2>1, <2>2
<1>2. frames' = [frames EXCEPT ![Len(frames)] = [Top EXCEPT !.pc = pc]]
  BY DEF Move, Top
<1>3. /\ frames' \in Seq(FrameType) /\ frames' # << >> /\ Len(frames') = Len(frames)
      /\ frames'[Len(frames)] = [Top EXCEPT !.pc = pc]
      /\ \A n \in 1 .. Len(frames) - 1 : frames'[n] = frames[n]
  BY <1>1, <1>2
<1> QED BY <1>1, <1>3 DEF Top, FrameType

LEMMA PushFrame ==
  ASSUME frames \in Seq(FrameType), frames # << >>, NEW f \in FrameType,
         frames' = Append(frames, f)
  PROVE  /\ frames' \in Seq(FrameType) /\ frames' # << >> /\ Len(frames') = Len(frames) + 1
         /\ Top' = f
         /\ \A n \in 1 .. Len(frames) : frames'[n] = frames[n]
BY DEF Top

LEMMA PopFrame ==
  ASSUME frames \in Seq(FrameType), Len(frames) > 1,
         frames' = SubSeq(frames, 1, Len(frames) - 1)
  PROVE  /\ frames' \in Seq(FrameType) /\ frames' # << >> /\ Len(frames') = Len(frames) - 1
         /\ Top' = frames[Len(frames) - 1]
         /\ \A n \in 1 .. Len(frames) - 1 : frames'[n] = frames[n]
<1> DEFINE m == Len(frames) - 1
<1>1. m \in Int /\ m >= 1 /\ 1 \in Int /\ \A n \in 1 .. m : frames[n] \in FrameType
  OBVIOUS
<1> HIDE DEF m
<1>2. /\ SubSeq(frames, 1, m) \in Seq(FrameType)
      /\ Len(SubSeq(frames, 1, m)) = m
      /\ \A n \in 1 .. m : SubSeq(frames, 1, m)[n] = frames[n]
  BY <1>1, SubSeqProperties
<1>3. frames' = SubSeq(frames, 1, m)
  BY DEF m
<1>4. frames' # << >> /\ Top' = frames[m]
  BY <1>1, <1>2, <1>3 DEF Top
<1> QED BY <1>2, <1>3, <1>4 DEF m

\* How a step changes the number of frames with some program counters.
LEMMA FramesFinite ==
  ASSUME frames \in Seq(FrameType), NEW pcs
  PROVE  IsFiniteSet(FramesWith(pcs)) /\ Cardinality(FramesWith(pcs)) \in Nat
<1>1. IsFiniteSet(1 .. Len(frames)) /\ FramesWith(pcs) \in SUBSET (1 .. Len(frames))
  BY FS_Interval, Len(frames) \in Int, 1 \in Int DEF FramesWith
<1> QED BY <1>1, FS_Subset, FS_CardinalityType

LEMMA MoveCount ==
  ASSUME frames \in Seq(FrameType), frames # << >>, NEW pc \in AllPcs, Move(pc), NEW pcs
  PROVE  /\ FramesWith(pcs)' = IF pc \in pcs THEN FramesWith(pcs) \cup {Len(frames)}
                                             ELSE FramesWith(pcs) \ {Len(frames)}
         /\ Cardinality(FramesWith(pcs))' =
              Cardinality(FramesWith(pcs)) + (IF pc \in pcs THEN 1 ELSE 0)
                                           - (IF Top.pc \in pcs THEN 1 ELSE 0)
<1>1. FramesWith(pcs)' = IF pc \in pcs THEN FramesWith(pcs) \cup {Len(frames)}
                                       ELSE FramesWith(pcs) \ {Len(frames)}
  <2>1. /\ Len(frames') = Len(frames) /\ Len(frames) \in 1 .. Len(frames)
        /\ frames'[Len(frames)].pc = pc
        /\ \A n \in 1 .. Len(frames) : n # Len(frames) => frames'[n] = frames[n]
    BY MoveTop
  <2>2. FramesWith(pcs)' = {n \in 1 .. Len(frames) : frames'[n].pc \in pcs}
    BY <2>1 DEF FramesWith
  <2> QED BY <2>1, <2>2 DEF FramesWith
<1>2. Len(frames) \in FramesWith(pcs) <=> Top.pc \in pcs
  BY DEF FramesWith, Top
<1>3. IsFiniteSet(FramesWith(pcs)) /\ Cardinality(FramesWith(pcs)) \in Nat
  BY FramesFinite
<1>4. /\ Cardinality(FramesWith(pcs) \cup {Len(frames)}) =
           IF Len(frames) \in FramesWith(pcs) THEN Cardinality(FramesWith(pcs))
                                              ELSE Cardinality(FramesWith(pcs)) + 1
      /\ Cardinality(FramesWith(pcs) \ {Len(frames)}) =
           IF Len(frames) \in FramesWith(pcs) THEN Cardinality(FramesWith(pcs)) - 1
                                              ELSE Cardinality(FramesWith(pcs))
  BY <1>3, FS_AddElement, FS_RemoveElement
<1>5. Cardinality(FramesWith(pcs))' = Cardinality(FramesWith(pcs)')
  OBVIOUS
<1> QED BY <1>1, <1>2, <1>3, <1>4, <1>5

LEMMA PushCount ==
  ASSUME frames \in Seq(FrameType), frames # << >>, NEW f \in FrameType,
         frames' = Append(frames, f), NEW pcs
  PROVE  /\ FramesWith(pcs)' = IF f.pc \in pcs THEN FramesWith(pcs) \cup {Len(frames) + 1}
                                               ELSE FramesWith(pcs)
         /\ Cardinality(FramesWith(pcs))' =
              Cardinality(FramesWith(pcs)) + (IF f.pc \in pcs THEN 1 ELSE 0)
<1>1. FramesWith(pcs)' = IF f.pc \in pcs THEN FramesWith(pcs) \cup {Len(frames) + 1}
                                         ELSE FramesWith(pcs)
  BY DEF FramesWith
<1>2. Len(frames) + 1 \notin FramesWith(pcs)
  BY DEF FramesWith
<1>3. IsFiniteSet(FramesWith(pcs)) /\ Cardinality(FramesWith(pcs)) \in Nat
  BY FramesFinite
<1>4. Cardinality(FramesWith(pcs) \cup {Len(frames) + 1}) = Cardinality(FramesWith(pcs)) + 1
  BY <1>2, <1>3, FS_AddElement
<1>5. Cardinality(FramesWith(pcs))' = Cardinality(FramesWith(pcs)')
  OBVIOUS
<1> QED BY <1>1, <1>3, <1>4, <1>5

LEMMA PopCount ==
  ASSUME frames \in Seq(FrameType), Len(frames) > 1,
         frames' = SubSeq(frames, 1, Len(frames) - 1), NEW pcs
  PROVE  /\ FramesWith(pcs)' = FramesWith(pcs) \ {Len(frames)}
         /\ Cardinality(FramesWith(pcs))' =
              Cardinality(FramesWith(pcs)) - (IF Top.pc \in pcs THEN 1 ELSE 0)
<1>1. FramesWith(pcs)' = FramesWith(pcs) \ {Len(frames)}
  BY PopFrame DEF FramesWith
<1>2. Len(frames) \in FramesWith(pcs) <=> Top.pc \in pcs
  BY DEF FramesWith, Top
<1>3. IsFiniteSet(FramesWith(pcs)) /\ Cardinality(FramesWith(pcs)) \in Nat
  BY FramesFinite
<1>4. Cardinality(FramesWith(pcs) \ {Len(frames)}) =
        IF Len(frames) \in FramesWith(pcs) THEN Cardinality(FramesWith(pcs)) - 1
                                           ELSE Cardinality(FramesWith(pcs))
  BY <1>3, FS_RemoveElement
<1>5. Cardinality(FramesWith(pcs))' = Cardinality(FramesWith(pcs)')
  OBVIOUS
<1> QED BY <1>1, <1>2, <1>3, <1>4, <1>5

-----------------------------------------------------------------------------
\* What the activations have blocked depends on their signals, and on which of
\* them are about to return.
LEMMA BlockedSame ==
  ASSUME NEW fs, NEW gs, NEW n \in Int,
         \A k \in 2 .. n : fs[k].sig = gs[k].sig /\ (fs[k].pc = "return" <=> gs[k].pc = "return")
  PROVE  Blocked(fs, n) = Blocked(gs, n)
<1>1. OpenUpTo(fs, n) = OpenUpTo(gs, n)
  BY DEF OpenUpTo
<1>2. Innermost(fs, n) = Innermost(gs, n) /\ Innermost(fs, n) \subseteq 2 .. n
  BY <1>1 DEF Innermost, OpenUpTo
<1>3. \A k \in Innermost(fs, n) :
        greater_than_or_equal_to(fs[k].sig) = greater_than_or_equal_to(gs[k].sig)
  BY <1>2
<1> QED BY <1>2, <1>3 DEF Blocked

LEMMA BlockedOpen ==
  ASSUME NEW fs, NEW n \in Int, n >= 2, fs[n].pc # "return"
  PROVE  Blocked(fs, n) = greater_than_or_equal_to(fs[n].sig)
<1>1. n \in OpenUpTo(fs, n) /\ OpenUpTo(fs, n) \subseteq 2 .. n
  BY DEF OpenUpTo
<1>2. Innermost(fs, n) = {n}
  BY <1>1 DEF Innermost
<1> QED BY <1>2 DEF Blocked

LEMMA BlockedReturned ==
  ASSUME NEW fs, NEW n \in Int, n >= 2, fs[n].pc = "return"
  PROVE  Blocked(fs, n) = Blocked(fs, n - 1)
<1>1. OpenUpTo(fs, n) = OpenUpTo(fs, n - 1)
  BY DEF OpenUpTo
<1> QED BY <1>1 DEF Innermost, Blocked

\* The definition of the property, in these terms.
LEMMA BlockedTop == BlockedOfInnermost <=> currently_blocked = Blocked(frames, Len(frames))
BY DEF BlockedOfInnermost, Blocked, Innermost, OpenUpTo

-----------------------------------------------------------------------------
\* A step in which the activation on top goes on.
LEMMA MoveShapes ==
  ASSUME SigInv, NEW pc \in AllPcs, pc # "code", Top.pc \notin {"code", "return"}, Move(pc)
  PROVE  /\ Len(frames) > 1
         /\ MainBelow' /\ SavedShape' /\ PrevOfInnermost'
         /\ pc # "return" => Blocked(frames', Len(frames')) = Blocked(frames, Len(frames))
         /\ pc = "return" => Blocked(frames', Len(frames')) = Top.prev
<1> DEFINE l == Len(frames)
<1>1. frames \in Seq(FrameType) /\ frames # << >> /\ l \in Nat /\ l >= 1
  BY TypedFrames DEF SigInv
<1>2. l > 1
  BY <1>1 DEF SigInv, MainBelow, Top
<1>3. /\ Len(frames') = l /\ frames'[l].pc = pc
      /\ frames'[l].sig = frames[l].sig /\ frames'[l].prev = frames[l].prev
      /\ frames'[l].saved = frames[l].saved
      /\ \A n \in 1 .. l - 1 : frames'[n] = frames[n]
  BY <1>1, MoveTop DEF Top
<1>4. MainBelow'
  BY <1>1, <1>2, <1>3 DEF SigInv, MainBelow
<1>5. SavedShape'
  <2> SUFFICES ASSUME NEW n \in 2 .. l, frames'[n - 1].pc # "return" PROVE frames'[n].saved = {}
    BY <1>3 DEF SavedShape
  <2>1. n - 1 \in 1 .. l - 1 /\ frames'[n].saved = frames[n].saved
    BY <1>1, <1>3
  <2> QED BY <1>3, <2>1 DEF SigInv, SavedShape
<1>6. ASSUME NEW n \in 1 .. l - 1 PROVE Blocked(frames', n) = Blocked(frames, n)
  <2>1. n \in Int /\ \A k \in 2 .. n : frames'[k] = frames[k]
    BY <1>1, <1>3
  <2> QED BY <2>1, BlockedSame
<1>7. PrevOfInnermost'
  <2> SUFFICES ASSUME NEW n \in 2 .. l, frames'[n].pc # "return"
               PROVE  frames'[n].prev = Blocked(frames', n - 1)
    BY <1>3 DEF PrevOfInnermost
  <2>1. n - 1 \in 1 .. l - 1 /\ frames'[n].prev = frames[n].prev /\ frames[n].pc # "return"
    BY <1>1, <1>3 DEF Top
  <2> QED BY <1>6, <2>1 DEF SigInv, PrevOfInnermost
<1>8. pc # "return" => Blocked(frames', l) = Blocked(frames, l)
  <2>1. frames[l].pc # "return"
    BY DEF Top
  <2> QED BY <1>1, <1>2, <1>3, <2>1, BlockedOpen
<1>9. pc = "return" => Blocked(frames', l) = Top.prev
  <2>1. frames[l].pc # "return" /\ l - 1 \in 1 .. l - 1 /\ l \in 2 .. l
    BY <1>1, <1>2 DEF Top
  <2>2. frames[l].prev = Blocked(frames, l - 1)
    BY <2>1 DEF SigInv, PrevOfInnermost
  <2>3. pc = "return" => Blocked(frames', l) = Blocked(frames', l - 1)
    BY <1>1, <1>2, <1>3, BlockedReturned
  <2> QED BY <1>6, <2>1, <2>2, <2>3 DEF Top
<1> QED BY <1>2, <1>3, <1>4, <1>5, <1>7, <1>8, <1>9

InHandler == FramesWith({"handler", "nested"})
AtEnd     == FramesWith({"schedule"})

\* If it begins neither to schedule nor to handle, the schedulers at the end of
\* handlers stay below the handlers.
LEMMA MoveOrder ==
  ASSUME SigInv, NEW pc \in AllPcs, pc # "schedule", Move(pc),
         pc \in {"handler", "nested"} => Top.pc \in {"handler", "nested"}
  PROVE  OutermostSchedules'
<1>1. frames \in Seq(FrameType) /\ frames # << >>
  BY TypedFrames DEF SigInv
<1>2. Len(frames) \in InHandler <=> Top.pc \in {"handler", "nested"}
  BY <1>1 DEF InHandler, FramesWith, Top
<1>3. InHandler' \subseteq InHandler /\ AtEnd' \subseteq AtEnd
  BY <1>1, <1>2, MoveCount DEF InHandler, AtEnd
<1> QED BY <1>3 DEF SigInv, OutermostSchedules, InHandler, AtEnd

\* And the number of handlers changes as the activation leaves its handler.
LEMMA MoveCounted ==
  ASSUME SigInv, NEW pc \in AllPcs, Move(pc)
  PROVE  /\ Cardinality(InHandler)' = activeHandlers
              + (IF pc \in {"handler", "nested"} THEN 1 ELSE 0)
              - (IF Top.pc \in {"handler", "nested"} THEN 1 ELSE 0)
         /\ Cardinality(InHandler)' \in Nat
         /\ Cardinality(InHandler)' = 0 => InHandler' = {}
<1>1. frames \in Seq(FrameType) /\ frames # << >> /\ activeHandlers = Cardinality(InHandler)
  BY TypedFrames DEF SigInv, HandlersCounted, InHandler
<1>2. Len(frames) \in Int /\ 1 \in Int /\ InHandler' \in SUBSET (1 .. Len(frames))
  BY <1>1, MoveTop DEF InHandler, FramesWith
<1>3. IsFiniteSet(InHandler') /\ Cardinality(InHandler') \in Nat
  BY <1>2, FS_Interval, FS_Subset, FS_CardinalityType
<1>4. Cardinality(InHandler)' = Cardinality(InHandler')
  OBVIOUS
<1>5. Cardinality(InHandler') = 0 => InHandler' = {}
  BY <1>3, FS_EmptySet
<1> QED BY <1>1, <1>3, <1>4, <1>5, MoveCount DEF InHandler

-----------------------------------------------------------------------------
\* The steps.
LEMMA SameFrames ==
  ASSUME SigInv, SigTypeOK', MaskShape', UNCHANGED <<currently_blocked, activeHandlers, frames>>
  PROVE  SigInv'
BY DEF SigInv, MainBelow, SavedShape, HandlersCounted, OutermostSchedules, PrevOfInnermost,
       FramesWith

LEMMA QuietStep ==
  ASSUME SigInv, enable_interrupts \/ disable_interrupts \/ \E s \in all_signals : Raise(s)
  PROVE  SigInv'
<1>1. SigTypeOK' /\ UNCHANGED <<currently_blocked, activeHandlers, frames>>
  BY DEF SigInv, SigTypeOK, enable_interrupts, disable_interrupts, Raise
<1>2. MaskShape'
  BY DEF SigInv, SigTypeOK, MaskShape, Top, enable_interrupts, disable_interrupts, Raise
<1> QED BY <1>1, <1>2, SameFrames

LEMMA PreemptSteps ==
  ASSUME SigInv, Preempt \/ PreemptReturn
  PROVE  SigInv'
<1>1. PICK pc \in {"handler", "nested"} : Move(pc)
  BY DEF Preempt, PreemptReturn
<1>2. /\ Top.pc \in {"handler", "nested"}
      /\ UNCHANGED <<mask, pending, currently_blocked, activeHandlers>>
  BY DEF Preempt, PreemptReturn, Runs
<1>3. pc \in AllPcs /\ frames \in Seq(FrameType) /\ frames # << >>
  BY TypedFrames DEF SigInv, AllPcs, CodePcs
<1>4. SigTypeOK' /\ Top'.pc = pc
  BY <1>1, <1>2, <1>3, MoveTop, TypedFrames DEF SigInv, SigTypeOK, FrameType, AllPcs
<1>5. MaskShape'
  BY <1>2, <1>4 DEF SigInv, MaskShape
<1>6. HandlersCounted'
  BY <1>1, <1>2, <1>3, MoveCounted DEF SigInv, SigTypeOK, HandlersCounted, InHandler
<1>7. OutermostSchedules'
  BY <1>1, <1>2, <1>3, MoveOrder
<1> QED BY <1>1, <1>2, <1>3, <1>4, <1>5, <1>6, <1>7, MoveShapes DEF SigInv

LEMMA HandlerEndStep ==
  ASSUME SigInv, HandlerEnd
  PROVE  SigInv'
<1>1. PICK pc \in {"schedule", "restore"} :
        /\ Move(pc)
        /\ pc = "schedule" => activeHandlers = 1
  BY DEF HandlerEnd
<1>2. /\ Top.pc = "handler"
      /\ mask' = mask \cup all_signals /\ activeHandlers' = activeHandlers - 1
      /\ UNCHANGED <<pending, currently_blocked>>
  BY DEF HandlerEnd, Runs
<1>3. pc \in AllPcs /\ frames \in Seq(FrameType) /\ frames # << >>
  BY TypedFrames DEF SigInv, AllPcs, CodePcs
<1>4. /\ Cardinality(InHandler)' = activeHandlers' /\ activeHandlers' \in Nat
      /\ activeHandlers' = 0 => InHandler' = {}
  BY <1>1, <1>2, <1>3, MoveCounted DEF SigInv, SigTypeOK
<1>5. SigTypeOK' /\ mask' = all_signals
  BY <1>1, <1>2, <1>3, <1>4, MoveTop, TypedFrames DEF SigInv, SigTypeOK, FrameType, AllPcs
<1>6. HandlersCounted'
  BY <1>4 DEF HandlersCounted, InHandler
<1>7. OutermostSchedules'
  <2>1. CASE pc = "schedule"
    <3>1. InHandler' = {}
      BY <1>1, <1>2, <1>4, <2>1
    <3> QED BY <3>1 DEF OutermostSchedules, InHandler
  <2>2. CASE pc = "restore"
    BY <1>1, <1>3, <2>2, MoveOrder
  <2> QED BY <2>1, <2>2
<1> QED BY <1>1, <1>2, <1>3, <1>5, <1>6, <1>7, MoveShapes DEF SigInv, MaskShape

LEMMA ScheduleReturnStep ==
  ASSUME SigInv, ScheduleReturn
  PROVE  SigInv'
<1>1. /\ Top.pc = "schedule" /\ Move("restore")
      /\ UNCHANGED <<mask, pending, currently_blocked, activeHandlers>>
  BY DEF ScheduleReturn, Runs
<1>2. "restore" \in AllPcs /\ frames \in Seq(FrameType) /\ frames # << >>
  BY TypedFrames DEF SigInv, AllPcs, CodePcs
<1>3. SigTypeOK' /\ Top'.pc = "restore"
  BY <1>1, <1>2, MoveTop, TypedFrames DEF SigInv, SigTypeOK, FrameType, AllPcs
<1>4. MaskShape'
  BY <1>1, <1>3 DEF SigInv, MaskShape
<1>5. HandlersCounted'
  BY <1>1, <1>2, MoveCounted DEF SigInv, SigTypeOK, HandlersCounted, InHandler
<1>6. OutermostSchedules'
  BY <1>1, <1>2, MoveOrder
<1> QED BY <1>1, <1>2, <1>3, <1>4, <1>5, <1>6, MoveShapes DEF SigInv

LEMMA RestoreStep ==
  ASSUME SigInv, Restore
  PROVE  SigInv'
<1>1. /\ Top.pc = "restore" /\ Move("return")
      /\ currently_blocked' = Top.prev /\ mask' = Top.prev
      /\ UNCHANGED <<pending, activeHandlers>>
  BY DEF Restore, Runs
<1>2. "return" \in AllPcs /\ frames \in Seq(FrameType) /\ frames # << >>
  BY TypedFrames DEF SigInv, AllPcs, CodePcs
<1>3. Top \in FrameType
  BY <1>2 DEF Top
<1>4. Top.prev \subseteq all_signals
  BY <1>3 DEF FrameType
<1>5. SigTypeOK' /\ Top'.pc = "return"
  BY <1>1, <1>2, <1>4, MoveTop, TypedFrames DEF SigInv, SigTypeOK, FrameType, AllPcs
<1>6. MaskShape'
  BY <1>5 DEF MaskShape
<1>7. HandlersCounted'
  BY <1>1, <1>2, MoveCounted DEF SigInv, SigTypeOK, HandlersCounted, InHandler
<1>8. OutermostSchedules'
  BY <1>1, <1>2, MoveOrder
<1> QED BY <1>1, <1>2, <1>5, <1>6, <1>7, <1>8, MoveShapes DEF SigInv

LEMMA DeliverStep ==
  ASSUME SigInv, NEW s \in all_signals, Deliver(s)
  PROVE  /\ SigInv'
         /\ mask = {} \/ Top.pc = "return"
         /\ mask' = all_signals /\ Top'.pc = "handler" /\ Len(frames') = Len(frames) + 1
<1> DEFINE f == Frame(s, "handler")
           l == Len(frames)
<1>1. /\ frames' = Append(frames, f)
      /\ pending' = pending \ {s} /\ activeHandlers' = activeHandlers + 1
      /\ currently_blocked' = greater_than_or_equal_to(s)
      /\ mask' = all_signals \cup greater_than_or_equal_to(s)
      /\ s \in pending \ mask
  BY DEF Deliver, Deliverable
<1>2. /\ frames \in Seq(FrameType) /\ frames # << >> /\ l \in Nat /\ l >= 1
      /\ activeHandlers \in Nat
      /\ mask \subseteq all_signals /\ currently_blocked \subseteq all_signals
      /\ pending \subseteq all_signals
  BY TypedFrames DEF SigInv
<1>3. /\ f.sig = s /\ f.saved = mask /\ f.prev = currently_blocked /\ f.pc = "handler"
      /\ f \in FrameType
  BY <1>2 DEF Frame, FrameType, AllPcs
<1> HIDE DEF f
<1>4. greater_than_or_equal_to(s) \subseteq all_signals /\ mask' = all_signals
  BY <1>1 DEF greater_than_or_equal_to
<1>5. /\ frames' \in Seq(FrameType) /\ frames' # << >> /\ Len(frames') = l + 1
      /\ Top' = f /\ frames'[l + 1] = f
      /\ \A n \in 1 .. l : frames'[n] = frames[n]
  BY <1>1, <1>2, <1>3, PushFrame DEF Top
<1>6. SigTypeOK'
  <2>1. activeHandlers' \in Nat /\ pending' \subseteq all_signals
    BY <1>1, <1>2
  <2> QED BY <1>1, <1>4, <1>5, <2>1 DEF SigTypeOK, FrameType, AllPcs
<1>7. mask = {} \/ Top.pc = "return"
  BY <1>1, <1>2 DEF SigInv, MaskShape
<1>8. MainBelow'
  BY <1>2, <1>3, <1>5 DEF SigInv, MainBelow
<1>9. SavedShape'
  <2> SUFFICES ASSUME NEW n \in 2 .. l + 1, frames'[n - 1].pc # "return"
               PROVE  frames'[n].saved = {}
    BY <1>5 DEF SavedShape
  <2>1. CASE n = l + 1
    BY <1>2, <1>3, <1>5, <1>7, <2>1 DEF Top
  <2>2. CASE n # l + 1
    BY <1>2, <1>5, <2>2 DEF SigInv, SavedShape
  <2> QED BY <2>1, <2>2
<1>10. /\ InHandler' = InHandler \cup {l + 1} /\ AtEnd' = AtEnd
       /\ Cardinality(InHandler)' = Cardinality(InHandler) + 1
  BY <1>1, <1>2, <1>3, PushCount DEF InHandler, AtEnd
<1>11. HandlersCounted'
  BY <1>1, <1>2, <1>10 DEF SigInv, HandlersCounted, InHandler
<1>12. OutermostSchedules'
  <2>1. \A n \in AtEnd : n < l + 1
    BY <1>2 DEF AtEnd, FramesWith
  <2> QED BY <1>10, <2>1 DEF SigInv, OutermostSchedules, InHandler, AtEnd
<1>13. ASSUME NEW n \in 1 .. l PROVE Blocked(frames', n) = Blocked(frames, n)
  <2>1. n \in Int /\ \A k \in 2 .. n : frames'[k] = frames[k]
    BY <1>2, <1>5
  <2> QED BY <2>1, BlockedSame
<1>14. currently_blocked' = Blocked(frames', l + 1)
  <2>1. frames'[l + 1].pc # "return" /\ frames'[l + 1].sig = s
    BY <1>3, <1>5
  <2>2. l + 1 \in Int /\ l + 1 >= 2
    BY <1>2
  <2>3. Blocked(frames', l + 1) = greater_than_or_equal_to(frames'[l + 1].sig)
    BY <2>1, <2>2, BlockedOpen
  <2> QED BY <1>1, <2>1, <2>3
<1>15. PrevOfInnermost'
  <2> SUFFICES ASSUME NEW n \in 2 .. l + 1, frames'[n].pc # "return"
               PROVE  frames'[n].prev = Blocked(frames', n - 1)
    BY <1>5 DEF PrevOfInnermost
  <2>1. n - 1 \in 1 .. l
    BY <1>2
  <2>2. Blocked(frames', n - 1) = Blocked(frames, n - 1)
    BY <2>1, <1>13
  <2>3. CASE n = l + 1
    BY <1>2, <1>3, <1>5, <2>2, <2>3 DEF SigInv
  <2>4. CASE n # l + 1
    BY <1>2, <1>5, <2>2, <2>4 DEF SigInv, PrevOfInnermost
  <2> QED BY <2>3, <2>4
<1> QED BY <1>3, <1>4, <1>5, <1>6, <1>7, <1>8, <1>9, <1>11, <1>12, <1>14, <1>15
        DEF SigInv, MaskShape

LEMMA SigReturnStep ==
  ASSUME SigInv, SigReturn
  PROVE  /\ SigInv'
         /\ Len(frames) > 1 /\ Top.pc = "return"
         /\ mask' = {} \/ Top'.pc = "return"
<1> DEFINE l == Len(frames)
<1>1. /\ Top.pc = "return" /\ mask' = Top.saved
      /\ frames' = SubSeq(frames, 1, Len(frames) - 1)
      /\ UNCHANGED <<pending, currently_blocked, activeHandlers>>
  BY DEF SigReturn, Runs
<1>2. /\ frames \in Seq(FrameType) /\ frames # << >> /\ l \in Nat /\ l >= 1
      /\ Top \in FrameType
  BY TypedFrames DEF SigInv, Top
<1>3. l > 1
  BY <1>1, <1>2 DEF SigInv, MainBelow, Top
<1>4. /\ frames' \in Seq(FrameType) /\ frames' # << >> /\ Len(frames') = l - 1
      /\ Top' = frames[l - 1]
      /\ \A n \in 1 .. l - 1 : frames'[n] = frames[n]
  BY <1>1, <1>2, <1>3, PopFrame
<1>5. SigTypeOK'
  <2>1. mask' \subseteq all_signals
    BY <1>1, <1>2 DEF FrameType
  <2> QED BY <1>1, <1>4, <2>1 DEF SigInv, SigTypeOK, FrameType, AllPcs
<1>6. mask' = {} \/ Top'.pc = "return"
  <2>1. l \in 2 .. l
    BY <1>2, <1>3
  <2> QED BY <1>1, <1>4, <2>1 DEF SigInv, SavedShape, Top
<1>7. MainBelow' /\ SavedShape'
  <2>1. MainBelow'
    BY <1>2, <1>3, <1>4 DEF SigInv, MainBelow
  <2>2. ASSUME NEW n \in 2 .. l - 1, frames'[n - 1].pc # "return" PROVE frames'[n].saved = {}
    BY <1>2, <1>4, <2>2 DEF SigInv, SavedShape
  <2> QED BY <1>4, <2>1, <2>2 DEF SavedShape
<1>8. /\ InHandler' = InHandler \ {l} /\ AtEnd' = AtEnd \ {l}
      /\ Cardinality(InHandler)' = Cardinality(InHandler) - 0
  BY <1>1, <1>2, <1>3, PopCount DEF InHandler, AtEnd
<1>9. HandlersCounted'
  BY <1>1, <1>8 DEF SigInv, SigTypeOK, HandlersCounted, InHandler
<1>10. OutermostSchedules'
  BY <1>8 DEF SigInv, OutermostSchedules, InHandler, AtEnd
<1>11. ASSUME NEW n \in 1 .. l - 1 PROVE Blocked(frames', n) = Blocked(frames, n)
  <2>1. n \in Int /\ \A k \in 2 .. n : frames'[k] = frames[k]
    BY <1>2, <1>4
  <2> QED BY <2>1, BlockedSame
<1>12. currently_blocked' = Blocked(frames', l - 1)
  <2>1. Blocked(frames, l) = Blocked(frames, l - 1) /\ l - 1 \in 1 .. l - 1
    BY <1>1, <1>2, <1>3, BlockedReturned DEF Top
  <2> QED BY <1>1, <1>11, <2>1 DEF SigInv
<1>13. PrevOfInnermost'
  <2> SUFFICES ASSUME NEW n \in 2 .. l - 1, frames'[n].pc # "return"
               PROVE  frames'[n].prev = Blocked(frames', n - 1)
    BY <1>4 DEF PrevOfInnermost
  <2>1. n - 1 \in 1 .. l - 1
    BY <1>2
  <2> QED BY <1>2, <1>4, <1>11, <2>1 DEF SigInv, PrevOfInnermost
<1> QED BY <1>1, <1>3, <1>4, <1>5, <1>6, <1>7, <1>9, <1>10, <1>12, <1>13 DEF SigInv, MaskShape

-----------------------------------------------------------------------------
LEMMA SigInit == Init => SigInv
<1> SUFFICES ASSUME Init PROVE SigInv
  OBVIOUS
<1>1. INTR_ELAPSED \in all_signals
  BY SignalsAssumption DEF INTR_ELAPSED, all_signals
<1>2. /\ Len(frames) = 1 /\ frames[1].pc = "code" /\ Top.pc = "code"
      /\ frames \in Seq(FrameType)
  BY <1>1 DEF Init, Top, FrameType, AllPcs, CodePcs
<1>3. SigTypeOK
  BY <1>2 DEF Init, SigTypeOK, FrameType, AllPcs
<1>4. InHandler = {} /\ AtEnd = {}
  BY <1>2 DEF InHandler, AtEnd, FramesWith
<1>5. HandlersCounted /\ OutermostSchedules
  BY <1>4, FS_EmptySet DEF Init, HandlersCounted, OutermostSchedules, InHandler, AtEnd
<1>6. Blocked(frames, 1) = {}
  BY DEF Blocked, Innermost, OpenUpTo
<1>7. MainBelow /\ SavedShape /\ PrevOfInnermost
  BY <1>2 DEF MainBelow, SavedShape, PrevOfInnermost
<1> QED BY <1>2, <1>3, <1>5, <1>6, <1>7 DEF Init, SigInv, MaskShape

LEMMA SigStep == SigInv /\ [Next]_sigVars => SigInv'
<1> SUFFICES ASSUME SigInv, [Next]_sigVars PROVE SigInv'
  OBVIOUS
<1>1. CASE UNCHANGED sigVars
  BY <1>1, SameFrames DEF sigVars, SigInv, SigTypeOK, MaskShape, Top
<1>2. CASE Next
  BY <1>2, QuietStep, PreemptSteps, HandlerEndStep, ScheduleReturnStep, RestoreStep,
     DeliverStep, SigReturnStep DEF Next, Execute
<1> QED BY <1>1, <1>2

\* The masks, the counter and the saved sets of handle_signal() stay consistent,
\* whatever nests.
THEOREM SignalsInvariant == Spec => []SigInv
BY SigInit, SigStep, PTL DEF Spec

\* activeHandlers counts the handlers in progress, whatever nests and whoever
\* is preempted (handle_signal()).
THEOREM HandlersCountedHolds == Spec => []HandlersCounted
<1>1. SigInv => HandlersCounted
  BY DEF SigInv
<1> QED BY <1>1, SignalsInvariant, PTL

\* No handler is in progress below a schedule() at the end of handle_signal().
THEOREM OutermostSchedulesHolds == Spec => []OutermostSchedules
<1>1. SigInv => OutermostSchedules
  BY DEF SigInv
<1> QED BY <1>1, SignalsInvariant, PTL

\* currently_blocked is always that of the innermost activation (handle_signal()).
THEOREM BlockedOfInnermostHolds == Spec => []BlockedOfInnermost
<1>1. SigInv => BlockedOfInnermost
  BY BlockedTop DEF SigInv
<1> QED BY <1>1, SignalsInvariant, PTL

-----------------------------------------------------------------------------
\* The one flag, and the number of interrupts that have not returned.
On    == mask = {} \/ Top.pc = "return"
Depth == Len(frames) - 1 - Cardinality(FramesWith({"return"}))

\* A step of an activation that goes on keeps the depth, or ends it.
LEMMA MoveDepth ==
  ASSUME SigInv, NEW pc \in AllPcs, pc # "code", Top.pc \notin {"code", "return"}, Move(pc)
  PROVE  /\ pc # "return" => Depth' = Depth
         /\ pc = "return" => Depth > 0 /\ Depth' = Depth - 1
<1> DEFINE done == FramesWith({"return"})
           l    == Len(frames)
<1>1. /\ frames \in Seq(FrameType) /\ frames # << >> /\ l \in Nat /\ l > 1
      /\ Len(frames') = l
  BY TypedFrames, MoveTop, MoveShapes DEF SigInv
<1>2. Cardinality(done) \in Nat
  BY <1>1, FramesFinite
<1>3. Cardinality(done)' = Cardinality(done) + (IF pc = "return" THEN 1 ELSE 0)
  BY <1>1, <1>2, MoveCount
<1>4. Cardinality(done) <= l - 2
  <2>1. done \in SUBSET (2 .. l - 1)
    BY <1>1 DEF SigInv, MainBelow, FramesWith, Top
  <2>2. 2 \in Int /\ l - 1 \in Int
    BY <1>1
  <2>3. IsFiniteSet(2 .. l - 1) /\ Cardinality(2 .. l - 1) = l - 2
    <3>1. /\ IsFiniteSet(2 .. l - 1)
          /\ Cardinality(2 .. l - 1) = IF 2 > l - 1 THEN 0 ELSE (l - 1) - 2 + 1
      BY <2>2, FS_Interval
    <3> QED BY <1>1, <3>1
  <2> QED BY <2>1, <2>3, FS_Subset
<1> QED BY <1>1, <1>2, <1>3, <1>4 DEF Depth

LEMMA StepMaps ==
  ASSUME SigInv, SigInv', [Next]_sigVars
  PROVE  Machine!Next \/ UNCHANGED <<On, Depth>>
<1>1. all_signals # {} /\ mask \subseteq all_signals /\ frames \in Seq(FrameType) /\ frames # << >>
  <2>1. 0 \in all_signals
    BY SignalsAssumption DEF all_signals
  <2> QED BY <2>1, TypedFrames DEF SigInv
<1>2. CASE UNCHANGED sigVars
  BY <1>2 DEF sigVars, On, Depth, Top, FramesWith
<1>3. CASE enable_interrupts
  <2>1. On' = TRUE /\ Depth' = Depth
    BY <1>1, <1>3 DEF enable_interrupts, On, Depth, Top, FramesWith
  <2> QED BY <2>1 DEF Machine!Next, Machine!Enable, On, Depth
<1>4. CASE disable_interrupts
  <2>1. On' = FALSE /\ Depth' = Depth
    BY <1>1, <1>4 DEF disable_interrupts, Runs, CodePcs, On, Depth, Top, FramesWith
  <2> QED BY <2>1 DEF Machine!Next, Machine!Disable, On, Depth
<1>5. CASE Preempt \/ PreemptReturn \/ ScheduleReturn
  <2>1. PICK pc \in {"handler", "nested", "restore"} : Move(pc)
    BY <1>5 DEF Preempt, PreemptReturn, ScheduleReturn
  <2>2. Top.pc \in {"handler", "nested", "schedule"} /\ mask' = mask /\ pc \in AllPcs
    BY <1>5, <2>1 DEF Preempt, PreemptReturn, ScheduleReturn, Runs, AllPcs, CodePcs
  <2>3. Top'.pc = pc
    BY <1>1, <2>1, <2>2, MoveTop
  <2>4. Depth' = Depth
    BY <2>1, <2>2, MoveDepth
  <2> QED BY <2>1, <2>2, <2>3, <2>4 DEF On
<1>6. CASE Restore
  <2>1. Move("return") /\ "return" \in AllPcs /\ Top.pc = "restore"
    BY <1>6 DEF Restore, Runs, AllPcs
  <2>2. On' = TRUE
    BY <1>1, <2>1, MoveTop DEF On
  <2>3. Depth > 0 /\ Depth' = Depth - 1
    BY <2>1, MoveDepth
  <2> QED BY <2>2, <2>3 DEF Machine!Next, Machine!Return, On, Depth
<1>7. CASE SigReturn
  <2>1. On /\ On'
    BY <1>7, SigReturnStep DEF On
  <2>2. Len(frames) > 1 /\ Top.pc = "return" /\ frames' = SubSeq(frames, 1, Len(frames) - 1)
    BY <1>7, SigReturnStep DEF SigReturn
  <2>3. /\ Cardinality(FramesWith({"return"}))' = Cardinality(FramesWith({"return"})) - 1
        /\ Cardinality(FramesWith({"return"})) \in Nat
        /\ Len(frames') = Len(frames) - 1
    BY <1>1, <2>2, PopCount, PopFrame, FramesFinite
  <2>4. Depth' = Depth
    BY <1>1, <2>3 DEF Depth
  <2> QED BY <2>1, <2>4
<1>8. CASE HandlerEnd
  <2>1. PICK pc \in {"schedule", "restore"} : Move(pc)
    BY <1>8 DEF HandlerEnd
  <2>2. Top.pc = "handler" /\ mask' = all_signals /\ pc \in AllPcs
    BY <1>1, <1>8, <2>1 DEF HandlerEnd, Runs, AllPcs, CodePcs
  <2>3. On' = FALSE
    BY <1>1, <2>1, <2>2, MoveTop DEF On
  <2>4. Depth' = Depth
    BY <2>1, <2>2, MoveDepth
  <2> QED BY <2>3, <2>4 DEF Machine!Next, Machine!Disable, On, Depth
<1>9. ASSUME NEW s \in all_signals, Deliver(s) PROVE Machine!Next
  <2>1. On = TRUE /\ On' = FALSE /\ Len(frames') = Len(frames) + 1
    BY <1>1, <1>9, DeliverStep DEF On
  <2>2. /\ frames' = Append(frames, Frame(s, "handler"))
        /\ Frame(s, "handler") \in FrameType /\ Frame(s, "handler").pc = "handler"
    BY <1>9, TypedFrames DEF Deliver, Frame, FrameType, AllPcs, SigInv
  <2>3. /\ Cardinality(FramesWith({"return"}))' = Cardinality(FramesWith({"return"}))
        /\ Cardinality(FramesWith({"return"})) \in Nat
    BY <1>1, <2>2, PushCount, FramesFinite
  <2>4. Depth' = Depth + 1
    BY <1>1, <2>1, <2>3 DEF Depth
  <2> QED BY <2>1, <2>4 DEF Machine!Next, Machine!Arrive, On, Depth
<1>10. ASSUME NEW s \in all_signals, Raise(s) PROVE UNCHANGED <<On, Depth>>
  BY <1>10 DEF Raise, On, Depth, Top, FramesWith
<1> QED BY <1>2, <1>3, <1>4, <1>5, <1>6, <1>7, <1>8, <1>9, <1>10 DEF Next, Execute

\* handle_signal(), ENABLE and DISABLE implement the machine with one flag, on
\* which the kernel is built.
THEOREM SignalsImplementInterrupts == Spec => ImplementsInterrupts
<1>1. Init => Machine!Init
  <2> SUFFICES ASSUME Init PROVE Machine!Init
    OBVIOUS
  <2>1. FramesWith({"return"}) = {} /\ Len(frames) = 1 /\ Top.pc = "code"
    BY DEF Init, FramesWith, Top
  <2>2. mask # {}
    BY SignalsAssumption DEF Init, all_signals
  <2> QED BY <2>1, <2>2, FS_EmptySet DEF Machine!Init
<1>2. SigInv /\ SigInv' /\ [Next]_sigVars => [Machine!Next]_<<On, Depth>>
  BY StepMaps
<1> QED BY <1>1, <1>2, SignalsInvariant, PTL DEF Spec, ImplementsInterrupts, Machine!Spec, On, Depth

-----------------------------------------------------------------------------
\* Elapsed time.

\* A handler of the tick is in progress, on top of everything.
TickHandler == Top.pc = "handler" /\ Top.sig = INTR_ELAPSED

\* The handler of the tick is never preempted: nothing is above it, all
\* signals are blocked, and it calls no schedule().
TickOnTop ==
  /\ \A n \in FramesWith({"handler"}) :
       frames[n].sig = INTR_ELAPSED => n = Len(frames) /\ mask = all_signals
  /\ \A n \in FramesWith({"nested"}) : frames[n].sig # INTR_ELAPSED

\* The time of the ticks on their way, that of all ticks but the lost ones,
\* and the time that the timer and these ticks amount to.
Due     == (IF INTR_ELAPSED \in pending THEN Tick ELSE 0) + (IF TickHandler THEN Tick ELSE 0)
Counted == currentTime + Due
Time    == Counted + (Tick - timer)

\* Time v has passed, and stays so: a tick that is lost takes Time back to the
\* last tick, but only if another is on its way that has been raised after v.
Past(v) == v <= Time /\ (Due > 0 => v <= Counted)

CallType == [depth : Nat, pc : {"none", "read", "compare", "return"},
             c : Nat, t : 0 .. Tick, start : Int, enabled : BOOLEAN]

\* The activation that is inside Now() stays where it is, and has interrupts
\* as it had them at the call.
CallFrame ==
  /\ call.depth \in 1 .. Len(frames)
  /\ frames[call.depth].pc \in CodePcs
  /\ Reading => mask = IF call.enabled THEN {} ELSE all_signals

\* What Now() has read of the count, and of the timer.
CallRead ==
  /\ call.c <= currentTime
  /\ call.pc \in {"compare", "return"} => Past(Result)
  /\ call.pc \in {"compare", "return"} /\ call.enabled /\ call.c = currentTime => call.start <= Result
  /\ call.pc = "return" /\ call.enabled => call.start <= Result

CallInv ==
  call.pc # "none" =>
    /\ CallFrame /\ CallRead
    /\ call.enabled => Past(call.start)
    /\ ~call.enabled => Reading /\ call.c = currentTime /\ call.start < call.c + 2 * Tick

ClockInv ==
  /\ SigInv
  /\ elapsed \in Nat /\ timer \in 1 .. Tick /\ currentTime \in Nat /\ lostTime \in Nat
  /\ call \in CallType
  /\ TickOnTop
  /\ elapsed - lostTime = Time
  /\ CallInv

-----------------------------------------------------------------------------
\* Every step of the clock is one of the signals, or leaves them alone.
LEMMA ClockSteps == ClockNext => [Next]_sigVars
<1> SUFFICES ASSUME ClockNext PROVE [Next]_sigVars
  OBVIOUS
<1>1. INTR_ELAPSED \in all_signals
  BY SignalsAssumption DEF INTR_ELAPSED, all_signals
<1>2. CASE NowCall \/ NowRead \/ NowCompare \/ NowReturn
  BY <1>2 DEF NowCall, NowRead, NowCompare, NowReturn
<1>3. CASE Pass
  BY <1>1, <1>3 DEF Pass, Next
<1>4. CASE Work
  BY <1>4 DEF Work, Next
<1>5. CASE Signal
  BY <1>5 DEF Signal, Next
<1> QED BY <1>2, <1>3, <1>4, <1>5 DEF ClockNext

\* The signals below the clock are those of hardware.c.
THEOREM ClockImplementsSignals == ClockSpec => Spec
<1>1. ClockInit => Init
  BY DEF ClockInit
<1>2. [ClockNext]_<<sigVars, clockVars>> => [Next]_sigVars
  BY ClockSteps
<1> QED BY <1>1, <1>2, PTL DEF ClockSpec, Spec

\* What is needed of the invariant again and again.
LEMMA ClockFacts ==
  ASSUME ClockInv
  PROVE  /\ frames \in Seq(FrameType) /\ frames # << >>
         /\ Len(frames) \in Nat /\ Len(frames) >= 1 /\ Len(frames) \in 1 .. Len(frames)
         /\ Top = frames[Len(frames)] /\ Top \in FrameType
         /\ Tick \in Nat /\ Tick > 1 /\ timer \in 1 .. Tick /\ currentTime \in Nat
         /\ Due \in {0, Tick, 2 * Tick} /\ Due \in Nat
         /\ Counted \in Nat /\ Time \in Nat /\ Counted <= Time /\ Time < Counted + Tick
<1>1. /\ frames \in Seq(FrameType) /\ frames # << >> /\ Len(frames) \in Nat /\ Len(frames) >= 1
  BY TypedFrames DEF ClockInv, SigInv
<1>2. Top = frames[Len(frames)] /\ Top \in FrameType
  BY <1>1 DEF Top
<1>3. Tick \in Nat /\ Tick > 1
  BY ClockAssumption
<1>4. Due \in {0, Tick, 2 * Tick} /\ Due \in Nat
  BY <1>3 DEF Due
<1> QED BY <1>1, <1>2, <1>3, <1>4 DEF ClockInv, Counted, Time

-----------------------------------------------------------------------------
\* The steps of Now() change nothing but the call.
LEMMA SameClock ==
  ASSUME ClockInv, UNCHANGED <<sigVars, elapsed, timer, currentTime, lostTime>>
  PROVE  /\ SigInv' /\ TickOnTop' /\ elapsed' - lostTime' = Time'
         /\ \A v : Past(v)' <=> Past(v)
         /\ Time' = Time /\ Due' = Due /\ Counted' = Counted
         /\ elapsed' \in Nat /\ timer' \in 1 .. Tick /\ currentTime' \in Nat /\ lostTime' \in Nat
<1>1. UNCHANGED sigVars /\ UNCHANGED <<mask, pending, currently_blocked, activeHandlers, frames>>
  BY DEF sigVars
<1>2. SigInv'
  BY <1>1, SigStep DEF ClockInv
<1>3. Top' = Top /\ TickOnTop'
  BY <1>1 DEF ClockInv, TickOnTop, FramesWith, Top
<1>4. Due' = Due /\ Counted' = Counted /\ Time' = Time
  BY <1>1, <1>3 DEF Due, Counted, Time, TickHandler
<1> QED BY <1>2, <1>3, <1>4 DEF ClockInv, Past

LEMMA NowCallStep ==
  ASSUME ClockInv, NowCall
  PROVE  ClockInv'
<1>1. /\ Top.pc \in CodePcs /\ pending \subseteq mask /\ call.pc = "none"
      /\ call' = [depth |-> Len(frames), pc |-> "read", c |-> currentTime, t |-> 0,
                  start |-> elapsed - lostTime, enabled |-> mask = {}]
      /\ UNCHANGED <<sigVars, elapsed, timer, currentTime, lostTime>>
  BY DEF NowCall, Runs
<1>2. /\ SigInv' /\ TickOnTop' /\ elapsed' - lostTime' = Time'
      /\ \A v : Past(v)' <=> Past(v)
      /\ elapsed' \in Nat /\ timer' \in 1 .. Tick /\ currentTime' \in Nat /\ lostTime' \in Nat
      /\ UNCHANGED <<mask, pending, frames>>
  BY <1>1, SameClock DEF sigVars
<1>3. call' \in CallType
  BY <1>1, ClockFacts DEF ClockInv, CallType
<1>4. mask = {} \/ mask = all_signals
  BY <1>1 DEF ClockInv, SigInv, MaskShape, CodePcs
<1>5. CallFrame' /\ Reading'
  BY <1>1, <1>2, <1>4, ClockFacts DEF CallFrame, Reading
<1>6. CallRead'
  BY <1>1, ClockFacts DEF CallRead
\* With interrupts enabled no tick is on its way.
<1>7. ~TickHandler
  BY <1>1 DEF TickHandler, CodePcs
<1>8. mask = {} => Past(Time)
  BY <1>1, <1>7, ClockFacts DEF Past, Due
<1>9. Time < currentTime + 2 * Tick
  BY <1>7, ClockFacts DEF Due, Counted
<1>10. call'.enabled => Past(call.start)'
  BY <1>1, <1>2, <1>8 DEF ClockInv
<1>11. CallInv'
  BY <1>1, <1>5, <1>6, <1>9, <1>10 DEF ClockInv, CallInv
<1> QED BY <1>2, <1>3, <1>11 DEF ClockInv

\* The other steps of Now(): the call goes on, or returns.
LEMMA NowReadStep ==
  ASSUME ClockInv, NowRead
  PROVE  ClockInv'
<1>1. /\ Reading /\ call.pc = "read" /\ Top.pc \in CodePcs /\ pending \subseteq mask
      /\ call' = [call EXCEPT !.t = timer, !.pc = "compare"]
      /\ UNCHANGED <<sigVars, elapsed, timer, currentTime, lostTime>>
  BY DEF NowRead, At, Runs, read_timer
<1>2. /\ SigInv' /\ TickOnTop' /\ elapsed' - lostTime' = Time'
      /\ \A v : Past(v)' <=> Past(v)
      /\ elapsed' \in Nat /\ timer' \in 1 .. Tick /\ currentTime' \in Nat /\ lostTime' \in Nat
      /\ UNCHANGED <<mask, pending, frames>>
  BY <1>1, SameClock DEF sigVars
<1>3. /\ call' \in CallType /\ call'.depth = call.depth /\ call'.pc = "compare"
      /\ call'.c = call.c /\ call'.t = timer /\ call'.start = call.start
      /\ call'.enabled = call.enabled
  <2>1. timer \in 0 .. Tick /\ call \in CallType
    BY ClockFacts DEF ClockInv
  <2> QED BY <1>1, <2>1 DEF CallType
<1>4. CallFrame /\ CallRead /\ CallInv
  BY <1>1 DEF ClockInv, CallInv
<1>5. CallFrame' /\ Reading'
  BY <1>1, <1>2, <1>3, <1>4 DEF CallFrame, Reading
<1>6. ~TickHandler
  BY <1>1 DEF TickHandler, CodePcs
<1> DEFINE r == (Tick - timer) + call.c
<1>7. Past(r)
  <2>1. call.c \in Nat /\ call.c <= currentTime
    BY <1>4 DEF CallRead, ClockInv, CallType
  <2>2. Due \in {0, Tick} /\ Due \in Nat
    BY <1>6, ClockFacts DEF Due
  <2>3. r <= Time /\ (Due > 0 => r <= Counted)
    BY <2>1, <2>2, ClockFacts DEF Counted, Time
  <2> QED BY <2>3 DEF Past
<1>8. call.enabled => Due = 0 /\ call.start <= Time
  BY <1>1, <1>4, <1>6 DEF CallInv, Past, CallFrame, Due
<1>9. call.enabled /\ call.c = currentTime => call.start <= r
  BY <1>8, ClockFacts DEF Counted, Time
<1>10. Result' = r
  BY <1>3 DEF Result
<1>11. CallRead'
  BY <1>1, <1>2, <1>3, <1>4, <1>7, <1>9, <1>10 DEF CallRead
<1>12. CallInv'
  BY <1>1, <1>2, <1>3, <1>4, <1>5, <1>11 DEF CallInv
<1> QED BY <1>2, <1>3, <1>12 DEF ClockInv

LEMMA NowCompareStep ==
  ASSUME ClockInv, NowCompare
  PROVE  ClockInv'
<1>1. /\ Reading /\ call.pc = "compare"
      /\ call' = [call EXCEPT !.c = currentTime,
                              !.pc = IF call.c = currentTime THEN "return" ELSE "read"]
      /\ UNCHANGED <<sigVars, elapsed, timer, currentTime, lostTime>>
  BY DEF NowCompare, At
<1>2. /\ SigInv' /\ TickOnTop' /\ elapsed' - lostTime' = Time'
      /\ \A v : Past(v)' <=> Past(v)
      /\ elapsed' \in Nat /\ timer' \in 1 .. Tick /\ currentTime' \in Nat /\ lostTime' \in Nat
      /\ UNCHANGED <<mask, pending, frames>>
  BY <1>1, SameClock DEF sigVars
<1>3. /\ call' \in CallType /\ call'.depth = call.depth
      /\ call'.pc = IF call.c = currentTime THEN "return" ELSE "read"
      /\ call'.c = currentTime /\ call'.t = call.t /\ call'.start = call.start
      /\ call'.enabled = call.enabled
  BY <1>1, ClockFacts DEF ClockInv, CallType
<1>4. CallFrame /\ CallRead /\ CallInv
  BY <1>1 DEF ClockInv, CallInv
<1>5. CallFrame' /\ Reading'
  BY <1>1, <1>2, <1>3, <1>4 DEF CallFrame, Reading
<1>6. call.c = currentTime => Result' = Result
  BY <1>3 DEF Result
<1>7. CallRead'
  BY <1>1, <1>2, <1>3, <1>4, <1>6, ClockFacts DEF CallRead
<1>8. CallInv'
  BY <1>1, <1>2, <1>3, <1>4, <1>5, <1>7 DEF CallInv
<1> QED BY <1>2, <1>3, <1>8 DEF ClockInv

LEMMA NowReturnStep ==
  ASSUME ClockInv, NowReturn
  PROVE  ClockInv'
<1>1. call' = NoCall /\ UNCHANGED <<sigVars, elapsed, timer, currentTime, lostTime>>
  BY DEF NowReturn
<1>2. call' \in CallType /\ call'.pc = "none"
  BY <1>1, ClockFacts DEF NoCall, CallType
<1> QED BY <1>1, <1>2, SameClock DEF ClockInv, CallInv

-----------------------------------------------------------------------------
\* The steps of everything else leave the call alone.  They count no tick twice,
\* and what has passed stays so.
LEMMA OtherStep ==
  ASSUME ClockInv, SigInv', TickOnTop', elapsed' - lostTime' = Time',
         elapsed' \in Nat, timer' \in 1 .. Tick, currentTime' \in Nat, lostTime' \in Nat,
         call' = call, currentTime' >= currentTime,
         \A v \in Int : Past(v) => Past(v)',
         call.pc # "none" => CallFrame',
         call.pc # "none" /\ ~call.enabled => Reading' /\ currentTime' = currentTime
  PROVE  ClockInv'
<1>1. /\ call \in CallType /\ Result \in Int /\ Result' = Result
      /\ call.start \in Int /\ call.c \in Nat /\ currentTime \in Nat
  <2>1. /\ call \in CallType /\ call.start \in Int /\ call.c \in Nat /\ call.t \in Nat
        /\ currentTime \in Nat /\ Tick \in Nat
    BY ClockAssumption DEF ClockInv, CallType
  <2>2. Result' = Result /\ Result = (Tick - call.t) + call.c
    BY DEF Result
  <2> QED BY <2>1, <2>2
<1>2. CallInv'
  <2> SUFFICES ASSUME call.pc # "none" PROVE CallInv'
    BY DEF CallInv
  <2>1. CallFrame /\ CallRead /\ CallInv
    BY DEF ClockInv, CallInv
  <2>2. CallRead'
    BY <1>1, <2>1 DEF CallRead
  <2> QED BY <1>1, <2>1, <2>2 DEF CallInv
<1> QED BY <1>1, <1>2 DEF ClockInv

LEMMA PassStep ==
  ASSUME ClockInv, Pass
  PROVE  ClockInv'
<1>1. /\ elapsed' = elapsed + 1 /\ timer' = IF timer = 1 THEN Tick ELSE timer - 1
      /\ currentTime' = currentTime /\ call' = call
      /\ UNCHANGED <<mask, currently_blocked, activeHandlers, frames>>
      /\ \/ timer # 1 /\ pending' = pending /\ lostTime' = lostTime
         \/ timer = 1 /\ INTR_ELAPSED \notin pending
            /\ pending' = pending \cup {INTR_ELAPSED} /\ lostTime' = lostTime
         \/ timer = 1 /\ INTR_ELAPSED \in pending
            /\ lostTime' = lostTime + Tick /\ pending' = pending
  BY DEF Pass, Raise, sigVars
<1>2. SigInv'
  BY SigStep, ClockSteps DEF ClockInv, ClockNext
<1>3. Top' = Top /\ TickOnTop' /\ (TickHandler' <=> TickHandler)
  BY <1>1 DEF ClockInv, TickOnTop, FramesWith, Top, TickHandler
<1>4. /\ timer' \in 1 .. Tick /\ elapsed' \in Nat /\ lostTime' \in Nat /\ currentTime' \in Nat
      /\ elapsed \in Nat /\ lostTime \in Nat
  BY <1>1, ClockFacts DEF ClockInv
\* A tick that is raised makes up for the timer that starts again; one that is
\* lost does not, but then another is pending.
<1>5. /\ timer # 1 \/ INTR_ELAPSED \in pending => Due' = Due
      /\ timer = 1 /\ INTR_ELAPSED \notin pending => Due' = Due + Tick
      /\ timer = 1 /\ INTR_ELAPSED \in pending => Due > 0
  BY <1>1, <1>3, ClockFacts DEF Due
<1>6. Counted' = currentTime + Due' /\ Time' = Counted' + (Tick - timer')
  BY <1>1 DEF Counted, Time
<1>7. elapsed' - lostTime' = Time'
  <2>1. elapsed - lostTime = Time /\ Time = Counted + (Tick - timer) /\ Counted = currentTime + Due
    BY DEF ClockInv, Time, Counted
  <2>2. Tick \in Int /\ timer \in Int /\ currentTime \in Int /\ Due \in Int
    BY ClockFacts
  <2>3. CASE timer # 1
    <3>1. elapsed' = elapsed + 1 /\ lostTime' = lostTime /\ Due' = Due /\ timer' = timer - 1
      BY <1>1, <1>5, <2>3
    <3> QED BY <1>4, <1>6, <2>1, <2>2, <3>1
  <2>4. CASE timer = 1 /\ INTR_ELAPSED \notin pending
    <3>1. elapsed' = elapsed + 1 /\ lostTime' = lostTime /\ Due' = Due + Tick /\ timer' = Tick
      BY <1>1, <1>5, <2>4
    <3> QED BY <1>4, <1>6, <2>1, <2>2, <2>4, <3>1
  <2>5. CASE timer = 1 /\ INTR_ELAPSED \in pending
    <3>1. elapsed' = elapsed + 1 /\ lostTime' = lostTime + Tick /\ Due' = Due /\ timer' = Tick
      BY <1>1, <1>5, <2>5
    <3> QED BY <1>4, <1>6, <2>1, <2>2, <2>5, <3>1
  <2> QED BY <2>3, <2>4, <2>5
<1>8. ASSUME NEW v \in Int, Past(v) PROVE Past(v)'
  <2>1. v <= Time /\ (Due > 0 => v <= Counted)
    BY <1>8 DEF Past
  <2>2. v' = v
    OBVIOUS
  <2>3. v <= Time' /\ (Due' > 0 => v <= Counted')
    <3>1. CASE timer # 1
      BY <1>1, <1>5, <1>6, <2>1, <3>1, ClockFacts DEF Counted, Time
    <3>2. CASE timer = 1 /\ INTR_ELAPSED \notin pending
      BY <1>1, <1>5, <1>6, <2>1, <3>2, ClockFacts DEF Counted, Time
    <3>3. CASE timer = 1 /\ INTR_ELAPSED \in pending
      BY <1>1, <1>5, <1>6, <2>1, <3>3, ClockFacts DEF Counted, Time
    <3> QED BY <3>1, <3>2, <3>3
  <2> QED BY <2>3 DEF Past
<1>9. call.pc # "none" => CallFrame' /\ (Reading' <=> Reading)
  BY <1>1 DEF ClockInv, CallInv, CallFrame, Reading
<1>10. call.pc # "none" /\ ~call.enabled => Reading
  BY DEF ClockInv, CallInv
<1> QED BY <1>1, <1>2, <1>3, <1>4, <1>7, <1>8, <1>9, <1>10, OtherStep

\* The activation on top goes on, or returns: no tick is being handled then.
LEMMA MoveTicks ==
  ASSUME ClockInv, NEW pc \in AllPcs, Move(pc), pc \in {"handler", "nested"} => Top.sig # INTR_ELAPSED
  PROVE  /\ TickOnTop' /\ ~TickHandler' /\ Len(frames') = Len(frames)
         /\ \A n \in 1 .. Len(frames) - 1 : frames'[n] = frames[n]
<1>1. /\ Len(frames') = Len(frames) /\ Top' = frames'[Len(frames)]
      /\ Top'.pc = pc /\ Top'.sig = Top.sig
      /\ \A n \in 1 .. Len(frames) - 1 : frames'[n] = frames[n]
  BY ClockFacts, MoveTop
<1>2. ASSUME NEW n \in 1 .. Len(frames), n # Len(frames)
      PROVE  /\ n \in 1 .. Len(frames) - 1
             /\ frames[n].pc \in {"handler", "nested"} => frames[n].sig # INTR_ELAPSED
  BY <1>2, ClockFacts DEF ClockInv, TickOnTop, FramesWith
<1>3. \A n \in 1 .. Len(frames) :
        frames'[n].pc \in {"handler", "nested"} => frames'[n].sig # INTR_ELAPSED
  BY <1>1, <1>2
<1>4. TickOnTop'
  BY <1>1, <1>3 DEF TickOnTop, FramesWith
<1> QED BY <1>1, <1>4 DEF TickHandler

LEMMA PopTicks ==
  ASSUME ClockInv, SigReturn
  PROVE  /\ TickOnTop' /\ ~TickHandler' /\ Len(frames) > 1 /\ Len(frames') = Len(frames) - 1
         /\ \A n \in 1 .. Len(frames) - 1 : frames'[n] = frames[n]
         /\ mask' = {} \/ Top'.pc = "return"
<1>1. /\ Len(frames) > 1 /\ (mask' = {} \/ Top'.pc = "return")
      /\ frames' = SubSeq(frames, 1, Len(frames) - 1)
  BY SigReturnStep DEF ClockInv, SigReturn
<1>2. /\ Len(frames') = Len(frames) - 1 /\ Top' = frames[Len(frames) - 1]
      /\ \A n \in 1 .. Len(frames) - 1 : frames'[n] = frames[n]
  BY <1>1, SigReturnStep, ClockFacts, PopFrame DEF ClockInv
<1>3. \A n \in 1 .. Len(frames) - 1 :
        frames[n].pc \in {"handler", "nested"} => frames[n].sig # INTR_ELAPSED
  BY ClockFacts DEF ClockInv, TickOnTop, FramesWith
<1>4. TickOnTop'
  BY <1>2, <1>3 DEF TickOnTop, FramesWith
<1>5. ~TickHandler'
  BY <1>1, <1>2, <1>3, ClockFacts, SigReturnStep DEF TickHandler, ClockInv
<1> QED BY <1>1, <1>2, <1>4, <1>5, SigReturnStep DEF ClockInv

\* No tick is being handled after a step of Work; one that was, is counted.
LEMMA WorkTicks ==
  ASSUME ClockInv, Work
  PROVE  /\ TickOnTop' /\ ~TickHandler'
         /\ currentTime' = IF TickHandler THEN currentTime + Tick ELSE currentTime
         /\ Len(frames') <= Len(frames)
         /\ Len(frames) - 1 <= Len(frames') /\ Len(frames') >= 1 /\ Len(frames') \in Nat
         /\ \A n \in 1 .. Len(frames) - 1 : frames'[n] = frames[n]
         /\ Len(frames') < Len(frames) => mask' = {} \/ Top'.pc = "return"
<1>1. Len(frames) \in Nat /\ Len(frames) >= 1 /\ Top = frames[Len(frames)]
  BY ClockFacts
<1>2. CASE enable_interrupts \/ disable_interrupts
  <2>1. Top.pc \in CodePcs /\ frames' = frames /\ Top' = Top
    BY <1>2 DEF enable_interrupts, disable_interrupts, Runs, Top
  <2>2. \A n \in FramesWith({"handler"}) : frames[n].sig # INTR_ELAPSED
    BY <1>1, <2>1 DEF ClockInv, TickOnTop, FramesWith, CodePcs
  <2>3. TickOnTop' /\ ~TickHandler /\ ~TickHandler'
    BY <2>1, <2>2 DEF ClockInv, TickOnTop, FramesWith, TickHandler, CodePcs
  <2>4. currentTime' = currentTime
    BY <1>2, <2>1 DEF Work, HandlerEnd, Runs, CodePcs
  <2> QED BY <1>1, <2>1, <2>3, <2>4
<1>3. CASE SigReturn
  <2>1. Top.pc = "return" /\ ~TickHandler
    BY <1>3 DEF SigReturn, Runs, TickHandler
  <2>2. currentTime' = currentTime
    BY <2>1 DEF Work, HandlerEnd, Runs
  <2> QED BY <1>1, <1>3, <2>1, <2>2, PopTicks
<1>4. CASE Preempt \/ PreemptReturn \/ ScheduleReturn \/ Restore
  <2>1. PICK pc \in {"nested", "handler", "restore", "return"} :
          /\ Move(pc)
          /\ pc \in {"handler", "nested"} => Top.sig # INTR_ELAPSED
    <3>1. Top.pc = "nested" => Top.sig # INTR_ELAPSED
      BY <1>1 DEF ClockInv, TickOnTop, FramesWith
    <3> QED BY <1>4, <3>1 DEF Preempt, PreemptReturn, ScheduleReturn, Restore, Runs
  <2>2. pc \in AllPcs
    BY DEF AllPcs, CodePcs
  <2>3. ~TickHandler /\ ~(HandlerEnd /\ handle_elapsed_time_interrupt /\ TickHandler)
    BY <1>4 DEF Preempt, PreemptReturn, ScheduleReturn, Restore, Runs, TickHandler
  <2>4. currentTime' = currentTime
    BY <2>3 DEF Work, HandlerEnd, Runs, TickHandler, handle_elapsed_time_interrupt
  <2> QED BY <1>1, <2>1, <2>2, <2>3, <2>4, MoveTicks
<1>5. CASE HandlerEnd
  <2>1. PICK pc \in {"schedule", "restore"} : Move(pc)
    BY <1>5 DEF HandlerEnd
  <2>2. pc \in AllPcs
    BY DEF AllPcs, CodePcs
  <2>3. Top.pc = "handler"
    BY <1>5 DEF HandlerEnd, Runs
  <2>4. handle_elapsed_time_interrupt
    <3>1. ~Execute \/ Top.pc # "handler" \/ Preempt
      BY DEF Execute, enable_interrupts, disable_interrupts, PreemptReturn, ScheduleReturn,
             Restore, SigReturn, Runs, CodePcs
    <3>2. ~Preempt
      <4>1. ~Move("nested")
        BY <2>1, <2>2, ClockFacts, MoveTop DEF AllPcs, CodePcs
      <4> QED BY <4>1 DEF Preempt
    <3> QED BY <2>3, <3>1, <3>2 DEF Work
  <2>5. currentTime' = IF TickHandler THEN currentTime + Tick ELSE currentTime
    BY <2>3, <2>4 DEF handle_elapsed_time_interrupt, TickHandler
  <2> QED BY <1>1, <2>1, <2>2, <2>5, MoveTicks
<1> QED BY <1>2, <1>3, <1>4, <1>5 DEF Work, Execute

LEMMA WorkStep ==
  ASSUME ClockInv, Work
  PROVE  ClockInv'
<1>1. /\ ~Reading /\ UNCHANGED <<elapsed, timer, lostTime, call>> /\ pending' = pending
  BY DEF Work, Execute, HandlerEnd, enable_interrupts, disable_interrupts, Preempt,
         PreemptReturn, ScheduleReturn, Restore, SigReturn
<1>2. SigInv'
  BY SigStep, ClockSteps DEF ClockInv, ClockNext
<1>3. /\ TickOnTop' /\ ~TickHandler'
      /\ currentTime' = IF TickHandler THEN currentTime + Tick ELSE currentTime
  BY WorkTicks
<1>4. /\ Due' = IF TickHandler THEN Due - Tick ELSE Due
      /\ Due' > 0 => Due > 0
  BY <1>1, <1>3, ClockFacts DEF Due
<1>5. currentTime' \in Nat /\ currentTime' >= currentTime /\ Counted' = Counted
  <2>1. currentTime \in Nat /\ Tick \in Nat /\ Due \in Nat
    BY ClockFacts
  <2>2. CASE TickHandler
    <3>1. currentTime' = currentTime + Tick /\ Due' = Due - Tick
      BY <1>3, <1>4, <2>2
    <3> QED BY <2>1, <3>1 DEF Counted
  <2>3. CASE ~TickHandler
    <3>1. currentTime' = currentTime /\ Due' = Due
      BY <1>3, <1>4, <2>3
    <3> QED BY <2>1, <3>1 DEF Counted
  <2> QED BY <2>2, <2>3
<1>6. Time' = Time
  BY <1>1, <1>5 DEF Time
<1>7. \A v \in Int : Past(v) => Past(v)'
  BY <1>4, <1>5, <1>6 DEF Past
<1>8. call.pc # "none" => CallFrame'
  <2> SUFFICES ASSUME call.pc # "none" PROVE CallFrame'
    OBVIOUS
  <2>1. CallFrame /\ call.enabled /\ call.depth # Len(frames)
    BY <1>1 DEF ClockInv, CallInv, Reading
  <2>2. call.depth \in 1 .. Len(frames) - 1 /\ Len(frames) - 1 <= Len(frames')
    BY <2>1, ClockFacts, WorkTicks DEF CallFrame
  <2>3. call.depth \in 1 .. Len(frames') /\ frames'[call.depth] = frames[call.depth]
    <3>1. Len(frames) \in Nat /\ Len(frames') \in Nat
      BY ClockFacts, WorkTicks
    <3>2. call.depth \in 1 .. Len(frames')
      BY <2>2, <3>1
    <3> QED BY <2>2, <3>2, WorkTicks
  <2>4. ASSUME Reading' PROVE mask' = {}
    <3>1. call.depth = Len(frames') /\ Len(frames') < Len(frames)
      BY <1>1, <2>2, <2>4, ClockFacts, WorkTicks DEF Reading
    <3>2. Top'.pc \in CodePcs
      BY <2>1, <2>3, <3>1 DEF CallFrame, Top
    <3> QED BY <3>1, <3>2, WorkTicks DEF CodePcs
  <2> QED BY <1>1, <2>1, <2>3, <2>4 DEF CallFrame
<1>9. call.pc # "none" => call.enabled
  BY <1>1 DEF ClockInv, CallInv
<1> QED BY <1>1, <1>2, <1>3, <1>5, <1>6, <1>7, <1>8, <1>9, OtherStep DEF ClockInv

LEMMA RaiseStep ==
  ASSUME ClockInv, NEW s \in all_signals \ {INTR_ELAPSED}, Raise(s), UNCHANGED clockVars
  PROVE  ClockInv'
<1>1. /\ pending' = pending \cup {s} /\ s # INTR_ELAPSED
      /\ UNCHANGED <<mask, currently_blocked, activeHandlers, frames>>
      /\ UNCHANGED <<elapsed, timer, currentTime, lostTime, call>>
  BY DEF Raise, clockVars
<1>2. SigInv'
  BY QuietStep DEF ClockInv
<1>3. Top' = Top /\ TickOnTop' /\ (TickHandler' <=> TickHandler)
  BY <1>1 DEF ClockInv, TickOnTop, FramesWith, Top, TickHandler
<1>4. Due' = Due /\ Counted' = Counted /\ Time' = Time
  BY <1>1, <1>3 DEF Due, Counted, Time
<1>5. \A v \in Int : Past(v) => Past(v)'
  BY <1>4 DEF Past
<1>6. call.pc # "none" => CallFrame' /\ (Reading' <=> Reading)
  BY <1>1 DEF ClockInv, CallInv, CallFrame, Reading
<1>7. call.pc # "none" /\ ~call.enabled => Reading
  BY DEF ClockInv, CallInv
<1> QED BY <1>1, <1>2, <1>3, <1>4, <1>5, <1>6, <1>7, OtherStep, ClockFacts DEF ClockInv

LEMMA DeliveryStep ==
  ASSUME ClockInv, NEW s \in all_signals, Deliver(s), UNCHANGED clockVars
  PROVE  ClockInv'
<1> DEFINE l == Len(frames)
           f == Frame(s, "handler")
<1>1. UNCHANGED <<elapsed, timer, currentTime, lostTime, call>>
  BY DEF clockVars
<1>2. /\ SigInv' /\ mask' = all_signals
      /\ mask # all_signals
      /\ pending' = pending \ {s} /\ s \in pending
      /\ frames' = Append(frames, f)
  <2>1. s \in pending \ mask /\ mask \subseteq all_signals
    BY DEF Deliver, Deliverable, ClockInv, SigInv, SigTypeOK
  <2> QED BY <2>1, DeliverStep DEF ClockInv, Deliver
<1>3. f.sig = s /\ f.pc = "handler"
  BY DEF Frame
<1>4. f \in FrameType
  BY DEF Frame, FrameType, AllPcs, ClockInv, SigInv, SigTypeOK
<1> HIDE DEF f
<1>5. /\ Len(frames') = l + 1 /\ Top' = f
      /\ \A n \in 1 .. l : frames'[n] = frames[n]
      /\ frames'[l + 1] = f
  BY <1>2, <1>4, ClockFacts, PushFrame DEF Top
\* All signals but the one delivered were not blocked: the tick is not being
\* handled.
<1>6. \A n \in 1 .. l : frames[n].pc \in {"handler", "nested"} => frames[n].sig # INTR_ELAPSED
  BY <1>2 DEF ClockInv, TickOnTop, FramesWith
<1>7. ~TickHandler /\ (TickHandler' <=> s = INTR_ELAPSED)
  BY <1>3, <1>5, <1>6, ClockFacts DEF TickHandler
<1>8. TickOnTop'
  <2>1. l \in Nat /\ Len(frames') = l + 1 /\ mask' = all_signals
    BY <1>2, <1>5, ClockFacts
  <2> QED BY <1>3, <1>5, <1>6, <2>1 DEF TickOnTop, FramesWith
<1>9. Due' = Due
  BY <1>2, <1>7, ClockFacts DEF Due
<1>10. Counted' = Counted /\ Time' = Time
  BY <1>1, <1>9 DEF Counted, Time
<1>11. \A v \in Int : Past(v) => Past(v)'
  BY <1>9, <1>10 DEF Past
<1>12. call.pc # "none" => CallFrame' /\ call.enabled
  <2> SUFFICES ASSUME call.pc # "none" PROVE CallFrame' /\ call.enabled
    OBVIOUS
  <2>1. CallFrame /\ (~call.enabled => Reading)
    BY DEF ClockInv, CallInv
  <2>2. call.enabled
    BY <1>2, <2>1 DEF CallFrame
  <2>3. call.depth \in 1 .. l + 1 /\ call.depth # l + 1 /\ frames'[call.depth] = frames[call.depth]
    BY <1>5, <2>1, ClockFacts DEF CallFrame
  <2> QED BY <1>1, <1>5, <2>1, <2>2, <2>3 DEF CallFrame, Reading
<1> QED BY <1>1, <1>2, <1>8, <1>10, <1>11, <1>12, OtherStep, ClockFacts DEF ClockInv

-----------------------------------------------------------------------------
LEMMA ClockInitInv == ClockInit => ClockInv
<1> SUFFICES ASSUME ClockInit PROVE ClockInv
  OBVIOUS
<1>1. SigInv
  BY SigInit DEF ClockInit
<1>2. /\ pending = {} /\ Len(frames) = 1 /\ Top.pc = "code" /\ frames[1].pc = "code"
      /\ elapsed = 0 /\ timer = Tick /\ currentTime = 0 /\ lostTime = 0 /\ call = NoCall
  BY DEF ClockInit, Init, Top
<1>3. TickOnTop
  BY <1>2 DEF TickOnTop, FramesWith
<1>4. Tick \in Nat /\ Tick > 1
  BY ClockAssumption
<1>5. Due = 0
  BY <1>2 DEF Due, TickHandler
<1>6. elapsed - lostTime = Time
  BY <1>2, <1>4, <1>5 DEF Time, Counted
<1>7. call \in CallType /\ call.pc = "none"
  BY <1>2, <1>4 DEF NoCall, CallType
<1> QED BY <1>1, <1>2, <1>3, <1>4, <1>6, <1>7 DEF ClockInv, CallInv

LEMMA ClockNextInv == ClockInv /\ [ClockNext]_<<sigVars, clockVars>> => ClockInv'
<1> SUFFICES ASSUME ClockInv, [ClockNext]_<<sigVars, clockVars>> PROVE ClockInv'
  OBVIOUS
<1>1. CASE UNCHANGED <<sigVars, clockVars>>
  <2>1. UNCHANGED <<sigVars, elapsed, timer, currentTime, lostTime, call>>
    BY <1>1 DEF clockVars
  <2>2. CallInv'
    BY <2>1, SameClock DEF ClockInv, CallInv, CallFrame, CallRead, Reading, Result, sigVars
  <2> QED BY <2>1, <2>2, SameClock DEF ClockInv
<1>2. CASE ClockNext
  BY <1>2, NowCallStep, NowReadStep, NowCompareStep, NowReturnStep, PassStep, WorkStep,
     RaiseStep, DeliveryStep DEF ClockNext, Signal
<1> QED BY <1>1, <1>2

\* For any tick and any nesting of handlers: the ticks are on their way, counted
\* or lost, and a call of Now() has read what was true when it read it.
THEOREM ClockInvariant == ClockSpec => []ClockInv
BY ClockInitInv, ClockNextInv, PTL DEF ClockSpec

LEMMA UncountedTime ==
  ASSUME ClockInv
  PROVE  Uncounted \in Nat /\ Due = Tick * Uncounted
<1> DEFINE H == {n \in FramesWith({"handler"}) : frames[n].sig = INTR_ELAPSED}
           P == pending \cap {INTR_ELAPSED}
<1>1. H = IF TickHandler THEN {Len(frames)} ELSE {}
  BY ClockFacts DEF ClockInv, TickOnTop, FramesWith, TickHandler
<1>2. P = IF INTR_ELAPSED \in pending THEN {INTR_ELAPSED} ELSE {}
  OBVIOUS
<1>3. Cardinality(H) = IF TickHandler THEN 1 ELSE 0
  BY <1>1, FS_Singleton, FS_EmptySet
<1>4. Cardinality(P) = IF INTR_ELAPSED \in pending THEN 1 ELSE 0
  BY <1>2, FS_Singleton, FS_EmptySet
<1>5. Uncounted = Cardinality(P) + Cardinality(H)
  BY DEF Uncounted
<1>6. Tick \in Nat /\ Tick * 0 = 0 /\ Tick * 1 = Tick /\ Tick * 2 = Tick + Tick
  BY ClockAssumption
<1>7. Uncounted \in {0, 1, 2}
  BY <1>3, <1>4, <1>5
<1>8. Due = IF Uncounted = 0 THEN 0 ELSE IF Uncounted = 1 THEN Tick ELSE Tick + Tick
  <2>1. Due = (IF INTR_ELAPSED \in pending THEN Tick ELSE 0) + (IF TickHandler THEN Tick ELSE 0)
    BY DEF Due
  <2> QED BY <1>3, <1>4, <1>5, <1>6, <2>1
<1> QED BY <1>6, <1>7, <1>8

\* The types of the clock (timer.c) and of the signals below it.
THEOREM ClockTypesHold == ClockSpec => []ClockTypeOK
<1>1. ClockInv => ClockTypeOK
  BY DEF ClockInv, ClockTypeOK, SigInv, CallType
<1> QED BY <1>1, ClockInvariant, PTL

\* The time since timer_init(), up to the last tick, is the time counted, the
\* time of the ticks on their way, and that of the ticks lost.
THEOREM TicksAccountedHolds == ClockSpec => []TicksAccounted
<1>1. ClockInv => TicksAccounted
  <2> SUFFICES ASSUME ClockInv PROVE TicksAccounted
    OBVIOUS
  <2>1. elapsed - lostTime = (currentTime + Due) + (Tick - timer) /\ Due = Tick * Uncounted
    BY UncountedTime DEF ClockInv, Time, Counted
  <2>2. elapsed \in Int /\ lostTime \in Int /\ currentTime \in Int /\ Due \in Int
        /\ Tick \in Int /\ timer \in Int
    BY ClockFacts DEF ClockInv
  <2>3. elapsed - (Tick - timer) = currentTime + lostTime + Due
    BY <2>1, <2>2
  <2> QED BY <2>1, <2>3 DEF TicksAccounted
<1> QED BY <1>1, ClockInvariant, PTL

\* With interrupts enabled Now() returns a time between its call and its return,
\* wherever it is interrupted, ticks lost apart.
THEOREM NowExactHolds == ClockSpec => []NowExact
<1>1. ClockInv => NowExact
  BY DEF ClockInv, CallInv, CallRead, NowExact, At, Past
<1> QED BY <1>1, ClockInvariant, PTL

\* With interrupts disabled Now() is less than two ticks behind; it is never
\* ahead of the time.
THEOREM NowBehindHolds == ClockSpec => []NowBehind
<1>1. ClockInv => NowBehind
  <2> SUFFICES ASSUME ClockInv, At("return")
               PROVE  call.start < Result + 2 * Tick /\ Result <= elapsed - lostTime
    BY DEF NowBehind
  <2>1. /\ call.c \in Nat /\ call.t \in 0 .. Tick /\ call.start \in Int /\ Tick \in Nat
        /\ Result = (Tick - call.t) + call.c
    BY ClockFacts DEF ClockInv, CallType, Result
  <2>2. /\ Past(Result)
        /\ call.enabled => call.start <= Result
        /\ ~call.enabled => call.start < call.c + 2 * Tick
    BY DEF ClockInv, CallInv, CallRead, At
  <2>3. call.start < Result + 2 * Tick
    <3>1. call.c <= Result /\ Result \in Int
      BY <2>1
    <3>2. call.start <= Result \/ call.start < call.c + 2 * Tick
      BY <2>2
    <3>3. Tick > 1
      BY ClockFacts
    <3> QED BY <2>1, <3>1, <3>2, <3>3
  <2> QED BY <2>2, <2>3 DEF ClockInv, Past
<1> QED BY <1>1, ClockInvariant, PTL
=============================================================================
