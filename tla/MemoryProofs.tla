--------------------------- MODULE MemoryProofs ---------------------------
(***************************************************************************)
(* The allocator of memory.c, for any table of block lengths with room for *)
(* a pointer, any memory, any requests and any nesting of callers: the     *)
(* free lists are intact, no two records in use overlap, memory does not   *)
(* leak, and the abstract allocator is implemented.                        *)
(***************************************************************************)
EXTENDS Memory, SequenceTheorems, FiniteSetTheorems, WellFoundedInduction, TLAPS

\* Block (a, i) is being given back by the caller that executes, is in use, is
\* released; and all blocks ever cut.
Held(a, i)   == Top.pc \in {"release", "linked"} /\ Top.block = a /\ Top.index = i
Live(a, i)   == \E b \in live : b.addr = a /\ b.index = i
Free(a, i)   == \E k \in 1 .. Len(free[i]) : free[i][k] = a
Cut(a, i)    == Held(a, i) \/ Live(a, i) \/ Free(a, i)

\* A block that the program does not have any more.
Pooled(a, i) == Held(a, i) \/ Free(a, i)

\* What a step does to the blocks: nothing, or it hands out or takes back (x, j).
NoMove ==
  \A i \in Classes, a \in Addrs : /\ Live(a, i)' <=> Live(a, i)
                                  /\ Pooled(a, i)' <=> Pooled(a, i)
HandsOut(x, j) ==
  \A i \in Classes, a \in Addrs :
    /\ Live(a, i)' <=> Live(a, i) \/ (a = x /\ i = j)
    /\ Pooled(a, i)' <=> Pooled(a, i) /\ ~(a = x /\ i = j)
TakesBack(x, j) ==
  \A i \in Classes, a \in Addrs :
    /\ Live(a, i)' <=> Live(a, i) /\ ~(a = x /\ i = j)
    /\ Pooled(a, i)' <=> Pooled(a, i) \/ (a = x /\ i = j)

\* Only the last caller is inside memory.c, with interrupts disabled.
OneInside ==
  /\ \A n \in 1 .. Len(calls) - 1 : calls[n].pc = "idle"
  /\ intr <=> Top.pc = "idle"
  /\ Top.pc # "idle" => Top.index \in Classes

\* What that caller knows stays true until it is done.
Knows ==
  /\ Top.pc = "allocate" => /\ Top.block = procmemlist[Top.index]
                            /\ Top.need <= procmemlen[Top.index]
  /\ Top.pc \in {"release", "linked"} => Top.block \in Addrs
  /\ Top.pc = "linked" => link[Top.block] = procmemlist[Top.index]

\* A block is at one place: in use, in one place of one list, or given back.
OnePlace ==
  /\ \A b, c \in live : b.addr = c.addr => b = c
  /\ \A i \in Classes : \A k, m \in 1 .. Len(free[i]) : free[i][k] = free[i][m] => k = m
  /\ \A i \in Classes, a \in Addrs : ~(Live(a, i) /\ Free(a, i))
  /\ \A i \in Classes, a \in Addrs : Held(a, i) => ~Live(a, i) /\ ~Free(a, i)

\* Blocks are below the tail, apart from each other, and leave no gap.
BlocksApart ==
  /\ \A i, j \in Classes, a, c \in Addrs :
       Cut(a, i) /\ Cut(c, j) =>
         \/ a = c /\ i = j
         \/ a + procmemlen[i] <= c
         \/ c + procmemlen[j] <= a
  /\ \A i \in Classes, a \in Addrs : Cut(a, i) => a + procmemlen[i] <= tail
  /\ \A x \in Nat : x < tail =>
       \E i \in Classes, a \in Addrs : Cut(a, i) /\ a <= x /\ x < a + procmemlen[i]
  /\ tail + taillen = MemLen

Enough == \A b \in live : b.need <= procmemlen[b.index]

MemInv ==
  /\ MemTypeOK
  /\ OneInside
  /\ Knows
  /\ FreeListsExact
  /\ OnePlace
  /\ BlocksApart
  /\ Enough

-----------------------------------------------------------------------------
\* Facts about the stack of callers and about sequences.

\* Replacing, pushing and popping the last caller.
LEMMA GotoTop ==
  ASSUME NEW S, calls \in Seq(S), calls # << >>, NEW c \in S, Goto(c)
  PROVE  /\ calls' \in Seq(S) /\ calls' # << >> /\ Len(calls') = Len(calls)
         /\ Top' = c
         /\ \A n \in 1 .. Len(calls) - 1 : calls'[n] = calls[n]
BY DEF Goto, Top

LEMMA PushTop ==
  ASSUME NEW S, calls \in Seq(S), calls # << >>, NEW c \in S, calls' = Append(calls, c)
  PROVE  /\ calls' \in Seq(S) /\ calls' # << >> /\ Len(calls') = Len(calls) + 1
         /\ Top' = c
         /\ \A n \in 1 .. Len(calls) : calls'[n] = calls[n]
BY DEF Top

LEMMA PopTop ==
  ASSUME NEW S, calls \in Seq(S), Len(calls) > 1,
         calls' = SubSeq(calls, 1, Len(calls) - 1)
  PROVE  /\ calls' \in Seq(S) /\ calls' # << >> /\ Len(calls') = Len(calls) - 1
         /\ Top' = calls[Len(calls) - 1]
         /\ \A n \in 1 .. Len(calls) - 1 : calls'[n] = calls[n]
<1> DEFINE m == Len(calls) - 1
<1>1. m \in Int /\ m >= 1 /\ 1 \in Int /\ \A n \in 1 .. m : calls[n] \in S
  OBVIOUS
<1> HIDE DEF m
<1>2. /\ SubSeq(calls, 1, m) \in Seq(S)
      /\ Len(SubSeq(calls, 1, m)) = m
      /\ \A n \in 1 .. m : SubSeq(calls, 1, m)[n] = calls[n]
  BY <1>1, SubSeqProperties
<1>3. calls' = SubSeq(calls, 1, m)
  BY DEF m
<1>4. calls' # << >> /\ Top' = calls[m]
  BY <1>1, <1>2, <1>3 DEF Top
<1> QED BY <1>2, <1>3, <1>4 DEF m

\* A list without its first element, and with a new one.
LEMMA RestOf ==
  ASSUME NEW S, NEW s \in Seq(S), s # << >>
  PROVE  LET r == SubSeq(s, 2, Len(s))
         IN  r \in Seq(S) /\ Len(r) = Len(s) - 1 /\ \A k \in 1 .. Len(r) : r[k] = s[k + 1]
<1>1. Len(s) \in Nat /\ Len(s) >= 1 /\ 2 \in Int /\ \A k \in 2 .. Len(s) : s[k] \in S
  OBVIOUS
<1>2. /\ SubSeq(s, 2, Len(s)) \in Seq(S)
      /\ Len(SubSeq(s, 2, Len(s))) = IF 2 <= Len(s) THEN Len(s) - 2 + 1 ELSE 0
      /\ \A k \in 1 .. Len(s) - 2 + 1 : SubSeq(s, 2, Len(s))[k] = s[2 + k - 1]
  BY <1>1, SubSeqProperties
<1> QED BY <1>1, <1>2

LEMMA PushedOn ==
  ASSUME NEW S, NEW s \in Seq(S), NEW x \in S
  PROVE  LET r == <<x>> \o s
         IN  /\ r \in Seq(S) /\ r # << >> /\ Len(r) = Len(s) + 1
             /\ r[1] = x /\ \A k \in 1 .. Len(s) : r[k + 1] = s[k]
OBVIOUS


\* A set of numbers has a least one: strict inclusion of the intervals 0 .. t is
\* well founded.
LEMMA LeastNumber ==
  ASSUME NEW T \in SUBSET Nat, T # {}
  PROVE  \E i \in T : \A j \in T : i <= j
<1> DEFINE W == {0 .. t : t \in T}
           R == StrictSubsetOrdering(Nat)
<1>1. W \subseteq FiniteSubsetsOf(Nat) /\ W # {}
  <2>1. ASSUME NEW t \in T PROVE 0 .. t \in SUBSET Nat /\ IsFiniteSet(0 .. t)
    <3>1. t \in Int /\ 0 \in Int /\ 0 .. t \subseteq Nat
      OBVIOUS
    <3> QED BY <3>1, FS_Interval
  <2> QED BY <2>1 DEF FiniteSubsetsOf
<1>2. PICK x \in W : \A y \in W : ~ (<<y, x>> \in R)
  <2> HIDE DEF W, R
  <2>1. IsWellFoundedOn(R, FiniteSubsetsOf(Nat))
    BY FS_StrictSubsetOrderingWellFounded DEF R
  <2> QED BY <1>1, <2>1, WFMin
<1>3. PICK i \in T : x = 0 .. i
  OBVIOUS
<1>4. ASSUME NEW j \in T, j < i PROVE FALSE
  <2>1. 0 .. j \in W /\ i \in Nat /\ j \in Nat
    OBVIOUS
  <2>2. 0 .. j \subseteq 0 .. i /\ i \in 0 .. i /\ i \notin 0 .. j
    BY <2>1, <1>4
  <2>3. <<0 .. j, 0 .. i>> \in R
    BY <2>2, <2>1 DEF StrictSubsetOrdering
  <2> QED BY <1>2, <1>3, <2>1, <2>3
<1> QED BY <1>4

\* find_mem_index() returns a class that is large enough.
LEMMA IndexFits ==
  ASSUME NEW size \in Nat, Fits(size) # {}
  PROVE  find_mem_index(size) \in Classes /\ size <= procmemlen[find_mem_index(size)]
<1>1. Fits(size) \in SUBSET Nat /\ Fits(size) \subseteq Classes
  BY MemoryAssumption DEF Fits, Classes
<1>2. \E i \in Fits(size) : \A j \in Fits(size) : i <= j
  BY <1>1, LeastNumber
<1>3. find_mem_index(size) \in Fits(size)
  BY <1>2 DEF find_mem_index
<1> QED BY <1>1, <1>3, MemoryAssumption DEF Fits, Classes

\* Numbers the steps below use of a class.
LEMMA ClassFacts ==
  ASSUME NEW i \in Classes
  PROVE  procmemlen[i] \in Nat /\ procmemlen[i] >= Word /\ Word > 0 /\ Word \in Nat /\ i \in Nat
BY MemoryAssumption DEF Classes

-----------------------------------------------------------------------------
\* What a step does to the blocks, by what it does to who has them.

\* No block is cut, and what there is stays in one place.
LEMMA SameBlocks ==
  ASSUME BlocksApart, UNCHANGED <<tail, taillen>>,
         \A i \in Classes, a \in Addrs : Cut(a, i)' <=> Cut(a, i)
  PROVE  BlocksApart'
BY DEF BlocksApart

\* Nobody gets or gives back a block.
LEMMA NobodyMoves ==
  ASSUME MemInv, UNCHANGED <<tail, taillen, live, free>>,
         \A i \in Classes, a \in Addrs : Held(a, i)' <=> Held(a, i)
  PROVE  OnePlace' /\ BlocksApart' /\ Enough' /\ NoMove
<1>1. \A i \in Classes, a \in Addrs : /\ Live(a, i)' <=> Live(a, i)
                                      /\ Free(a, i)' <=> Free(a, i)
                                      /\ Cut(a, i)' <=> Cut(a, i)
  BY DEF Live, Free, Cut
<1>2. BlocksApart'
  BY <1>1, SameBlocks DEF MemInv
<1>3. OnePlace'
  BY <1>1 DEF MemInv, OnePlace
<1>4. NoMove
  BY <1>1 DEF NoMove, Pooled
<1> QED BY <1>2, <1>3, <1>4 DEF MemInv, Enough

\* A block that is released, or being released, is not touched by writing n
\* bytes to another block.
LEMMA WriteElsewhere ==
  ASSUME MemInv, NEW i \in Classes, NEW a \in Addrs, Cut(a, i),
         NEW j \in Classes, NEW c \in Addrs, Cut(c, j), ~(a = c /\ i = j),
         NEW n \in Nat, n <= procmemlen[j]
  PROVE  Overwritten(c, n)[a] = link[a] /\ a # c
<1>1. a + procmemlen[i] <= c \/ c + procmemlen[j] <= a
  BY DEF MemInv, BlocksApart
<1>2. a \in Int /\ c \in Int /\ MemLen \in Nat
  BY MemoryAssumption DEF Addrs
<1>3. ~(a < c + n /\ c < a + Word) /\ a # c
  BY <1>1, <1>2, ClassFacts
<1> QED BY <1>3 DEF Overwritten

-----------------------------------------------------------------------------
\* One lemma for each kind of step.

\* The caller that executes, and its block.
LEMMA CallFacts ==
  ASSUME MemInv
  PROVE  /\ calls \in Seq(CallType) /\ calls # << >> /\ Top \in CallType
         /\ Len(calls) \in Nat /\ Len(calls) >= 1
         /\ NoCall \in CallType
         /\ Top.pc # "idle" => Top.index \in Classes
<1>1. calls \in Seq(CallType) /\ calls # << >>
  BY DEF MemInv, MemTypeOK
<1>2. Len(calls) \in Nat /\ Len(calls) >= 1 /\ Top \in CallType
  BY <1>1 DEF Top
<1>3. NoCall \in CallType
  BY DEF NoCall, CallType
<1> QED BY <1>1, <1>2, <1>3 DEF MemInv, OneInside

\* The blocks of a list.
LEMMA FreeFacts ==
  ASSUME MemInv, NEW i \in Classes, NEW k \in 1 .. Len(free[i])
  PROVE  free[i][k] \in Addrs /\ Free(free[i][k], i) /\ Cut(free[i][k], i)
<1>1. free[i] \in Seq(Addrs)
  BY DEF MemInv, MemTypeOK
<1>2. free[i][k] \in Addrs
  BY <1>1
<1> QED BY <1>2 DEF Free, Cut

\* A new state of the stack in which only the last caller is inside.
LEMMA GotoCall ==
  ASSUME MemInv, NEW c \in CallType, Goto(c), intr' = (c.pc = "idle"),
         c.pc # "idle" => c.index \in Classes
  PROVE  Top' = c /\ OneInside' /\ calls' \in Seq(CallType) /\ calls' # << >>
<1>1. /\ calls' \in Seq(CallType) /\ calls' # << >> /\ Len(calls') = Len(calls)
      /\ Top' = c
      /\ \A n \in 1 .. Len(calls) - 1 : calls'[n] = calls[n]
  BY CallFacts, GotoTop
<1> QED BY <1>1 DEF MemInv, OneInside

LEMMA TooLargeStep ==
  ASSUME MemInv, NEW size \in Requests, TooLarge(size)
  PROVE  MemInv' /\ NoMove
<1>1. Top' = Top /\ \A i \in Classes, a \in Addrs : Held(a, i)' <=> Held(a, i)
  BY DEF TooLarge, Top, Held
<1>2. OnePlace' /\ BlocksApart' /\ Enough' /\ NoMove
  BY <1>1, NobodyMoves DEF TooLarge
<1> QED BY <1>1, <1>2 DEF TooLarge, MemInv, MemTypeOK, OneInside, Knows, FreeListsExact

LEMMA OutOfMemoryStep ==
  ASSUME MemInv, OutOfMemory
  PROVE  MemInv' /\ NoMove
<1>1. Top' = Top /\ \A i \in Classes, a \in Addrs : Held(a, i)' <=> Held(a, i)
  BY DEF OutOfMemory, Top, Held
<1>2. OnePlace' /\ BlocksApart' /\ Enough' /\ NoMove
  BY <1>1, NobodyMoves DEF OutOfMemory
<1> QED BY <1>1, <1>2 DEF OutOfMemory, MemInv, MemTypeOK, OneInside, Knows, FreeListsExact

LEMMA AllocateEnterStep ==
  ASSUME MemInv, NEW size \in Requests, AllocateEnter(size)
  PROVE  MemInv' /\ NoMove
<1> DEFINE i == find_mem_index(size)
           c == [pc |-> "allocate", index |-> i, need |-> size, block |-> procmemlist[i]]
<1>1. size \in Nat /\ i \in Classes /\ size <= procmemlen[i] /\ i \in Nat
  BY IndexFits, MemoryAssumption DEF AllocateEnter, Classes
<1> HIDE DEF i
<1>2. c \in CallType /\ c.pc = "allocate"
  BY <1>1 DEF MemInv, MemTypeOK, CallType
<1>3. Top' = c /\ OneInside' /\ calls' \in Seq(CallType) /\ calls' # << >>
  BY <1>1, <1>2, GotoCall DEF AllocateEnter, i
<1>4. \A j \in Classes, a \in Addrs : Held(a, j)' <=> Held(a, j)
  BY <1>3 DEF Held, AllocateEnter, At
<1>5. OnePlace' /\ BlocksApart' /\ Enough' /\ NoMove
  BY <1>4, NobodyMoves DEF AllocateEnter
<1>6. Knows'
  BY <1>1, <1>3 DEF Knows, AllocateEnter
<1> QED BY <1>3, <1>5, <1>6 DEF AllocateEnter, MemInv, MemTypeOK, FreeListsExact

LEMMA PreemptStep ==
  ASSUME MemInv, Preempt
  PROVE  MemInv' /\ NoMove
<1>1. /\ calls' \in Seq(CallType) /\ calls' # << >> /\ Len(calls') = Len(calls) + 1
      /\ Top' = NoCall
      /\ \A n \in 1 .. Len(calls) : calls'[n] = calls[n]
  BY CallFacts, PushTop DEF Preempt
<1>2. Top.pc = "idle" /\ Top' = NoCall /\ NoCall.pc = "idle"
  BY <1>1 DEF Preempt, MemInv, OneInside, NoCall
<1>3. OneInside'
  <2>1. \A n \in 1 .. Len(calls) : calls[n].pc = "idle"
    BY <1>2, CallFacts DEF MemInv, OneInside, Top
  <2> QED BY <1>1, <1>2, <2>1 DEF Preempt, MemInv, OneInside
<1>4. \A j \in Classes, a \in Addrs : Held(a, j)' <=> Held(a, j)
  BY <1>2 DEF Held
<1>5. OnePlace' /\ BlocksApart' /\ Enough' /\ NoMove
  BY <1>4, NobodyMoves DEF Preempt
<1> QED BY <1>1, <1>2, <1>3, <1>5 DEF Preempt, MemInv, MemTypeOK, FreeListsExact, Knows

LEMMA ReturnStep ==
  ASSUME MemInv, Return
  PROVE  MemInv' /\ NoMove
<1>1. /\ calls' \in Seq(CallType) /\ calls' # << >> /\ Len(calls') = Len(calls) - 1
      /\ Top' = calls[Len(calls) - 1]
      /\ \A n \in 1 .. Len(calls) - 1 : calls'[n] = calls[n]
  BY CallFacts, PopTop DEF Return
<1>2. Top.pc = "idle" /\ Top'.pc = "idle"
  BY <1>1, CallFacts DEF Return, At, MemInv, OneInside
<1>3. OneInside'
  BY <1>1, <1>2 DEF Return, MemInv, OneInside
<1>4. \A j \in Classes, a \in Addrs : Held(a, j)' <=> Held(a, j)
  BY <1>2 DEF Held
<1>5. OnePlace' /\ BlocksApart' /\ Enough' /\ NoMove
  BY <1>4, NobodyMoves DEF Return
<1> QED BY <1>1, <1>2, <1>3, <1>5 DEF Return, MemInv, MemTypeOK, FreeListsExact, Knows

LEMMA WriteStep ==
  ASSUME MemInv, NEW b \in live, Write(b)
  PROVE  MemInv' /\ NoMove
<1>1. /\ b.addr \in Addrs /\ b.index \in Classes /\ b.need \in Nat
      /\ b.need <= procmemlen[b.index]
      /\ Live(b.addr, b.index) /\ Cut(b.addr, b.index)
  BY DEF MemInv, MemTypeOK, Enough, Live, Cut
<1>2. Top' = Top /\ Top.pc = "idle" /\ \A i \in Classes, a \in Addrs : Held(a, i)' <=> Held(a, i)
  BY DEF Write, Top, Held, At
<1>3. OnePlace' /\ BlocksApart' /\ Enough' /\ NoMove
  BY <1>2, NobodyMoves DEF Write
<1>4. link' \in [Addrs -> Addrs \cup {Null, Junk}]
  BY DEF Write, Overwritten, MemInv, MemTypeOK
<1>5. ASSUME NEW i \in Classes, NEW k \in 1 .. Len(free[i]) PROVE link'[free[i][k]] = link[free[i][k]]
  <2>1. free[i][k] \in Addrs /\ Free(free[i][k], i) /\ Cut(free[i][k], i)
    BY FreeFacts
  <2>2. ~(free[i][k] = b.addr /\ i = b.index)
    BY <1>1, <2>1 DEF MemInv, OnePlace
  <2> QED BY <1>1, <2>1, <2>2, WriteElsewhere DEF Write
<1>6. FreeListsExact'
  BY <1>5 DEF MemInv, FreeListsExact, Write
<1> QED BY <1>2, <1>3, <1>4, <1>6 DEF Write, MemInv, MemTypeOK, OneInside, Knows

LEMMA ReleaseEnterStep ==
  ASSUME MemInv, NEW b \in live, ReleaseEnter(b)
  PROVE  MemInv' /\ TakesBack(b.addr, b.index)
<1> DEFINE c == [pc |-> "release", index |-> b.index, need |-> 0, block |-> b.addr]
<1>1. b.addr \in Addrs /\ b.index \in Classes /\ b.index \in Nat
  BY ClassFacts DEF MemInv, MemTypeOK
<1>2. c \in CallType /\ c.pc = "release"
  BY <1>1 DEF CallType
<1>3. Top' = c /\ OneInside' /\ calls' \in Seq(CallType) /\ calls' # << >>
  BY <1>1, <1>2, GotoCall DEF ReleaseEnter
<1>4. ASSUME NEW a \in Addrs, NEW i \in Classes
      PROVE  /\ Held(a, i)' <=> a = b.addr /\ i = b.index
             /\ ~Held(a, i)
             /\ Live(a, i)' <=> Live(a, i) /\ ~(a = b.addr /\ i = b.index)
             /\ Free(a, i)' <=> Free(a, i)
  <2>1. Held(a, i)' <=> a = b.addr /\ i = b.index
    BY <1>3 DEF Held
  <2>2. ~Held(a, i)
    BY DEF Held, ReleaseEnter, At
  <2>3. Live(a, i)' <=> Live(a, i) /\ ~(a = b.addr /\ i = b.index)
    BY DEF Live, ReleaseEnter, MemInv, OnePlace
  <2>4. Free(a, i)' <=> Free(a, i)
    BY DEF Free, ReleaseEnter
  <2> QED BY <2>1, <2>2, <2>3, <2>4
<1>5. Live(b.addr, b.index)
  BY DEF Live
<1>6. BlocksApart'
  <2>1. \A i \in Classes, a \in Addrs : Cut(a, i)' <=> Cut(a, i)
    BY <1>4, <1>5 DEF Cut
  <2> QED BY <2>1, SameBlocks DEF ReleaseEnter, MemInv
<1>7. OnePlace'
  BY <1>4, <1>5 DEF OnePlace, MemInv, ReleaseEnter
<1>8. Knows'
  BY <1>1, <1>3 DEF Knows
<1>9. Enough'
  BY DEF Enough, MemInv, ReleaseEnter
<1>10. TakesBack(b.addr, b.index)
  BY <1>4 DEF TakesBack, Pooled
<1> QED BY <1>10, <1>3, <1>6, <1>7, <1>8, <1>9 DEF ReleaseEnter, MemInv, MemTypeOK, FreeListsExact

LEMMA ReleaseLinkStep ==
  ASSUME MemInv, ReleaseLink
  PROVE  MemInv' /\ NoMove
<1> DEFINE c == [Top EXCEPT !.pc = "linked"]
           blk == Top.block
           cls == Top.index
<1>1. blk \in Addrs /\ cls \in Classes /\ Held(blk, cls) /\ Cut(blk, cls) /\ Top.pc = "release"
  BY CallFacts DEF ReleaseLink, At, MemInv, Knows, Held, Cut
<1>2. c \in CallType /\ c.pc = "linked" /\ c.block = blk /\ c.index = cls
  BY CallFacts DEF CallType
<1>3. Top' = c /\ OneInside' /\ calls' \in Seq(CallType) /\ calls' # << >>
  <2>1. intr' = (c.pc = "idle")
    BY <1>1, <1>2 DEF ReleaseLink, MemInv, OneInside, MemTypeOK
  <2> QED BY <1>1, <1>2, <2>1, GotoCall DEF ReleaseLink
<1>4. \A i \in Classes, a \in Addrs : Held(a, i)' <=> Held(a, i)
  BY <1>1, <1>2, <1>3 DEF Held
<1>5. OnePlace' /\ BlocksApart' /\ Enough' /\ NoMove
  BY <1>4, NobodyMoves DEF ReleaseLink
<1>6. /\ link' \in [Addrs -> Addrs \cup {Null, Junk}]
      /\ link'[blk] = procmemlist[cls]
      /\ \A a \in Addrs : a # blk => link'[a] = Overwritten(blk, Word)[a]
  BY <1>1 DEF ReleaseLink, Overwritten, MemInv, MemTypeOK
<1>7. ASSUME NEW i \in Classes, NEW k \in 1 .. Len(free[i]) PROVE link'[free[i][k]] = link[free[i][k]]
  <2>1. free[i][k] \in Addrs /\ Free(free[i][k], i) /\ Cut(free[i][k], i)
    BY FreeFacts
  <2>2. ~(free[i][k] = blk /\ i = cls)
    BY <1>1, <2>1 DEF MemInv, OnePlace
  <2>3. Word \in Nat /\ Word <= procmemlen[cls]
    BY <1>1, ClassFacts
  <2>4. Overwritten(blk, Word)[free[i][k]] = link[free[i][k]] /\ free[i][k] # blk
    <3> HIDE DEF blk, cls
    <3> QED BY <1>1, <2>1, <2>2, <2>3, WriteElsewhere
  <2> QED BY <1>6, <2>1, <2>4
<1>8. FreeListsExact'
  BY <1>7 DEF MemInv, FreeListsExact, ReleaseLink
<1>9. Knows'
  BY <1>1, <1>2, <1>3, <1>6 DEF Knows, ReleaseLink
<1> QED BY <1>3, <1>5, <1>6, <1>8, <1>9 DEF ReleaseLink, MemInv, MemTypeOK

LEMMA ReleasePushStep ==
  ASSUME MemInv, ReleasePush
  PROVE  MemInv' /\ NoMove
<1> DEFINE blk == Top.block
           cls == Top.index
           s == free[cls]
           r == <<blk>> \o s
<1>1. blk \in Addrs /\ cls \in Classes /\ Held(blk, cls) /\ Top.pc = "linked"
      /\ link[blk] = procmemlist[cls]
  BY CallFacts DEF ReleasePush, At, MemInv, Knows, Held
<1>2. Top' = NoCall /\ NoCall.pc = "idle" /\ OneInside' /\ calls' \in Seq(CallType) /\ calls' # << >>
  BY CallFacts, GotoCall DEF ReleasePush, NoCall
<1>3. s \in Seq(Addrs)
  BY <1>1 DEF MemInv, MemTypeOK
<1>4. /\ r \in Seq(Addrs) /\ r # << >> /\ Len(r) = Len(s) + 1 /\ Len(s) \in Nat
      /\ r[1] = blk /\ \A k \in 1 .. Len(s) : r[k + 1] = s[k]
  BY <1>1, <1>3, PushedOn
<1>5. free' = [free EXCEPT ![cls] = r] /\ free \in [Classes -> Seq(Addrs)]
  BY DEF ReleasePush, MemInv, MemTypeOK
<1> HIDE DEF r
<1>6. free'[cls] = r /\ \A i \in Classes : i # cls => free'[i] = free[i]
  BY <1>1, <1>5
<1>7. \A k \in 1 .. Len(r) : k = 1 \/ (k - 1 \in 1 .. Len(s) /\ r[k] = s[k - 1])
  BY <1>4
<1>8. ASSUME NEW a \in Addrs, NEW i \in Classes
      PROVE  /\ ~Held(a, i)'
             /\ Held(a, i) <=> a = blk /\ i = cls
             /\ Live(a, i)' <=> Live(a, i)
             /\ Free(a, i)' <=> Free(a, i) \/ (a = blk /\ i = cls)
  <2>1. ~Held(a, i)'
    BY <1>2 DEF Held
  <2>2. Held(a, i) <=> a = blk /\ i = cls
    BY <1>1 DEF Held
  <2>3. Live(a, i)' <=> Live(a, i)
    BY DEF Live, ReleasePush
  <2>4. Free(a, i)' <=> Free(a, i) \/ (a = blk /\ i = cls)
    <3>1. CASE i # cls
      BY <3>1, <1>6 DEF Free
    <3>2. CASE i = cls
      <4>1. ASSUME NEW k \in 1 .. Len(r), r[k] = a PROVE a = blk \/ \E n \in 1 .. Len(s) : s[n] = a
        BY <4>1, <1>4, <1>7
      <4>2. a = blk => \E k \in 1 .. Len(r) : r[k] = a
        BY <1>4
      <4>3. ASSUME NEW n \in 1 .. Len(s), s[n] = a PROVE \E k \in 1 .. Len(r) : r[k] = a
        BY <4>3, <1>4
      <4> QED BY <4>1, <4>2, <4>3, <3>2, <1>6 DEF Free
    <3> QED BY <3>1, <3>2
  <2> QED BY <2>1, <2>2, <2>3, <2>4
<1>9. BlocksApart'
  <2>1. \A i \in Classes, a \in Addrs : Cut(a, i)' <=> Cut(a, i)
    BY <1>8 DEF Cut
  <2> QED BY <2>1, SameBlocks DEF ReleasePush, MemInv
<1>10. OnePlace'
  <2>1. \A b, c \in live' : b.addr = c.addr => b = c
    BY DEF MemInv, OnePlace, ReleasePush
  <2>2. ASSUME NEW i \in Classes, NEW k \in 1 .. Len(free'[i]), NEW m \in 1 .. Len(free'[i]),
               free'[i][k] = free'[i][m]
        PROVE  k = m
    <3>1. CASE i # cls
      BY <3>1, <1>6, <2>2 DEF MemInv, OnePlace
    <3>2. CASE i = cls
      <4>1. \A n \in 1 .. Len(s) : s[n] # blk
        BY <1>1 DEF MemInv, OnePlace, Free
      <4>2. \A x, y \in 1 .. Len(s) : s[x] = s[y] => x = y
        BY <1>1 DEF MemInv, OnePlace
      <4>3. k \in 1 .. Len(r) /\ m \in 1 .. Len(r) /\ r[k] = r[m]
        BY <3>2, <2>2, <1>6
      <4> HIDE DEF s, blk
      <4>4. CASE k = 1 \/ m = 1
        BY <4>1, <4>3, <4>4, <1>4, <1>7
      <4>5. CASE k # 1 /\ m # 1
        <5>1. k - 1 \in 1 .. Len(s) /\ m - 1 \in 1 .. Len(s) /\ s[k - 1] = s[m - 1]
          BY <4>3, <4>5, <1>7
        <5> QED BY <5>1, <4>2, <4>3, <1>4
      <4> QED BY <4>4, <4>5
    <3> QED BY <3>1, <3>2
  <2>3. \A i \in Classes, a \in Addrs : ~(Live(a, i)' /\ Free(a, i)')
    BY <1>1, <1>8 DEF MemInv, OnePlace
  <2>4. \A i \in Classes, a \in Addrs : Held(a, i)' => ~Live(a, i)' /\ ~Free(a, i)'
    BY <1>8
  <2> QED BY <2>1, <2>2, <2>3, <2>4 DEF OnePlace
<1>11. FreeListsExact'
  <2> SUFFICES ASSUME NEW i \in Classes
               PROVE  /\ procmemlist'[i] = IF free'[i] = << >> THEN Null ELSE free'[i][1]
                      /\ \A k \in 1 .. Len(free'[i]) :
                           link[free'[i][k]] = IF k = Len(free'[i]) THEN Null ELSE free'[i][k + 1]
    BY DEF FreeListsExact, ReleasePush
  <2>1. procmemlist' = [procmemlist EXCEPT ![cls] = blk] /\ procmemlist \in [Classes -> Addrs \cup {Null}]
    BY DEF ReleasePush, MemInv, MemTypeOK
  <2>2. CASE i # cls
    BY <2>1, <2>2, <1>6 DEF MemInv, FreeListsExact
  <2>3. CASE i = cls
    <3>1. /\ procmemlist[cls] = IF s = << >> THEN Null ELSE s[1]
          /\ \A k \in 1 .. Len(s) : link[s[k]] = IF k = Len(s) THEN Null ELSE s[k + 1]
      BY <1>1 DEF MemInv, FreeListsExact
    <3>2. (s = << >>) <=> (Len(s) = 0)
      BY <1>3
    <3>3. ASSUME NEW k \in 1 .. Len(r)
          PROVE  link[r[k]] = IF k = Len(r) THEN Null ELSE r[k + 1]
      <4>1. CASE k = 1
        BY <4>1, <3>1, <3>2, <1>1, <1>4
      <4>2. CASE k # 1
        <5>1. k - 1 \in 1 .. Len(s) /\ r[k] = s[k - 1]
          BY <4>2, <1>7
        <5>2. k # Len(r) => k \in 1 .. Len(s) /\ r[k + 1] = s[k]
          BY <1>4, <4>2
        <5> QED BY <5>1, <5>2, <3>1, <1>4
      <4> QED BY <4>1, <4>2
    <3> QED BY <2>1, <2>3, <3>3, <1>1, <1>4, <1>6
  <2> QED BY <2>2, <2>3
<1>12. Knows' /\ Enough'
  BY <1>2 DEF Knows, Enough, MemInv, ReleasePush
<1>13. free' \in [Classes -> Seq(Addrs)] /\ procmemlist' \in [Classes -> Addrs \cup {Null}]
  BY <1>1, <1>4, <1>5 DEF ReleasePush, MemInv, MemTypeOK
<1>14. NoMove
  BY <1>8 DEF NoMove, Pooled
<1> QED BY <1>14, <1>2, <1>9, <1>10, <1>11, <1>12, <1>13 DEF ReleasePush, MemInv, MemTypeOK

LEMMA AllocateListedStep ==
  ASSUME MemInv, AllocateListed
  PROVE  MemInv' /\ HandsOut(Top.block, Top.index)
<1> DEFINE blk == Top.block
           cls == Top.index
           new == [addr |-> blk, index |-> cls, need |-> Top.need]
           s == free[cls]
           r == SubSeq(s, 2, Len(s))
<1>1. cls \in Classes /\ blk = procmemlist[cls] /\ blk # Null /\ Top.pc = "allocate"
      /\ Top.need \in Nat /\ Top.need <= procmemlen[cls]
  BY CallFacts DEF AllocateListed, At, MemInv, Knows, CallType
<1>2. s \in Seq(Addrs) /\ s # << >> /\ blk = s[1] /\ blk \in Addrs /\ Len(s) \in Nat /\ Len(s) >= 1
  <2>1. s \in Seq(Addrs)
    BY <1>1 DEF MemInv, MemTypeOK
  <2>2. s # << >> /\ blk = s[1]
    BY <1>1 DEF MemInv, FreeListsExact
  <2> QED BY <2>1, <2>2
<1>3. r \in Seq(Addrs) /\ Len(r) = Len(s) - 1 /\ \A k \in 1 .. Len(r) : r[k] = s[k + 1]
  BY <1>2, RestOf
<1>4. \A k \in 1 .. Len(s) : link[s[k]] = IF k = Len(s) THEN Null ELSE s[k + 1]
  BY <1>1 DEF MemInv, FreeListsExact
<1>5. blk # Junk
  BY <1>2, MemoryAssumption DEF Addrs
<1>6. /\ procmemlist' = [procmemlist EXCEPT ![cls] = link[blk]]
      /\ free' = [free EXCEPT ![cls] = r]
      /\ live' = live \cup {new}
      /\ Goto(NoCall) /\ intr' = TRUE /\ UNCHANGED <<fault, link, tail, taillen>>
  BY <1>5 DEF AllocateListed, Gets
<1>7. Top' = NoCall /\ NoCall.pc = "idle" /\ OneInside' /\ calls' \in Seq(CallType) /\ calls' # << >>
  BY <1>6, CallFacts, GotoCall DEF NoCall
<1> HIDE DEF r, blk, cls, s
<1>8. free'[cls] = r /\ \A i \in Classes : i # cls => free'[i] = free[i]
  BY <1>1, <1>6 DEF MemInv, MemTypeOK
<1>9. \A k, m \in 1 .. Len(s) : s[k] = s[m] => k = m
  BY <1>1 DEF MemInv, OnePlace, s
<1>10. Free(blk, cls)
  BY <1>2 DEF Free, s
<1>11. ASSUME NEW a \in Addrs, NEW i \in Classes
       PROVE  /\ ~Held(a, i)' /\ ~Held(a, i)
              /\ Live(a, i)' <=> Live(a, i) \/ (a = blk /\ i = cls)
              /\ Free(a, i)' <=> Free(a, i) /\ ~(a = blk /\ i = cls)
  <2>1. ~Held(a, i)' /\ ~Held(a, i)
    BY <1>1, <1>7 DEF Held
  <2>2. Live(a, i)' <=> Live(a, i) \/ (a = blk /\ i = cls)
    <3>1. new.addr = blk /\ new.index = cls
      OBVIOUS
    <3> HIDE DEF new
    <3> QED BY <3>1, <1>6 DEF Live
  <2>3. CASE i # cls
    BY <2>1, <2>2, <2>3, <1>8 DEF Free
  <2>4. CASE i = cls
    <3>1. ASSUME NEW k \in 1 .. Len(r), r[k] = a PROVE a # blk /\ \E n \in 1 .. Len(s) : s[n] = a
      <4>1. k + 1 \in 1 .. Len(s) /\ s[k + 1] = a /\ k + 1 # 1 /\ 1 \in 1 .. Len(s)
        BY <3>1, <1>2, <1>3
      <4> QED BY <4>1, <1>9, <1>2
    <3>2. ASSUME NEW n \in 1 .. Len(s), s[n] = a, a # blk PROVE \E k \in 1 .. Len(r) : r[k] = a
      <4>1. n - 1 \in 1 .. Len(r) /\ r[n - 1] = a
        BY <3>2, <1>2, <1>3
      <4> QED BY <4>1
    <3> QED BY <2>1, <2>2, <2>4, <3>1, <3>2, <1>8 DEF Free, s
  <2> QED BY <2>3, <2>4
<1>12. BlocksApart'
  <2>1. \A i \in Classes, a \in Addrs : Cut(a, i)' <=> Cut(a, i)
    BY <1>11, <1>10 DEF Cut
  <2> QED BY <2>1, <1>6, SameBlocks DEF MemInv
<1>13. OnePlace'
  <2>1. \A b \in live : b.addr # blk
    <3>1. ASSUME NEW b \in live, b.addr = blk PROVE FALSE
      <4>1. b.index \in Classes /\ Live(blk, b.index) /\ Cut(blk, b.index) /\ Cut(blk, cls)
        BY <3>1, <1>10 DEF Live, Cut, MemInv, MemTypeOK
      <4>2. b.index = cls
        <5>1. /\ blk \in Int /\ procmemlen[cls] \in Nat /\ procmemlen[b.index] \in Nat
              /\ procmemlen[cls] > 0 /\ procmemlen[b.index] > 0
          BY <4>1, <1>1, <1>2, ClassFacts DEF Addrs
        <5>2. \/ b.index = cls
              \/ blk + procmemlen[b.index] <= blk
              \/ blk + procmemlen[cls] <= blk
          BY <4>1, <1>1, <1>2 DEF MemInv, BlocksApart
        <5> QED BY <5>1, <5>2
      <4> QED BY <4>1, <4>2, <1>10, <1>1, <1>2 DEF MemInv, OnePlace
    <3> QED BY <3>1
  <2>2. \A b, c \in live' : b.addr = c.addr => b = c
    BY <2>1, <1>6 DEF MemInv, OnePlace
  <2>3. ASSUME NEW i \in Classes, NEW k \in 1 .. Len(free'[i]), NEW m \in 1 .. Len(free'[i]),
               free'[i][k] = free'[i][m]
        PROVE  k = m
    <3>1. CASE i # cls
      BY <3>1, <1>8, <2>3 DEF MemInv, OnePlace
    <3>2. CASE i = cls
      <4>1. k \in 1 .. Len(r) /\ m \in 1 .. Len(r) /\ r[k] = r[m]
        BY <3>2, <2>3, <1>8
      <4>2. k + 1 \in 1 .. Len(s) /\ m + 1 \in 1 .. Len(s) /\ s[k + 1] = s[m + 1]
        BY <4>1, <1>2, <1>3
      <4> QED BY <4>1, <4>2, <1>9
    <3> QED BY <3>1, <3>2
  <2>4. \A i \in Classes, a \in Addrs : ~(Live(a, i)' /\ Free(a, i)')
    BY <1>11 DEF MemInv, OnePlace
  <2>5. \A i \in Classes, a \in Addrs : Held(a, i)' => ~Live(a, i)' /\ ~Free(a, i)'
    BY <1>11
  <2> QED BY <2>2, <2>3, <2>4, <2>5 DEF OnePlace
<1>14. FreeListsExact'
  <2> SUFFICES ASSUME NEW i \in Classes
               PROVE  /\ procmemlist'[i] = IF free'[i] = << >> THEN Null ELSE free'[i][1]
                      /\ \A k \in 1 .. Len(free'[i]) :
                           link[free'[i][k]] = IF k = Len(free'[i]) THEN Null ELSE free'[i][k + 1]
    BY <1>6 DEF FreeListsExact
  <2>1. CASE i # cls
    BY <2>1, <1>6, <1>8 DEF MemInv, FreeListsExact, MemTypeOK
  <2>2. CASE i = cls
    <3>1. procmemlist'[cls] = link[blk] /\ link[blk] = IF Len(s) = 1 THEN Null ELSE s[2]
      <4>1. procmemlist'[cls] = link[blk]
        BY <1>1, <1>6 DEF MemInv, MemTypeOK
      <4>2. 1 \in 1 .. Len(s) /\ 1 + 1 = 2
        BY <1>2
      <4> QED BY <4>1, <4>2, <1>2, <1>4
    <3>2. (r = << >>) <=> (Len(s) = 1)
      BY <1>2, <1>3
    <3>3. Len(s) # 1 => r[1] = s[2]
      BY <1>2, <1>3
    <3>4. ASSUME NEW k \in 1 .. Len(r)
          PROVE  link[r[k]] = IF k = Len(r) THEN Null ELSE r[k + 1]
      <4>1. k + 1 \in 1 .. Len(s) /\ r[k] = s[k + 1] /\ (k # Len(r) => r[k + 1] = s[k + 2])
        BY <1>2, <1>3
      <4>2. link[r[k]] = IF k + 1 = Len(s) THEN Null ELSE s[k + 1 + 1]
        BY <4>1, <1>4
      <4>3. (k + 1 = Len(s) <=> k = Len(r)) /\ k + 1 + 1 = k + 2
        BY <1>2, <1>3
      <4> QED BY <4>1, <4>2, <4>3
    <3> QED BY <2>2, <3>1, <3>2, <3>3, <3>4, <1>8
  <2> QED BY <2>1, <2>2
<1>15. Knows' /\ Enough'
  BY <1>1, <1>6, <1>7 DEF Knows, Enough, MemInv
<1>16. free' \in [Classes -> Seq(Addrs)]
  BY <1>1, <1>3, <1>6 DEF MemInv, MemTypeOK
<1>17. procmemlist' \in [Classes -> Addrs \cup {Null}]
  <2>1. link[blk] \in Addrs \cup {Null}
    <3>1. \A k \in 1 .. Len(s) : s[k] \in Addrs
      BY <1>2
    <3> QED BY <3>1, <1>2, <1>4
  <2> QED BY <2>1, <1>1, <1>6 DEF MemInv, MemTypeOK
<1>18. live' \subseteq [addr : Addrs, index : Classes, need : Nat]
  <2>1. new \in [addr : Addrs, index : Classes, need : Nat]
    BY <1>1, <1>2 DEF cls
  <2> QED BY <2>1, <1>6 DEF MemInv, MemTypeOK
<1>19. HandsOut(Top.block, Top.index)
  BY <1>11 DEF HandsOut, Pooled, blk, cls
<1> QED BY <1>19, <1>6, <1>7, <1>12, <1>13, <1>14, <1>15, <1>16, <1>17, <1>18 DEF MemInv, MemTypeOK

LEMMA AllocateTailStep ==
  ASSUME MemInv, AllocateTail
  PROVE  MemInv' /\ HandsOut(tail, Top.index)
<1> DEFINE cls == Top.index
           new == [addr |-> tail, index |-> cls, need |-> Top.need]
           len == procmemlen[cls]
<1>1. cls \in Classes /\ Top.pc = "allocate" /\ Top.need \in Nat /\ Top.need <= len
  BY CallFacts DEF AllocateTail, At, MemInv, Knows, CallType
<1>2. /\ tail' = tail + len /\ taillen' = taillen - len /\ taillen >= len
      /\ live' = live \cup {new}
      /\ Goto(NoCall) /\ intr' = TRUE /\ UNCHANGED <<procmemlist, link, fault, free>>
  BY DEF AllocateTail, Gets
<1>3. Top' = NoCall /\ NoCall.pc = "idle" /\ OneInside' /\ calls' \in Seq(CallType) /\ calls' # << >>
  BY <1>2, CallFacts, GotoCall DEF NoCall
<1>4. /\ len \in Nat /\ len > 0 /\ tail \in Nat /\ taillen \in Nat /\ MemLen \in Nat
      /\ tail + taillen = MemLen /\ tail \in Addrs
      /\ \A a \in Addrs : a \in Nat
  <2>1. MemLen \in Nat /\ tail \in Addrs /\ taillen \in Addrs /\ tail + taillen = MemLen
    BY MemoryAssumption DEF MemInv, MemTypeOK, BlocksApart
  <2>2. \A a \in Addrs : a \in Nat
    BY <2>1 DEF Addrs
  <2>3. len \in Nat /\ len > 0
    BY <1>1, ClassFacts
  <2> QED BY <2>1, <2>2, <2>3
<1>5. new.addr = tail /\ new.index = cls /\ new.need = Top.need
      /\ new \in [addr : Addrs, index : Classes, need : Nat]
  BY <1>1, <1>4
<1> HIDE DEF cls, new, len
<1>6. ASSUME NEW a \in Addrs, NEW i \in Classes, Cut(a, i)
      PROVE  a + procmemlen[i] <= tail /\ a < tail
  BY <1>6, <1>4, ClassFacts DEF MemInv, BlocksApart
<1>7. ASSUME NEW a \in Addrs, NEW i \in Classes
      PROVE  /\ ~Held(a, i)' /\ ~Held(a, i)
             /\ Live(a, i)' <=> Live(a, i) \/ (a = tail /\ i = cls)
             /\ Free(a, i)' <=> Free(a, i)
  BY <1>1, <1>2, <1>3, <1>5 DEF Held, Live, Free
<1>8. \A i \in Classes, a \in Addrs : Cut(a, i)' <=> Cut(a, i) \/ (a = tail /\ i = cls)
  BY <1>7 DEF Cut
<1>9. BlocksApart'
  <2>1. ASSUME NEW i \in Classes, NEW j \in Classes, NEW a \in Addrs, NEW c \in Addrs,
               Cut(a, i)', Cut(c, j)'
        PROVE  \/ a = c /\ i = j
               \/ a + procmemlen[i] <= c
               \/ c + procmemlen[j] <= a
    BY <2>1, <1>6, <1>8 DEF MemInv, BlocksApart
  <2>2. ASSUME NEW i \in Classes, NEW a \in Addrs, Cut(a, i)'
        PROVE  a + procmemlen[i] <= tail'
    <3>1. CASE Cut(a, i)
      BY <3>1, <1>2, <1>4, <1>6, ClassFacts
    <3>2. CASE a = tail /\ i = cls
      BY <3>2, <1>2, <1>4 DEF len
    <3> QED BY <2>2, <3>1, <3>2, <1>8
  <2>3. ASSUME NEW x \in Nat, x < tail'
        PROVE  \E i \in Classes, a \in Addrs : Cut(a, i)' /\ a <= x /\ x < a + procmemlen[i]
    <3>1. CASE x < tail
      BY <3>1, <1>8 DEF MemInv, BlocksApart
    <3>2. CASE x >= tail
      BY <3>2, <2>3, <1>1, <1>2, <1>4, <1>8 DEF len, cls
    <3> QED BY <3>1, <3>2, <1>4
  <2>4. tail' + taillen' = MemLen
    BY <1>2, <1>4
  <2> QED BY <2>1, <2>2, <2>3, <2>4 DEF BlocksApart
<1>10. OnePlace'
  <2>1. \A b \in live : b.addr # tail
    <3>1. ASSUME NEW b \in live PROVE b.addr < tail
      BY <1>6 DEF Cut, Live, MemInv, MemTypeOK
    <3> QED BY <3>1, <1>4
  <2>2. \A b, c \in live' : b.addr = c.addr => b = c
    BY <2>1, <1>2, <1>5 DEF MemInv, OnePlace
  <2>3. \A i \in Classes : ~Free(tail, i)
    BY <1>4, <1>6 DEF Cut
  <2>4. \A i \in Classes, a \in Addrs : ~(Live(a, i)' /\ Free(a, i)')
    BY <2>3, <1>7 DEF MemInv, OnePlace
  <2> QED BY <2>2, <2>4, <1>2, <1>7 DEF MemInv, OnePlace
<1>11. Knows' /\ Enough'
  BY <1>1, <1>2, <1>3, <1>5 DEF Knows, Enough, MemInv, len
<1>12. tail' \in Addrs /\ taillen' \in Addrs
  BY <1>2, <1>4 DEF Addrs
<1>13. HandsOut(tail, Top.index)
  <2>1. \A i \in Classes : ~Held(tail, i) /\ ~Free(tail, i)
    BY <1>4, <1>6 DEF Cut
  <2> QED BY <2>1, <1>7 DEF HandsOut, Pooled, cls
<1> QED BY <1>13, <1>2, <1>3, <1>5, <1>9, <1>10, <1>11, <1>12 DEF MemInv, MemTypeOK, FreeListsExact

-----------------------------------------------------------------------------
LEMMA MemInit == Init => MemInv
<1> SUFFICES ASSUME Init PROVE MemInv
  OBVIOUS
<1>1. Top = NoCall /\ NoCall.pc = "idle" /\ NoCall \in CallType /\ Len(calls) = 1
  BY DEF Init, Top, NoCall, CallType
<1>2. MemLen \in Nat /\ 0 \in Addrs /\ MemLen \in Addrs
  BY MemoryAssumption DEF Addrs
<1>3. MemTypeOK
  BY <1>1, <1>2 DEF Init, MemTypeOK
<1>4. \A i \in Classes, a \in Addrs : ~Held(a, i) /\ ~Live(a, i) /\ ~Free(a, i) /\ ~Cut(a, i)
  BY <1>1 DEF Init, Held, Live, Free, Cut
<1>5. OnePlace /\ BlocksApart /\ Enough
  BY <1>2, <1>4 DEF Init, OnePlace, BlocksApart, Enough
<1>6. FreeListsExact
  BY DEF Init, FreeListsExact
<1> QED BY <1>1, <1>3, <1>5, <1>6 DEF Init, MemInv, OneInside, Knows

LEMMA MemStep == MemInv /\ [Next]_vars => MemInv'
<1> SUFFICES ASSUME MemInv, [Next]_vars PROVE MemInv'
  OBVIOUS
<1>1. CASE UNCHANGED vars
  <2>1. Top' = Top /\ \A i \in Classes, a \in Addrs : Held(a, i)' <=> Held(a, i)
    BY <1>1 DEF vars, codeVars, Top, Held
  <2>2. OnePlace' /\ BlocksApart' /\ Enough' /\ NoMove
    BY <1>1, <2>1, NobodyMoves DEF vars, codeVars
  <2> QED BY <1>1, <2>1, <2>2 DEF vars, codeVars, MemInv, MemTypeOK, OneInside, Knows, FreeListsExact
<1>2. CASE Next
  BY <1>2, TooLargeStep, AllocateEnterStep, AllocateListedStep, AllocateTailStep,
     OutOfMemoryStep, WriteStep, ReleaseEnterStep, ReleaseLinkStep, ReleasePushStep,
     PreemptStep, ReturnStep DEF Next
<1> QED BY <1>1, <1>2

\* The allocator keeps its lists, its tail and its callers consistent whoever
\* interrupts whom (allocate_mem(), release_mem()).
THEOREM MemInvariant == Spec => []MemInv
BY MemInit, MemStep, PTL DEF Spec

\* The free lists are exactly the released blocks (release_mem()).
THEOREM FreeListsExactHolds == Spec => []FreeListsExact
<1>1. MemInv => FreeListsExact
  BY DEF MemInv
<1> QED BY <1>1, MemInvariant, PTL

\* Records in use never overlap (start(), allocate_mem()).
THEOREM NoOverlapHolds == Spec => []NoOverlap
<1>1. MemInv => NoOverlap
  <2> SUFFICES ASSUME MemInv PROVE NoOverlap
    OBVIOUS
  <2>1. ASSUME NEW b \in live
        PROVE  /\ b.addr \in Addrs /\ b.index \in Classes /\ b.need \in Nat
               /\ b.addr \in Int /\ procmemlen[b.index] \in Int
               /\ b.need <= procmemlen[b.index]
               /\ Cut(b.addr, b.index)
    <3>1. b.addr \in Addrs /\ b.index \in Classes /\ b.need \in Nat
      BY DEF MemInv, MemTypeOK
    <3>2. b.addr \in Int
      BY <3>1, MemoryAssumption DEF Addrs
    <3> QED BY <3>1, <3>2, ClassFacts DEF MemInv, Enough, Cut, Live
  <2>2. tail \in Int /\ tail <= MemLen /\ MemLen \in Int
    <3>1. tail \in Addrs /\ MemLen \in Nat
      BY MemoryAssumption DEF MemInv, MemTypeOK
    <3> QED BY <3>1 DEF Addrs
  <2>3. ASSUME NEW b \in live PROVE b.addr + b.need <= MemLen
    <3>1. b.addr + procmemlen[b.index] <= tail
      BY <2>1 DEF MemInv, BlocksApart
    <3> QED BY <3>1, <2>1, <2>2
  <2>4. ASSUME NEW b \in live, NEW c \in live, b # c
        PROVE  b.addr + b.need <= c.addr \/ c.addr + c.need <= b.addr
    <3>1. b.addr # c.addr
      BY <2>4 DEF MemInv, OnePlace
    <3>2. b.addr + procmemlen[b.index] <= c.addr \/ c.addr + procmemlen[c.index] <= b.addr
      BY <3>1, <2>1 DEF MemInv, BlocksApart
    <3> QED BY <3>2, <2>1
  <2> QED BY <2>3, <2>4 DEF NoOverlap
<1> QED BY <1>1, MemInvariant, PTL

-----------------------------------------------------------------------------
\* The sets of blocks that the properties speak about, block by block.
BlockSet == [addr : Addrs, index : Classes]
Views ==
  /\ InUse \subseteq BlockSet /\ Listed \subseteq BlockSet /\ Leaving \subseteq BlockSet
  /\ \A i \in Classes, a \in Addrs :
       /\ [addr |-> a, index |-> i] \in InUse <=> Live(a, i)
       /\ [addr |-> a, index |-> i] \in Listed \cup Leaving <=> Pooled(a, i)

LEMMA ViewsHold == MemInv => Views
<1> SUFFICES ASSUME MemInv PROVE Views
  OBVIOUS
<1>1. /\ InUse \subseteq BlockSet
      /\ \A i \in Classes, a \in Addrs : [addr |-> a, index |-> i] \in InUse <=> Live(a, i)
  <2>1. live \subseteq [addr : Addrs, index : Classes, need : Nat]
    BY DEF MemInv, MemTypeOK
  <2>2. InUse \subseteq BlockSet
    BY <2>1 DEF InUse, Block, BlockSet
  <2>3. ASSUME NEW i \in Classes, NEW a \in Addrs
        PROVE  [addr |-> a, index |-> i] \in InUse <=> Live(a, i)
    BY DEF InUse, Block, Live
  <2> QED BY <2>2, <2>3
<1>2. /\ Listed \subseteq BlockSet
      /\ \A i \in Classes, a \in Addrs : [addr |-> a, index |-> i] \in Listed <=> Free(a, i)
  <2>1. \A j \in Classes : \A k \in 1 .. Len(free[j]) : free[j][k] \in Addrs
    BY FreeFacts
  <2> DEFINE L(j) == {[addr |-> free[j][k], index |-> j] : k \in 1 .. Len(free[j])}
  <2>2. ASSUME NEW j \in Classes PROVE L(j) \subseteq BlockSet
    BY <2>1 DEF BlockSet
  <2>3. ASSUME NEW i \in Classes, NEW a \in Addrs
        PROVE  [addr |-> a, index |-> i] \in L(i) <=> Free(a, i)
    BY DEF Free
  <2>4. ASSUME NEW i \in Classes, NEW a \in Addrs, NEW j \in Classes,
               [addr |-> a, index |-> i] \in L(j)
        PROVE  i = j
    BY <2>4
  <2>5. Listed = UNION {L(j) : j \in Classes}
    BY DEF Listed
  <2> HIDE DEF L
  <2> QED BY <2>2, <2>3, <2>4, <2>5
<1>3. {m \in 1 .. Len(calls) : calls[m].pc \in {"release", "linked"}}
        = IF Top.pc \in {"release", "linked"} THEN {Len(calls)} ELSE {}
  BY CallFacts DEF MemInv, OneInside, Top
<1>4. Leaving = IF Top.pc \in {"release", "linked"}
                THEN {[addr |-> Top.block, index |-> Top.index]} ELSE {}
  BY <1>3 DEF Leaving, Top
<1>5. Top.pc \in {"release", "linked"} => Top.block \in Addrs /\ Top.index \in Classes
  BY CallFacts DEF MemInv, Knows
<1>6. /\ Leaving \subseteq BlockSet
      /\ \A i \in Classes, a \in Addrs : [addr |-> a, index |-> i] \in Leaving <=> Held(a, i)
  BY <1>4, <1>5 DEF BlockSet, Held
<1> QED BY <1>1, <1>2, <1>6 DEF Views, Pooled

\* Memory does not leak (allocate_mem(), release_mem()).
THEOREM NoLeakHolds == Spec => []NoLeak
<1>1. MemInv => NoLeak
  <2> SUFFICES ASSUME MemInv PROVE NoLeak
    OBVIOUS
  <2> DEFINE All == InUse \cup Listed \cup Leaving
             Bytes(b) == b.addr .. b.addr + procmemlen[b.index] - 1
  <2>1. All \subseteq BlockSet
    BY ViewsHold DEF Views
  <2>2. \A i \in Classes, a \in Addrs : [addr |-> a, index |-> i] \in All <=> Cut(a, i)
    BY ViewsHold DEF Views, Cut, Pooled
  <2>3. tail \in Nat /\ (\A a \in Addrs : a \in Nat) /\ \A i \in Classes : procmemlen[i] \in Nat
    <3>1. tail \in Addrs /\ MemLen \in Nat
      BY MemoryAssumption DEF MemInv, MemTypeOK
    <3> QED BY <3>1, ClassFacts DEF Addrs
  <2>4. ASSUME NEW b \in All, NEW x \in Bytes(b) PROVE x \in 0 .. tail - 1
    <3>1. b.addr \in Addrs /\ b.index \in Classes /\ b = [addr |-> b.addr, index |-> b.index]
      BY <2>1 DEF BlockSet
    <3>2. Cut(b.addr, b.index)
      BY <3>1, <2>2
    <3>3. b.addr + procmemlen[b.index] <= tail
      BY <3>1, <3>2 DEF MemInv, BlocksApart
    <3> QED BY <3>1, <3>3, <2>3
  <2>5. ASSUME NEW x \in 0 .. tail - 1 PROVE \E b \in All : x \in Bytes(b)
    <3>1. PICK i \in Classes, a \in Addrs : Cut(a, i) /\ a <= x /\ x < a + procmemlen[i]
      BY <2>3 DEF MemInv, BlocksApart
    <3>2. [addr |-> a, index |-> i] \in All /\ x \in Bytes([addr |-> a, index |-> i])
      BY <3>1, <2>2, <2>3
    <3> QED BY <3>2
  <2>6. UNION {Bytes(b) : b \in All} = 0 .. tail - 1
    <3> HIDE DEF All, Bytes
    <3> QED BY <2>4, <2>5
  <2> QED BY <2>6 DEF NoLeak, MemInv, BlocksApart
<1> QED BY <1>1, MemInvariant, PTL

\* Every step of memory.c is a step of the abstract allocator, or changes
\* nothing there (allocate_mem(), release_mem()).
LEMMA NoMoveMaps ==
  ASSUME Views, Views', NoMove
  PROVE  InUse' = InUse /\ (Listed \cup Leaving)' = Listed \cup Leaving
<1>1. ASSUME NEW b \in BlockSet
      PROVE  (b \in InUse' <=> b \in InUse) /\ (b \in (Listed \cup Leaving)' <=> b \in Listed \cup Leaving)
  BY DEF Views, NoMove, BlockSet
<1> QED BY <1>1 DEF Views

LEMMA HandsOutMaps ==
  ASSUME Views, Views', NEW x \in Addrs, NEW j \in Classes, HandsOut(x, j)
  PROVE  LET b == [addr |-> x, index |-> j]
         IN  /\ InUse' = InUse \cup {b}
             /\ (Listed \cup Leaving)' = (Listed \cup Leaving) \ {b}
<1> DEFINE b == [addr |-> x, index |-> j]
<1>1. ASSUME NEW c \in BlockSet
      PROVE  /\ c \in InUse' <=> c \in InUse \/ c = b
             /\ c \in (Listed \cup Leaving)' <=> c \in Listed \cup Leaving /\ c # b
  BY DEF Views, HandsOut, BlockSet
<1>2. b \in BlockSet
  BY DEF BlockSet
<1> QED BY <1>1, <1>2 DEF Views

LEMMA TakesBackMaps ==
  ASSUME Views, Views', NEW x \in Addrs, NEW j \in Classes, TakesBack(x, j)
  PROVE  LET b == [addr |-> x, index |-> j]
         IN  /\ InUse' = InUse \ {b}
             /\ (Listed \cup Leaving)' = (Listed \cup Leaving) \cup {b}
<1> DEFINE b == [addr |-> x, index |-> j]
<1>1. ASSUME NEW c \in BlockSet
      PROVE  /\ c \in InUse' <=> c \in InUse /\ c # b
             /\ c \in (Listed \cup Leaving)' <=> c \in Listed \cup Leaving \/ c = b
  BY DEF Views, TakesBack, BlockSet
<1>2. b \in BlockSet
  BY DEF BlockSet
<1> QED BY <1>1, <1>2 DEF Views

AbstractVars == <<InUse, Listed \cup Leaving, taillen, fault = "out of memory">>

LEMMA QuietMaps ==
  ASSUME Views, Views', NoMove, UNCHANGED <<taillen, fault>>
  PROVE  UNCHANGED AbstractVars
BY NoMoveMaps DEF AbstractVars

LEMMA AllocateListedMaps ==
  ASSUME MemInv, Views, Views', AllocateListed, HandsOut(Top.block, Top.index)
  PROVE  Promise!Next
<1> DEFINE b == [addr |-> Top.block, index |-> Top.index]
<1>1. Top.index \in Classes /\ Top.block = procmemlist[Top.index] /\ Top.block # Null
  BY CallFacts DEF AllocateListed, At, MemInv, Knows
<1>2. 1 \in 1 .. Len(free[Top.index]) /\ Top.block = free[Top.index][1]
  <2>1. free[Top.index] \in Seq(Addrs)
    BY <1>1 DEF MemInv, MemTypeOK
  <2> QED BY <1>1, <2>1 DEF MemInv, FreeListsExact
<1>3. Top.block \in Addrs /\ Pooled(Top.block, Top.index)
  BY <1>1, <1>2, FreeFacts DEF Pooled
<1>4. b \in Listed \cup Leaving
  BY <1>1, <1>3 DEF Views
<1>5. /\ InUse' = InUse \cup {b}
      /\ (Listed \cup Leaving)' = (Listed \cup Leaving) \ {b}
  BY <1>1, <1>3, HandsOutMaps
<1>6. taillen' = taillen /\ (fault = "out of memory")' = (fault = "out of memory")
  BY DEF AllocateListed, At
<1> QED BY <1>4, <1>5, <1>6 DEF Promise!Next, Promise!Reuse

LEMMA AllocateTailMaps ==
  ASSUME MemInv, Views, Views', AllocateTail, HandsOut(tail, Top.index)
  PROVE  Promise!Next
<1> DEFINE b == [addr |-> tail, index |-> Top.index]
           i == Top.index
<1>1. i \in Classes /\ Top.pc = "allocate" /\ procmemlist[i] = Null /\ tail \in Addrs
  BY CallFacts DEF AllocateTail, At, MemInv, Knows, MemTypeOK
<1>2. \A a \in Addrs : ~Pooled(a, i)
  <2>1. free[i] \in Seq(Addrs)
    BY <1>1 DEF MemInv, MemTypeOK
  <2>2. Null \notin Addrs
    BY MemoryAssumption DEF Addrs
  <2>3. free[i] = << >>
    BY <1>1, <2>1, <2>2 DEF MemInv, FreeListsExact
  <2> QED BY <1>1, <2>3 DEF Pooled, Held, Free
<1>3. \A c \in Listed \cup Leaving : c.index # i
  BY <1>1, <1>2 DEF Views, BlockSet
<1>4. ASSUME NEW c \in InUse \cup (Listed \cup Leaving) PROVE Promise!Apart(b, c)
  <2>1. c.addr \in Addrs /\ c.index \in Classes /\ c = [addr |-> c.addr, index |-> c.index]
    BY DEF Views, BlockSet
  <2>2. Cut(c.addr, c.index)
    BY <2>1 DEF Views, Cut, Pooled
  <2>3. c.addr + procmemlen[c.index] <= tail
    BY <2>1, <2>2 DEF MemInv, BlocksApart
  <2> QED BY <2>3 DEF Promise!Apart
<1>5. tail + procmemlen[i] <= MemLen /\ taillen >= procmemlen[i] /\ taillen' = taillen - procmemlen[i]
  <2>1. tail \in Int /\ taillen \in Int /\ MemLen \in Int /\ procmemlen[i] \in Int
    <3>1. tail \in Addrs /\ taillen \in Addrs /\ MemLen \in Nat
      BY MemoryAssumption DEF MemInv, MemTypeOK
    <3>2. procmemlen[i] \in Nat
      BY <1>1, ClassFacts
    <3> QED BY <3>1, <3>2 DEF Addrs
  <2> QED BY <2>1 DEF AllocateTail, MemInv, BlocksApart
<1>6. InUse' = InUse \cup {b} /\ (Listed \cup Leaving)' = Listed \cup Leaving
  <2>1. b \notin Listed \cup Leaving
    BY <1>3
  <2> QED BY <1>1, <2>1, HandsOutMaps
<1>7. (fault = "out of memory")' = (fault = "out of memory")
  BY DEF AllocateTail, At
<1>8. b \in Promise!Blocks
  BY <1>1 DEF Promise!Blocks, Addrs
<1> QED BY <1>3, <1>4, <1>5, <1>6, <1>7, <1>8 DEF Promise!Next, Promise!New

LEMMA OutOfMemoryMaps ==
  ASSUME MemInv, Views, Views', OutOfMemory, NoMove
  PROVE  Promise!Next
<1> DEFINE i == Top.index
<1>1. i \in Classes /\ Top.pc = "allocate" /\ procmemlist[i] = Null
  BY CallFacts DEF OutOfMemory, At, MemInv, Knows
<1>2. \A a \in Addrs : ~Pooled(a, i)
  <2>1. free[i] \in Seq(Addrs)
    BY <1>1 DEF MemInv, MemTypeOK
  <2>2. Null \notin Addrs
    BY MemoryAssumption DEF Addrs
  <2>3. free[i] = << >>
    BY <1>1, <2>1, <2>2 DEF MemInv, FreeListsExact
  <2> QED BY <1>1, <2>3 DEF Pooled, Held, Free
<1>3. \A c \in Listed \cup Leaving : c.index # i
  BY <1>1, <1>2 DEF Views, BlockSet
<1>4. InUse' = InUse /\ (Listed \cup Leaving)' = Listed \cup Leaving
  BY NoMoveMaps
<1> QED BY <1>1, <1>3, <1>4 DEF OutOfMemory, Promise!Next, Promise!Refuse

LEMMA ReleaseEnterMaps ==
  ASSUME MemInv, Views, Views', NEW b \in live, ReleaseEnter(b), TakesBack(b.addr, b.index)
  PROVE  Promise!Next
<1> DEFINE c == [addr |-> b.addr, index |-> b.index]
<1>1. b.addr \in Addrs /\ b.index \in Classes
  BY DEF MemInv, MemTypeOK
<1>2. c \in InUse
  BY DEF InUse, Block
<1>3. InUse' = InUse \ {c} /\ (Listed \cup Leaving)' = (Listed \cup Leaving) \cup {c}
  BY <1>1, TakesBackMaps
<1>4. taillen' = taillen /\ (fault = "out of memory")' = (fault = "out of memory")
  BY DEF ReleaseEnter
<1> QED BY <1>2, <1>3, <1>4 DEF Promise!Next, Promise!GiveBack

LEMMA StepMaps ==
  ASSUME MemInv, Views, Views', [Next]_vars
  PROVE  Promise!Next \/ UNCHANGED AbstractVars
<1>1. CASE UNCHANGED vars
  BY <1>1 DEF vars, codeVars, AbstractVars, InUse, Listed, Leaving, Block
<1>2. ASSUME NEW size \in Requests, TooLarge(size) PROVE UNCHANGED AbstractVars
  BY <1>2, TooLargeStep, NoMoveMaps DEF TooLarge, At, AbstractVars
<1>3. ASSUME NEW size \in Requests, AllocateEnter(size) PROVE UNCHANGED AbstractVars
  BY <1>3, AllocateEnterStep, QuietMaps DEF AllocateEnter
<1>4. CASE AllocateListed
  BY <1>4, AllocateListedStep, AllocateListedMaps
<1>5. CASE AllocateTail
  BY <1>5, AllocateTailStep, AllocateTailMaps
<1>6. CASE OutOfMemory
  BY <1>6, OutOfMemoryStep, OutOfMemoryMaps
<1>7. ASSUME NEW b \in live, Write(b) PROVE UNCHANGED AbstractVars
  BY <1>7, WriteStep, QuietMaps DEF Write
<1>8. ASSUME NEW b \in live, ReleaseEnter(b) PROVE Promise!Next
  BY <1>8, ReleaseEnterStep, ReleaseEnterMaps
<1>9. CASE ReleaseLink
  BY <1>9, ReleaseLinkStep, QuietMaps DEF ReleaseLink
<1>10. CASE ReleasePush
  BY <1>10, ReleasePushStep, QuietMaps DEF ReleasePush
<1>11. CASE Preempt
  BY <1>11, PreemptStep, QuietMaps DEF Preempt
<1>12. CASE Return
  BY <1>12, ReturnStep, QuietMaps DEF Return
<1> QED BY <1>1, <1>2, <1>3, <1>4, <1>5, <1>6, <1>7, <1>8, <1>9, <1>10, <1>11, <1>12 DEF Next

\* The lists and the tail implement the abstract allocator, for any lengths,
\* memory and requests.
THEOREM MemoryImplementsAllocator == Spec => ImplementsAllocator
<1>1. Init => Promise!Init
  <2> SUFFICES ASSUME Init PROVE Promise!Init
    OBVIOUS
  <2>1. InUse = {} /\ Listed = {}
    BY DEF Init, InUse, Listed
  <2>2. Leaving = {}
    BY DEF Init, Leaving, NoCall
  <2> QED BY <2>1, <2>2 DEF Init, Promise!Init
<1>2. MemInv /\ Views /\ Views' /\ [Next]_vars => [Promise!Next]_AbstractVars
  BY StepMaps
<1> QED BY <1>1, <1>2, MemInvariant, ViewsHold, PTL DEF Spec, ImplementsAllocator, Promise!Spec, AbstractVars
===========================================================================
