------------------------------ MODULE Memory ------------------------------
(***************************************************************************)
(* The dynamic memory of memory.c: one list of released blocks for each    *)
(* size class, linked through the first word of the block itself, and the  *)
(* tail from which new blocks are cut.  Addresses are offsets from the     *)
(* start of the memory that memory_init() gets.                            *)
(*                                                                         *)
(* The callers are start() and schedule().  A caller can be interrupted    *)
(* wherever interrupts are enabled and another process may then run on top *)
(* of it and call the same functions: `calls' is the stack of callers, and *)
(* only the last one executes.                                             *)
(***************************************************************************)
EXTENDS Integers, Sequences

CONSTANTS
  NALLOC,      \* number of size classes
  procmemlen,  \* block length of each class
  MemLen,      \* total memory, as given to initialize()
  Word,        \* size of a pointer
  Requests,    \* sizes of the records that are started
  Null, Junk,  \* the pointer NULL, and a word overwritten by other data
  MaxDepth     \* bound: callers on top of each other

Classes == 0 .. NALLOC - 1
Addrs   == 0 .. MemLen

\* Every class has room for the link of its free list.
ASSUME MemoryAssumption ==
  /\ NALLOC \in Nat /\ MemLen \in Nat /\ Word \in Nat \ {0}
  /\ procmemlen \in [Classes -> Nat]
  /\ \A i \in Classes : procmemlen[i] >= Word
  /\ Requests \subseteq Nat
  /\ Null \notin Int /\ Junk \notin Int /\ Null # Junk
  /\ MaxDepth \in Nat

VARIABLES
  procmemlist,  \* first released block of each class
  link,         \* the word at each address, when it is a block's link
  tail,         \* first byte that was never used
  taillen,      \* number of bytes from there
  calls,        \* the callers
  intr,         \* interrupts are enabled
  fault,        \* the error() that ended it, "wild" for an index past the tables
  live,         \* ghost: blocks in use, and how much of each
  free          \* ghost: per class, the released blocks, latest first

codeVars == <<procmemlist, link, tail, taillen, calls, intr, fault>>
vars     == <<codeVars, live, free>>

NoCall == [pc |-> "idle", index |-> 0, need |-> 0, block |-> Null]
Top    == calls[Len(calls)]
At(pc) == fault = "none" /\ Top.pc = pc
Goto(c) == calls' = [calls EXCEPT ![Len(calls)] = c]

\* memory_init().
Init ==
  /\ procmemlist = [i \in Classes |-> Null]
  /\ link = [a \in Addrs |-> Junk]
  /\ tail = 0
  /\ taillen = MemLen
  /\ calls = <<NoCall>>
  /\ intr = TRUE
  /\ fault = "none"
  /\ live = {}
  /\ free = [i \in Classes |-> << >>]

\* Memory once n bytes at address a are written: links there are lost.
Overwritten(a, n) ==
  [x \in Addrs |-> IF x < a + n /\ a < x + Word THEN Junk ELSE link[x]]

-----------------------------------------------------------------------------
Fits(size) == {i \in Classes : procmemlen[i] >= size}

\* find_mem_index(), for a size that has a class.
find_mem_index(size) == CHOOSE i \in Fits(size) : \A j \in Fits(size) : i <= j

\* The loop of find_mem_index() ends at a zero that the table does not have:
\* what follows it decides between error() and an index past the tables.
TooLarge(size) ==
  /\ At("idle")
  /\ Fits(size) = {}
  /\ fault' \in {"too large", "wild"}
  /\ UNCHANGED <<procmemlist, link, tail, taillen, calls, intr, live, free>>

\* Mutant: allocate_mem() without DISABLE.
AllocateEnter_Enabled(size) ==
  /\ At("idle")
  /\ Fits(size) # {}
  /\ LET i == find_mem_index(size)
     IN  Goto([pc |-> "allocate", index |-> i, need |-> size, block |-> procmemlist[i]])
  /\ intr' = TRUE
  /\ UNCHANGED <<procmemlist, link, tail, taillen, fault, live, free>>

\* Mutant: released blocks are not looked at.
AllocateEnter_NoReuse(size) ==
  /\ At("idle")
  /\ Fits(size) # {}
  /\ Goto([pc |-> "allocate", index |-> find_mem_index(size), need |-> size, block |-> Null])
  /\ intr' = FALSE
  /\ UNCHANGED <<procmemlist, link, tail, taillen, fault, live, free>>

\* start() asks for a record of some size: DISABLE, and the list is read.
AllocateEnter(size) ==
  /\ At("idle")
  /\ Fits(size) # {}
  /\ LET i == find_mem_index(size)
     IN  Goto([pc |-> "allocate", index |-> i, need |-> size, block |-> procmemlist[i]])
  /\ intr' = FALSE
  /\ UNCHANGED <<procmemlist, link, tail, taillen, fault, live, free>>

\* The block that the caller gets.
Gets(addr) == live' = live \cup {[addr |-> addr, index |-> Top.index, need |-> Top.need]}

\* A released block is unlinked.  (A pointer that is none would be followed.)
AllocateListed ==
  /\ At("allocate")
  /\ Top.block # Null
  /\ IF Top.block = Junk
     THEN fault' = "wild" /\ UNCHANGED <<procmemlist, calls, intr, live, free>>
     ELSE /\ procmemlist' = [procmemlist EXCEPT ![Top.index] = link[Top.block]]
          /\ free' = [free EXCEPT ![Top.index] = SubSeq(@, 2, Len(@))]
          /\ Gets(Top.block)
          /\ Goto(NoCall)
          /\ intr' = TRUE
          /\ UNCHANGED fault
  /\ UNCHANGED <<link, tail, taillen>>

\* Mutant: the tail advances by more than was taken from its length.
AllocateTail_Gap ==
  /\ At("allocate")
  /\ Top.block = Null
  /\ taillen >= procmemlen[Top.index]
  /\ tail' = tail + procmemlen[Top.index] + (IF tail = 0 THEN 1 ELSE 0)
  /\ taillen' = taillen - procmemlen[Top.index] - (IF tail = 0 THEN 1 ELSE 0)
  /\ Gets(tail)
  /\ Goto(NoCall)
  /\ intr' = TRUE
  /\ UNCHANGED <<procmemlist, link, fault, free>>

\* A new block is cut from the tail.
AllocateTail ==
  /\ At("allocate")
  /\ Top.block = Null
  /\ taillen >= procmemlen[Top.index]
  /\ tail' = tail + procmemlen[Top.index]
  /\ taillen' = taillen - procmemlen[Top.index]
  /\ Gets(tail)
  /\ Goto(NoCall)
  /\ intr' = TRUE
  /\ UNCHANGED <<procmemlist, link, fault, free>>

\* error("Out of memory") ends the program.
OutOfMemory ==
  /\ At("allocate")
  /\ Top.block = Null
  /\ taillen < procmemlen[Top.index]
  /\ fault' = "out of memory"
  /\ UNCHANGED <<procmemlist, link, tail, taillen, calls, intr, live, free>>

\* start() copies and initializes the record, a process writes its variables:
\* up to the length that was asked for.
Write(b) ==
  /\ At("idle")
  /\ link' = Overwritten(b.addr, b.need)
  /\ UNCHANGED <<procmemlist, tail, taillen, calls, intr, fault, live, free>>

\* Mutant: release_mem() without DISABLE.
ReleaseEnter_Enabled(b) ==
  /\ At("idle")
  /\ Goto([pc |-> "release", index |-> b.index, need |-> 0, block |-> b.addr])
  /\ intr' = TRUE
  /\ live' = live \ {b}
  /\ UNCHANGED <<procmemlist, link, tail, taillen, fault, free>>

\* schedule() gives back the record of a process that has ended: DISABLE ...
ReleaseEnter(b) ==
  /\ At("idle")
  /\ Goto([pc |-> "release", index |-> b.index, need |-> 0, block |-> b.addr])
  /\ intr' = FALSE
  /\ live' = live \ {b}
  /\ UNCHANGED <<procmemlist, link, tail, taillen, fault, free>>

\* ... the block's first word links to the list ...
ReleaseLink ==
  /\ At("release")
  /\ link' = [Overwritten(Top.block, Word) EXCEPT ![Top.block] = procmemlist[Top.index]]
  /\ Goto([Top EXCEPT !.pc = "linked"])
  /\ UNCHANGED <<procmemlist, tail, taillen, intr, fault, live, free>>

\* ... and the list begins with the block; ENABLE.
ReleasePush ==
  /\ At("linked")
  /\ procmemlist' = [procmemlist EXCEPT ![Top.index] = Top.block]
  /\ free' = [free EXCEPT ![Top.index] = <<Top.block>> \o @]
  /\ Goto(NoCall)
  /\ intr' = TRUE
  /\ UNCHANGED <<link, tail, taillen, fault, live>>

-----------------------------------------------------------------------------
\* A more urgent process runs on top of the caller, and returns.
Preempt ==
  /\ fault = "none"
  /\ intr
  /\ Len(calls) < MaxDepth
  /\ calls' = Append(calls, NoCall)
  /\ UNCHANGED <<procmemlist, link, tail, taillen, intr, fault, live, free>>

Return ==
  /\ At("idle")
  /\ Len(calls) > 1
  /\ calls' = SubSeq(calls, 1, Len(calls) - 1)
  /\ UNCHANGED <<procmemlist, link, tail, taillen, intr, fault, live, free>>

Next ==
  \/ \E size \in Requests : TooLarge(size) \/ AllocateEnter(size)
  \/ AllocateListed \/ AllocateTail \/ OutOfMemory
  \/ \E b \in live : Write(b) \/ ReleaseEnter(b)
  \/ ReleaseLink \/ ReleasePush
  \/ Preempt \/ Return

Spec == Init /\ [][Next]_vars

-----------------------------------------------------------------------------
CallType == [pc : {"idle", "allocate", "release", "linked"}, index : Nat, need : Nat,
             block : Addrs \cup {Null}]

MemTypeOK ==
  /\ procmemlist \in [Classes -> Addrs \cup {Null}]
  /\ link \in [Addrs -> Addrs \cup {Null, Junk}]
  /\ tail \in Addrs /\ taillen \in Addrs
  /\ calls \in Seq(CallType)
  /\ calls # << >>
  /\ intr \in BOOLEAN
  /\ fault \in {"none", "too large", "out of memory", "wild"}
  /\ live \subseteq [addr : Addrs, index : Classes, need : Nat]
  /\ free \in [Classes -> Seq(Addrs)]

\* The bytes that two processes use for their records and variables (start(),
\* allocate_mem()) are disjoint and inside the memory, whoever interrupts whom.
NoOverlap ==
  /\ \A b \in live : b.addr + b.need <= MemLen
  /\ \A b, c \in live :
       b # c => b.addr + b.need <= c.addr \/ c.addr + c.need <= b.addr

\* The list of each class (allocate_mem(), release_mem()), followed through the
\* blocks themselves, is the list of what was released and not used again: no
\* block of it is lost, in use, or overwritten by the program.
FreeListsExact ==
  \A i \in Classes :
    LET s == free[i]
    IN  /\ procmemlist[i] = IF s = << >> THEN Null ELSE s[1]
        /\ \A k \in 1 .. Len(s) :
             link[s[k]] = IF k = Len(s) THEN Null ELSE s[k + 1]

\* A block as such, and the blocks in use, released, or being released.
Block(b) == [addr |-> b.addr, index |-> b.index]
InUse    == {Block(b) : b \in live}
Listed   == UNION {{[addr |-> free[i][k], index |-> i] : k \in 1 .. Len(free[i])} : i \in Classes}
Leaving  == {[addr |-> calls[n].block, index |-> calls[n].index] :
               n \in {m \in 1 .. Len(calls) : calls[m].pc \in {"release", "linked"}}}

\* Every byte below the tail is in a block that is in use or can be used again,
\* and the rest is what taillen says (allocate_mem()): memory does not leak.
NoLeak ==
  /\ UNION {b.addr .. b.addr + procmemlen[b.index] - 1 : b \in InUse \cup Listed \cup Leaving}
       = 0 .. tail - 1
  /\ tail + taillen = MemLen

Promise == INSTANCE Allocator WITH
  BlockLen <- procmemlen, owned <- InUse, pool <- Listed \cup Leaving,
  rest <- taillen, refused <- (fault = "out of memory")

\* The lists and the tail implement the abstract allocator: a block is cut only
\* when its class has none to reuse, and a request is refused only when there
\* is no room (allocate_mem(), release_mem()).
ImplementsAllocator == Promise!Spec
===========================================================================
