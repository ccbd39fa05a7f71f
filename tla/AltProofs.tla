----------------------------- MODULE AltProofs -----------------------------
(***************************************************************************)
(* Proof about the ALT of a process in an orderly application, whatever    *)
(* guards it has: enable_alt() and disable_alt() stay inside the array of  *)
(* guards, only a process with an ALT is ever made ready, and every        *)
(* variable keeps its type; the timeout queue holds the timeouts of the    *)
(* processes that are in the middle of their ALT.                          *)
(*                                                                         *)
(* Only one activation executes, and the single stack may be seen as a     *)
(* function `view' from a process to its activation.                       *)
(***************************************************************************)
EXTENDS SchedProofs, WellFoundedInduction

\* The activation of a process that has none.
Off == Frame("schedule", "off", 0, None)

view == [p \in Procs |-> IF OnCpu(p) THEN stack[CHOOSE n \in Frames : stack[n].proc = p] ELSE Off]

\* The k guards before guard i, in the cyclic order of enable_alt(), and the
\* k + 1 guards up to i, in that of disable_alt().
Visited(i, k, p) == {j \in Branches(p) : IF j < i THEN i - j <= k ELSE i + NrGuards[p] - j <= k}
ToVisit(i, k, p) == {j \in Branches(p) : IF j <= i THEN i - j <= k ELSE i + NrGuards[p] - j <= k}

-----------------------------------------------------------------------------
\* The invariant, process by process.

\* Process p has called init_alt(), for an ALT that is not empty.
HasAlt(p, al) == al.guards = p /\ NrGuards[p] > 0
Alting        == {p \in Procs : HasAlt(p, alt[p])}

\* The scheduling state s of a process with activation a.  It may be made ready
\* at any time once it has an ALT.
StateFits(p, a, s, al) ==
  /\ s \in {"unstarted", "initial"} => al.guards = NoProc
  /\ s \in {"enabling", "waiting", "ready"} => HasAlt(p, al)
  /\ a.pc = "begin" => s \in {"quiescent", "ready"}
  /\ a.pc \in {"enable", "insert", "enabled"} => s \in {"enabling", "ready"}
  /\ a.pc = "disable" => s = "ready"
  /\ a.pc \in {"partner", "partnerRet"} => s \in {"ready", IF a.flag THEN "quiescent" ELSE "waiting"}
  /\ a.pc \in {"rtc", "rtcRest"} => s \in IF a.flag THEN {"quiescent", "ready"} ELSE {"initial"}

\* The loops of enable_alt() and disable_alt() are at one of the guards; the
\* timeout about to be inserted is one that was initialized.
LoopFits(p, a, al, on, due) ==
  /\ a.pc \in {"enable", "insert", "enabled", "disable"} => HasAlt(p, al) /\ a.i \in Branches(p)
  /\ a.pc = "enable" => a.k \in 0 .. NrGuards[p]
  /\ a.pc = "insert" =>
       /\ a.k \in Branches(p) /\ a.i \in on
       /\ Guards[p][a.i].type = "timeout" /\ due.proc = p
  /\ a.pc = "enabled" => a.k \in Branches(p) /\ (~a.flag => a.k = NrGuards[p] - 1)
  /\ a.pc = "disable" => a.k \in -1 .. NrGuards[p] - 1
  /\ a.pc = "rtcRest" => a.act.active \subseteq Branches(p)

AltFits(p, a, s, al, on, due) ==
  /\ StateFits(p, a, s, al)
  /\ LoopFits(p, a, al, on, due)
  /\ al.guards \in {NoProc, p}
  /\ NrGuards[p] > 0 => al.index \in Branches(p) /\ al.count \in Branches(p)
  /\ on \subseteq Branches(p)
  /\ due.proc \in {p, NoProc} /\ (due.time > 0 => due.proc = p)

Fits == \A p \in Procs : AltFits(p, view[p], state[p], alt[p], active[p], timeout[p])

-----------------------------------------------------------------------------
\* The invariant, variable by variable.

\* The fields of an activation that FrameOK and KindOK say nothing of.
Typed(f) ==
  /\ f = [x \in DOMAIN f |-> f[x]]
  /\ f.src \in Intrs \cup {None, "elapsed", "timeout"}
  /\ f.i \in Int /\ f.k \in Int /\ f.flag \in BOOLEAN /\ f.time \in Nat /\ f.act \in Acts

\* The handlers that have not decremented activeHandlers.
Handlers == {n \in Frames : stack[n].fn = "handler" /\ stack[n].pc # "leave"}

FrameTypes ==
  /\ \A n \in Frames : Typed(stack[n]) /\ (stack[n].fn # "start" => stack[n].partner \in Alting \cup {NoProc})
  /\ handlers = Cardinality(Handlers)

\* Who waits in a channel, or for an interrupt or a timeout, has an ALT.
WaiterTypes ==
  /\ chan \in [Chans -> [waiting : Alting \cup {NoProc}, src : Procs \cup {NoProc}]]
  /\ ichan \in [Intrs -> [waiting : Alting \cup {NoProc}, count : Nat]]
  /\ timerQ \in Seq([time : Nat, proc : Alting])

DataTypes ==
  /\ alt \in [Records -> [guards : Procs \cup {NoProc}, index : Int, count : Int]]
  /\ active \in [Procs -> SUBSET (0 .. 255)]
  /\ freed = {}
  /\ connected \subseteq Intrs
  /\ sent \in [Chans -> 0 .. MsgMod - 1] /\ got \in [Chans -> 0 .. MsgMod - 1]
  /\ now \in Nat /\ alarm \in Int /\ pend \in BOOLEAN
  /\ timeout \in [Procs -> [time : Nat, proc : Procs \cup {NoProc}]]
  /\ intr \in BOOLEAN
  /\ fault \in {"none", "null", "divide", "exit"}

AltInv == UrgencyInv /\ Fits /\ FrameTypes /\ WaiterTypes /\ DataTypes

-----------------------------------------------------------------------------
\* The loops over the guards.

LEMMA NowOK ==
  ASSUME UrgencyInv
  PROVE  Now \in Nat /\ Now <= now
<1>1. Tick \in Nat \ {0}
  BY ApplicationAssumption
<1>2. QED BY <1>1 DEF UrgencyInv, TimeInv, Now

LEMMA Neighbours ==
  ASSUME NEW n \in Nat \ {0}, NEW i \in 0 .. n - 1
  PROVE  /\ plus1_mod(i, n) = IF i = n - 1 THEN 0 ELSE i + 1
         /\ minus1_mod(i, n) = IF i = 0 THEN n - 1 ELSE i - 1
<1>1. \A k \in 0 .. n - 1 : k % n = k
  OBVIOUS
<1>2. plus1_mod(i, n) = IF i = n - 1 THEN 0 ELSE i + 1
  <2>1. CASE i = n - 1
    <3>1. n % n = 0 /\ i + 1 = n
      BY <2>1
    <3>2. QED BY <2>1, <3>1 DEF plus1_mod
  <2>2. CASE i # n - 1
    <3>1. i + 1 \in 0 .. n - 1
      BY <2>2
    <3>2. QED BY <1>1, <2>2, <3>1 DEF plus1_mod
  <2>3. QED BY <2>1, <2>2
<1>3. minus1_mod(i, n) = IF i = 0 THEN n - 1 ELSE i - 1
  <2>1. CASE i = 0
    <3>1. i - 1 + n = n - 1 /\ n - 1 \in 0 .. n - 1
      BY <2>1
    <3>2. QED BY <1>1, <2>1, <3>1 DEF minus1_mod
  <2>2. CASE i # 0
    <3>1. i - 1 \in 0 .. n - 1
      BY <2>2
    <3>2. \A k \in 0 .. n - 1 : (k + n) % n = k
      OBVIOUS
    <3>3. QED BY <2>2, <3>1, <3>2 DEF minus1_mod
  <2>3. QED BY <2>1, <2>2
<1>4. QED BY <1>2, <1>3

\* The guards before and behind the position of the two loops.
LEMMA Loops ==
  ASSUME NEW p \in Procs, NEW i \in Branches(p)
  PROVE  /\ NrGuards[p] \in Nat \ {0}
         /\ Visited(i, 0, p) = {} /\ Visited(i, NrGuards[p], p) = Branches(p)
         /\ \A k \in Branches(p) :
              /\ i \notin Visited(i, k, p)
              /\ plus1_mod(i, NrGuards[p]) \in Branches(p)
              /\ Visited(plus1_mod(i, NrGuards[p]), k + 1, p) = Visited(i, k, p) \cup {i}
              /\ ToVisit(i, k, p) = Visited(i, k, p) \cup {i}
              /\ minus1_mod(i, NrGuards[p]) \in Branches(p)
              /\ ToVisit(minus1_mod(i, NrGuards[p]), k - 1, p) = ToVisit(i, k, p) \ {i}
         /\ ToVisit(i, NrGuards[p] - 1, p) = Branches(p) /\ ToVisit(i, -1, p) = {}
<1> DEFINE n == NrGuards[p]
<1>1. n \in Nat \ {0} /\ i \in 0 .. n - 1 /\ Branches(p) = 0 .. n - 1
  <2>1. n \in 0 .. 255 /\ i \in 0 .. n - 1
    BY ApplicationAssumption DEF Branches
  <2>2. QED BY <2>1 DEF Branches
<1>2. \A k \in Int : \A m \in Branches(p) : \A j :
        j \in Visited(m, k, p) <=> j \in 0 .. n - 1 /\ IF j < m THEN m - j <= k ELSE m + n - j <= k
  BY <1>1 DEF Visited
<1>3. \A k \in Int : \A m \in Branches(p) : \A j :
        j \in ToVisit(m, k, p) <=> j \in 0 .. n - 1 /\ IF j <= m THEN m - j <= k ELSE m + n - j <= k
  BY <1>1 DEF ToVisit
<1>4. /\ plus1_mod(i, n) = IF i = n - 1 THEN 0 ELSE i + 1
      /\ minus1_mod(i, n) = IF i = 0 THEN n - 1 ELSE i - 1
  BY <1>1, Neighbours
<1> HIDE DEF n
<1>5. /\ \A j : j \notin Visited(i, 0, p)
      /\ \A j : j \in Visited(i, n, p) <=> j \in 0 .. n - 1
  BY <1>1, <1>2
<1>6. /\ \A j : j \in ToVisit(i, n - 1, p) <=> j \in 0 .. n - 1
      /\ \A j : j \notin ToVisit(i, -1, p)
  <2>1. n - 1 \in Int /\ -1 \in Int
    BY <1>1
  <2>2. QED BY <1>1, <1>3, <2>1
<1>7. ASSUME NEW k \in Branches(p)
      PROVE  /\ i \notin Visited(i, k, p)
             /\ plus1_mod(i, n) \in Branches(p)
             /\ Visited(plus1_mod(i, n), k + 1, p) = Visited(i, k, p) \cup {i}
             /\ ToVisit(i, k, p) = Visited(i, k, p) \cup {i}
             /\ minus1_mod(i, n) \in Branches(p)
             /\ ToVisit(minus1_mod(i, n), k - 1, p) = ToVisit(i, k, p) \ {i}
  <2>1. plus1_mod(i, n) \in Branches(p) /\ minus1_mod(i, n) \in Branches(p) /\ k \in Int /\ k + 1 \in Int /\ k - 1 \in Int
    BY <1>1, <1>4, <1>7
  <2>2. i \notin Visited(i, k, p)
    BY <1>1, <1>2, <1>7, <2>1
  <2>3. Visited(plus1_mod(i, n), k + 1, p) = Visited(i, k, p) \cup {i}
    <3>1. ASSUME NEW j \in 0 .. n - 1
          PROVE  j \in Visited(plus1_mod(i, n), k + 1, p) <=> j \in Visited(i, k, p) \/ j = i
      <4>1. CASE i = n - 1
        BY <1>1, <1>2, <1>4, <1>7, <2>1, <4>1
      <4>2. CASE i # n - 1
        BY <1>1, <1>2, <1>4, <1>7, <2>1, <4>2
      <4>3. QED BY <4>1, <4>2
    <3>2. QED BY <1>1, <1>2, <2>1, <3>1
  <2>4. ToVisit(i, k, p) = Visited(i, k, p) \cup {i}
    BY <1>1, <1>2, <1>3, <1>7, <2>1
  <2>5. ToVisit(minus1_mod(i, n), k - 1, p) = ToVisit(i, k, p) \ {i}
    <3>1. CASE i = 0
      BY <1>1, <1>3, <1>4, <1>7, <2>1, <3>1
    <3>2. CASE i # 0
      BY <1>1, <1>3, <1>4, <1>7, <2>1, <3>2
    <3>3. QED BY <3>1, <3>2
  <2>6. QED BY <2>1, <2>2, <2>3, <2>4, <2>5
<1>8. QED BY <1>1, <1>5, <1>6, <1>7 DEF n

-----------------------------------------------------------------------------
ViewOK ==
  /\ \A n \in Frames : stack[n].proc \in Procs => view[stack[n].proc] = stack[n]
  /\ \A p \in Procs : (\A n \in Frames : stack[n].proc # p) => view[p] = Off

LEMMA Views == UrgencyInv => ViewOK
<1> SUFFICES ASSUME UrgencyInv
             PROVE  ViewOK
  OBVIOUS
<1>1. ASSUME NEW n \in Frames, stack[n].proc \in Procs
      PROVE  view[stack[n].proc] = stack[n]
  <2> DEFINE p == stack[n].proc
             m == CHOOSE m \in Frames : stack[m].proc = p
  <2>1. OnCpu(p) /\ view[p] = stack[m]
    BY <1>1 DEF OnCpu, view
  <2>2. m \in Frames /\ stack[m].proc = p
    OBVIOUS
  <2>3. p # NoProc
    BY <1>1, RecordAssumption DEF Records
  <2> HIDE DEF m
  <2>4. m = n
    BY <1>1, <2>2, <2>3, SamePriority
  <2>5. QED BY <2>1, <2>4
<1>2. \A p \in Procs : (\A n \in Frames : stack[n].proc # p) => view[p] = Off
  BY DEF view, OnCpu
<1>3. QED BY <1>1, <1>2 DEF ViewOK

LEMMA GotoView ==
  ASSUME UrgencyInv, ViewOK, ViewOK', NEW f, Goto(f)
  PROVE  view' = [q \in Procs |-> IF q = f.proc THEN f ELSE IF q = Top.proc THEN Off ELSE view[q]]
<1>1. /\ Len(stack) \in Frames /\ Frames' = Frames /\ Top = stack[Len(stack)]
      /\ \A n \in Frames : stack'[n] = IF n = Len(stack) THEN f ELSE stack[n]
  BY GotoTop, Stacked DEF UrgencyInv
<1>2. ASSUME NEW q \in Procs
      PROVE  view'[q] = IF q = f.proc THEN f ELSE IF q = Top.proc THEN Off ELSE view[q]
  <2>1. CASE q = f.proc
    BY <1>1, <1>2, <2>1 DEF ViewOK
  <2>2. CASE q # f.proc /\ q = Top.proc
    <3>1. \A n \in Frames : n # Len(stack) => stack[n].proc # q
      BY <1>1, <1>2, <2>2, SamePriority, RecordAssumption DEF Records
    <3>2. QED BY <1>1, <1>2, <2>2, <3>1 DEF ViewOK
  <2>3. CASE q # f.proc /\ q # Top.proc
    <3>1. CASE \E n \in Frames : stack[n].proc = q
      BY <1>1, <1>2, <2>3, <3>1 DEF ViewOK
    <3>2. CASE ~\E n \in Frames : stack[n].proc = q
      BY <1>1, <1>2, <2>3, <3>2 DEF ViewOK
    <3>3. QED BY <2>3, <3>1, <3>2
  <2>4. QED BY <2>1, <2>2, <2>3
<1>3. view = [q \in Procs |-> view[q]] /\ view' = [q \in Procs |-> view'[q]]
  BY DEF view
<1>4. QED BY <1>2, <1>3

LEMMA PushView ==
  ASSUME UrgencyInv, ViewOK, ViewOK', NEW f, NEW g,
         Len(stack') = Len(stack) + 1,
         \A n \in Frames : stack'[n] = IF n = Len(stack) THEN f ELSE stack[n],
         stack'[Len(stack) + 1] = g, f.proc = Top.proc, g.proc = NoProc
  PROVE  view' = [q \in Procs |-> IF q = f.proc THEN f ELSE view[q]]
<1>1. /\ Len(stack) \in Frames /\ Top = stack[Len(stack)] /\ Len(stack) \in Nat
      /\ Frames = 1 .. Len(stack) /\ Frames' = 1 .. Len(stack) + 1
      /\ \A q \in Procs : q # NoProc
  BY Stacked, RecordAssumption DEF UrgencyInv, Frames, Records
<1>2. ASSUME NEW q \in Procs
      PROVE  view'[q] = IF q = f.proc THEN f ELSE view[q]
  <2>1. CASE q = f.proc
    BY <1>1, <1>2, <2>1 DEF ViewOK
  <2>2. CASE q # f.proc
    <3>1. CASE \E n \in Frames : stack[n].proc = q
      BY <1>1, <1>2, <2>2, <3>1 DEF ViewOK
    <3>2. CASE ~\E n \in Frames : stack[n].proc = q
      BY <1>1, <1>2, <2>2, <3>2 DEF ViewOK
    <3>3. QED BY <3>1, <3>2
  <2>3. QED BY <2>1, <2>2
<1>3. view = [q \in Procs |-> view[q]] /\ view' = [q \in Procs |-> view'[q]]
  BY DEF view
<1>4. QED BY <1>2, <1>3

LEMMA ReturnView ==
  ASSUME UrgencyInv, ViewOK, ViewOK', Return, Top.fn # "main", Top.proc = NoProc
  PROVE  view' = view
<1>1. /\ Len(stack) \in Frames /\ Top = stack[Len(stack)] /\ Len(stack) \in Nat /\ Len(stack) > 1
      /\ Frames = 1 .. Len(stack) /\ StackShape
      /\ \A q \in Procs : q # NoProc
  BY Stacked, RecordAssumption DEF UrgencyInv, StackInv, Records
<1>2. Frames' = 1 .. Len(stack) - 1 /\ \A n \in 1 .. Len(stack) - 1 : stack'[n] = stack[n] /\ n \in Frames
  BY <1>1, ReturnSeq DEF Frames
<1>3. ASSUME NEW q \in Procs
      PROVE  view'[q] = view[q]
  <2>1. CASE \E n \in Frames : stack[n].proc = q
    BY <1>1, <1>2, <1>3, <2>1 DEF ViewOK
  <2>2. CASE ~\E n \in Frames : stack[n].proc = q
    BY <1>1, <1>2, <1>3, <2>2 DEF ViewOK
  <2>3. QED BY <2>1, <2>2
<1>4. view = [q \in Procs |-> view[q]] /\ view' = [q \in Procs |-> view'[q]]
  BY DEF view
<1>5. QED BY <1>3, <1>4

LEMMA ViewsNext ==
  ASSUME UrgencyInv'
  PROVE  ViewOK'
BY Views, PTL

-----------------------------------------------------------------------------
\* The processes that a step does not move.

\* Process q keeps its ALT; if it has one it may be made ready.
Kept(q) ==
  /\ alt'[q] = alt[q] /\ active'[q] = active[q] /\ timeout'[q] = timeout[q]
  /\ state'[q] = state[q] \/ (state'[q] = "ready" /\ q \in Alting)

LEMMA KeptFits ==
  ASSUME Fits, NEW q \in Procs, Kept(q), view'[q] = view[q]
  PROVE  AltFits(q, view'[q], state'[q], alt'[q], active'[q], timeout'[q])
<1> DEFINE a == view[q]
           s == state[q]
           al == alt[q]
           on == active[q]
           due == timeout[q]
<1>1. AltFits(q, a, s, al, on, due)
  BY DEF Fits
<1>2. NoProc \notin Procs
  BY RecordAssumption DEF Records
<1>3. HasAlt(q, al) => AltFits(q, a, "ready", al, on, due)
  <2> HIDE DEF a, s, al, on, due
  <2>1. SUFFICES ASSUME HasAlt(q, al)
                 PROVE  StateFits(q, a, "ready", al)
    BY <1>1 DEF AltFits
  <2>2. StateFits(q, a, s, al)
    BY <1>1 DEF AltFits
  <2>3. a.pc \in {"rtc", "rtcRest"} => a.flag
    BY <1>2, <2>1, <2>2 DEF StateFits, HasAlt
  <2>4. QED BY <2>1, <2>2, <2>3 DEF StateFits
<1>4. q \in Alting => HasAlt(q, al)
  BY DEF Alting
<1>5. CASE state'[q] = state[q]
  BY <1>1, <1>5 DEF Kept
<1>6. CASE state'[q] = "ready" /\ q \in Alting
  BY <1>3, <1>4, <1>6 DEF Kept
<1>7. QED BY <1>5, <1>6 DEF Kept

\* Nobody else's activation changes when that of p becomes a.
LEMMA FitsWith ==
  ASSUME Fits, NEW p \in Procs, NEW a, view' = [q \in Procs |-> IF q = p THEN a ELSE view[q]],
         \A q \in Procs : q # p => Kept(q),
         AltFits(p, a, state'[p], alt'[p], active'[p], timeout'[p])
  PROVE  Fits'
<1>1. ASSUME NEW q \in Procs
      PROVE  AltFits(q, view'[q], state'[q], alt'[q], active'[q], timeout'[q])
  <2>1. CASE q = p
    BY <2>1
  <2>2. CASE q # p
    BY <2>2, KeptFits
  <2>3. QED BY <2>1, <2>2
<1>2. QED BY <1>1 DEF Fits, AltFits, StateFits, LoopFits, HasAlt

LEMMA FitsAside ==
  ASSUME Fits, view' = view, \A q \in Procs : Kept(q)
  PROVE  Fits'
<1>1. ASSUME NEW q \in Procs
      PROVE  AltFits(q, view'[q], state'[q], alt'[q], active'[q], timeout'[q])
  BY KeptFits
<1>2. QED BY <1>1 DEF Fits, AltFits, StateFits, LoopFits, HasAlt

-----------------------------------------------------------------------------
\* The types of the activations.

LEMMA CountedHandlers ==
  ASSUME StackInv
  PROVE  /\ IsFiniteSet(Handlers) /\ Handlers \subseteq Frames
         /\ Cardinality(Handlers) \in Nat
<1>1. IsFiniteSet(1 .. Len(stack)) /\ Frames = 1 .. Len(stack)
  BY Stacked, FS_Interval
<1>2. Handlers \subseteq Frames
  BY DEF Handlers
<1>3. IsFiniteSet(Handlers)
  BY <1>1, <1>2, FS_Subset
<1>4. QED BY <1>2, <1>3, FS_CardinalityType

Counts(f) == f.fn = "handler" /\ f.pc # "leave"

LEMMA GotoTypes ==
  ASSUME StackInv, FrameTypes, NEW f, Goto(f), Typed(f), f.fn # "start" => f.partner \in Alting \cup {NoProc},
         Counts(f) <=> Counts(Top), handlers' = handlers, Alting \subseteq Alting'
  PROVE  FrameTypes'
<1>1. /\ Frames' = Frames /\ Top = stack[Len(stack)] /\ Len(stack) \in Frames
      /\ \A n \in Frames : stack'[n] = IF n = Len(stack) THEN f ELSE stack[n]
  BY GotoTop, Stacked
<1>2. \A n \in Frames : Typed(stack'[n]) /\ (stack'[n].fn # "start" => stack'[n].partner \in Alting' \cup {NoProc})
  BY <1>1 DEF FrameTypes
<1>3. Handlers' = Handlers
  BY <1>1 DEF Handlers, Counts
<1>4. QED BY <1>1, <1>2, <1>3 DEF FrameTypes, Typed

\* The handler leaves, and is no longer counted.
LEMMA LeaveTypes ==
  ASSUME StackInv, FrameTypes, Counts(Top),
         NEW H, H = Handlers \ {Len(stack)}
  PROVE  Cardinality(H) = handlers - 1 /\ handlers > 0
<1>1. Len(stack) \in Handlers
  BY Stacked DEF Handlers, Counts
<1>2. IsFiniteSet(Handlers) /\ Cardinality(Handlers) = handlers
  BY CountedHandlers DEF FrameTypes
<1>3. Cardinality(H) = handlers - 1
  BY <1>1, <1>2, FS_RemoveElement
<1>4. Cardinality(Handlers) # 0 /\ Cardinality(Handlers) \in Nat
  BY <1>1, <1>2, FS_EmptySet, FS_CardinalityType
<1>5. QED BY <1>2, <1>3, <1>4

LEMMA PushTypes ==
  ASSUME StackInv, FrameTypes, NEW f, NEW g,
         Len(stack') = Len(stack) + 1,
         \A n \in Frames : stack'[n] = IF n = Len(stack) THEN f ELSE stack[n],
         stack'[Len(stack) + 1] = g,
         Typed(f), f.fn # "start" => f.partner \in Alting \cup {NoProc},
         Typed(g), g.fn # "start" => g.partner \in Alting \cup {NoProc},
         Counts(f) => Counts(Top),
         handlers' = handlers + (IF Counts(g) THEN 1 ELSE 0) - (IF Counts(Top) /\ ~Counts(f) THEN 1 ELSE 0),
         Alting \subseteq Alting'
  PROVE  FrameTypes'
<1>1. /\ Top = stack[Len(stack)] /\ Len(stack) \in Frames /\ Len(stack) \in Nat
      /\ Frames = 1 .. Len(stack) /\ Frames' = 1 .. Len(stack) + 1
  BY Stacked DEF Frames
<1>2. \A n \in Frames' : n \in Frames \/ n = Len(stack) + 1
  BY <1>1
<1>3. \A n \in Frames' : Typed(stack'[n]) /\ (stack'[n].fn # "start" => stack'[n].partner \in Alting' \cup {NoProc})
  BY <1>1, <1>2 DEF FrameTypes
<1> DEFINE H == IF Counts(f) THEN Handlers ELSE Handlers \ {Len(stack)}
<1>4. /\ IsFiniteSet(Handlers) /\ Handlers \subseteq Frames /\ Cardinality(Handlers) = handlers
      /\ handlers \in Nat
  BY CountedHandlers DEF FrameTypes
<1>5. Handlers' = IF Counts(g) THEN H \cup {Len(stack) + 1} ELSE H
  <2>1. \A n \in Frames' : n \in Handlers' <=> Counts(stack'[n])
    BY DEF Handlers, Counts
  <2>2. \A n \in Frames : n \in Handlers <=> Counts(stack[n])
    BY DEF Handlers, Counts
  <2>3. Handlers' \subseteq Frames' /\ Len(stack) + 1 \in Frames' /\ Len(stack) + 1 \notin Frames
        /\ \A n \in Frames : n \in Frames' /\ n # Len(stack) + 1
    BY <1>1 DEF Handlers
  <2>4. QED BY <1>1, <1>2, <1>4, <2>1, <2>2, <2>3
<1>6. /\ IsFiniteSet(H) /\ Len(stack) + 1 \notin H
      /\ Cardinality(H) = handlers - (IF Counts(Top) /\ ~Counts(f) THEN 1 ELSE 0)
  <2>1. CASE Counts(Top) /\ ~Counts(f)
    <3>1. H = Handlers \ {Len(stack)} /\ IsFiniteSet(H)
      BY <1>4, <2>1, FS_Subset
    <3>2. QED BY <1>1, <1>4, <2>1, <3>1, LeaveTypes
  <2>2. CASE ~(Counts(Top) /\ ~Counts(f))
    <3>1. H = Handlers
      <4>1. Counts(f) \/ Len(stack) \notin Handlers
        BY <1>1, <2>2 DEF Handlers, Counts
      <4>2. QED BY <4>1
    <3>2. Len(stack) + 1 \notin Frames
      BY <1>1
    <3>3. handlers - 0 = handlers
      BY <1>4
    <3>4. (IF Counts(Top) /\ ~Counts(f) THEN 1 ELSE 0) = 0
      BY <2>2
    <3> HIDE DEF H
    <3>5. QED BY <1>4, <3>1, <3>2, <3>3, <3>4
  <2>3. QED BY <2>1, <2>2
<1> HIDE DEF H
<1>7. Cardinality(Handlers') = Cardinality(H) + (IF Counts(g) THEN 1 ELSE 0)
  <2>1. Cardinality(H \cup {Len(stack) + 1}) = Cardinality(H) + 1 /\ Cardinality(H) \in Nat
    BY <1>6, FS_AddElement, FS_CardinalityType
  <2>2. QED BY <1>5, <2>1
<1>8. handlers' = Cardinality(Handlers')
  BY <1>4, <1>6, <1>7
<1>9. QED BY <1>3, <1>8 DEF FrameTypes, Typed

LEMMA ReturnTypes ==
  ASSUME StackInv, FrameTypes, Return, Top.fn # "main", ~Counts(Top), handlers' = handlers, Alting \subseteq Alting'
  PROVE  FrameTypes'
<1>1. /\ Len(stack) \in Nat /\ Len(stack) > 1 /\ Frames = 1 .. Len(stack) /\ StackShape
      /\ Top = stack[Len(stack)]
  BY Stacked DEF StackInv
<1>2. Frames' = 1 .. Len(stack) - 1 /\ \A n \in 1 .. Len(stack) - 1 : stack'[n] = stack[n] /\ n \in Frames
  BY <1>1, ReturnSeq DEF Frames
<1>3. \A n \in Frames' : Typed(stack'[n]) /\ (stack'[n].fn # "start" => stack'[n].partner \in Alting' \cup {NoProc})
  BY <1>2 DEF FrameTypes
<1>4. Handlers' = Handlers
  <2>1. \A n \in Frames : n \in Handlers <=> Counts(stack[n])
    BY DEF Handlers, Counts
  <2>2. \A n \in Frames' : n \in Handlers' <=> Counts(stack'[n])
    BY DEF Handlers, Counts
  <2>3. \A n \in Frames : n \in Frames' \/ n = Len(stack)
    BY <1>1, <1>2
  <2>4. Handlers \subseteq Frames /\ Handlers' \subseteq Frames'
    BY DEF Handlers
  <2>5. QED BY <1>1, <1>2, <2>1, <2>2, <2>3, <2>4
<1>5. QED BY <1>3, <1>4 DEF FrameTypes, Typed

-----------------------------------------------------------------------------
\* The activation that executes, and what becomes of it.

LEMMA TypedFrames ==
  ASSUME NEW f, IsFrame(f), Typed(f)
  PROVE  /\ \A pc : Typed([f EXCEPT !.pc = pc])
         /\ \A q : Typed([f EXCEPT !.proc = q]) /\ Typed([f EXCEPT !.partner = q]) /\ Typed([f EXCEPT !.prev = q])
         /\ \A n \in Int : Typed([f EXCEPT !.i = n]) /\ Typed([f EXCEPT !.k = n])
         /\ \A b \in BOOLEAN : Typed([f EXCEPT !.flag = b])
         /\ \A t \in Nat : Typed([f EXCEPT !.time = t])
         /\ \A act \in Acts : Typed([f EXCEPT !.act = act])
<1>1. \A pc : Typed([f EXCEPT !.pc = pc])
  BY DEF IsFrame, Typed
<1>2. \A q : Typed([f EXCEPT !.proc = q]) /\ Typed([f EXCEPT !.partner = q]) /\ Typed([f EXCEPT !.prev = q])
  BY DEF IsFrame, Typed
<1>3. \A n \in Int : Typed([f EXCEPT !.i = n]) /\ Typed([f EXCEPT !.k = n])
  BY DEF IsFrame, Typed
<1>4. \A b \in BOOLEAN : Typed([f EXCEPT !.flag = b])
  BY DEF IsFrame, Typed
<1>5. \A t \in Nat : Typed([f EXCEPT !.time = t])
  BY DEF IsFrame, Typed
<1>6. \A act \in Acts : Typed([f EXCEPT !.act = act])
  BY DEF IsFrame, Typed
<1>7. QED BY <1>1, <1>2, <1>3, <1>4, <1>5, <1>6

LEMMA NewTyped ==
  /\ \A b \in Int : Typed(ScheduleFrame(b)) /\ ScheduleFrame(b).partner = NoProc /\ ~Counts(ScheduleFrame(b))
                    /\ ScheduleFrame(b).pc = "select"
  /\ \A src \in Intrs \cup {"elapsed", "timeout"} :
       /\ Typed(HandlerFrame(src)) /\ HandlerFrame(src).partner = NoProc /\ Counts(HandlerFrame(src))
       /\ HandlerFrame(src).src = src /\ HandlerFrame(src).pc \in {"exit", "timeout", "user"}
       /\ HandlerFrame(src).pc = "user" => src \in Intrs
  /\ \A p \in Procs : Typed(StartFrame(p)) /\ StartFrame(p).fn = "start"
                      /\ StartFrame(p).partner = p /\ StartFrame(p).pc = "link"
  /\ Typed(Frame("main", "main", 0, None))
<1>1. NoAct \in Acts
  BY DEF NoAct, Acts
<1>2. \A fn, pc, b : \A src \in Intrs \cup {None, "elapsed", "timeout"} :
        /\ Typed(Frame(fn, pc, b, src)) /\ IsFrame(Frame(fn, pc, b, src))
        /\ Frame(fn, pc, b, src).partner = NoProc /\ Frame(fn, pc, b, src).fn = fn
        /\ Frame(fn, pc, b, src).pc = pc /\ Frame(fn, pc, b, src).src = src
  BY <1>1 DEF Frame, Typed, IsFrame
<1>3. \A b \in Int : Typed(ScheduleFrame(b)) /\ ScheduleFrame(b).partner = NoProc /\ ~Counts(ScheduleFrame(b))
                     /\ ScheduleFrame(b).pc = "select"
  BY <1>2 DEF ScheduleFrame, Counts
<1>4. ASSUME NEW src \in Intrs \cup {"elapsed", "timeout"}
      PROVE  /\ Typed(HandlerFrame(src)) /\ HandlerFrame(src).partner = NoProc /\ Counts(HandlerFrame(src))
             /\ HandlerFrame(src).src = src /\ HandlerFrame(src).pc \in {"exit", "timeout", "user"}
             /\ HandlerFrame(src).pc = "user" => src \in Intrs
  <2>1. PICK pc \in {"exit", "timeout", "user"} :
          /\ HandlerFrame(src) = Frame("handler", pc, 0, src)
          /\ pc = "user" => src \in Intrs
    BY DEF HandlerFrame
  <2>2. QED BY <1>2, <2>1 DEF Counts
<1>5. ASSUME NEW p \in Procs
      PROVE  Typed(StartFrame(p)) /\ StartFrame(p).fn = "start" /\ StartFrame(p).partner = p /\ StartFrame(p).pc = "link"
  <2> DEFINE f == Frame("start", "link", 0, None)
  <2>1. Typed(f) /\ IsFrame(f) /\ f.fn = "start" /\ f.pc = "link"
    BY <1>2
  <2>2. StartFrame(p) = [f EXCEPT !.partner = p]
    BY DEF StartFrame
  <2> HIDE DEF f
  <2>3. Typed([f EXCEPT !.partner = p])
    BY <2>1, TypedFrames
  <2>4. QED BY <2>1, <2>2, <2>3 DEF IsFrame
<1>6. QED BY <1>2, <1>3, <1>4, <1>5

\* The process that executes is the one of its activation.
LEMMA Here ==
  ASSUME AltInv, Top.proc \in Procs
  PROVE  /\ view[Top.proc] = Top /\ Top.proc # NoProc /\ Top.proc # Idle
         /\ AltFits(Top.proc, Top, state[Top.proc], alt[Top.proc], active[Top.proc], timeout[Top.proc])
         /\ Top.fn = "schedule" /\ IsFrame(Top) /\ Typed(Top) /\ Top.partner \in Alting \cup {NoProc}
         /\ Top.pc # "partnerRet" => current = Top.proc
         /\ Alting \subseteq Procs /\ ~Counts(Top)
<1>1. StackInv /\ ViewOK /\ CurrentIsRunning
  BY Views, CurrentRuns DEF AltInv, UrgencyInv
<1>2. /\ Top = stack[Len(stack)] /\ Len(stack) \in Frames /\ FrameOK(Top)
      /\ Top.proc # NoProc /\ Top.proc # Idle
  BY <1>1, Stacked, RecordAssumption DEF Records
<1>3. view[Top.proc] = Top
  BY <1>1, <1>2 DEF ViewOK
<1>4. AltFits(Top.proc, Top, state[Top.proc], alt[Top.proc], active[Top.proc], timeout[Top.proc])
  BY <1>3 DEF AltInv, Fits
<1>5. Top.fn = "schedule" /\ IsFrame(Top)
  BY <1>2 DEF FrameOK
<1>6. QED BY <1>1, <1>2, <1>3, <1>4, <1>5 DEF CurrentIsRunning, AltInv, FrameTypes, Alting, Counts

\* Process p executes, and its activation becomes a; the others are as Kept says.
Runs(p, a) ==
  /\ view' = [q \in Procs |-> IF q = p THEN a ELSE view[q]]
  /\ \A q \in Procs : q # p => Kept(q)

\* No process executes.
Aside == view' = view /\ \A q \in Procs : Kept(q)

LEMMA SameAlting ==
  ASSUME \A q \in Procs : alt'[q].guards = alt[q].guards
  PROVE  Alting' = Alting
BY DEF Alting, HasAlt

LEMMA RunsInv ==
  ASSUME AltInv, UrgencyInv', NEW p \in Procs, NEW a, Runs(p, a),
         AltFits(p, a, state'[p], alt'[p], active'[p], timeout'[p]),
         FrameTypes', WaiterTypes', DataTypes'
  PROVE  AltInv'
<1>1. Fits /\ Fits'
  BY FitsWith DEF AltInv, Runs
<1>2. QED BY <1>1 DEF AltInv

LEMMA AsideInv ==
  ASSUME AltInv, UrgencyInv', Aside, FrameTypes', WaiterTypes', DataTypes'
  PROVE  AltInv'
<1>1. Fits /\ Fits'
  BY FitsAside DEF AltInv, Aside
<1>2. QED BY <1>1 DEF AltInv

\* The process that executes goes on.
LEMMA Goes ==
  ASSUME AltInv, UrgencyInv', Top.proc \in Procs, NEW f, Goto(f), f.proc = Top.proc, f.fn = "schedule",
         Typed(f), f.partner \in Alting \cup {NoProc}, handlers' = handlers,
         \A q \in Procs : q # Top.proc => Kept(q),
         AltFits(Top.proc, f, state'[Top.proc], alt'[Top.proc], active'[Top.proc], timeout'[Top.proc]),
         Alting \subseteq Alting', WaiterTypes', DataTypes'
  PROVE  AltInv' /\ Runs(Top.proc, f)
<1>1. UrgencyInv /\ StackInv /\ ViewOK /\ ViewOK' /\ FrameTypes
  BY Views, ViewsNext DEF AltInv, UrgencyInv
<1>2. Runs(Top.proc, f)
  <2>1. view' = [q \in Procs |-> IF q = f.proc THEN f ELSE IF q = Top.proc THEN Off ELSE view[q]]
    BY <1>1, GotoView
  <2>2. QED BY <2>1 DEF Runs
<1>3. FrameTypes'
  <2>1. ~Counts(Top) /\ ~Counts(f)
    BY Here DEF Counts
  <2>2. QED BY <1>1, <2>1, GotoTypes
<1>4. QED BY <1>2, <1>3, RunsInv

\* It calls a function of the kernel.
LEMMA Calls ==
  ASSUME AltInv, UrgencyInv', Top.proc \in Procs, NEW f, NEW g, Call(f, g), f.proc = Top.proc, f.fn = "schedule",
         Typed(f), f.partner \in Alting \cup {NoProc},
         g.proc = NoProc, Typed(g), g.fn # "start" => g.partner = NoProc,
         handlers' = handlers + (IF Counts(g) THEN 1 ELSE 0),
         \A q \in Procs : q # Top.proc => Kept(q),
         AltFits(Top.proc, f, state'[Top.proc], alt'[Top.proc], active'[Top.proc], timeout'[Top.proc]),
         Alting \subseteq Alting', WaiterTypes', DataTypes'
  PROVE  AltInv' /\ Runs(Top.proc, f)
<1>1. UrgencyInv /\ StackInv /\ StackShape /\ ViewOK /\ ViewOK' /\ FrameTypes
  BY Views, ViewsNext DEF AltInv, UrgencyInv, StackInv
<1>2. /\ Len(stack') = Len(stack) + 1
      /\ \A n \in Frames : stack'[n] = IF n = Len(stack) THEN f ELSE stack[n]
      /\ stack'[Len(stack) + 1] = g
  BY <1>1, CallSeq
<1>3. Runs(Top.proc, f)
  <2>1. view' = [q \in Procs |-> IF q = f.proc THEN f ELSE view[q]]
    BY <1>1, <1>2, PushView
  <2>2. QED BY <2>1 DEF Runs
<1>4. FrameTypes'
  <2>1. ~Counts(Top) /\ ~Counts(f)
    BY Here DEF Counts
  <2>2. handlers \in Nat
    BY <1>1, CountedHandlers DEF FrameTypes
  <2>3. handlers' = handlers + (IF Counts(g) THEN 1 ELSE 0) - (IF Counts(Top) /\ ~Counts(f) THEN 1 ELSE 0)
    BY <2>1, <2>2
  <2>4. QED BY <1>1, <1>2, <2>1, <2>3, PushTypes
<1>5. QED BY <1>3, <1>4, RunsInv

\* Whatever runs, it runs no process of the application.
LEMMA GoesAside ==
  ASSUME AltInv, UrgencyInv', Top.proc \notin Procs, NEW f, Goto(f), f.proc \notin Procs,
         Typed(f), f.fn # "start" => f.partner \in Alting \cup {NoProc}, Counts(f) <=> Counts(Top), handlers' = handlers,
         \A q \in Procs : Kept(q), Alting \subseteq Alting', WaiterTypes', DataTypes'
  PROVE  AltInv' /\ Aside
<1>1. UrgencyInv /\ StackInv /\ ViewOK /\ ViewOK' /\ FrameTypes
  BY Views, ViewsNext DEF AltInv, UrgencyInv
<1>2. Aside
  <2>1. view' = [q \in Procs |-> IF q = f.proc THEN f ELSE IF q = Top.proc THEN Off ELSE view[q]]
    BY <1>1, GotoView
  <2>2. view' = [q \in Procs |-> view[q]] /\ view = [q \in Procs |-> view[q]]
    BY <2>1 DEF view
  <2>3. QED BY <2>2 DEF Aside
<1>3. FrameTypes'
  BY <1>1, GotoTypes
<1>4. QED BY <1>2, <1>3, AsideInv

LEMMA CallsAside ==
  ASSUME AltInv, UrgencyInv', Top.proc \notin Procs, NEW f, NEW g,
         Len(stack') = Len(stack) + 1,
         \A n \in Frames : stack'[n] = IF n = Len(stack) THEN f ELSE stack[n],
         stack'[Len(stack) + 1] = g, f.proc = Top.proc, g.proc = NoProc,
         FrameTypes', \A q \in Procs : Kept(q), WaiterTypes', DataTypes'
  PROVE  AltInv' /\ Aside
<1>1. UrgencyInv /\ ViewOK /\ ViewOK'
  BY Views, ViewsNext DEF AltInv
<1>2. Aside
  <2>1. view' = [q \in Procs |-> IF q = f.proc THEN f ELSE view[q]]
    BY <1>1, PushView
  <2>2. view' = [q \in Procs |-> view[q]] /\ view = [q \in Procs |-> view[q]]
    BY <2>1 DEF view
  <2>3. QED BY <2>2 DEF Aside
<1>3. QED BY <1>2, AsideInv

-----------------------------------------------------------------------------
\* enable_alt() and disable_alt().

\* What the loops work on.
LEMMA Guarded ==
  ASSUME AltInv, Top.proc \in Procs, HasAlt(Top.proc, alt[Top.proc])
  PROVE  /\ Size(Top.proc) = NrGuards[Top.proc] /\ Owner(Top.proc) = Top.proc
         /\ NrGuards[Top.proc] \in 1 .. 255 /\ Branches(Top.proc) = 0 .. NrGuards[Top.proc] - 1
         /\ \A i : GuardOf(Top.proc, i) = Guards[Top.proc][i]
         /\ \A i : IsActive(Top.proc, i) <=> i \in active[Top.proc]
         /\ ActiveGuards(Top.proc) = active[Top.proc]
         /\ Top.proc \in Alting
         /\ alt[Top.proc].index \in Branches(Top.proc) /\ alt[Top.proc].count \in Branches(Top.proc)
<1>1. alt[Top.proc].guards = Top.proc /\ NrGuards[Top.proc] > 0 /\ Top.proc # NoProc
  BY Here DEF HasAlt
<1>2. NrGuards[Top.proc] \in 1 .. 255
  <2>1. NrGuards[Top.proc] \in 0 .. 255
    BY ApplicationAssumption
  <2>2. QED BY <1>1, <2>1
<1>3. active[Top.proc] \subseteq Branches(Top.proc)
  BY Here DEF AltFits
<1>4. ActiveGuards(Top.proc) = active[Top.proc]
  BY <1>1, <1>3 DEF ActiveGuards, Owner, IsActive
<1>5. alt[Top.proc].index \in Branches(Top.proc) /\ alt[Top.proc].count \in Branches(Top.proc)
  BY <1>2, Here DEF AltFits
<1>6. QED BY <1>1, <1>2, <1>4, <1>5 DEF Size, Owner, GuardOf, IsActive, Alting, Branches

\* The waiters are unchanged.
LEMMA SameWaiters ==
  ASSUME AltInv, Alting' = Alting, UNCHANGED <<chan, ichan, timerQ>>
  PROVE  WaiterTypes'
BY DEF AltInv, WaiterTypes

\* The step keeps every process in its place but the one that executes.
LEMMA OthersKept ==
  ASSUME AltInv, Top.proc \in Procs, timeout' = timeout,
         \A q \in Procs : q # Top.proc => alt'[q] = alt[q] /\ active'[q] = active[q] /\ state'[q] = state[q]
  PROVE  \A q \in Procs : q # Top.proc => Kept(q)
BY DEF Kept

\* A step of one of the loops.
LEMMA LoopGoes ==
  ASSUME AltInv, UrgencyInv', Top.proc \in Procs, NEW f, Goto(f), f.proc = Top.proc, f.fn = "schedule",
         Typed(f), f.partner \in Alting \cup {NoProc},
         UNCHANGED <<state, current, freed, alt, active, connected, sent, got, now, timeout, pend, handlers, fault>>,
         alarm' \in Int, intr' \in BOOLEAN, WaiterTypes',
         LoopFits(Top.proc, f, alt[Top.proc], active[Top.proc], timeout[Top.proc]),
         StateFits(Top.proc, f, state[Top.proc], alt[Top.proc])
  PROVE  AltInv' /\ Runs(Top.proc, f)
<1>1. \A q \in Procs : q # Top.proc => Kept(q)
  BY OthersKept
<1>2. Alting' = Alting
  BY SameAlting
<1>3. DataTypes'
  BY DEF AltInv, DataTypes
<1>4. AltFits(Top.proc, f, state[Top.proc], alt[Top.proc], active[Top.proc], timeout[Top.proc])
  BY Here DEF AltFits
<1>5. QED BY <1>1, <1>2, <1>3, <1>4, Goes

\* The loop of enable_alt() is at a guard.
LEMMA EnableFacts ==
  ASSUME AltInv, At("enable")
  PROVE  /\ Top.proc \in Procs /\ HasAlt(Top.proc, alt[Top.proc])
         /\ Top.i \in Branches(Top.proc) /\ Top.k \in 0 .. NrGuards[Top.proc]
         /\ Top.k < Size(Top.proc) <=> Top.k \in Branches(Top.proc)
         /\ Top.k = Size(Top.proc) <=> Top.k = NrGuards[Top.proc]
         /\ state[Top.proc] \in {"enabling", "ready"} /\ current = Top.proc /\ fault = "none"
<1>1. Top.proc \in Procs /\ Top.pc = "enable" /\ fault = "none"
  BY AtFacts DEF AltInv, UrgencyInv, At, ProcPcs, SchedulePcs
<1>2. HasAlt(Top.proc, alt[Top.proc]) /\ Top.i \in Branches(Top.proc) /\ Top.k \in 0 .. NrGuards[Top.proc]
      /\ state[Top.proc] \in {"enabling", "ready"}
  BY <1>1, Here DEF AltFits, LoopFits, StateFits
<1>3. QED BY <1>1, <1>2, Here, Guarded DEF Branches

\* It goes to the next one, or leaves at this one.
LEMMA NextFits ==
  ASSUME AltInv, Top.proc \in Procs, Top.pc \in {"enable", "insert"}, Top.k \in Branches(Top.proc), NEW f,
         f.pc = "enable", f.k = Top.k + 1, f.i = plus1_mod(Top.i, Size(Top.proc))
  PROVE  /\ LoopFits(Top.proc, f, alt[Top.proc], active[Top.proc], timeout[Top.proc])
         /\ StateFits(Top.proc, f, state[Top.proc], alt[Top.proc])
<1>1. /\ HasAlt(Top.proc, alt[Top.proc]) /\ Top.i \in Branches(Top.proc)
      /\ state[Top.proc] \in {"enabling", "ready"}
      /\ StateFits(Top.proc, Top, state[Top.proc], alt[Top.proc])
  BY Here DEF AltFits, LoopFits, StateFits
<1>2. f.i \in Branches(Top.proc) /\ f.k \in 0 .. NrGuards[Top.proc]
  <2>1. Size(Top.proc) = NrGuards[Top.proc] /\ Branches(Top.proc) = 0 .. NrGuards[Top.proc] - 1
    BY <1>1, Guarded
  <2>2. plus1_mod(Top.i, NrGuards[Top.proc]) \in Branches(Top.proc) /\ NrGuards[Top.proc] \in Nat
    BY <1>1, Loops
  <2>3. QED BY <2>1, <2>2
<1>3. QED BY <1>1, <1>2 DEF StateFits, LoopFits

LEMMA ReadyFits ==
  ASSUME AltInv, Top.proc \in Procs, Top.pc = "enable", Top.k \in Branches(Top.proc), NEW f,
         f.pc = "enabled", f.k = Top.k, f.i = Top.i, f.flag
  PROVE  /\ LoopFits(Top.proc, f, alt[Top.proc], active[Top.proc], timeout[Top.proc])
         /\ StateFits(Top.proc, f, state[Top.proc], alt[Top.proc])
<1>1. /\ HasAlt(Top.proc, alt[Top.proc]) /\ Top.i \in Branches(Top.proc)
      /\ state[Top.proc] \in {"enabling", "ready"}
      /\ StateFits(Top.proc, Top, state[Top.proc], alt[Top.proc])
  BY Here DEF AltFits, LoopFits, StateFits
<1>2. QED BY <1>1 DEF StateFits, LoopFits

\* The two as moves of the activation g.
LEMMA NextFrame ==
  ASSUME NEW g, IsFrame(g), Typed(g), plus1_mod(g.i, Size(g.proc)) \in Int
  PROVE  /\ NextGuard(g).pc = g.pc /\ NextGuard(g).fn = g.fn /\ NextGuard(g).proc = g.proc
         /\ NextGuard(g).k = g.k + 1 /\ NextGuard(g).i = plus1_mod(g.i, Size(g.proc))
         /\ NextGuard(g).partner = g.partner /\ NextGuard(g).flag = g.flag /\ Typed(NextGuard(g))
<1>1. NextGuard(g).k = g.k + 1 /\ g.k \in Int
  BY DEF IsFrame, NextGuard, Typed
<1>2. Typed(NextGuard(g))
  <2> DEFINE h == [g EXCEPT !.k = g.k + 1]
             j == plus1_mod(g.i, Size(g.proc))
  <2>1. IsFrame(h) /\ h.i = g.i /\ h.proc = g.proc
    BY DEF IsFrame
  <2>2. Typed(h)
    <3>1. g.k + 1 \in Int
      BY <1>1
    <3>2. QED BY <3>1, TypedFrames
  <2>3. NextGuard(g) = [h EXCEPT !.i = j]
    BY DEF NextGuard, IsFrame
  <2> HIDE DEF h, j
  <2>4. Typed([h EXCEPT !.i = j])
    <3>1. j \in Int
      BY DEF j
    <3>2. QED BY <2>1, <2>2, <3>1, TypedFrames
  <2>5. QED BY <2>3, <2>4
<1>3. QED BY <1>1, <1>2 DEF IsFrame, NextGuard

LEMMA ReadyFrame ==
  ASSUME NEW g, IsFrame(g), Typed(g)
  PROVE  /\ Ready(g).pc = "enabled" /\ Ready(g).fn = g.fn /\ Ready(g).proc = g.proc
         /\ Ready(g).k = g.k /\ Ready(g).i = g.i
         /\ Ready(g).partner = g.partner /\ Ready(g).flag /\ Typed(Ready(g))
<1>1. Typed(Ready(g))
  BY DEF Typed, IsFrame, Ready
<1>2. QED BY <1>1 DEF IsFrame, Ready

\* The loop goes to the next guard, with w as the partner.
LEMMA Passes ==
  ASSUME AltInv, UrgencyInv', Top.proc \in Procs, Top.pc \in {"enable", "insert"}, Top.k \in Branches(Top.proc),
         NEW g, IsFrame(g), Typed(g), g.pc = "enable", g.fn = Top.fn, g.proc = Top.proc, g.i = Top.i, g.k = Top.k,
         g.partner \in Alting \cup {NoProc}, Goto(NextGuard(g)),
         UNCHANGED <<state, current, freed, alt, active, connected, sent, got, now, timeout, pend, handlers, fault>>,
         alarm' \in Int, intr' \in BOOLEAN, WaiterTypes'
  PROVE  AltInv' /\ Runs(Top.proc, NextGuard(g))
<1>1. plus1_mod(g.i, Size(g.proc)) \in Int
  <2>1. HasAlt(Top.proc, alt[Top.proc]) /\ Top.i \in Branches(Top.proc)
    BY Here DEF AltFits, LoopFits
  <2>2. Size(Top.proc) = NrGuards[Top.proc] /\ Branches(Top.proc) = 0 .. NrGuards[Top.proc] - 1
        /\ NrGuards[Top.proc] \in 1 .. 255
    BY <2>1, Guarded
  <2>3. plus1_mod(Top.i, NrGuards[Top.proc]) \in Branches(Top.proc)
    BY <2>1, Loops
  <2>4. QED BY <2>2, <2>3
<1>2. /\ NextGuard(g).pc = "enable" /\ NextGuard(g).fn = "schedule" /\ NextGuard(g).proc = Top.proc
      /\ NextGuard(g).k = Top.k + 1 /\ NextGuard(g).i = plus1_mod(Top.i, Size(Top.proc))
      /\ NextGuard(g).partner \in Alting \cup {NoProc} /\ Typed(NextGuard(g))
  BY <1>1, NextFrame, Here
<1>3. /\ LoopFits(Top.proc, NextGuard(g), alt[Top.proc], active[Top.proc], timeout[Top.proc])
      /\ StateFits(Top.proc, NextGuard(g), state[Top.proc], alt[Top.proc])
  BY <1>2, NextFits
<1>4. QED BY <1>2, <1>3, LoopGoes

\* The loop leaves at a ready guard, with w as the partner.
LEMMA Leaves ==
  ASSUME AltInv, UrgencyInv', Top.proc \in Procs, Top.pc = "enable", Top.k \in Branches(Top.proc),
         NEW g, IsFrame(g), Typed(g), g.fn = Top.fn, g.proc = Top.proc, g.i = Top.i, g.k = Top.k,
         g.partner \in Alting \cup {NoProc}, Goto(Ready(g)),
         UNCHANGED <<state, current, freed, alt, active, connected, sent, got, now, timeout, pend, handlers, fault>>,
         alarm' = alarm, intr' \in BOOLEAN, UNCHANGED <<chan, ichan, timerQ>>
  PROVE  AltInv' /\ Runs(Top.proc, Ready(g))
<1>1. /\ Ready(g).pc = "enabled" /\ Ready(g).fn = "schedule" /\ Ready(g).proc = Top.proc
      /\ Ready(g).k = Top.k /\ Ready(g).i = Top.i /\ Ready(g).flag
      /\ Ready(g).partner \in Alting \cup {NoProc} /\ Typed(Ready(g))
  BY ReadyFrame, Here
<1>2. /\ LoopFits(Top.proc, Ready(g), alt[Top.proc], active[Top.proc], timeout[Top.proc])
      /\ StateFits(Top.proc, Ready(g), state[Top.proc], alt[Top.proc])
  BY <1>1, ReadyFits
<1>3. WaiterTypes' /\ alarm' \in Int
  <2>1. Alting' = Alting
    BY SameAlting
  <2>2. QED BY <2>1 DEF AltInv, WaiterTypes, DataTypes
<1>4. QED BY <1>1, <1>2, <1>3, LoopGoes

\* The activation with another partner.
LEMMA WithPartner ==
  ASSUME AltInv, Top.proc \in Procs, NEW w \in Alting \cup {NoProc}
  PROVE  LET g == [Top EXCEPT !.partner = w]
         IN  /\ IsFrame(g) /\ Typed(g) /\ g.pc = Top.pc /\ g.fn = Top.fn /\ g.proc = Top.proc
             /\ g.i = Top.i /\ g.k = Top.k /\ g.partner \in Alting \cup {NoProc}
<1>1. IsFrame(Top) /\ Typed(Top)
  BY Here
<1>2. Typed([Top EXCEPT !.partner = w])
  BY <1>1, TypedFrames
<1>3. QED BY <1>1, <1>2 DEF IsFrame

\* Guards are of five types.
LEMMA GuardFacts ==
  ASSUME NEW p \in Procs, NEW i \in Branches(p)
  PROVE  /\ Guards[p][i].type \in {"chanin", "chanout", "skip", "timeout", "interrupt"}
         /\ Guards[p][i].type \in {"chanin", "chanout"} => Guards[p][i].ch \in Chans
         /\ Guards[p][i].type = "interrupt" => Guards[p][i].ch \in Intrs
<1>1. Guards[p][i] \in GuardSet
  BY ApplicationAssumption
<1>2. QED BY <1>1 DEF GuardSet

LEMMA EnablingFacts ==
  ASSUME AltInv, NEW type, Enabling(type)
  PROVE  /\ Top.proc \in Procs /\ Top.pc = "enable" /\ Top.k \in Branches(Top.proc)
         /\ Top.i \in active[Top.proc] /\ Top.i \in Branches(Top.proc)
         /\ GuardOf(Top.proc, Top.i) = Guards[Top.proc][Top.i] /\ Guards[Top.proc][Top.i].type = type
         /\ Owner(Top.proc) = Top.proc /\ current = Top.proc /\ Top.proc \in Alting
<1>1. At("enable") /\ Top.pc = "enable" /\ Top.k < Size(Top.proc) /\ IsActive(Top.proc, Top.i)
      /\ GuardOf(Top.proc, Top.i).type = type
  BY DEF Enabling, At
<1>2. QED BY <1>1, EnableFacts, Guarded

LEMMA EnableInactiveInv ==
  ASSUME AltInv, UrgencyInv', EnableInactive
  PROVE  /\ AltInv' /\ Runs(Top.proc, NextGuard(Top))
         /\ Top.proc \in Procs /\ Top.pc = "enable" /\ Top.k \in Branches(Top.proc) /\ Top.i \notin active[Top.proc]
<1>1. /\ At("enable") /\ Top.k < Size(Top.proc) /\ ~IsActive(Top.proc, Top.i) /\ Goto(NextGuard(Top))
      /\ UNCHANGED <<procVars, altVars, ioVars, timeVars, intr, handlers, fault>>
  BY DEF EnableInactive
<1>2. /\ Top.proc \in Procs /\ Top.pc = "enable" /\ Top.k \in Branches(Top.proc) /\ Top.i \notin active[Top.proc]
  BY <1>1, EnableFacts, Guarded DEF At
<1>3. UNCHANGED <<state, current, freed, alt, active, connected, sent, got, now, timeout, pend, handlers, fault, chan, ichan, timerQ, alarm, intr>>
  BY <1>1 DEF procVars, altVars, ioVars, timeVars
<1>4. Alting' = Alting /\ alarm' \in Int /\ intr' \in BOOLEAN
  BY <1>3, SameAlting DEF AltInv, DataTypes
<1>5. WaiterTypes'
  BY <1>3, <1>4, SameWaiters
<1>6. IsFrame(Top) /\ Typed(Top) /\ Top.partner \in Alting \cup {NoProc}
  BY <1>2, Here
<1>7. AltInv' /\ Runs(Top.proc, NextGuard(Top))
  BY <1>1, <1>2, <1>3, <1>4, <1>5, <1>6, Passes
<1>8. QED BY <1>2, <1>7

\* A guard leaves the loop without a change, but of the interrupts and partner.
LEMMA LeavesNow ==
  ASSUME AltInv, UrgencyInv', NEW type, Enabling(type), NEW w \in Alting \cup {NoProc}, NEW g,
         g = Top \/ g = [Top EXCEPT !.partner = w], Goto(Ready(g)), intr' = FALSE,
         UNCHANGED <<procVars, altVars, ioVars, timeVars, handlers, fault>>
  PROVE  AltInv' /\ Runs(Top.proc, Ready(g))
<1>1. Top.proc \in Procs /\ Top.pc = "enable" /\ Top.k \in Branches(Top.proc)
  BY EnablingFacts
<1>2. IsFrame(Top) /\ Typed(Top) /\ Top.partner \in Alting \cup {NoProc}
  BY <1>1, Here
<1>3. /\ IsFrame(g) /\ Typed(g) /\ g.fn = Top.fn /\ g.proc = Top.proc /\ g.i = Top.i /\ g.k = Top.k
      /\ g.partner \in Alting \cup {NoProc}
  BY <1>1, <1>2, WithPartner
<1>4. UNCHANGED <<state, current, freed, alt, active, connected, sent, got, now, timeout, pend, handlers, fault, chan, ichan, timerQ, alarm>>
  BY DEF procVars, altVars, ioVars, timeVars
<1>5. QED BY <1>1, <1>3, <1>4, Leaves

-----------------------------------------------------------------------------
\* The timeout queue.  The while loops of insertInQueue() and removeFromQueue()
\* stop at the first entry that does not satisfy their condition.

\* Numbers are well founded: induction is the absence of a least counterexample.
LEMMA Least ==
  ASSUME NEW T, T \subseteq Nat, T # {}
  PROVE  \E n \in T : \A m \in T : n <= m
<1> DEFINE R == OpToRel(<, Nat)
<1>1. IsWellFoundedOn(R, Nat)
  BY NatLessThanWellFounded, Zenon
<1>2. \A m, n \in Nat : m < n => <<m, n>> \in R
  BY DEF OpToRel
<1> HIDE DEF R
<1>3. PICK n \in T : \A m \in T : ~(<<m, n>> \in R)
  BY <1>1, WFMin
<1>4. ASSUME NEW m \in T PROVE n <= m
  <2>1. ~(m < n)
    BY <1>2, <1>3, Zenon
  <2>2. QED BY <2>1
<1>5. QED BY <1>4

LEMMA FirstOf ==
  ASSUME NEW len \in Nat, NEW T, T \subseteq 1 .. len
  PROVE  \E n \in 0 .. len : (\A i \in 1 .. n : i \notin T) /\ (n < len => n + 1 \in T)
<1>1. CASE T = {}
  <2>1. len \in 0 .. len
    OBVIOUS
  <2>2. QED BY <1>1, <2>1
<1>2. CASE T # {}
  <2>1. T \subseteq Nat
    OBVIOUS
  <2>2. PICK m \in T : \A j \in T : m <= j
    BY <1>2, <2>1, Least
  <2>3. m - 1 \in 0 .. len /\ (\A i \in 1 .. m - 1 : i \notin T) /\ (m - 1) + 1 \in T
    BY <2>2
  <2>4. QED BY <2>3
<1>3. QED BY <1>1, <1>2

LEMMA InsertAt ==
  ASSUME NEW S, NEW q \in Seq(S), NEW t
  PROVE  /\ insertAt(q, t) \in 0 .. Len(q)
         /\ \A i \in 1 .. insertAt(q, t) : t.time >= q[i].time
         /\ insertAt(q, t) < Len(q) => ~(t.time >= q[insertAt(q, t) + 1].time)
<1>1. Len(q) \in Nat
  OBVIOUS
<1> DEFINE T == {i \in 1 .. Len(q) : ~(t.time >= q[i].time)}
<1>2. \E n \in 0 .. Len(q) : (\A i \in 1 .. n : i \notin T) /\ (n < Len(q) => n + 1 \in T)
  <2>1. T \subseteq 1 .. Len(q)
    OBVIOUS
  <2> HIDE DEF T
  <2>2. QED BY <1>1, <2>1, FirstOf
<1>3. \E n \in 0 .. Len(q) : /\ \A i \in 1 .. n : t.time >= q[i].time
                             /\ n < Len(q) => ~(t.time >= q[n + 1].time)
  <2>1. PICK n \in 0 .. Len(q) : (\A i \in 1 .. n : i \notin T) /\ (n < Len(q) => n + 1 \in T)
    BY <1>2
  <2>2. \A i \in 1 .. n : t.time >= q[i].time
    BY <1>1, <2>1
  <2>3. QED BY <2>1, <2>2
<1>4. QED BY <1>3 DEF insertAt, Walked

LEMMA Insertion ==
  ASSUME NEW S, NEW q \in Seq(S), NEW t \in S
  PROVE  /\ insertInQueue(q, t) \in Seq(S)
         /\ Len(insertInQueue(q, t)) = Len(q) + 1
         /\ \A i \in 1 .. Len(q) + 1 :
              insertInQueue(q, t)[i] = IF i <= insertAt(q, t) THEN q[i]
                                       ELSE IF i = insertAt(q, t) + 1 THEN t ELSE q[i - 1]
<1> DEFINE n == insertAt(q, t)
           a == SubSeq(q, 1, n)
           b == SubSeq(q, n + 1, Len(q))
<1>1. Len(q) \in Nat /\ n \in 0 .. Len(q) /\ \A i \in 1 .. Len(q) : q[i] \in S
  BY InsertAt
<1> HIDE DEF n
<1>2. a \in Seq(S) /\ Len(a) = n /\ \A i \in 1 .. n : a[i] = q[i]
  <2>1. \A i \in 1 .. n : q[i] \in S
    BY <1>1
  <2>2. n \in Int /\ n - 1 + 1 = n /\ \A i \in 1 .. n : 1 + i - 1 = i
    BY <1>1
  <2>3. QED BY <1>1, <2>1, <2>2, SubSeqProperties
<1>3. b \in Seq(S) /\ Len(b) = Len(q) - n /\ \A i \in 1 .. Len(q) - n : b[i] = q[n + i]
  <2>1. \A i \in n + 1 .. Len(q) : q[i] \in S
    BY <1>1
  <2>2. n + 1 \in Int /\ Len(q) \in Int /\ Len(q) - (n + 1) + 1 = Len(q) - n
        /\ \A i \in 1 .. Len(q) - n : (n + 1) + i - 1 = n + i
    BY <1>1
  <2>3. /\ b \in Seq(S)
        /\ Len(b) = IF n + 1 <= Len(q) THEN Len(q) - (n + 1) + 1 ELSE 0
        /\ \A i \in 1 .. Len(q) - (n + 1) + 1 : b[i] = q[(n + 1) + i - 1]
    BY <2>1, <2>2, SubSeqProperties
  <2> HIDE DEF b
  <2>4. (n + 1 <= Len(q) => Len(q) - (n + 1) + 1 = Len(q) - n) /\ (~(n + 1 <= Len(q)) => 0 = Len(q) - n)
    BY <1>1
  <2>5. Len(b) = Len(q) - n
    BY <2>3, <2>4
  <2>6. ASSUME NEW i \in 1 .. Len(q) - n
        PROVE  b[i] = q[n + i]
    BY <2>2, <2>3
  <2>7. QED BY <2>3, <2>5, <2>6
<1> HIDE DEF a, b
<1>4. <<t>> \in Seq(S) /\ Len(<<t>>) = 1 /\ <<t>>[1] = t
  OBVIOUS
<1>5. a \o <<t>> \in Seq(S) /\ Len(a \o <<t>>) = n + 1
      /\ \A i \in 1 .. n + 1 : (a \o <<t>>)[i] = IF i <= n THEN q[i] ELSE t
  <2>1. /\ a \o <<t>> \in Seq(S) /\ Len(a \o <<t>>) = Len(a) + Len(<<t>>)
        /\ \A i \in 1 .. Len(a) + Len(<<t>>) : (a \o <<t>>)[i] = IF i <= Len(a) THEN a[i] ELSE <<t>>[i - Len(a)]
    BY <1>2, <1>4, ConcatProperties
  <2>2. \A i \in 1 .. n + 1 : i <= n \/ i - n = 1
    BY <1>1
  <2>3. QED BY <1>1, <1>2, <1>4, <2>1, <2>2
<1> DEFINE c == a \o <<t>>
<1> HIDE DEF c
<1>6. /\ c \o b \in Seq(S) /\ Len(c \o b) = Len(c) + Len(b)
      /\ \A i \in 1 .. Len(c) + Len(b) : (c \o b)[i] = IF i <= Len(c) THEN c[i] ELSE b[i - Len(c)]
  BY <1>3, <1>5, ConcatProperties DEF c
<1>7. insertInQueue(q, t) = c \o b
  BY DEF insertInQueue, n, a, b, c
<1>8. Len(c) = n + 1 /\ Len(c) + Len(b) = Len(q) + 1 /\ \A i \in 1 .. n + 1 : c[i] = IF i <= n THEN q[i] ELSE t
  <2>1. n + 1 + (Len(q) - n) = Len(q) + 1
    BY <1>1
  <2>2. Len(c) = n + 1 /\ Len(b) = Len(q) - n
    BY <1>3, <1>5 DEF c
  <2>3. \A i \in 1 .. n + 1 : c[i] = IF i <= n THEN q[i] ELSE t
    BY <1>5 DEF c
  <2>4. QED BY <2>1, <2>2, <2>3
<1>9. ASSUME NEW i \in 1 .. Len(q) + 1
      PROVE  (c \o b)[i] = IF i <= n THEN q[i] ELSE IF i = n + 1 THEN t ELSE q[i - 1]
  <2>1. CASE i <= n + 1
    BY <1>1, <1>6, <1>8, <2>1
  <2>2. CASE i > n + 1
    <3>1. i - (n + 1) \in 1 .. Len(q) - n /\ n + (i - (n + 1)) = i - 1
      BY <1>1, <2>2
    <3>2. (c \o b)[i] = b[i - (n + 1)]
      BY <1>1, <1>6, <1>8, <2>2
    <3>3. b[i - (n + 1)] = q[i - 1]
      BY <1>3, <3>1
    <3>4. ~(i <= n) /\ i # n + 1
      BY <1>1, <2>2
    <3>5. QED BY <3>2, <3>3, <3>4
  <2>3. i <= n + 1 \/ i > n + 1
    BY <1>1
  <2>4. QED BY <2>1, <2>2, <2>3
<1>10. QED BY <1>6, <1>7, <1>8, <1>9 DEF n

\* removeFromQueue() walks past n entries, and unlinks the next one if it matches.
Unlinks(S, q, time, proc, n) ==
  /\ \A i \in 1 .. n : q[i].time < time \/ (q[i].time = time /\ q[i].proc # proc)
  /\ n < Len(q) => ~(q[n + 1].time < time \/ (q[n + 1].time = time /\ q[n + 1].proc # proc))
  /\ IF n < Len(q) /\ q[n + 1].time = time /\ q[n + 1].proc = proc
     THEN /\ removeFromQueue(q, time, proc) \in Seq(S)
          /\ Len(removeFromQueue(q, time, proc)) = Len(q) - 1
          /\ \A i \in 1 .. Len(q) - 1 :
               removeFromQueue(q, time, proc)[i] = IF i <= n THEN q[i] ELSE q[i + 1]
     ELSE removeFromQueue(q, time, proc) = q

LEMMA Removal ==
  ASSUME NEW S, NEW q \in Seq(S), NEW time, NEW proc
  PROVE  \E n \in 0 .. Len(q) : Unlinks(S, q, time, proc, n)
<1> DEFINE Past(i) == q[i].time < time \/ (q[i].time = time /\ q[i].proc # proc)
           n == Walked(q, LAMBDA e : e.time < time \/ (e.time = time /\ e.proc # proc))
           a == SubSeq(q, 1, n)
           b == SubSeq(q, n + 2, Len(q))
           r == removeFromQueue(q, time, proc)
<1>1. Len(q) \in Nat /\ \A i \in 1 .. Len(q) : q[i] \in S
  OBVIOUS
<1>2. \E m \in 0 .. Len(q) : (\A i \in 1 .. m : Past(i)) /\ (m < Len(q) => ~Past(m + 1))
  <2> DEFINE T == {i \in 1 .. Len(q) : ~Past(i)}
  <2>1. \E m \in 0 .. Len(q) : (\A i \in 1 .. m : i \notin T) /\ (m < Len(q) => m + 1 \in T)
    <3>1. T \subseteq 1 .. Len(q)
      OBVIOUS
    <3> HIDE DEF T
    <3>2. QED BY <1>1, <3>1, FirstOf
  <2>2. PICK m \in 0 .. Len(q) : (\A i \in 1 .. m : i \notin T) /\ (m < Len(q) => m + 1 \in T)
    BY <2>1
  <2> HIDE DEF Past
  <2>3. \A i \in 1 .. m : Past(i)
    BY <1>1, <2>2
  <2>4. QED BY <2>2, <2>3
<1>3. n \in 0 .. Len(q) /\ (\A i \in 1 .. n : Past(i)) /\ (n < Len(q) => ~Past(n + 1))
  BY <1>2 DEF Walked
<1>4. r = IF n < Len(q) /\ q[n + 1].time = time /\ q[n + 1].proc = proc THEN a \o b ELSE q
  BY DEF removeFromQueue
<1> HIDE DEF n, r, Past
<1>5. CASE n < Len(q)
  <2>1. a \in Seq(S) /\ Len(a) = n /\ \A i \in 1 .. n : a[i] = q[i]
    <3>1. \A i \in 1 .. n : q[i] \in S
      BY <1>1, <1>3
    <3>2. n \in Int /\ n - 1 + 1 = n /\ \A i \in 1 .. n : 1 + i - 1 = i
      BY <1>1, <1>3
    <3>3. QED BY <1>3, <3>1, <3>2, SubSeqProperties
  <2>2. b \in Seq(S) /\ Len(b) = Len(q) - 1 - n /\ \A i \in 1 .. Len(q) - 1 - n : b[i] = q[n + 1 + i]
    <3>1. \A i \in n + 2 .. Len(q) : q[i] \in S
      BY <1>1, <1>3
    <3>2. n + 2 \in Int /\ Len(q) \in Int /\ Len(q) - (n + 2) + 1 = Len(q) - 1 - n
          /\ \A i \in 1 .. Len(q) - 1 - n : (n + 2) + i - 1 = n + 1 + i
      BY <1>1, <1>3
    <3>3. /\ b \in Seq(S)
          /\ Len(b) = IF n + 2 <= Len(q) THEN Len(q) - (n + 2) + 1 ELSE 0
          /\ \A i \in 1 .. Len(q) - (n + 2) + 1 : b[i] = q[(n + 2) + i - 1]
      BY <3>1, <3>2, SubSeqProperties
    <3> HIDE DEF b
    <3>4. (n + 2 <= Len(q) => Len(q) - (n + 2) + 1 = Len(q) - 1 - n) /\ (~(n + 2 <= Len(q)) => 0 = Len(q) - 1 - n)
      BY <1>1, <1>3, <1>5
    <3>5. Len(b) = Len(q) - 1 - n
      BY <3>3, <3>4
    <3>6. ASSUME NEW i \in 1 .. Len(q) - 1 - n
          PROVE  b[i] = q[n + 1 + i]
      BY <3>2, <3>3
    <3>7. QED BY <3>3, <3>5, <3>6
  <2> HIDE DEF a, b
  <2>3. /\ a \o b \in Seq(S) /\ Len(a \o b) = Len(a) + Len(b)
        /\ \A i \in 1 .. Len(a) + Len(b) : (a \o b)[i] = IF i <= Len(a) THEN a[i] ELSE b[i - Len(a)]
    BY <2>1, <2>2, ConcatProperties
  <2>4. Len(a) + Len(b) = Len(q) - 1
    BY <1>1, <1>3, <2>1, <2>2
  <2>5. ASSUME NEW i \in 1 .. Len(q) - 1
        PROVE  (a \o b)[i] = IF i <= n THEN q[i] ELSE q[i + 1]
    <3>1. CASE i <= n
      <4>1. i \in 1 .. n
        BY <1>1, <1>3, <3>1
      <4>2. QED BY <2>1, <2>3, <2>4, <3>1, <4>1
    <3>2. CASE ~(i <= n)
      <4>1. i - n \in 1 .. Len(q) - 1 - n /\ n + 1 + (i - n) = i + 1
        BY <1>1, <1>3, <3>2
      <4>2. (a \o b)[i] = b[i - n]
        BY <2>1, <2>3, <2>4, <3>2
      <4>3. b[i - n] = q[i + 1]
        BY <2>2, <4>1
      <4>4. QED BY <3>2, <4>2, <4>3
    <3>3. QED BY <3>1, <3>2
  <2>6. a \o b \in Seq(S) /\ Len(a \o b) = Len(q) - 1
    BY <2>3, <2>4
  <2> DEFINE c == a \o b
  <2> HIDE DEF c
  <2>7. /\ r = IF n < Len(q) /\ q[n + 1].time = time /\ q[n + 1].proc = proc THEN c ELSE q
        /\ c \in Seq(S) /\ Len(c) = Len(q) - 1
        /\ \A i \in 1 .. Len(q) - 1 : c[i] = IF i <= n THEN q[i] ELSE q[i + 1]
    BY <1>4, <2>5, <2>6 DEF c
  <2>8. Unlinks(S, q, time, proc, n)
    BY <1>3, <2>7 DEF r, Past, Unlinks
  <2>9. QED BY <1>3, <2>8
<1>6. CASE ~(n < Len(q))
  <2>1. Unlinks(S, q, time, proc, n)
    BY <1>3, <1>4, <1>6 DEF r, Past, Unlinks
  <2>2. QED BY <1>3, <2>1
<1>7. QED BY <1>5, <1>6

-----------------------------------------------------------------------------
\* The actions of enable_alt().

\* The process that executes waits, in a channel, for an interrupt or a timeout.
LEMMA ChanWaits ==
  ASSUME AltInv, Alting' = Alting, NEW c \in Chans, NEW w \in Alting \cup {NoProc},
         \/ chan' = [chan EXCEPT ![c].waiting = w]
         \/ \E s \in Procs : chan' = [chan EXCEPT ![c] = [waiting |-> w, src |-> s]],
         UNCHANGED <<ichan, timerQ>>
  PROVE  WaiterTypes'
<1>1. chan \in [Chans -> [waiting : Alting \cup {NoProc}, src : Procs \cup {NoProc}]]
  BY DEF AltInv, WaiterTypes
<1>2. ASSUME NEW d \in Chans
      PROVE  chan[d] \in [waiting : Alting \cup {NoProc}, src : Procs \cup {NoProc}]
  BY <1>1
<1>3. [chan[c] EXCEPT !.waiting = w] \in [waiting : Alting \cup {NoProc}, src : Procs \cup {NoProc}]
  BY <1>2
<1>4. chan' \in [Chans -> [waiting : Alting \cup {NoProc}, src : Procs \cup {NoProc}]]
  <2>1. CASE chan' = [chan EXCEPT ![c].waiting = w]
    BY <1>1, <1>3, <2>1
  <2>2. CASE \E s \in Procs : chan' = [chan EXCEPT ![c] = [waiting |-> w, src |-> s]]
    BY <1>1, <2>2
  <2>3. QED BY <2>1, <2>2
<1>5. QED BY <1>4 DEF AltInv, WaiterTypes

LEMMA IntrWaits ==
  ASSUME AltInv, Alting' = Alting, NEW u \in Intrs, NEW w \in Alting \cup {NoProc}, NEW n \in Nat,
         ichan' = [ichan EXCEPT ![u].waiting = w] \/ ichan' = [ichan EXCEPT ![u].count = n],
         UNCHANGED <<chan, timerQ>>
  PROVE  WaiterTypes'
<1>1. ichan \in [Intrs -> [waiting : Alting \cup {NoProc}, count : Nat]]
  BY DEF AltInv, WaiterTypes
<1>2. ichan[u] \in [waiting : Alting \cup {NoProc}, count : Nat]
  BY <1>1
<1>3. /\ [ichan[u] EXCEPT !.waiting = w] \in [waiting : Alting \cup {NoProc}, count : Nat]
      /\ [ichan[u] EXCEPT !.count = n] \in [waiting : Alting \cup {NoProc}, count : Nat]
  BY <1>2
<1>4. ichan' \in [Intrs -> [waiting : Alting \cup {NoProc}, count : Nat]]
  BY <1>1, <1>3
<1>5. QED BY <1>4 DEF AltInv, WaiterTypes

LEMMA IntrCounts ==
  ASSUME AltInv, Alting' = Alting, NEW u \in Intrs,
         ichan' = [ichan EXCEPT ![u].count = 0] \/ ichan' = [ichan EXCEPT ![u].count = @ + 1],
         UNCHANGED <<chan, timerQ>>
  PROVE  WaiterTypes'
<1>1. ichan \in [Intrs -> [waiting : Alting \cup {NoProc}, count : Nat]]
  BY DEF AltInv, WaiterTypes
<1>2. ichan[u] \in [waiting : Alting \cup {NoProc}, count : Nat] /\ ichan[u].count + 1 \in Nat
  BY <1>1
<1>3. /\ [ichan[u] EXCEPT !.count = 0] \in [waiting : Alting \cup {NoProc}, count : Nat]
      /\ [ichan[u] EXCEPT !.count = ichan[u].count + 1] \in [waiting : Alting \cup {NoProc}, count : Nat]
  BY <1>2
<1>4. ichan' \in [Intrs -> [waiting : Alting \cup {NoProc}, count : Nat]]
  BY <1>1, <1>3
<1>5. QED BY <1>4 DEF AltInv, WaiterTypes

LEMMA QueueWaits ==
  ASSUME AltInv, Alting' = Alting, timerQ' \in Seq([time : Nat, proc : Alting]), UNCHANGED <<chan, ichan>>
  PROVE  WaiterTypes'
BY DEF AltInv, WaiterTypes

LEMMA EnableChanInInv ==
  ASSUME AltInv, UrgencyInv', EnableChanIn
  PROVE  AltInv' /\ \E w : LET g == [Top EXCEPT !.partner = w]
                           IN  Runs(Top.proc, NextGuard(Top)) \/ Runs(Top.proc, Ready(g))
<1> DEFINE c == GuardOf(Top.proc, Top.i).ch
           w == chan[c].waiting
           g == [Top EXCEPT !.partner = w]
<1>1. /\ Enabling("chanin")
      /\ \/ /\ w \in {NoProc, current}
            /\ chan' = [chan EXCEPT ![c].waiting = current]
            /\ Goto(NextGuard(Top))
            /\ intr' = TRUE
         \/ /\ w \notin {NoProc, current}
            /\ Goto(Ready(g))
            /\ intr' = FALSE
            /\ UNCHANGED chan
      /\ UNCHANGED <<procVars, altVars, ichan, connected, sent, got, timeVars, handlers, fault>>
  BY DEF EnableChanIn
<1>2. /\ Top.proc \in Procs /\ Top.pc = "enable" /\ Top.k \in Branches(Top.proc) /\ Top.i \in Branches(Top.proc)
      /\ c = Guards[Top.proc][Top.i].ch /\ Guards[Top.proc][Top.i].type = "chanin"
      /\ current = Top.proc /\ Top.proc \in Alting
  BY <1>1, EnablingFacts
<1>3. c \in Chans
  BY <1>2, GuardFacts
<1>4. w \in Alting \cup {NoProc}
  BY <1>3 DEF AltInv, WaiterTypes
<1>5. UNCHANGED <<state, current, freed, alt, active, connected, sent, got, now, timeout, pend, handlers, fault, ichan, timerQ, alarm>>
  BY <1>1 DEF procVars, altVars, timeVars
<1>6. Alting' = Alting /\ alarm' \in Int /\ IsFrame(Top) /\ Typed(Top) /\ Top.partner \in Alting \cup {NoProc}
  BY <1>2, <1>5, SameAlting, Here DEF AltInv, DataTypes
<1> HIDE DEF c, w
<1>7. CASE chan' = [chan EXCEPT ![c].waiting = current] /\ Goto(NextGuard(Top)) /\ intr' = TRUE
  <2>1. WaiterTypes'
    <3>1. current \in Alting \cup {NoProc}
      BY <1>2
    <3>2. QED BY <1>3, <1>5, <1>6, <1>7, <3>1, ChanWaits
  <2>2. AltInv' /\ Runs(Top.proc, NextGuard(Top))
    BY <1>2, <1>5, <1>6, <1>7, <2>1, Passes
  <2>3. QED BY <2>2
<1>8. CASE Goto(Ready(g)) /\ intr' = FALSE /\ UNCHANGED chan
  <2>1. UNCHANGED <<procVars, altVars, ioVars, timeVars, handlers, fault>>
    BY <1>1, <1>8 DEF ioVars
  <2>2. AltInv' /\ Runs(Top.proc, Ready(g))
    BY <1>1, <1>4, <1>8, <2>1, LeavesNow
  <2>3. QED BY <2>2
<1>9. QED BY <1>1, <1>7, <1>8

LEMMA EnableChanOutInv ==
  ASSUME AltInv, UrgencyInv', EnableChanOut
  PROVE  AltInv' /\ \E w : Runs(Top.proc, NextGuard([Top EXCEPT !.partner = w]))
<1> DEFINE c == GuardOf(Top.proc, Top.i).ch
           w == chan[c].waiting
           g == [Top EXCEPT !.partner = w]
<1>1. /\ Enabling("chanout")
      /\ chan' = [chan EXCEPT ![c] = [waiting |-> current, src |-> Owner(Top.proc)]]
      /\ Goto(NextGuard(g)) /\ intr' = TRUE
      /\ UNCHANGED <<procVars, altVars, ichan, connected, sent, got, timeVars, handlers, fault>>
  BY DEF EnableChanOut
<1>2. /\ Top.proc \in Procs /\ Top.pc = "enable" /\ Top.k \in Branches(Top.proc) /\ Top.i \in Branches(Top.proc)
      /\ c = Guards[Top.proc][Top.i].ch /\ Guards[Top.proc][Top.i].type = "chanout"
      /\ current = Top.proc /\ Top.proc \in Alting /\ Owner(Top.proc) = Top.proc
  BY <1>1, EnablingFacts
<1>3. c \in Chans
  BY <1>2, GuardFacts
<1>4. w \in Alting \cup {NoProc}
  BY <1>3 DEF AltInv, WaiterTypes
<1>5. UNCHANGED <<state, current, freed, alt, active, connected, sent, got, now, timeout, pend, handlers, fault, ichan, timerQ, alarm>>
  BY <1>1 DEF procVars, altVars, timeVars
<1>6. Alting' = Alting /\ alarm' \in Int
  BY <1>2, <1>5, SameAlting DEF AltInv, DataTypes
<1>7. /\ IsFrame(g) /\ Typed(g) /\ g.pc = Top.pc /\ g.fn = Top.fn /\ g.proc = Top.proc /\ g.i = Top.i /\ g.k = Top.k
      /\ g.partner \in Alting \cup {NoProc}
  BY <1>2, <1>4, WithPartner
<1>8. WaiterTypes'
  <2>1. current \in Alting \cup {NoProc} /\ Owner(Top.proc) \in Procs
    BY <1>2
  <2>2. QED BY <1>1, <1>3, <1>5, <1>6, <2>1, ChanWaits
<1> HIDE DEF c, w, g
<1>9. AltInv' /\ Runs(Top.proc, NextGuard(g))
  BY <1>1, <1>2, <1>5, <1>6, <1>7, <1>8, Passes
<1>10. QED BY <1>9 DEF g

LEMMA EnableSkipInv ==
  ASSUME AltInv, UrgencyInv', EnableSkip
  PROVE  AltInv' /\ Runs(Top.proc, Ready(Top))
<1>1. /\ Enabling("skip") /\ Goto(Ready(Top)) /\ intr' = FALSE
      /\ UNCHANGED <<procVars, altVars, ioVars, timeVars, handlers, fault>>
  BY DEF EnableSkip
<1>2. QED BY <1>1, LeavesNow

LEMMA EnableIntrInv ==
  ASSUME AltInv, UrgencyInv', EnableIntr
  PROVE  /\ AltInv'
         /\ LET u == Guards[Top.proc][Top.i].ch
            IN  \/ /\ Runs(Top.proc, NextGuard(Top)) /\ ichan[u].count = 0
                   /\ ichan' = [ichan EXCEPT ![u].waiting = Top.proc]
                \/ Runs(Top.proc, Ready(Top)) /\ ichan[u].count # 0 /\ ichan' = ichan
<1> DEFINE u == GuardOf(Top.proc, Top.i).ch
<1>1. /\ Enabling("interrupt")
      /\ \/ ichan[u].count = 0 /\ ichan' = [ichan EXCEPT ![u].waiting = current] /\ Goto(NextGuard(Top))
         \/ ichan[u].count # 0 /\ Goto(Ready(Top)) /\ UNCHANGED ichan
      /\ intr' = FALSE
      /\ UNCHANGED <<procVars, altVars, chan, connected, sent, got, timeVars, handlers, fault>>
  BY DEF EnableIntr
<1>2. /\ Top.proc \in Procs /\ Top.pc = "enable" /\ Top.k \in Branches(Top.proc) /\ Top.i \in Branches(Top.proc)
      /\ u = Guards[Top.proc][Top.i].ch /\ Guards[Top.proc][Top.i].type = "interrupt"
      /\ current = Top.proc /\ Top.proc \in Alting
  BY <1>1, EnablingFacts
<1>3. u \in Intrs
  BY <1>2, GuardFacts
<1>5. UNCHANGED <<state, current, freed, alt, active, connected, sent, got, now, timeout, pend, handlers, fault, chan, timerQ, alarm>>
  BY <1>1 DEF procVars, altVars, timeVars
<1>6. Alting' = Alting /\ alarm' \in Int /\ IsFrame(Top) /\ Typed(Top) /\ Top.partner \in Alting \cup {NoProc}
  BY <1>2, <1>5, SameAlting, Here DEF AltInv, DataTypes
<1> HIDE DEF u
<1>7. CASE ichan[u].count = 0 /\ ichan' = [ichan EXCEPT ![u].waiting = current] /\ Goto(NextGuard(Top))
  <2>1. WaiterTypes'
    <3>1. current \in Alting \cup {NoProc} /\ 0 \in Nat
      BY <1>2
    <3>2. QED BY <1>3, <1>5, <1>6, <1>7, <3>1, IntrWaits
  <2>2. AltInv' /\ Runs(Top.proc, NextGuard(Top))
    BY <1>1, <1>2, <1>5, <1>6, <1>7, <2>1, Passes
  <2>3. QED BY <1>2, <1>7, <2>2
<1>8. CASE ichan[u].count # 0 /\ Goto(Ready(Top)) /\ UNCHANGED ichan
  <2>1. UNCHANGED <<procVars, altVars, ioVars, timeVars, handlers, fault>>
    BY <1>1, <1>8 DEF ioVars
  <2>2. AltInv' /\ Runs(Top.proc, Ready(Top))
    BY <1>1, <1>8, <2>1, LeavesNow
  <2>3. ichan[u].count # 0 /\ ichan' = ichan /\ u = Guards[Top.proc][Top.i].ch
    BY <1>2, <1>8
  <2>4. QED BY <2>2, <2>3, Zenon
<1>9. QED BY <1>1, <1>7, <1>8, Zenon

LEMMA EnableTimeoutInv ==
  ASSUME AltInv, UrgencyInv', EnableTimeout
  PROVE  AltInv' /\ Runs(Top.proc, IF Now >= timeout[Top.proc].time THEN Ready(Top) ELSE [Top EXCEPT !.pc = "insert"])
<1> DEFINE f == [Top EXCEPT !.pc = "insert"]
<1>1. /\ Enabling("timeout") /\ intr' = FALSE
      /\ Goto(IF Now >= timeout[Owner(Top.proc)].time THEN Ready(Top) ELSE f)
      /\ UNCHANGED <<procVars, altVars, ioVars, timeVars, handlers, fault>>
  BY DEF EnableTimeout
<1>2. /\ Top.proc \in Procs /\ Top.pc = "enable" /\ Top.k \in Branches(Top.proc) /\ Top.i \in Branches(Top.proc)
      /\ Guards[Top.proc][Top.i].type = "timeout" /\ Top.i \in active[Top.proc]
      /\ current = Top.proc /\ Top.proc \in Alting /\ Owner(Top.proc) = Top.proc
  BY <1>1, EnablingFacts
<1>3. CASE Now >= timeout[Top.proc].time
  <2>1. Goto(Ready(Top))
    BY <1>1, <1>2, <1>3
  <2>2. AltInv' /\ Runs(Top.proc, Ready(Top))
    BY <1>1, <2>1, LeavesNow
  <2>3. QED BY <1>3, <2>2
<1>4. CASE ~(Now >= timeout[Top.proc].time)
  <2>1. Goto(f)
    BY <1>1, <1>2, <1>4
  <2>2. UNCHANGED <<state, current, freed, alt, active, connected, sent, got, now, timeout, pend, handlers, fault, chan, ichan, timerQ, alarm>>
    BY <1>1 DEF procVars, altVars, ioVars, timeVars
  <2>3. Alting' = Alting /\ alarm' \in Int
    BY <2>2, SameAlting DEF AltInv, DataTypes
  <2>4. WaiterTypes'
    BY <2>2, <2>3, SameWaiters
  <2>5. IsFrame(Top) /\ Typed(Top) /\ Top.partner \in Alting \cup {NoProc} /\ Top.fn = "schedule"
        /\ AltFits(Top.proc, Top, state[Top.proc], alt[Top.proc], active[Top.proc], timeout[Top.proc])
    BY <1>2, Here
  <2>6. /\ f.pc = "insert" /\ f.proc = Top.proc /\ f.fn = "schedule" /\ f.i = Top.i /\ f.k = Top.k
        /\ f.partner = Top.partner
    BY <2>5 DEF IsFrame
  <2>7. Typed(f)
    BY <2>5, TypedFrames
  <2>8. timeout[Top.proc].proc = Top.proc
    <3>1. Now \in Nat /\ timeout[Top.proc].time \in Nat
      BY <1>2, NowOK DEF AltInv, DataTypes
    <3>2. timeout[Top.proc].time > 0
      BY <1>4, <3>1
    <3>3. QED BY <2>5, <3>2 DEF AltFits
  <2> HIDE DEF f
  <2>9. LoopFits(Top.proc, f, alt[Top.proc], active[Top.proc], timeout[Top.proc])
    BY <1>2, <2>6, <2>8 DEF LoopFits, Alting
  <2>10. StateFits(Top.proc, f, state[Top.proc], alt[Top.proc])
    BY <1>2, <2>5, <2>6 DEF AltFits, StateFits
  <2>11. AltInv' /\ Runs(Top.proc, f)
    BY <1>1, <1>2, <2>1, <2>2, <2>3, <2>4, <2>5, <2>6, <2>7, <2>9, <2>10, LoopGoes
  <2>12. QED BY <1>4, <2>11 DEF f
<1>5. QED BY <1>3, <1>4

LEMMA EnableInsertInv ==
  ASSUME AltInv, UrgencyInv', EnableInsert
  PROVE  /\ AltInv' /\ Runs(Top.proc, NextGuard([Top EXCEPT !.pc = "enable"]))
         /\ timerQ' = insertInQueue(timerQ, timeout[Top.proc])
         /\ Top.proc \in Procs /\ Top.pc = "insert" /\ timeout[Top.proc] \in [time : Nat, proc : Alting]
<1> DEFINE g == [Top EXCEPT !.pc = "enable"]
           t == timeout[Owner(Top.proc)]
<1>1. /\ At("insert") /\ timerQ' = insertInQueue(timerQ, t)
      /\ alarm' = IF insertAt(timerQ, t) = 0 THEN Armed(t.time, Now) ELSE alarm
      /\ Goto(NextGuard(g)) /\ intr' = TRUE
      /\ UNCHANGED <<procVars, altVars, ioVars, now, timeout, pend, handlers, fault>>
  BY DEF EnableInsert
<1>2. Top.proc \in Procs /\ Top.pc = "insert"
  BY <1>1, AtFacts DEF AltInv, UrgencyInv, At, ProcPcs, SchedulePcs
<1>3. /\ IsFrame(Top) /\ Typed(Top) /\ Top.partner \in Alting \cup {NoProc} /\ Top.fn = "schedule"
      /\ HasAlt(Top.proc, alt[Top.proc]) /\ Top.k \in Branches(Top.proc)
      /\ timeout[Top.proc].proc = Top.proc
  BY <1>2, Here DEF AltFits, LoopFits
<1>4. Owner(Top.proc) = Top.proc /\ Top.proc \in Alting
  BY <1>2, <1>3, Guarded
<1>5. UNCHANGED <<state, current, freed, alt, active, connected, sent, got, now, timeout, pend, handlers, fault, chan, ichan>>
  BY <1>1 DEF procVars, altVars, ioVars
<1>6. Alting' = Alting
  BY <1>5, SameAlting
<1>7. timeout[Top.proc] \in [time : Nat, proc : Alting]
  <2>1. timeout[Top.proc] \in [time : Nat, proc : Procs \cup {NoProc}]
    BY <1>2 DEF AltInv, DataTypes
  <2>2. QED BY <1>3, <1>4, <2>1
<1>8. WaiterTypes'
  <2>1. timerQ \in Seq([time : Nat, proc : Alting])
    BY DEF AltInv, WaiterTypes
  <2>2. timerQ' \in Seq([time : Nat, proc : Alting])
    BY <1>1, <1>4, <1>7, <2>1, Insertion
  <2>3. QED BY <1>5, <1>6, <2>2, QueueWaits
<1>9. alarm' \in Int
  <2>1. now \in Nat /\ Now \in Nat /\ t.time \in Nat /\ alarm \in Int
    BY <1>4, <1>7, NowOK DEF AltInv, DataTypes
  <2>2. QED BY <1>1, <2>1 DEF Armed, NoTime
<1>10. /\ g.pc = "enable" /\ g.proc = Top.proc /\ g.fn = "schedule" /\ g.i = Top.i /\ g.k = Top.k
       /\ g.partner = Top.partner /\ IsFrame(g)
  BY <1>3 DEF IsFrame
<1>11. Typed(g)
  BY <1>3, TypedFrames
<1> HIDE DEF g
<1>12. AltInv' /\ Runs(Top.proc, NextGuard(g))
  BY <1>1, <1>2, <1>3, <1>5, <1>8, <1>9, <1>10, <1>11, Passes
<1>13. QED BY <1>1, <1>2, <1>4, <1>7, <1>12 DEF g

\* The loop is over.
Rewound(f) == [f EXCEPT !.pc = "enabled", !.k = @ - 1, !.i = minus1_mod(@, Size(f.proc))]

LEMMA EnableEndInv ==
  ASSUME AltInv, UrgencyInv', EnableEnd
  PROVE  /\ AltInv' /\ Runs(Top.proc, Rewound(Top))
         /\ Top.proc \in Procs /\ Top.pc = "enable" /\ Top.k = NrGuards[Top.proc] /\ Top.i \in Branches(Top.proc)
         /\ Rewound(Top).pc = "enabled" /\ Rewound(Top).k = NrGuards[Top.proc] - 1 /\ Rewound(Top).flag = Top.flag
         /\ Rewound(Top).i \in Branches(Top.proc) /\ Rewound(Top).i = minus1_mod(Top.i, NrGuards[Top.proc])
<1> DEFINE f == Rewound(Top)
<1>1. /\ At("enable") /\ Top.k = Size(Top.proc) /\ Goto(f) /\ intr' = FALSE
      /\ UNCHANGED <<procVars, altVars, ioVars, timeVars, handlers, fault>>
  BY DEF EnableEnd, Rewound
<1>2. /\ Top.proc \in Procs /\ Top.pc = "enable" /\ Top.k = NrGuards[Top.proc] /\ Top.i \in Branches(Top.proc)
      /\ HasAlt(Top.proc, alt[Top.proc]) /\ state[Top.proc] \in {"enabling", "ready"}
  BY <1>1, EnableFacts DEF At
<1>3. UNCHANGED <<state, current, freed, alt, active, connected, sent, got, now, timeout, pend, handlers, fault, chan, ichan, timerQ, alarm>>
  BY <1>1 DEF procVars, altVars, ioVars, timeVars
<1>4. Alting' = Alting /\ alarm' \in Int
  BY <1>3, SameAlting DEF AltInv, DataTypes
<1>5. WaiterTypes'
  BY <1>3, <1>4, SameWaiters
<1>6. IsFrame(Top) /\ Typed(Top) /\ Top.partner \in Alting \cup {NoProc} /\ Top.fn = "schedule"
      /\ AltFits(Top.proc, Top, state[Top.proc], alt[Top.proc], active[Top.proc], timeout[Top.proc])
  BY <1>2, Here
<1>7. /\ Size(Top.proc) = NrGuards[Top.proc] /\ NrGuards[Top.proc] \in 1 .. 255
      /\ Branches(Top.proc) = 0 .. NrGuards[Top.proc] - 1
  BY <1>2, Guarded
<1>8. minus1_mod(Top.i, NrGuards[Top.proc]) \in Branches(Top.proc) /\ NrGuards[Top.proc] - 1 \in Branches(Top.proc)
      /\ Branches(Top.proc) \subseteq Int
  <2>1. \A n \in 1 .. 255 : n - 1 \in 0 .. n - 1 /\ 0 .. n - 1 \subseteq Int
    OBVIOUS
  <2>2. NrGuards[Top.proc] - 1 \in Branches(Top.proc) /\ Branches(Top.proc) \subseteq Int
    BY <1>7, <2>1
  <2>3. QED BY <1>2, <2>2, Loops
<1>9. /\ f.pc = "enabled" /\ f.proc = Top.proc /\ f.fn = "schedule" /\ f.flag = Top.flag
      /\ f.i = minus1_mod(Top.i, NrGuards[Top.proc]) /\ f.k = NrGuards[Top.proc] - 1
      /\ f.partner = Top.partner
  BY <1>2, <1>6, <1>7 DEF IsFrame, Rewound
<1>10. Typed(f)
  <2> DEFINE a == [Top EXCEPT !.pc = "enabled"]
             b == [a EXCEPT !.k = Top.k - 1]
             j == minus1_mod(Top.i, Size(Top.proc))
  <2>1. IsFrame(a) /\ Typed(a) /\ IsFrame(b)
    BY <1>6, TypedFrames DEF IsFrame
  <2>2. Typed(b)
    <3>1. Top.k - 1 \in Int
      BY <1>2, <1>8
    <3> HIDE DEF a
    <3>2. QED BY <2>1, <3>1, TypedFrames
  <2>3. f = [b EXCEPT !.i = j]
    BY <1>6 DEF Rewound, IsFrame
  <2>4. j \in Int
    BY <1>7, <1>8
  <2> HIDE DEF a, b, j, f
  <2>5. Typed([b EXCEPT !.i = j])
    BY <2>1, <2>2, <2>4, TypedFrames
  <2>6. QED BY <2>3, <2>5
<1> HIDE DEF f
<1>11. f.k \in Branches(Top.proc)
  BY <1>8, <1>9
<1>12. LoopFits(Top.proc, f, alt[Top.proc], active[Top.proc], timeout[Top.proc])
  BY <1>2, <1>8, <1>9, <1>11 DEF LoopFits
<1>13. StateFits(Top.proc, f, state[Top.proc], alt[Top.proc])
  BY <1>2, <1>6, <1>9 DEF AltFits, StateFits
<1>14. AltInv' /\ Runs(Top.proc, f)
  BY <1>1, <1>2, <1>3, <1>4, <1>5, <1>6, <1>9, <1>10, <1>12, <1>13, LoopGoes
<1>15. QED BY <1>2, <1>8, <1>9, <1>14 DEF f

\* The program stops, or time passes.
LEMMA Rests ==
  ASSUME AltInv, UrgencyInv',
         UNCHANGED <<state, alt, active, freed, connected, sent, got, timeout, chan, ichan, timerQ, handlers, stack>>,
         now' \in Nat, alarm' \in Int, pend' \in BOOLEAN, intr' \in BOOLEAN,
         fault' \in {"none", "null", "divide", "exit"}
  PROVE  AltInv' /\ Aside
<1>1. Aside
  BY DEF Aside, Kept, view, OnCpu, Frames
<1>2. Alting' = Alting
  BY SameAlting
<1>3. FrameTypes'
  BY <1>2 DEF AltInv, FrameTypes, Handlers, Frames, Typed
<1>4. WaiterTypes'
  BY <1>2, SameWaiters
<1>5. DataTypes'
  BY DEF AltInv, DataTypes
<1>6. QED BY <1>1, <1>3, <1>4, <1>5, AsideInv

LEMMA CrashInv ==
  ASSUME AltInv, UrgencyInv', NEW why \in {"null", "divide", "exit"}, Crash(why)
  PROVE  AltInv' /\ Aside
<1>1. UNCHANGED <<state, alt, active, freed, connected, sent, got, timeout, chan, ichan, timerQ, handlers, stack,
                  now, alarm, pend, intr>> /\ fault' = why
  BY DEF Crash, procVars, altVars, ioVars, timeVars
<1>2. now' \in Nat /\ alarm' \in Int /\ pend' \in BOOLEAN /\ intr' \in BOOLEAN
  BY <1>1 DEF AltInv, DataTypes
<1>3. QED BY <1>1, <1>2, Rests

LEMMA EnableBeginInv ==
  ASSUME AltInv, UrgencyInv', EnableBegin
  PROVE  /\ AltInv' /\ Top.proc \in Procs /\ Top.pc = "begin" /\ state[Top.proc] \in {"quiescent", "ready"}
         /\ \/ Aside /\ state' = state /\ UNCHANGED <<altVars, ioVars, timeVars, stack>>
            \/ \E f : /\ Runs(Top.proc, f) /\ f.pc = "enable" /\ f.k = 0 /\ f.partner = NoProc
                      /\ f.i \in Branches(Top.proc) /\ f.flag = Top.flag
                      /\ state' = [state EXCEPT ![Top.proc] = "enabling"]
                      /\ UNCHANGED <<altVars, ioVars, timeVars>>
<1> DEFINE j == IF Owner(Top.proc) \in AltPri THEN 0 ELSE plus1_mod(alt[Top.proc].index, Size(Top.proc))
           f == [Top EXCEPT !.pc = "enable", !.partner = NoProc, !.k = 0, !.i = j]
<1>1. /\ At("begin")
      /\ \/ Size(Top.proc) = 0 /\ Crash("divide")
         \/ Crash("exit")
         \/ /\ Size(Top.proc) # 0
            /\ state' = [state EXCEPT ![Top.proc] = "enabling"]
            /\ Goto(f)
            /\ UNCHANGED <<rq, current, freed, altVars, ioVars, timeVars, intr, handlers, fault>>
  BY DEF EnableBegin
<1>2. Top.proc \in Procs /\ Top.pc = "begin"
  BY <1>1, AtFacts DEF AltInv, UrgencyInv, At, ProcPcs, SchedulePcs
<1>3. /\ IsFrame(Top) /\ Typed(Top) /\ Top.fn = "schedule" /\ Top.proc # NoProc
      /\ AltFits(Top.proc, Top, state[Top.proc], alt[Top.proc], active[Top.proc], timeout[Top.proc])
      /\ state[Top.proc] \in {"quiescent", "ready"} /\ alt[Top.proc].guards \in {NoProc, Top.proc}
  BY <1>2, Here DEF AltFits, StateFits
<1>4. CASE Crash("divide") \/ Crash("exit")
  <2>1. AltInv' /\ Aside
    BY <1>4, CrashInv
  <2>2. state' = state /\ UNCHANGED <<altVars, ioVars, timeVars, stack>>
    BY <1>4 DEF Crash, procVars
  <2>3. QED BY <1>2, <1>3, <2>1, <2>2
<1>5. CASE /\ Size(Top.proc) # 0
           /\ state' = [state EXCEPT ![Top.proc] = "enabling"]
           /\ Goto(f)
           /\ UNCHANGED <<rq, current, freed, altVars, ioVars, timeVars, intr, handlers, fault>>
  <2>1. HasAlt(Top.proc, alt[Top.proc])
    <3>1. alt[Top.proc].guards = Top.proc /\ NrGuards[Top.proc] # 0
      BY <1>3, <1>5 DEF Size
    <3>2. NrGuards[Top.proc] \in 0 .. 255
      BY <1>2, ApplicationAssumption
    <3>3. QED BY <3>1, <3>2 DEF HasAlt
  <2>2. /\ Size(Top.proc) = NrGuards[Top.proc] /\ NrGuards[Top.proc] \in 1 .. 255
        /\ Branches(Top.proc) = 0 .. NrGuards[Top.proc] - 1
        /\ alt[Top.proc].index \in Branches(Top.proc)
    BY <1>2, <2>1, Guarded
  <2>3. j \in Branches(Top.proc) /\ j \in Int /\ 0 \in 0 .. NrGuards[Top.proc]
    <3>1. \A n \in 1 .. 255 : 0 \in 0 .. n - 1 /\ 0 .. n - 1 \subseteq Int /\ 0 \in 0 .. n
      OBVIOUS
    <3>2. 0 \in Branches(Top.proc) /\ Branches(Top.proc) \subseteq Int /\ 0 \in 0 .. NrGuards[Top.proc]
      BY <2>2, <3>1
    <3>3. plus1_mod(alt[Top.proc].index, NrGuards[Top.proc]) \in Branches(Top.proc)
      BY <1>2, <2>2, <3>2, Loops
    <3>4. QED BY <2>2, <3>2, <3>3
  <2> HIDE DEF j
  <2>4. /\ f.pc = "enable" /\ f.proc = Top.proc /\ f.fn = "schedule" /\ f.i = j /\ f.k = 0 /\ f.partner = NoProc
        /\ f.flag = Top.flag
    BY <1>3 DEF IsFrame
  <2>5. Typed(f)
    <3> DEFINE a == [Top EXCEPT !.pc = "enable"]
               b == [a EXCEPT !.partner = NoProc]
               c == [b EXCEPT !.k = 0]
    <3>1. IsFrame(a) /\ IsFrame(b) /\ IsFrame(c) /\ f = [c EXCEPT !.i = j]
      BY <1>3 DEF IsFrame
    <3>2. Typed(a)
      BY <1>3, TypedFrames
    <3> HIDE DEF a
    <3>3. Typed(b)
      BY <3>1, <3>2, TypedFrames
    <3> HIDE DEF b
    <3>4. Typed(c)
      <4>1. \A n \in Int : Typed([b EXCEPT !.k = n])
        <5>1. IsFrame(b)
          BY <3>1
        <5>2. QED BY <3>3, <5>1, TypedFrames
      <4>2. QED BY <4>1
    <3> HIDE DEF c, f
    <3>5. Typed([c EXCEPT !.i = j])
      BY <2>3, <3>1, <3>4, TypedFrames
    <3>6. QED BY <3>1, <3>5
  <2> HIDE DEF f
  <2>6. UNCHANGED <<current, freed, alt, active, connected, sent, got, now, timeout, pend, handlers, fault, chan, ichan, timerQ, alarm, intr>>
    BY <1>5 DEF altVars, ioVars, timeVars
  <2>7. Alting' = Alting
    BY <2>6, SameAlting
  <2>8. WaiterTypes' /\ DataTypes'
    BY <2>6, <2>7, SameWaiters DEF AltInv, DataTypes
  <2>9. state'[Top.proc] = "enabling" /\ \A q \in Procs : q # Top.proc => Kept(q)
    <3>1. state \in [Records -> {"unstarted", "initial", "quiescent", "enabling", "waiting", "ready"}]
      BY DEF AltInv, UrgencyInv, NoneEnds
    <3>2. Top.proc \in Records /\ Procs \subseteq Records
      BY <1>2 DEF Records
    <3>3. QED BY <1>5, <2>6, <3>1, <3>2 DEF Kept
  <2>10. AltFits(Top.proc, f, state'[Top.proc], alt'[Top.proc], active'[Top.proc], timeout'[Top.proc])
    <3>1. StateFits(Top.proc, f, "enabling", alt[Top.proc])
      BY <2>1, <2>4 DEF StateFits
    <3>2. LoopFits(Top.proc, f, alt[Top.proc], active[Top.proc], timeout[Top.proc])
      BY <2>1, <2>3, <2>4 DEF LoopFits
    <3>3. QED BY <1>3, <2>6, <2>9, <3>1, <3>2 DEF AltFits
  <2>11. AltInv' /\ Runs(Top.proc, f)
    BY <1>2, <1>5, <2>4, <2>5, <2>6, <2>7, <2>8, <2>9, <2>10, Goes
  <2>12. QED BY <1>2, <1>3, <1>5, <2>3, <2>4, <2>11
<1>6. QED BY <1>1, <1>4, <1>5

\* The process that executes goes on, in a new state or with another branch.
LEMMA StateGoes ==
  ASSUME AltInv, UrgencyInv', Top.proc \in Procs, NEW f, Goto(f), f.proc = Top.proc, f.fn = "schedule",
         Typed(f), f.partner \in Alting \cup {NoProc},
         UNCHANGED <<freed, active, connected, sent, now, timeout, pend, handlers, fault>>,
         \/ alt' = alt
         \/ \E i \in Branches(Top.proc) : alt' = [alt EXCEPT ![Top.proc].index = i]
         \/ \E i \in Branches(Top.proc), k \in Branches(Top.proc) :
              alt' = [alt EXCEPT ![Top.proc].index = i, ![Top.proc].count = k],
         NEW s, state' = [state EXCEPT ![Top.proc] = s],
         got' \in [Chans -> 0 .. MsgMod - 1], alarm' \in Int, intr' \in BOOLEAN,
         Alting' = Alting => WaiterTypes',
         LoopFits(Top.proc, f, alt[Top.proc], active[Top.proc], timeout[Top.proc]),
         StateFits(Top.proc, f, s, alt[Top.proc])
  PROVE  AltInv' /\ Runs(Top.proc, f)
<1> DEFINE p == Top.proc
<1>1. /\ alt \in [Records -> [guards : Procs \cup {NoProc}, index : Int, count : Int]]
      /\ state \in [Records -> {"unstarted", "initial", "quiescent", "enabling", "waiting", "ready"}]
      /\ p \in Records /\ Procs \subseteq Records
  BY DEF AltInv, DataTypes, UrgencyInv, NoneEnds, Records
<1>2. Branches(p) \subseteq Int
  <2>1. NrGuards[p] \in 0 .. 255
    BY ApplicationAssumption
  <2>2. \A n \in 0 .. 255 : 0 .. n - 1 \subseteq Int
    OBVIOUS
  <2>3. QED BY <2>1, <2>2 DEF Branches
<1>3. alt[p] \in [guards : Procs \cup {NoProc}, index : Int, count : Int]
  BY <1>1
<1>4. /\ alt' \in [Records -> [guards : Procs \cup {NoProc}, index : Int, count : Int]]
      /\ \A q \in Records : q # p => alt'[q] = alt[q]
      /\ alt'[p].guards = alt[p].guards
      /\ alt'[p].index \in {alt[p].index} \cup Branches(p) /\ alt'[p].count \in {alt[p].count} \cup Branches(p)
  <2>1. CASE alt' = alt
    BY <1>1, <2>1
  <2>2. ASSUME NEW i \in Branches(p), alt' = [alt EXCEPT ![p].index = i]
        PROVE  <1>4!:
    <3>1. i \in Int
      BY <1>2
    <3>2. alt'[p] = [alt[p] EXCEPT !.index = i] /\ \A q \in Records : q # p => alt'[q] = alt[q]
      BY <1>1, <2>2
    <3>3. /\ alt'[p] \in [guards : Procs \cup {NoProc}, index : Int, count : Int]
          /\ alt'[p].guards = alt[p].guards /\ alt'[p].index = i /\ alt'[p].count = alt[p].count
      BY <1>3, <3>1, <3>2
    <3>4. alt' \in [Records -> [guards : Procs \cup {NoProc}, index : Int, count : Int]]
      BY <1>1, <2>2, <3>2, <3>3
    <3>5. QED BY <3>2, <3>3, <3>4
  <2>3. ASSUME NEW i \in Branches(p), NEW k \in Branches(p), alt' = [alt EXCEPT ![p].index = i, ![p].count = k]
        PROVE  <1>4!:
    <3>1. i \in Int /\ k \in Int
      BY <1>2
    <3>2. alt'[p] = [[alt[p] EXCEPT !.index = i] EXCEPT !.count = k] /\ \A q \in Records : q # p => alt'[q] = alt[q]
      BY <1>1, <2>3
    <3>3. /\ alt'[p] \in [guards : Procs \cup {NoProc}, index : Int, count : Int]
          /\ alt'[p].guards = alt[p].guards /\ alt'[p].index = i /\ alt'[p].count = k
      BY <1>3, <3>1, <3>2
    <3>4. alt' \in [Records -> [guards : Procs \cup {NoProc}, index : Int, count : Int]]
      BY <1>1, <2>3, <3>2, <3>3
    <3>5. QED BY <3>2, <3>3, <3>4
  <2>4. QED BY <2>1, <2>2, <2>3
<1>5. state'[p] = s /\ \A q \in Records : q # p => state'[q] = state[q]
  BY <1>1
<1>6. \A q \in Procs : q # p => Kept(q)
  BY <1>1, <1>4, <1>5 DEF Kept
<1>7. Alting' = Alting
  <2>1. \A q \in Procs : alt'[q].guards = alt[q].guards
    BY <1>1, <1>4
  <2>2. QED BY <2>1, SameAlting
<1>8. DataTypes' /\ WaiterTypes'
  BY <1>4, <1>7 DEF AltInv, DataTypes
<1>9. AltFits(p, f, state'[p], alt'[p], active'[p], timeout'[p])
  <2>1. AltFits(p, Top, state[p], alt[p], active[p], timeout[p])
    BY Here
  <2>2. HasAlt(p, alt'[p]) <=> HasAlt(p, alt[p])
    BY <1>4 DEF HasAlt
  <2>3. LoopFits(p, f, alt'[p], active[p], timeout[p]) /\ StateFits(p, f, s, alt'[p])
    BY <1>4, <2>2 DEF LoopFits, StateFits
  <2>4. QED BY <1>4, <1>5, <2>1, <2>3 DEF AltFits
<1>10. QED BY <1>6, <1>7, <1>8, <1>9, Goes

LEMMA EnableDoneInv ==
  ASSUME AltInv, UrgencyInv', EnableDone
  PROVE  /\ AltInv' /\ Top.proc \in Procs /\ Top.pc = "enabled" /\ state[Top.proc] \in {"enabling", "ready"}
         /\ Top.i \in Branches(Top.proc) /\ Top.k \in Branches(Top.proc)
         /\ alt' = [alt EXCEPT ![Top.proc].index = Top.i, ![Top.proc].count = Top.k]
         /\ UNCHANGED <<active, ioVars, timeVars>>
         /\ \E f, s :
              /\ Runs(Top.proc, f) /\ state' = [state EXCEPT ![Top.proc] = s] /\ f.i = Top.i /\ f.k = Top.k
              /\ \/ s = "ready" /\ f.pc = "disable" /\ (state[Top.proc] = "ready" \/ Top.flag) /\ f.partner = NoProc
                 \/ /\ s = "waiting" /\ f.pc = "partner" /\ ~f.flag /\ state[Top.proc] = "enabling" /\ ~Top.flag
                    /\ f.partner = Top.partner
<1> DEFINE p == Top.proc
           s == IF state[p] # "enabling" THEN state[p] ELSE IF Top.flag THEN "ready" ELSE "waiting"
           g == [Top EXCEPT !.pc = "disable", !.partner = NoProc]
           h == [Top EXCEPT !.pc = "partner", !.flag = FALSE]
           f == IF s = "ready" THEN g ELSE h
<1>1. /\ At("enabled") /\ Goto(f) /\ intr' = TRUE
      /\ alt' = [alt EXCEPT ![p].index = Top.i, ![p].count = Top.k]
      /\ state' = [state EXCEPT ![p] = s]
      /\ UNCHANGED <<rq, current, freed, active, ioVars, timeVars, handlers, fault>>
  BY DEF EnableDone
<1>2. Top.proc \in Procs /\ Top.pc = "enabled"
  BY <1>1, AtFacts DEF AltInv, UrgencyInv, At, ProcPcs, SchedulePcs
<1>3. /\ IsFrame(Top) /\ Typed(Top) /\ Top.partner \in Alting \cup {NoProc} /\ Top.fn = "schedule"
      /\ HasAlt(p, alt[p]) /\ Top.i \in Branches(p) /\ Top.k \in Branches(p)
      /\ state[p] \in {"enabling", "ready"} /\ alt[p].guards # NoProc
  BY <1>2, Here DEF AltFits, LoopFits, StateFits, HasAlt
<1>4. \/ s = "ready" /\ (state[p] = "ready" \/ Top.flag)
      \/ s = "waiting" /\ state[p] = "enabling" /\ ~Top.flag
  BY <1>3
<1>5. /\ IsFrame(g) /\ g.pc = "disable" /\ g.proc = p /\ g.fn = "schedule" /\ g.i = Top.i /\ g.k = Top.k
      /\ g.partner = NoProc
      /\ IsFrame(h) /\ h.pc = "partner" /\ h.proc = p /\ h.fn = "schedule" /\ h.i = Top.i /\ h.k = Top.k
      /\ h.partner = Top.partner /\ ~h.flag
  BY <1>3 DEF IsFrame
<1>6. Typed(g) /\ Typed(h)
  <2> DEFINE a == [Top EXCEPT !.pc = "disable"]
             b == [Top EXCEPT !.pc = "partner"]
  <2>1. IsFrame(a) /\ Typed(a) /\ IsFrame(b) /\ Typed(b)
    BY <1>3, TypedFrames DEF IsFrame
  <2>2. g = [a EXCEPT !.partner = NoProc] /\ h = [b EXCEPT !.flag = FALSE]
    BY <1>3 DEF IsFrame
  <2> HIDE DEF a, b, g, h
  <2>3. Typed([a EXCEPT !.partner = NoProc]) /\ Typed([b EXCEPT !.flag = FALSE])
    BY <2>1, TypedFrames
  <2>4. QED BY <2>2, <2>3
<1> HIDE DEF g, h, s
<1>7. /\ UNCHANGED <<freed, active, connected, sent, got, now, timeout, pend, handlers, fault, chan, ichan, timerQ, alarm>>
      /\ UNCHANGED <<active, ioVars, timeVars>>
  BY <1>1 DEF ioVars, timeVars
<1>8. got' \in [Chans -> 0 .. MsgMod - 1] /\ alarm' \in Int
  BY <1>7 DEF AltInv, DataTypes
<1>9. f.pc \in {"disable", "partner"} /\ f.proc = p /\ f.fn = "schedule" /\ f.i = Top.i /\ f.k = Top.k
      /\ Typed(f) /\ f.partner \in {Top.partner, NoProc} /\ f.partner \in Alting \cup {NoProc}
      /\ (f.pc = "disable" => s = "ready") /\ (f.pc = "partner" => s = "waiting" /\ ~f.flag)
  BY <1>3, <1>4, <1>5, <1>6
<1>10. StateFits(p, f, s, alt[p])
  BY <1>3, <1>4, <1>9 DEF StateFits
<1>11. LoopFits(p, f, alt[p], active[p], timeout[p])
  <2>1. NrGuards[p] \in 0 .. 255 /\ Branches(p) = 0 .. NrGuards[p] - 1
    BY <1>2, ApplicationAssumption DEF Branches
  <2>2. Top.k \in -1 .. NrGuards[p] - 1
    BY <1>3, <2>1
  <2>3. QED BY <1>3, <1>9, <2>2 DEF LoopFits
<1>12. AltInv' /\ Runs(p, f)
  <2>1. Alting' = Alting => WaiterTypes'
    BY <1>7, SameWaiters
  <2>2. intr' \in BOOLEAN
    BY <1>1
  <2>3. \E i \in Branches(p), k \in Branches(p) : alt' = [alt EXCEPT ![p].index = i, ![p].count = k]
    BY <1>1, <1>3
  <2> HIDE DEF f
  <2>4. QED BY <1>1, <1>2, <1>7, <1>8, <1>9, <1>10, <1>11, <2>1, <2>2, <2>3, StateGoes
<1>13. \/ s = "ready" /\ f.pc = "disable" /\ (state[p] = "ready" \/ Top.flag) /\ f.partner = NoProc
       \/ s = "waiting" /\ f.pc = "partner" /\ ~f.flag /\ state[p] = "enabling" /\ ~Top.flag /\ f.partner = Top.partner
  BY <1>4, <1>5
<1> HIDE DEF f
<1>14. QED BY <1>1, <1>2, <1>3, <1>7, <1>9, <1>12, <1>13

-----------------------------------------------------------------------------
\* The actions of disable_alt().

LEMMA DisableFacts ==
  ASSUME AltInv, At("disable")
  PROVE  /\ Top.proc \in Procs /\ Top.pc = "disable" /\ HasAlt(Top.proc, alt[Top.proc])
         /\ Top.i \in Branches(Top.proc) /\ Top.k \in -1 .. NrGuards[Top.proc] - 1
         /\ Top.k >= 0 <=> Top.k \in Branches(Top.proc)
         /\ Top.k < 0 <=> Top.k = -1
         /\ state[Top.proc] = "ready" /\ current = Top.proc /\ fault = "none"
<1>1. Top.proc \in Procs /\ Top.pc = "disable" /\ fault = "none"
  BY AtFacts DEF AltInv, UrgencyInv, At, ProcPcs, SchedulePcs
<1>2. HasAlt(Top.proc, alt[Top.proc]) /\ Top.i \in Branches(Top.proc) /\ Top.k \in -1 .. NrGuards[Top.proc] - 1
      /\ state[Top.proc] = "ready"
  BY <1>1, Here DEF AltFits, LoopFits, StateFits
<1>3. NrGuards[Top.proc] \in 1 .. 255 /\ Branches(Top.proc) = 0 .. NrGuards[Top.proc] - 1
  BY <1>1, <1>2, Guarded
<1>5. (Top.k >= 0 <=> Top.k \in Branches(Top.proc)) /\ (Top.k < 0 <=> Top.k = -1)
  <2> DEFINE n == NrGuards[Top.proc]
             k == Top.k
  <2>1. n \in 1 .. 255 /\ k \in -1 .. n - 1 /\ Branches(Top.proc) = 0 .. n - 1
    BY <1>2, <1>3
  <2> HIDE DEF n, k
  <2>2. (k >= 0 <=> k \in Branches(Top.proc)) /\ (k < 0 <=> k = -1)
    BY <2>1
  <2>3. QED BY <2>2 DEF k
<1>6. QED BY <1>1, <1>2, <1>5, Here

LEMMA DisablingFacts ==
  ASSUME AltInv, NEW type, Disabling(type)
  PROVE  /\ Top.proc \in Procs /\ Top.pc = "disable" /\ Top.k \in Branches(Top.proc)
         /\ Top.i \in active[Top.proc] /\ Top.i \in Branches(Top.proc)
         /\ GuardOf(Top.proc, Top.i) = Guards[Top.proc][Top.i] /\ Guards[Top.proc][Top.i].type = type
         /\ Owner(Top.proc) = Top.proc /\ current = Top.proc /\ Top.proc \in Alting
         /\ state[Top.proc] = "ready"
<1>1. At("disable") /\ Top.pc = "disable" /\ Top.k >= 0 /\ IsActive(Top.proc, Top.i)
      /\ GuardOf(Top.proc, Top.i).type = type
  BY DEF Disabling, At
<1>2. QED BY <1>1, DisableFacts, Guarded

LEMMA PrevFrame ==
  ASSUME NEW g, IsFrame(g), Typed(g), minus1_mod(g.i, Size(g.proc)) \in Int
  PROVE  /\ PrevGuard(g).pc = g.pc /\ PrevGuard(g).fn = g.fn /\ PrevGuard(g).proc = g.proc
         /\ PrevGuard(g).k = g.k - 1 /\ PrevGuard(g).i = minus1_mod(g.i, Size(g.proc))
         /\ PrevGuard(g).partner = g.partner /\ Typed(PrevGuard(g))
<1>1. PrevGuard(g).k = g.k - 1 /\ g.k \in Int
  BY DEF IsFrame, PrevGuard, Typed
<1>2. Typed(PrevGuard(g))
  <2> DEFINE h == [g EXCEPT !.k = g.k - 1]
             j == minus1_mod(g.i, Size(g.proc))
  <2>1. IsFrame(h) /\ h.i = g.i /\ h.proc = g.proc
    BY DEF IsFrame
  <2>2. Typed(h)
    <3>1. g.k - 1 \in Int
      BY <1>1
    <3>2. QED BY <3>1, TypedFrames
  <2>3. PrevGuard(g) = [h EXCEPT !.i = j]
    BY DEF PrevGuard, IsFrame
  <2> HIDE DEF h, j
  <2>4. Typed([h EXCEPT !.i = j])
    <3>1. j \in Int
      BY DEF j
    <3>2. QED BY <2>1, <2>2, <3>1, TypedFrames
  <2>5. QED BY <2>3, <2>4
<1>3. QED BY <1>1, <1>2 DEF IsFrame, PrevGuard

LEMMA Down ==
  ASSUME NEW p \in Procs, NEW k \in Branches(p)
  PROVE  k \in Int /\ k - 1 \in -1 .. NrGuards[p] - 1
<1> DEFINE n == NrGuards[p]
<1>1. n \in 0 .. 255 /\ k \in 0 .. n - 1
  BY ApplicationAssumption DEF Branches
<1> HIDE DEF n
<1>2. k \in Int /\ n \in Int /\ 0 <= k /\ k <= n - 1
  BY <1>1
<1>3. k - 1 \in Int /\ -1 <= k - 1 /\ k - 1 <= n - 1
  BY <1>2
<1>4. k \in Int /\ k - 1 \in -1 .. n - 1
  BY <1>2, <1>3
<1>5. QED BY <1>4 DEF n

\* The loop goes back to the guard before, with w as the partner.
LEMMA Backs ==
  ASSUME AltInv, UrgencyInv', Top.proc \in Procs, Top.pc = "disable", Top.k \in Branches(Top.proc),
         NEW g, IsFrame(g), Typed(g), g.pc = "disable", g.fn = Top.fn, g.proc = Top.proc, g.i = Top.i, g.k = Top.k,
         g.partner \in Alting \cup {NoProc}, Goto(PrevGuard(g)),
         UNCHANGED <<state, freed, active, connected, sent, got, now, timeout, pend, alarm, handlers, fault>>,
         alt' = alt \/ alt' = [alt EXCEPT ![Top.proc].index = Top.i],
         intr' \in BOOLEAN, Alting' = Alting => WaiterTypes'
  PROVE  AltInv' /\ Runs(Top.proc, PrevGuard(g))
<1>1. /\ HasAlt(Top.proc, alt[Top.proc]) /\ Top.i \in Branches(Top.proc) /\ state[Top.proc] = "ready"
      /\ Top.fn = "schedule" /\ alt[Top.proc].guards # NoProc
  BY Here DEF AltFits, LoopFits, StateFits, HasAlt
<1>2. Size(Top.proc) = NrGuards[Top.proc] /\ Branches(Top.proc) = 0 .. NrGuards[Top.proc] - 1
      /\ NrGuards[Top.proc] \in 1 .. 255
  BY <1>1, Guarded
<1>3. minus1_mod(Top.i, NrGuards[Top.proc]) \in Branches(Top.proc)
  BY <1>1, Loops
<1>5. minus1_mod(g.i, Size(g.proc)) \in Int /\ Top.k - 1 \in -1 .. NrGuards[Top.proc] - 1
  <2>1. minus1_mod(Top.i, NrGuards[Top.proc]) \in Int
    BY <1>2, <1>3, Down
  <2>2. Top.k - 1 \in -1 .. NrGuards[Top.proc] - 1
    BY <1>2, Down
  <2>3. QED BY <1>2, <2>1, <2>2
<1> DEFINE f == PrevGuard(g)
<1>6. /\ f.pc = "disable" /\ f.fn = "schedule" /\ f.proc = Top.proc
      /\ f.k = Top.k - 1 /\ f.i = minus1_mod(Top.i, NrGuards[Top.proc])
      /\ f.partner \in Alting \cup {NoProc} /\ Typed(f)
  BY <1>1, <1>2, <1>5, PrevFrame
<1> HIDE DEF f
<1>7. LoopFits(Top.proc, f, alt[Top.proc], active[Top.proc], timeout[Top.proc])
  BY <1>1, <1>3, <1>5, <1>6 DEF LoopFits
<1>8. StateFits(Top.proc, f, state[Top.proc], alt[Top.proc])
  BY <1>1, <1>6 DEF StateFits
<1>9. state' = [state EXCEPT ![Top.proc] = state[Top.proc]]
  BY DEF AltInv, UrgencyInv, NoneEnds
<1>10. got' \in [Chans -> 0 .. MsgMod - 1] /\ alarm' \in Int
  BY DEF AltInv, DataTypes
<1>11. alt' = alt \/ \E i \in Branches(Top.proc) : alt' = [alt EXCEPT ![Top.proc].index = i]
  BY <1>1
<1>12. Goto(f)
  BY DEF f
<1>13. AltInv' /\ Runs(Top.proc, f)
  BY <1>6, <1>7, <1>8, <1>9, <1>10, <1>11, <1>12, StateGoes
<1>14. QED BY <1>13 DEF f

LEMMA DisableInactiveInv ==
  ASSUME AltInv, UrgencyInv', DisableInactive
  PROVE  /\ AltInv' /\ Runs(Top.proc, PrevGuard(Top))
         /\ Top.proc \in Procs /\ Top.pc = "disable" /\ Top.k \in Branches(Top.proc) /\ Top.i \notin active[Top.proc]
         /\ Top.i \in Branches(Top.proc)
<1>1. /\ At("disable") /\ Top.k >= 0 /\ ~IsActive(Top.proc, Top.i) /\ Goto(PrevGuard(Top))
      /\ UNCHANGED <<procVars, altVars, ioVars, timeVars, intr, handlers, fault>>
  BY DEF DisableInactive
<1>2. /\ Top.proc \in Procs /\ Top.pc = "disable" /\ Top.k \in Branches(Top.proc) /\ Top.i \notin active[Top.proc]
      /\ Top.i \in Branches(Top.proc)
  BY <1>1, DisableFacts, Guarded
<1>3. UNCHANGED <<state, freed, alt, active, connected, sent, got, now, timeout, pend, handlers, fault, chan, ichan, timerQ, alarm, intr>>
  BY <1>1 DEF procVars, altVars, ioVars, timeVars
<1>4. IsFrame(Top) /\ Typed(Top) /\ Top.partner \in Alting \cup {NoProc}
  BY <1>2, Here
<1>5. intr' \in BOOLEAN /\ (Alting' = Alting => WaiterTypes')
  BY <1>3, SameWaiters DEF AltInv, DataTypes
<1>6. AltInv' /\ Runs(Top.proc, PrevGuard(Top))
  BY <1>1, <1>2, <1>3, <1>4, <1>5, Backs
<1>7. QED BY <1>2, <1>6

LEMMA DisableChanInInv ==
  ASSUME AltInv, UrgencyInv', DisableChanIn
  PROVE  AltInv' /\ \E w : Runs(Top.proc, PrevGuard([Top EXCEPT !.partner = w]))
<1> DEFINE c == GuardOf(Top.proc, Top.i).ch
           w == chan[c].waiting
           ready == w \notin {NoProc, current}
           v == IF ready THEN w ELSE Top.partner
           g == [Top EXCEPT !.partner = v]
<1>1. /\ Disabling("chanin")
      /\ chan' = [chan EXCEPT ![c].waiting = IF ready THEN w ELSE NoProc]
      /\ SelectIf(ready) /\ Goto(PrevGuard([Top EXCEPT !.partner = IF ready THEN w ELSE @])) /\ intr' = TRUE
      /\ UNCHANGED <<procVars, active, ichan, connected, sent, got, timeVars, handlers, fault>>
  BY DEF DisableChanIn
<1>2. /\ Top.proc \in Procs /\ Top.pc = "disable" /\ Top.k \in Branches(Top.proc) /\ Top.i \in Branches(Top.proc)
      /\ c = Guards[Top.proc][Top.i].ch /\ Guards[Top.proc][Top.i].type = "chanin"
  BY <1>1, DisablingFacts
<1>3. c \in Chans
  BY <1>2, GuardFacts
<1>4. w \in Alting \cup {NoProc} /\ Top.partner \in Alting \cup {NoProc}
  BY <1>2, <1>3, Here DEF AltInv, WaiterTypes
<1>5. UNCHANGED <<state, freed, active, connected, sent, got, now, timeout, pend, handlers, fault, ichan, timerQ, alarm>>
  BY <1>1 DEF procVars, timeVars
<1>6. v \in Alting \cup {NoProc}
  BY <1>4
<1>7. Goto(PrevGuard(g))
  <2>1. IsFrame(Top)
    BY <1>2, Here
  <2>2. [Top EXCEPT !.partner = IF ready THEN w ELSE @] = g
    BY <2>1 DEF IsFrame
  <2>3. QED BY <1>1, <2>2
<1>8. alt' = alt \/ alt' = [alt EXCEPT ![Top.proc].index = Top.i]
  BY <1>1 DEF SelectIf
<1>9. Alting' = Alting => WaiterTypes'
  <2> DEFINE x == IF ready THEN w ELSE NoProc
  <2>1. x \in Alting \cup {NoProc} /\ chan' = [chan EXCEPT ![c].waiting = x]
    BY <1>1, <1>4
  <2> HIDE DEF x, c
  <2>2. QED BY <1>3, <1>5, <2>1, ChanWaits
<1>10. intr' \in BOOLEAN
  BY <1>1
<1> HIDE DEF c, w, v
<1>11. /\ IsFrame(g) /\ Typed(g) /\ g.pc = Top.pc /\ g.fn = Top.fn /\ g.proc = Top.proc
       /\ g.i = Top.i /\ g.k = Top.k /\ g.partner \in Alting \cup {NoProc}
  BY <1>2, <1>6, WithPartner
<1> HIDE DEF g
<1>12. AltInv' /\ Runs(Top.proc, PrevGuard(g))
  BY <1>2, <1>5, <1>7, <1>8, <1>9, <1>10, <1>11, Backs
<1>13. QED BY <1>12 DEF g

LEMMA DisableOutOrSkipInv ==
  ASSUME AltInv, UrgencyInv', DisableOutOrSkip
  PROVE  /\ AltInv' /\ Runs(Top.proc, PrevGuard(Top)) /\ Top.proc \in Procs /\ Top.pc = "disable"
         /\ Top.k \in Branches(Top.proc) /\ Top.i \in active[Top.proc] /\ Top.i \in Branches(Top.proc)
         /\ Guards[Top.proc][Top.i].type \in {"chanout", "skip"}
<1>1. /\ Disabling("chanout") \/ Disabling("skip")
      /\ alt' = [alt EXCEPT ![Top.proc].index = Top.i] /\ Goto(PrevGuard(Top))
      /\ UNCHANGED <<procVars, active, ioVars, timeVars, intr, handlers, fault>>
  BY DEF DisableOutOrSkip, SelectIf
<1>2. /\ Top.proc \in Procs /\ Top.pc = "disable"
      /\ Top.k \in Branches(Top.proc) /\ Top.i \in active[Top.proc] /\ Top.i \in Branches(Top.proc)
      /\ Guards[Top.proc][Top.i].type \in {"chanout", "skip"}
  BY <1>1, DisablingFacts
<1>3. UNCHANGED <<state, freed, active, connected, sent, got, now, timeout, pend, handlers, fault, chan, ichan, timerQ, alarm, intr>>
  BY <1>1 DEF procVars, ioVars, timeVars
<1>4. IsFrame(Top) /\ Typed(Top) /\ Top.partner \in Alting \cup {NoProc}
  BY <1>2, Here
<1>5. intr' \in BOOLEAN /\ (Alting' = Alting => WaiterTypes')
  BY <1>3, SameWaiters DEF AltInv, DataTypes
<1>6. AltInv' /\ Runs(Top.proc, PrevGuard(Top))
  BY <1>1, <1>2, <1>3, <1>4, <1>5, Backs
<1>7. QED BY <1>2, <1>6

LEMMA DisableTimeoutInv ==
  ASSUME AltInv, UrgencyInv', DisableTimeout
  PROVE  /\ AltInv' /\ Runs(Top.proc, PrevGuard(Top)) /\ Top.proc \in Procs /\ Top.pc = "disable"
         /\ Top.k \in Branches(Top.proc) /\ Top.i \in active[Top.proc] /\ Top.i \in Branches(Top.proc)
         /\ Guards[Top.proc][Top.i].type = "timeout"
         /\ timerQ' = removeFromQueue(timerQ, timeout[Top.proc].time, timeout[Top.proc].proc)
         /\ alt' = IF Now >= timeout[Top.proc].time THEN [alt EXCEPT ![Top.proc].index = Top.i] ELSE alt
<1>1. /\ Disabling("timeout") /\ Goto(PrevGuard(Top)) /\ intr' = TRUE
      /\ timerQ' = removeFromQueue(timerQ, timeout[Owner(Top.proc)].time, timeout[Owner(Top.proc)].proc)
      /\ SelectIf(Now >= timeout[Owner(Top.proc)].time)
      /\ UNCHANGED <<procVars, active, ioVars, now, timeout, alarm, pend, handlers, fault>>
  BY DEF DisableTimeout
<1>2. /\ Top.proc \in Procs /\ Top.pc = "disable" /\ Owner(Top.proc) = Top.proc
      /\ Top.k \in Branches(Top.proc) /\ Top.i \in active[Top.proc] /\ Top.i \in Branches(Top.proc)
      /\ Guards[Top.proc][Top.i].type = "timeout"
  BY <1>1, DisablingFacts
<1>3. UNCHANGED <<state, freed, active, connected, sent, got, now, timeout, pend, handlers, fault, chan, ichan, alarm>>
  BY <1>1 DEF procVars, ioVars
<1>4. IsFrame(Top) /\ Typed(Top) /\ Top.partner \in Alting \cup {NoProc}
  BY <1>2, Here
<1>5. Alting' = Alting => WaiterTypes'
  <2>1. timerQ \in Seq([time : Nat, proc : Alting])
    BY DEF AltInv, WaiterTypes
  <2>2. timerQ' \in Seq([time : Nat, proc : Alting])
    BY <1>1, <2>1, Removal DEF Unlinks
  <2>3. QED BY <1>3, <2>2, QueueWaits
<1>6. alt' = IF Now >= timeout[Top.proc].time THEN [alt EXCEPT ![Top.proc].index = Top.i] ELSE alt
  BY <1>1, <1>2 DEF SelectIf
<1>7. AltInv' /\ Runs(Top.proc, PrevGuard(Top))
  <2>1. alt' = alt \/ alt' = [alt EXCEPT ![Top.proc].index = Top.i]
    BY <1>6
  <2>2. intr' \in BOOLEAN
    BY <1>1
  <2>3. QED BY <1>1, <1>2, <1>3, <1>4, <1>5, <2>1, <2>2, Backs
<1>8. QED BY <1>1, <1>2, <1>6, <1>7

LEMMA DisableIntrInv ==
  ASSUME AltInv, UrgencyInv', DisableIntr
  PROVE  /\ AltInv' /\ Runs(Top.proc, PrevGuard(Top)) /\ Top.proc \in Procs /\ Top.pc = "disable"
         /\ Top.k \in Branches(Top.proc) /\ Top.i \in active[Top.proc] /\ Top.i \in Branches(Top.proc)
         /\ LET u == Guards[Top.proc][Top.i].ch
            IN  /\ u \in Intrs /\ Guards[Top.proc][Top.i].type = "interrupt"
                /\ ichan' = [ichan EXCEPT ![u].waiting = NoProc]
                /\ alt' = IF ichan[u].count > 0 THEN [alt EXCEPT ![Top.proc].index = Top.i] ELSE alt
<1> DEFINE u == GuardOf(Top.proc, Top.i).ch
<1>1. /\ Disabling("interrupt") /\ Goto(PrevGuard(Top)) /\ intr' = TRUE
      /\ ichan' = [ichan EXCEPT ![u].waiting = NoProc]
      /\ alt' = IF ichan[u].count > 0 THEN [alt EXCEPT ![Top.proc].index = Top.i] ELSE alt
      /\ UNCHANGED <<procVars, active, chan, connected, sent, got, timeVars, handlers, fault>>
  BY DEF DisableIntr, SelectIf
<1>2. /\ Top.proc \in Procs /\ Top.pc = "disable" /\ u = Guards[Top.proc][Top.i].ch
      /\ Top.k \in Branches(Top.proc) /\ Top.i \in active[Top.proc] /\ Top.i \in Branches(Top.proc)
      /\ Guards[Top.proc][Top.i].type = "interrupt"
  BY <1>1, DisablingFacts
<1>3. u \in Intrs
  BY <1>2, GuardFacts
<1>4. UNCHANGED <<state, freed, active, connected, sent, got, now, timeout, pend, handlers, fault, chan, timerQ, alarm>>
  BY <1>1 DEF procVars, timeVars
<1>5. IsFrame(Top) /\ Typed(Top) /\ Top.partner \in Alting \cup {NoProc}
  BY <1>2, Here
<1> HIDE DEF u
<1>6. Alting' = Alting => WaiterTypes'
  <2>1. NoProc \in Alting \cup {NoProc} /\ 0 \in Nat
    OBVIOUS
  <2>2. QED BY <1>1, <1>3, <1>4, <2>1, IntrWaits
<1>7. AltInv' /\ Runs(Top.proc, PrevGuard(Top))
  <2>1. alt' = alt \/ alt' = [alt EXCEPT ![Top.proc].index = Top.i]
    BY <1>1
  <2>2. intr' \in BOOLEAN /\ Goto(PrevGuard(Top))
    BY <1>1
  <2>3. QED BY <1>2, <1>4, <1>5, <1>6, <2>1, <2>2, Backs
<1>8. /\ Guards[Top.proc][Top.i].ch \in Intrs
      /\ ichan' = [ichan EXCEPT ![Guards[Top.proc][Top.i].ch].waiting = NoProc]
      /\ alt' = IF ichan[Guards[Top.proc][Top.i].ch].count > 0 THEN [alt EXCEPT ![Top.proc].index = Top.i] ELSE alt
  BY <1>1, <1>2, <1>3
<1>9. QED BY <1>2, <1>7, <1>8

\* One more message, modulo MsgMod.
LEMMA Counted ==
  ASSUME NEW f \in [Chans -> 0 .. MsgMod - 1], NEW c \in Chans
  PROVE  [f EXCEPT ![c] = plus1_mod(@, MsgMod)] \in [Chans -> 0 .. MsgMod - 1]
<1>1. MsgMod \in Nat \ {0} /\ f[c] \in 0 .. MsgMod - 1
  BY ApplicationAssumption
<1>2. plus1_mod(f[c], MsgMod) \in 0 .. MsgMod - 1
  <2> DEFINE m == MsgMod
             i == f[c]
  <2>1. m \in Nat \ {0} /\ i \in 0 .. m - 1
    BY <1>1
  <2> HIDE DEF m, i
  <2>2. plus1_mod(i, m) = IF i = m - 1 THEN 0 ELSE i + 1
    BY <2>1, Neighbours
  <2>3. plus1_mod(i, m) \in 0 .. m - 1
    BY <2>1, <2>2
  <2>4. QED BY <2>3 DEF m, i
<1>3. QED BY <1>2

\* A branch has been selected.
LEMMA LeavesAlt ==
  ASSUME AltInv, UrgencyInv', Disabled, Goto(Leaving), state' = [state EXCEPT ![Top.proc] = "quiescent"],
         UNCHANGED <<freed, alt, active, connected, sent, now, timeout, pend, alarm, handlers, fault>>,
         got' \in [Chans -> 0 .. MsgMod - 1], intr' \in BOOLEAN, Alting' = Alting => WaiterTypes'
  PROVE  /\ AltInv' /\ Runs(Top.proc, Leaving) /\ Leaving.pc = "partner" /\ Leaving.flag
         /\ Leaving.partner = Top.partner
<1>1. Top.proc \in Procs /\ Top.pc = "disable" /\ state[Top.proc] = "ready" /\ HasAlt(Top.proc, alt[Top.proc])
  BY DisableFacts DEF Disabled
<1>2. IsFrame(Top) /\ Typed(Top) /\ Top.partner \in Alting \cup {NoProc} /\ Top.fn = "schedule"
  BY <1>1, Here
<1> DEFINE f == Leaving
<1>3. /\ f.pc = "partner" /\ f.flag /\ f.fn = "schedule" /\ f.proc = Top.proc /\ f.partner = Top.partner
      /\ Typed(f)
  <2> DEFINE a == [Top EXCEPT !.pc = "partner"]
  <2>1. IsFrame(a) /\ Typed(a) /\ f = [a EXCEPT !.flag = TRUE]
    BY <1>2, TypedFrames DEF IsFrame, Leaving
  <2>2. f.pc = "partner" /\ f.flag /\ f.fn = "schedule" /\ f.proc = Top.proc /\ f.partner = Top.partner
    BY <1>2 DEF IsFrame, Leaving
  <2> HIDE DEF a, f
  <2>3. Typed([a EXCEPT !.flag = TRUE])
    BY <2>1, TypedFrames
  <2>4. QED BY <2>1, <2>2, <2>3
<1> HIDE DEF f
<1>4. LoopFits(Top.proc, f, alt[Top.proc], active[Top.proc], timeout[Top.proc])
  BY <1>3 DEF LoopFits
<1>5. StateFits(Top.proc, f, "quiescent", alt[Top.proc])
  BY <1>3 DEF StateFits
<1>6. alarm' \in Int /\ Goto(f)
  BY DEF AltInv, DataTypes, f
<1>7. AltInv' /\ Runs(Top.proc, f)
  BY <1>1, <1>2, <1>3, <1>4, <1>5, <1>6, StateGoes
<1>8. QED BY <1>3, <1>7 DEF f

LEMMA TransferMessageInv ==
  ASSUME AltInv, UrgencyInv', TransferMessage
  PROVE  /\ AltInv' /\ Top.proc \in Procs /\ Top.pc = "disable" /\ Top.k = -1
         /\ \/ Aside /\ UNCHANGED <<state, altVars, ioVars, timeVars, stack>>
            \/ Runs(Top.proc, Leaving) /\ state' = [state EXCEPT ![Top.proc] = "quiescent"]
<1> DEFINE c == GuardOf(Top.proc, alt[Top.proc].index).ch
<1>1. Disabled /\ Top.proc \in Procs /\ Top.pc = "disable" /\ Top.k = -1 /\ HasAlt(Top.proc, alt[Top.proc])
  BY DisableFacts DEF TransferMessage, Disabled
<1>2. CASE Crash("null")
  <2>1. UNCHANGED <<state, altVars, ioVars, timeVars, stack>>
    BY <1>2 DEF Crash, procVars
  <2>2. QED BY <1>1, <1>2, <2>1, CrashInv
<1>3. CASE /\ GuardOf(Top.proc, alt[Top.proc].index).type = "chanin"
           /\ chan' = [chan EXCEPT ![c].waiting = NoProc]
           /\ got' = [got EXCEPT ![c] = plus1_mod(@, MsgMod)]
           /\ state' = [state EXCEPT ![Top.proc] = "quiescent"]
           /\ Goto(Leaving)
           /\ UNCHANGED <<rq, current, freed, altVars, ichan, connected, sent, timeVars, intr, handlers, fault>>
  <2>1. c \in Chans
    BY <1>1, <1>3, Guarded, GuardFacts
  <2>2. UNCHANGED <<freed, alt, active, connected, sent, now, timeout, pend, alarm, handlers, fault, ichan, timerQ, intr>>
    BY <1>3 DEF altVars, timeVars
  <2> HIDE DEF c
  <2>3. got' \in [Chans -> 0 .. MsgMod - 1] /\ intr' \in BOOLEAN
    BY <1>3, <2>1, <2>2, Counted DEF AltInv, DataTypes
  <2>4. Alting' = Alting => WaiterTypes'
    <3>1. NoProc \in Alting \cup {NoProc}
      OBVIOUS
    <3>2. QED BY <1>3, <2>1, <2>2, <3>1, ChanWaits
  <2>5. AltInv' /\ Runs(Top.proc, Leaving)
    BY <1>1, <1>3, <2>2, <2>3, <2>4, LeavesAlt
  <2>6. QED BY <1>1, <1>3, <2>5
<1>4. QED BY <1>2, <1>3 DEF TransferMessage

LEMMA TransferCountInv ==
  ASSUME AltInv, UrgencyInv', TransferCount
  PROVE  /\ AltInv' /\ Top.proc \in Procs /\ Top.pc = "disable" /\ Top.k = -1
         /\ Runs(Top.proc, Leaving) /\ state' = [state EXCEPT ![Top.proc] = "quiescent"]
         /\ \E u \in Intrs : ichan' = [ichan EXCEPT ![u].count = 0]
         /\ UNCHANGED <<altVars, timeVars>>
<1>1. Disabled /\ Top.proc \in Procs /\ Top.pc = "disable" /\ Top.k = -1 /\ HasAlt(Top.proc, alt[Top.proc])
  BY DisableFacts DEF TransferCount, Disabled
<1>2. PICK h : /\ h = GuardOf(Top.proc, alt[Top.proc].index) /\ h.type = "interrupt"
               /\ ichan' = [ichan EXCEPT ![h.ch].count = 0]
  BY DEF TransferCount
<1>3. h.type = "interrupt" /\ h = GuardOf(Top.proc, alt[Top.proc].index)
  BY <1>2
<1>4. h = Guards[Top.proc][alt[Top.proc].index] /\ alt[Top.proc].index \in Branches(Top.proc)
  BY <1>1, <1>3, Guarded
<1>5. h.ch \in Intrs
  <2>1. Guards[Top.proc][alt[Top.proc].index].type = "interrupt"
    BY <1>3, <1>4, Zenon
  <2>2. Guards[Top.proc][alt[Top.proc].index].ch \in Intrs
    BY <1>1, <1>4, <2>1, GuardFacts
  <2>3. QED BY <1>4, <2>2, Zenon
<1>6. PICK u \in Intrs : ichan' = [ichan EXCEPT ![u].count = 0]
  BY <1>2, <1>5
<1>7. /\ state' = [state EXCEPT ![Top.proc] = "quiescent"]
      /\ Goto(Leaving) /\ intr' = TRUE
      /\ UNCHANGED <<rq, current, freed, altVars, chan, connected, sent, got, timeVars, handlers, fault>>
  BY DEF TransferCount
<1>8. UNCHANGED <<freed, alt, active, connected, sent, got, now, timeout, pend, alarm, handlers, fault, chan, timerQ>>
  BY <1>7 DEF altVars, timeVars
<1>9. got' \in [Chans -> 0 .. MsgMod - 1] /\ intr' \in BOOLEAN
  BY <1>7, <1>8 DEF AltInv, DataTypes
<1>10. Alting' = Alting => WaiterTypes'
  BY <1>6, <1>8, IntrCounts
<1>11. AltInv' /\ Runs(Top.proc, Leaving)
  BY <1>1, <1>7, <1>8, <1>9, <1>10, LeavesAlt
<1>12. QED BY <1>1, <1>6, <1>7, <1>11

LEMMA TransferNothingInv ==
  ASSUME AltInv, UrgencyInv', TransferNothing
  PROVE  /\ AltInv' /\ Top.proc \in Procs /\ Top.pc = "disable" /\ Top.k = -1
         /\ Runs(Top.proc, Leaving) /\ state' = [state EXCEPT ![Top.proc] = "quiescent"]
         /\ UNCHANGED <<altVars, ioVars, timeVars>>
<1>1. Disabled /\ Top.proc \in Procs /\ Top.pc = "disable" /\ Top.k = -1
  BY DisableFacts DEF TransferNothing, Disabled
<1>2. /\ state' = [state EXCEPT ![Top.proc] = "quiescent"] /\ Goto(Leaving)
      /\ UNCHANGED <<rq, current, freed, altVars, ioVars, timeVars, intr, handlers, fault>>
  BY DEF TransferNothing
<1>3. UNCHANGED <<freed, alt, active, connected, sent, got, now, timeout, pend, alarm, handlers, fault, chan, ichan, timerQ, intr>>
  BY <1>2 DEF altVars, ioVars, timeVars
<1>4. got' \in [Chans -> 0 .. MsgMod - 1] /\ intr' \in BOOLEAN /\ (Alting' = Alting => WaiterTypes')
  BY <1>3, SameWaiters DEF AltInv, DataTypes
<1>5. AltInv' /\ Runs(Top.proc, Leaving)
  BY <1>1, <1>2, <1>3, <1>4, LeavesAlt
<1>6. QED BY <1>1, <1>2, <1>5

-----------------------------------------------------------------------------
\* Waking a process, from schedule() and from a handler.

LEMMA WakeKeeps ==
  ASSUME AltInv, NEW q \in Alting, state' = [state EXCEPT ![q] = "ready"],
         UNCHANGED <<freed, altVars, connected, sent, got, now, timeout, handlers, fault>>,
         alarm' \in Int, pend' \in BOOLEAN, intr' \in BOOLEAN
  PROVE  /\ \A r \in Procs : Kept(r)
         /\ Alting' = Alting /\ DataTypes' /\ q \in Procs
<1>1. q \in Procs /\ state \in [Records -> {"unstarted", "initial", "quiescent", "enabling", "waiting", "ready"}]
  BY DEF Alting, AltInv, UrgencyInv, NoneEnds
<1>2. \A r \in Records : state'[r] = IF r = q THEN "ready" ELSE state[r]
  BY <1>1 DEF Records
<1>3. \A r \in Procs : Kept(r)
  BY <1>2 DEF Kept, altVars, Records
<1>4. Alting' = Alting
  BY SameAlting DEF altVars
<1>5. DataTypes'
  BY DEF AltInv, DataTypes, altVars
<1>6. QED BY <1>1, <1>3, <1>4, <1>5

\* The frame at the return point, if schedule() was called first.
LEMMA Saving ==
  ASSUME AltInv, NEW f, IsFrame(f), Typed(f)
  PROVE  /\ LET g == [f EXCEPT !.prev = current]
            IN  /\ IsFrame(g) /\ Typed(g) /\ g.fn = f.fn /\ g.pc = f.pc /\ g.proc = f.proc
                /\ g.partner = f.partner /\ g.flag = f.flag /\ g.i = f.i /\ g.k = f.k /\ g.time = f.time
                /\ g.src = f.src /\ g.act = f.act
         /\ LET h == ScheduleFrame(PriOf(current))
            IN  /\ h.proc = NoProc /\ Typed(h) /\ h.fn = "schedule" /\ h.partner = NoProc /\ ~Counts(h)
<1>1. current \in Records /\ PriOf(current) \in Int
  BY PriOfLevel DEF AltInv, UrgencyInv, StackInv, CurrentAbove
<1>2. Typed([f EXCEPT !.prev = current])
  BY TypedFrames
<1>3. LET g == [f EXCEPT !.prev = current]
      IN  /\ IsFrame(g) /\ Typed(g) /\ g.fn = f.fn /\ g.pc = f.pc /\ g.proc = f.proc
          /\ g.partner = f.partner /\ g.flag = f.flag /\ g.i = f.i /\ g.k = f.k /\ g.time = f.time
          /\ g.src = f.src /\ g.act = f.act
  BY <1>2 DEF IsFrame
<1>4. LET h == ScheduleFrame(PriOf(current))
      IN  /\ h.proc = NoProc /\ Typed(h) /\ h.fn = "schedule" /\ h.partner = NoProc /\ ~Counts(h)
  <2>1. Typed(ScheduleFrame(PriOf(current))) /\ ScheduleFrame(PriOf(current)).partner = NoProc
        /\ ~Counts(ScheduleFrame(PriOf(current)))
    BY <1>1, NewTyped
  <2>2. ScheduleFrame(PriOf(current)).proc = NoProc /\ ScheduleFrame(PriOf(current)).fn = "schedule"
    BY DEF ScheduleFrame, Frame
  <2>3. QED BY <2>1, <2>2
<1>5. QED BY <1>3, <1>4

LEMMA WakePartnerInv ==
  ASSUME AltInv, UrgencyInv', WakePartner
  PROVE  /\ AltInv' /\ Top.proc \in Procs /\ Top.pc = "partner" /\ Top.partner \in Alting
         /\ \E g : /\ Runs(Top.proc, g) /\ g.pc = "partnerRet" /\ g.flag = Top.flag /\ g.partner = Top.partner
         /\ state' = [state EXCEPT ![Top.partner] = "ready"]
         /\ UNCHANGED <<altVars, ioVars, timeVars>>
<1> DEFINE f == [Top EXCEPT !.pc = "partnerRet"]
           g == [f EXCEPT !.prev = current]
           h == ScheduleFrame(PriOf(current))
           p == Top.proc
<1>1. /\ At("partner") /\ Top.partner \in Records /\ intr' = FALSE
      /\ state' = [state EXCEPT ![Top.partner] = "ready"]
      /\ Goto(f) \/ Call(g, h)
      /\ UNCHANGED <<current, freed, altVars, ioVars, timeVars, handlers, fault>>
  BY DEF WakePartner, readyProcessIfNecessary
<1>2. p \in Procs /\ Top.pc = "partner"
  BY <1>1, AtFacts DEF AltInv, UrgencyInv, At, ProcPcs, SchedulePcs
<1>3. /\ IsFrame(Top) /\ Typed(Top) /\ Top.partner \in Alting \cup {NoProc} /\ Top.fn = "schedule"
      /\ AltFits(p, Top, state[p], alt[p], active[p], timeout[p])
  BY <1>2, Here
<1>4. Top.partner \in Alting
  BY <1>1, <1>3, RecordAssumption DEF Records
<1>5. /\ IsFrame(f) /\ Typed(f) /\ f.fn = "schedule" /\ f.pc = "partnerRet" /\ f.proc = p
      /\ f.partner = Top.partner /\ f.flag = Top.flag
  <2>1. Typed(f)
    BY <1>3, TypedFrames
  <2>2. QED BY <1>3, <2>1 DEF IsFrame
<1> HIDE DEF f
<1>6. /\ IsFrame(g) /\ Typed(g) /\ g.fn = "schedule" /\ g.pc = "partnerRet" /\ g.proc = p
      /\ g.partner = Top.partner /\ g.flag = Top.flag
      /\ h.proc = NoProc /\ Typed(h) /\ h.fn = "schedule" /\ h.partner = NoProc /\ ~Counts(h)
  BY <1>5, Saving
<1> HIDE DEF g, h, p
<1>7. UNCHANGED <<connected, sent, got, now, timeout, chan, ichan, timerQ, alarm, pend>>
  BY <1>1 DEF ioVars, timeVars
<1>8. /\ \A r \in Procs : Kept(r)
      /\ Alting' = Alting /\ DataTypes'
  <2>1. alarm' \in Int /\ pend' \in BOOLEAN /\ intr' \in BOOLEAN
    BY <1>1, <1>7 DEF AltInv, DataTypes
  <2>2. QED BY <1>1, <1>4, <1>7, <2>1, WakeKeeps
<1>9. WaiterTypes'
  BY <1>7, <1>8, SameWaiters
<1>10. ASSUME NEW e, e.pc = "partnerRet", e.flag = Top.flag
       PROVE  AltFits(p, e, state'[p], alt'[p], active'[p], timeout'[p])
  <2>1. alt'[p] = alt[p] /\ active'[p] = active[p] /\ timeout'[p] = timeout[p]
        /\ (state'[p] = state[p] \/ (state'[p] = "ready" /\ p \in Alting))
    BY <1>2, <1>8 DEF Kept, p
  <2>2. StateFits(p, e, state'[p], alt[p])
    BY <1>2, <1>3, <1>10, <2>1 DEF AltFits, StateFits, Alting
  <2>3. LoopFits(p, e, alt[p], active[p], timeout[p])
    BY <1>10 DEF LoopFits
  <2>4. QED BY <1>3, <2>1, <2>2, <2>3 DEF AltFits
<1>11. CASE Goto(f)
  <2>1. AltFits(p, f, state'[p], alt'[p], active'[p], timeout'[p])
    BY <1>5, <1>10
  <2>2. AltInv' /\ Runs(p, f)
    BY <1>1, <1>2, <1>3, <1>5, <1>8, <1>9, <1>11, <2>1, Goes DEF p
  <2>3. QED BY <1>1, <1>2, <1>4, <1>5, <2>2 DEF p
<1>12. CASE Call(g, h)
  <2>1. AltFits(p, g, state'[p], alt'[p], active'[p], timeout'[p])
    BY <1>6, <1>10
  <2>2. handlers' = handlers + (IF Counts(h) THEN 1 ELSE 0)
    <3>1. handlers \in Nat
      BY CountedHandlers DEF AltInv, UrgencyInv, FrameTypes
    <3>2. QED BY <1>1, <1>6, <3>1
  <2>3. AltInv' /\ Runs(p, g)
    BY <1>1, <1>2, <1>3, <1>6, <1>8, <1>9, <1>12, <2>1, <2>2, Calls DEF p
  <2>4. QED BY <1>1, <1>2, <1>4, <1>6, <2>3 DEF p
<1>13. QED BY <1>1, <1>11, <1>12

LEMMA PartnerEndInv ==
  ASSUME AltInv, UrgencyInv', NoPartner \/ PartnerReturn
  PROVE  /\ AltInv' /\ Top.proc \in Procs /\ Top.pc \in {"partner", "partnerRet"}
         /\ \E f : /\ Runs(Top.proc, f) /\ f.pc = (IF Top.flag THEN "rtc" ELSE "finish")
                   /\ f.partner = NoProc /\ f.flag = Top.flag
         /\ UNCHANGED <<state, altVars, ioVars, timeVars>>
<1> DEFINE f == AfterPartner(Top)
           pc == IF Top.flag THEN "rtc" ELSE "finish"
           p == Top.proc
<1>1. /\ At("partner") \/ At("partnerRet")
      /\ Goto(f) /\ (intr' = intr \/ intr' = TRUE)
      /\ UNCHANGED <<state, freed, altVars, ioVars, timeVars, handlers, fault>>
  BY DEF NoPartner, PartnerReturn, procVars
<1>2. p \in Procs /\ Top.pc \in {"partner", "partnerRet"}
  BY <1>1, AtFacts DEF AltInv, UrgencyInv, At, ProcPcs, SchedulePcs
<1>3. /\ IsFrame(Top) /\ Typed(Top) /\ Top.fn = "schedule"
      /\ AltFits(p, Top, state[p], alt[p], active[p], timeout[p])
  BY <1>2, Here
<1>4. /\ Typed(f) /\ f.fn = "schedule" /\ f.pc = pc /\ f.proc = p
      /\ f.partner = NoProc /\ f.flag = Top.flag
  <2> DEFINE a == [Top EXCEPT !.pc = pc]
             b == [a EXCEPT !.partner = NoProc]
  <2>1. IsFrame(a) /\ Typed(a)
    BY <1>3, TypedFrames DEF IsFrame
  <2>2. f = [b EXCEPT !.prev = NoProc]
    BY <1>3 DEF AfterPartner, IsFrame
  <2>3. f.fn = "schedule" /\ f.pc = pc /\ f.proc = p /\ f.partner = NoProc /\ f.flag = Top.flag
    BY <1>3 DEF AfterPartner, IsFrame
  <2> HIDE DEF a, f, pc
  <2>4. IsFrame(b) /\ Typed(b)
    BY <2>1, TypedFrames DEF IsFrame
  <2> HIDE DEF b
  <2>5. Typed([b EXCEPT !.prev = NoProc])
    BY <2>4, TypedFrames
  <2>6. QED BY <2>2, <2>3, <2>5
<1> HIDE DEF f
<1>5. UNCHANGED <<active, alt, connected, sent, got, now, timeout, chan, ichan, timerQ, alarm, pend>>
  BY <1>1 DEF ioVars, timeVars, altVars
<1>6. StateFits(p, f, state[p], alt[p]) /\ LoopFits(p, f, alt[p], active[p], timeout[p])
  BY <1>2, <1>3, <1>4 DEF AltFits, StateFits, LoopFits
<1>7. /\ alarm' \in Int /\ intr' \in BOOLEAN /\ (Alting' = Alting => WaiterTypes')
      /\ got' \in [Chans -> 0 .. MsgMod - 1]
  BY <1>1, <1>5, SameWaiters DEF AltInv, DataTypes
<1>8. state' = [state EXCEPT ![p] = state[p]]
  <2>1. state \in [Records -> {"unstarted", "initial", "quiescent", "enabling", "waiting", "ready"}]
    BY DEF AltInv, UrgencyInv, NoneEnds
  <2>2. QED BY <1>1, <2>1
<1>9. AltInv' /\ Runs(p, f)
  <2> DEFINE s == state[p]
  <2>1. state' = [state EXCEPT ![p] = s] /\ StateFits(p, f, s, alt[p])
    BY <1>6, <1>8
  <2> HIDE DEF s
  <2>2. f.proc = Top.proc /\ f.partner \in Alting \cup {NoProc} /\ state' = [state EXCEPT ![Top.proc] = s]
    BY <1>4, <2>1
  <2>3. QED BY <1>1, <1>2, <1>4, <1>5, <1>6, <1>7, <2>1, <2>2, StateGoes DEF p
<1>10. QED BY <1>1, <1>2, <1>4, <1>9

-----------------------------------------------------------------------------
\* schedule(): choosing a process.

\* An activation without a process of the application goes on without one.
LEMMA AsideGoes ==
  ASSUME AltInv, UrgencyInv', Top.proc \notin Procs, NEW f, Goto(f), f.proc \notin Procs,
         Typed(f), f.fn # "start" => f.partner \in Alting \cup {NoProc}, Counts(f) <=> Counts(Top),
         UNCHANGED <<state, freed, altVars, ioVars, now, timeout, timerQ, pend, handlers, fault>>,
         alarm' \in Int, intr' \in BOOLEAN
  PROVE  AltInv' /\ Aside
<1>1. \A q \in Procs : Kept(q)
  BY DEF Kept, altVars
<1>2. Alting' = Alting
  BY SameAlting DEF altVars
<1>3. DataTypes' /\ WaiterTypes'
  <2>1. UNCHANGED <<chan, ichan, timerQ>>
    BY DEF ioVars
  <2>2. WaiterTypes'
    BY <1>2, <2>1, SameWaiters
  <2>3. QED BY <2>2 DEF AltInv, DataTypes, altVars, ioVars
<1>4. QED BY <1>1, <1>2, <1>3, GoesAside

\* Free places of an activation: nothing is asked of the process there.
Free == {"off", "select", "load", "take", "finish", "idle"}

LEMMA FreeFits ==
  ASSUME NEW p \in Procs, NEW a, NEW b, b.pc \in Free, NEW s, NEW al, NEW on, NEW due, AltFits(p, a, s, al, on, due)
  PROVE  AltFits(p, b, s, al, on, due)
BY DEF AltFits, StateFits, LoopFits, Free

LEMMA TopOK == UrgencyInv => FrameOK(Top) /\ StackPriority
BY Stacked, StackInvOrders DEF UrgencyInv

LEMMA TopNext ==
  ASSUME UrgencyInv'
  PROVE  FrameOK(Top)' /\ StackPriority'
BY TopOK, PTL

LEMMA SelectSameInv ==
  ASSUME AltInv, UrgencyInv', SelectSame
  PROVE  /\ AltInv' /\ UNCHANGED <<state, altVars, ioVars, timeVars>>
         /\ \/ Top.proc \notin Procs /\ Aside
            \/ /\ Top.proc \in Procs /\ Top.pc = "select"
               /\ \E f : Runs(Top.proc, f) /\ f.pc = "load" /\ f.partner = Top.partner
<1> DEFINE f == [Top EXCEPT !.pc = "load"]
<1>1. /\ At("select") /\ Top.pc = "select" /\ Goto(f)
      /\ UNCHANGED <<procVars, altVars, ioVars, timeVars, intr, handlers, fault>>
  BY DEF SelectSame, At
<1>2. IsFrame(Top) /\ Top.fn = "schedule" /\ Typed(Top) /\ Top.partner \in Alting \cup {NoProc} /\ ~Counts(Top)
  BY <1>1, AtFacts, Stacked DEF AltInv, UrgencyInv, FrameOK, SchedulePcs, FrameTypes, Counts
<1>3. /\ Typed(f) /\ f.fn = "schedule" /\ f.pc = "load" /\ f.proc = Top.proc /\ f.partner = Top.partner /\ ~Counts(f)
  BY <1>2, TypedFrames DEF IsFrame, Counts
<1> HIDE DEF f
<1>4. UNCHANGED <<state, current, freed, alt, active, connected, sent, got, now, timeout, pend, chan, ichan, timerQ, alarm, intr>>
  BY <1>1 DEF procVars, altVars, ioVars, timeVars
<1>5. alarm' \in Int /\ intr' \in BOOLEAN
  BY <1>4 DEF AltInv, DataTypes
<1>6. CASE Top.proc \notin Procs
  <2>1. AltInv' /\ Aside
    BY <1>1, <1>2, <1>3, <1>4, <1>5, <1>6, AsideGoes
  <2>2. QED BY <1>1, <1>4, <1>6, <2>1
<1>7. CASE Top.proc \in Procs
  <2>1. AltFits(Top.proc, f, state[Top.proc], alt[Top.proc], active[Top.proc], timeout[Top.proc])
    BY <1>3, <1>7, Here, FreeFits DEF Free
  <2>2. WaiterTypes'
    BY <1>4, SameAlting, SameWaiters
  <2>3. AltInv' /\ Runs(Top.proc, f)
    BY <1>1, <1>2, <1>3, <1>4, <1>5, <1>7, <2>1, <2>2, LoopGoes DEF AltFits
  <2>4. QED BY <1>1, <1>3, <1>4, <1>7, <2>3
<1>8. QED BY <1>6, <1>7

LEMMA SelectNoneInv ==
  ASSUME AltInv, UrgencyInv', SelectNone
  PROVE  AltInv' /\ Aside /\ UNCHANGED <<state, altVars, ioVars, timeVars>>
<1>1. /\ At("select") /\ Top.pc = "select" /\ Return /\ Top.proc = NoProc
      /\ UNCHANGED <<procVars, altVars, ioVars, timeVars, intr, handlers, fault>>
  BY DEF SelectNone, At
<1>2. Top.fn = "schedule" /\ ~Counts(Top)
  BY <1>1, AtFacts DEF AltInv, UrgencyInv, FrameOK, SchedulePcs, Counts
<1>3. UNCHANGED <<state, freed, alt, active, connected, sent, got, now, timeout, pend, chan, ichan, timerQ, alarm, intr>>
  BY <1>1 DEF procVars, altVars, ioVars, timeVars
<1>4. view' = view
  <2>1. ViewOK /\ ViewOK' /\ UrgencyInv
    BY Views, ViewsNext DEF AltInv
  <2>2. QED BY <1>1, <1>2, <2>1, ReturnView
<1>5. Aside
  BY <1>3, <1>4 DEF Aside, Kept
<1>6. Alting' = Alting
  BY <1>3, SameAlting
<1>7. FrameTypes'
  BY <1>1, <1>2, <1>6, ReturnTypes DEF AltInv, UrgencyInv
<1>8. WaiterTypes' /\ DataTypes'
  BY <1>1, <1>3, <1>6, SameWaiters DEF AltInv, DataTypes
<1>9. QED BY <1>1, <1>3, <1>5, <1>7, <1>8, AsideInv

LEMMA SelectNewInv ==
  ASSUME AltInv, UrgencyInv', SelectNew
  PROVE  AltInv' /\ Aside /\ UNCHANGED <<state, altVars, ioVars, timeVars>>
<1> DEFINE a == [Top EXCEPT !.pc = "take"]
           l == highest_ready(rq.mask)
           f == [a EXCEPT !.k = l]
<1>1. /\ At("select") /\ Top.pc = "select" /\ Goto([Top EXCEPT !.pc = "take", !.k = highest_ready(rq.mask)]) /\ Top.proc = NoProc
      /\ UNCHANGED <<procVars, altVars, ioVars, timeVars, intr, handlers, fault>>
  BY DEF SelectNew, At
<1>2. IsFrame(Top) /\ Top.fn = "schedule" /\ Typed(Top) /\ Top.partner \in Alting \cup {NoProc} /\ ~Counts(Top)
  BY <1>1, AtFacts, Stacked DEF AltInv, UrgencyInv, FrameOK, SchedulePcs, FrameTypes, Counts
<1>3. Goto(f)
  BY <1>1, <1>2 DEF IsFrame
<1>4. IsFrame(a) /\ Typed(a) /\ a.fn = "schedule" /\ a.pc = "take" /\ a.proc = NoProc /\ a.partner = Top.partner
  BY <1>1, <1>2, TypedFrames DEF IsFrame
<1> HIDE DEF a, l
<1>5. IsFrame(f) /\ f.fn = "schedule" /\ f.pc = "take" /\ f.proc = NoProc /\ f.partner = Top.partner /\ ~Counts(f) /\ f.k = l
  BY <1>4 DEF IsFrame, Counts
<1>6. l \in Int
  <2>1. Top' = f
    BY <1>3, GotoTop DEF AltInv, UrgencyInv
  <2>2. FrameOK(Top')
    BY TopNext DEF FrameOK, IsFrame
  <2>3. QED BY <1>5, <2>1, <2>2 DEF FrameOK, Levels
<1>7. Typed(f)
  BY <1>4, <1>6, TypedFrames
<1> HIDE DEF f
<1>8. Top.proc \notin Procs /\ f.proc \notin Procs
  BY <1>1, <1>5, RecordAssumption DEF Records
<1>9. UNCHANGED <<state, freed, now, timeout, timerQ, pend, alarm, intr>>
  BY <1>1 DEF procVars, timeVars
<1>10. alarm' \in Int /\ intr' \in BOOLEAN
  BY <1>9 DEF AltInv, DataTypes
<1>11. AltInv' /\ Aside
  BY <1>1, <1>2, <1>3, <1>5, <1>7, <1>8, <1>9, <1>10, AsideGoes
<1>12. QED BY <1>1, <1>9, <1>11

LEMMA TakeAltInv ==
  ASSUME AltInv, UrgencyInv', Take
  PROVE  /\ AltInv' /\ UNCHANGED <<state, altVars, ioVars, timeVars>>
         /\ \/ Aside
            \/ \E p \in Procs : \E f : Runs(p, f) /\ view[p] = Off /\ f.pc = "load" /\ f.partner = Top.partner
<1>1. At("take") /\ Top.pc = "take"
  BY DEF Take, At
<1>2. /\ IsFrame(Top) /\ Top.fn = "schedule" /\ Typed(Top) /\ Top.partner \in Alting \cup {NoProc} /\ ~Counts(Top)
      /\ Top.proc = NoProc /\ Top.k \in Levels
  BY <1>1, AtFacts, Stacked
     DEF AltInv, UrgencyInv, FrameOK, SchedulePcs, FrameTypes, Counts, LinkInv, Linkage, KindOK, StartPcs, HandlerPcs
<1>3. CASE Crash("null")
  <2>1. AltInv' /\ Aside
    BY <1>3, CrashInv
  <2>2. QED BY <1>3, <2>1 DEF Crash, procVars
<1>4. CASE Take /\ ~Crash("null")
  <2> DEFINE p == rq.head[Top.k]
             a == [Top EXCEPT !.pc = "load"]
             b == [a EXCEPT !.proc = p]
             f == [b EXCEPT !.k = 0]
  <2>1. p # NoProc /\ Goto([Top EXCEPT !.pc = "load", !.proc = p, !.k = 0])
        /\ UNCHANGED <<state, freed, altVars, ioVars, timeVars, intr, handlers, fault>>
    BY <1>4 DEF Take
  <2>2. p \in Records
    BY <1>2, <2>1 DEF AltInv, UrgencyInv, StackInv, QueueLevels, QueueType
  <2>3. Goto(f)
    BY <1>2, <2>1 DEF IsFrame
  <2> HIDE DEF p
  <2>4. IsFrame(b) /\ Typed(b) /\ b.fn = "schedule" /\ b.pc = "load" /\ b.proc = p /\ b.partner = Top.partner
    <3>1. IsFrame(a) /\ Typed(a) /\ a.fn = "schedule" /\ a.pc = "load" /\ a.partner = Top.partner
      BY <1>2, TypedFrames DEF IsFrame
    <3> HIDE DEF a
    <3>2. QED BY <3>1, TypedFrames DEF IsFrame
  <2> HIDE DEF b
  <2>5. Typed(f) /\ f.fn = "schedule" /\ f.pc = "load" /\ f.proc = p /\ f.partner = Top.partner /\ ~Counts(f)
    <3>1. \A n \in Int : Typed([b EXCEPT !.k = n])
      BY <2>4, TypedFrames
    <3>2. Typed(f)
      BY <3>1
    <3>3. QED BY <2>4, <3>2 DEF IsFrame, Counts
  <2> HIDE DEF f
  <2>6. UNCHANGED <<state, freed, alt, active, connected, sent, got, now, timeout, pend, chan, ichan, timerQ, alarm, intr>>
    BY <2>1 DEF altVars, ioVars, timeVars
  <2>7. Top.proc \notin Procs /\ alarm' \in Int /\ intr' \in BOOLEAN
    BY <1>2, <2>6, RecordAssumption DEF AltInv, DataTypes, Records
  <2>8. CASE p \notin Procs
    <3>1. AltInv' /\ Aside
      BY <1>2, <2>1, <2>3, <2>5, <2>6, <2>7, <2>8, AsideGoes
    <3>2. QED BY <2>1, <2>6, <3>1
  <2>9. CASE p \in Procs
    <3>1. UrgencyInv /\ StackInv /\ ViewOK /\ ViewOK' /\ FrameTypes
      BY Views, ViewsNext DEF AltInv, UrgencyInv
    <3>2. view' = [q \in Procs |-> IF q = p THEN f ELSE view[q]]
      BY <2>3, <2>5, <2>7, <3>1, GotoView
    <3>3. view[p] = Off
      <4>1. /\ Frames' = Frames /\ Len(stack) \in Frames /\ Len(stack) \in Nat /\ Frames = 1 .. Len(stack)
            /\ \A n \in Frames : stack'[n] = IF n = Len(stack) THEN f ELSE stack[n]
        BY <2>3, <3>1, GotoTop, Stacked
      <4>2. \A m, n \in Frames : m < n /\ stack'[m].proc # NoProc /\ stack'[n].proc # NoProc =>
              PriOf(stack'[m].proc) < PriOf(stack'[n].proc)
        <5>1. StackPriority'
          BY TopNext
        <5>2. QED BY <4>1, <5>1 DEF StackPriority, PriOf
      <4>3. PriOf(p) \in Int /\ p # NoProc
        BY <2>2, <2>9, PriOfLevel, RecordAssumption DEF Records
      <4>4. ASSUME NEW n \in Frames, stack[n].proc = p
            PROVE  FALSE
        <5>1. n < Len(stack)
          BY <1>2, <4>1, <4>3, <4>4, Stacked, <3>1
        <5>2. stack'[n].proc = p /\ stack'[Len(stack)].proc = p
          BY <2>5, <4>1, <4>4, <5>1
        <5>3. PriOf(p) < PriOf(p)
          BY <4>1, <4>2, <4>3, <5>1, <5>2
        <5>4. QED BY <4>3, <5>3
      <4>5. QED BY <2>9, <3>1, <4>4 DEF ViewOK
    <3>4. Runs(p, f)
      BY <2>6, <3>2 DEF Runs, Kept
    <3>5. Alting' = Alting
      BY <2>6, SameAlting
    <3>6. FrameTypes'
      BY <1>2, <2>1, <2>3, <2>5, <3>1, <3>5, GotoTypes
    <3>7. WaiterTypes' /\ DataTypes'
      BY <2>1, <2>6, <2>7, <3>5, SameWaiters DEF AltInv, DataTypes
    <3>8. AltFits(p, f, state[p], alt[p], active[p], timeout[p])
      <4>1. AltFits(p, view[p], state[p], alt[p], active[p], timeout[p])
        BY <2>9 DEF AltInv, Fits
      <4>2. QED BY <2>5, <2>9, <4>1, FreeFits DEF Free
    <3>9. AltInv'
      BY <2>6, <2>9, <3>4, <3>6, <3>7, <3>8, RunsInv
    <3>10. QED BY <2>1, <2>5, <2>6, <2>9, <3>3, <3>4, <3>9
  <2>10. QED BY <2>8, <2>9
<1>5. QED BY <1>3, <1>4

\* What schedule() does with the process it has chosen.
LEMMA LoadFrame ==
  ASSUME AltInv, Load, Top.proc \in Procs
  PROVE  \E f : /\ Goto(f) /\ Typed(f) /\ f.fn = "schedule" /\ f.proc = Top.proc /\ f.partner = Top.partner
                /\ ~f.flag
                /\ \/ state[Top.proc] = "initial" /\ f.pc = "rtc"
                   \/ state[Top.proc] = "quiescent" /\ f.pc = "begin"
                   \/ /\ state[Top.proc] = "ready" /\ f.pc = "disable"
                      /\ f.i = alt[Top.proc].index /\ f.k = alt[Top.proc].count
                   \/ state[Top.proc] \notin {"initial", "quiescent", "ready"} /\ f.pc = "finish"
<1> DEFINE e == [Top EXCEPT !.flag = FALSE]
           p == Top.proc
<1>1. IsFrame(Top) /\ Typed(Top) /\ Top.fn = "schedule" /\ p # Idle
  BY Here
<1>2. /\ IsFrame(e) /\ Typed(e) /\ e.fn = "schedule" /\ e.proc = p /\ e.partner = Top.partner /\ ~e.flag
  BY <1>1, TypedFrames DEF IsFrame
<1>3. ASSUME NEW pc, NEW g, g = [e EXCEPT !.pc = pc]
      PROVE  /\ IsFrame(g) /\ Typed(g) /\ g.fn = "schedule" /\ g.proc = p /\ g.partner = Top.partner
             /\ ~g.flag /\ g.pc = pc
  <2> HIDE DEF e
  <2>1. Typed(g)
    BY <1>2, <1>3, TypedFrames
  <2>2. QED BY <1>2, <1>3, <2>1 DEF IsFrame
<1>4. \/ state[p] = "initial" /\ Goto([e EXCEPT !.pc = "rtc"])
      \/ state[p] = "quiescent" /\ Goto([e EXCEPT !.pc = "begin"])
      \/ state[p] = "ready" /\ Goto([e EXCEPT !.pc = "disable", !.i = alt[p].index, !.k = alt[p].count])
      \/ state[p] \notin {"initial", "quiescent", "ready"} /\ Goto([e EXCEPT !.pc = "finish"])
  <2>1. CASE state[p] = "initial"
    BY <1>1, <2>1 DEF Load
  <2>2. CASE state[p] = "quiescent"
    BY <1>1, <2>2 DEF Load
  <2>3. CASE state[p] = "ready"
    BY <1>1, <2>3 DEF Load
  <2>4. CASE state[p] \notin {"initial", "quiescent", "ready"}
    BY <1>1, <2>4 DEF Load
  <2>5. QED BY <2>1, <2>2, <2>3, <2>4
<1> HIDE DEF e, p
<1>6. CASE state[p] = "initial" /\ Goto([e EXCEPT !.pc = "rtc"])
  BY <1>3, <1>6 DEF p
<1>7. CASE state[p] = "quiescent" /\ Goto([e EXCEPT !.pc = "begin"])
  BY <1>3, <1>7 DEF p
<1>8. CASE state[p] = "ready" /\ Goto([e EXCEPT !.pc = "disable", !.i = alt[p].index, !.k = alt[p].count])
  <2>1. alt[p].index \in Int /\ alt[p].count \in Int
    <3>1. alt \in [Records -> [guards : Procs \cup {NoProc}, index : Int, count : Int]] /\ p \in Records
      BY DEF AltInv, DataTypes, Records, p
    <3>2. QED BY <3>1
  <2> DEFINE i == alt[p].index
             k == alt[p].count
  <2>2. PICK g : g = [e EXCEPT !.pc = "disable", !.i = i, !.k = k] /\ Goto(g)
    BY <1>8
  <2> HIDE DEF i, k
  <2>3. i \in Int /\ k \in Int
    BY <2>1 DEF i, k
  <2>4. /\ Typed(g) /\ g.fn = "schedule" /\ g.proc = p /\ g.partner = Top.partner
        /\ ~g.flag /\ g.pc = "disable" /\ g.i = i /\ g.k = k
    <3> DEFINE a == [e EXCEPT !.pc = "disable"]
               b == [a EXCEPT !.i = i]
    <3>1. g = [b EXCEPT !.k = k] /\ g.i = i /\ g.k = k
      BY <1>2, <2>2 DEF IsFrame
    <3>2. IsFrame(a) /\ Typed(a) /\ a.fn = "schedule" /\ a.proc = p /\ a.partner = Top.partner /\ ~a.flag /\ a.pc = "disable"
      BY <1>3
    <3> HIDE DEF a
    <3>3. IsFrame(b) /\ Typed(b) /\ b.fn = "schedule" /\ b.proc = p /\ b.partner = Top.partner /\ ~b.flag /\ b.pc = "disable"
      BY <2>3, <3>2, TypedFrames DEF IsFrame
    <3> HIDE DEF b
    <3>4. Typed([b EXCEPT !.k = k])
      BY <2>3, <3>3, TypedFrames
    <3>5. QED BY <3>1, <3>3, <3>4 DEF IsFrame
  <2>5. g.i = alt[Top.proc].index /\ g.k = alt[Top.proc].count /\ state[Top.proc] = "ready"
    BY <1>8, <2>4 DEF i, k, p
  <2>6. QED BY <2>2, <2>4, <2>5 DEF p
<1>9. CASE state[p] \notin {"initial", "quiescent", "ready"} /\ Goto([e EXCEPT !.pc = "finish"])
  BY <1>3, <1>9 DEF p
<1>10. QED BY <1>4, <1>6, <1>7, <1>8, <1>9

LEMMA LoadInv ==
  ASSUME AltInv, UrgencyInv', Load
  PROVE  /\ AltInv' /\ UNCHANGED <<state, altVars, ioVars, timeVars>>
         /\ \/ Top.proc \notin Procs /\ Aside
            \/ /\ Top.proc \in Procs /\ Top.pc = "load"
               /\ \E f : /\ Runs(Top.proc, f) /\ f.partner = Top.partner /\ ~f.flag
                         /\ \/ state[Top.proc] = "initial" /\ f.pc = "rtc"
                            \/ state[Top.proc] = "quiescent" /\ f.pc = "begin"
                            \/ /\ state[Top.proc] = "ready" /\ f.pc = "disable"
                               /\ f.i = alt[Top.proc].index /\ f.k = alt[Top.proc].count
                            \/ state[Top.proc] \notin {"initial", "quiescent", "ready"} /\ f.pc = "finish"
<1>1. At("load") /\ Top.pc = "load" /\ intr' = TRUE
      /\ UNCHANGED <<procVars, altVars, ioVars, timeVars, handlers, fault>>
  BY DEF Load, At
<1>2. IsFrame(Top) /\ Top.fn = "schedule" /\ Typed(Top) /\ Top.partner \in Alting \cup {NoProc} /\ ~Counts(Top)
  BY <1>1, AtFacts, Stacked DEF AltInv, UrgencyInv, FrameOK, SchedulePcs, FrameTypes, Counts
<1>3. UNCHANGED <<state, current, freed, alt, active, connected, sent, got, now, timeout, pend, chan, ichan, timerQ, alarm>>
  BY <1>1 DEF procVars, altVars, ioVars, timeVars
<1>4. alarm' \in Int /\ intr' \in BOOLEAN
  BY <1>1, <1>3 DEF AltInv, DataTypes
<1>5. CASE Top.proc \notin Procs
  <2>1. Top.proc = Idle
    BY <1>1, <1>5, AtFacts DEF AltInv, UrgencyInv, FrameOK, SchedulePcs, Records
  <2> DEFINE a == [Top EXCEPT !.flag = FALSE]
             f == [a EXCEPT !.pc = "idle"]
  <2>2. Goto(f)
    BY <2>1 DEF Load
  <2>3. IsFrame(a) /\ Typed(a) /\ a.fn = "schedule" /\ a.proc = Top.proc /\ a.partner = Top.partner
    BY <1>2, TypedFrames DEF IsFrame
  <2> HIDE DEF a
  <2>4. Typed(f) /\ f.fn = "schedule" /\ f.proc = Top.proc /\ f.partner = Top.partner /\ ~Counts(f)
    BY <2>3, TypedFrames DEF IsFrame, Counts
  <2> HIDE DEF f
  <2>5. AltInv' /\ Aside
    BY <1>1, <1>2, <1>3, <1>4, <1>5, <2>2, <2>4, AsideGoes
  <2>6. QED BY <1>1, <1>3, <1>5, <2>5
<1>6. CASE Top.proc \in Procs
  <2> DEFINE p == Top.proc
  <2>1. PICK f : /\ Goto(f) /\ Typed(f) /\ f.fn = "schedule" /\ f.proc = p /\ f.partner = Top.partner
                 /\ ~f.flag
                 /\ \/ state[p] = "initial" /\ f.pc = "rtc"
                    \/ state[p] = "quiescent" /\ f.pc = "begin"
                    \/ /\ state[p] = "ready" /\ f.pc = "disable"
                       /\ f.i = alt[p].index /\ f.k = alt[p].count
                    \/ state[p] \notin {"initial", "quiescent", "ready"} /\ f.pc = "finish"
    BY <1>6, LoadFrame
  <2>2. AltFits(p, Top, state[p], alt[p], active[p], timeout[p])
    BY <1>6, Here
  <2>3. StateFits(p, f, state[p], alt[p])
    BY <2>1, <2>2 DEF AltFits, StateFits
  <2>4. LoopFits(p, f, alt[p], active[p], timeout[p])
    <3>1. CASE state[p] = "ready" /\ f.pc = "disable" /\ f.i = alt[p].index /\ f.k = alt[p].count
      <4>1. HasAlt(p, alt[p])
        BY <2>2, <3>1 DEF AltFits, StateFits
      <4>2. alt[p].index \in Branches(p) /\ alt[p].count \in Branches(p) /\ Branches(p) = 0 .. NrGuards[p] - 1
        BY <1>6, <4>1, Guarded
      <4>3. f.k \in -1 .. NrGuards[p] - 1
        <5> DEFINE m == NrGuards[p] - 1
        <5>1. m \in Int
          <6>1. NrGuards[p] \in 1 .. 255
            BY <1>6, <4>1, Guarded
          <6>2. QED BY <6>1
        <5>2. f.k \in 0 .. m
          BY <3>1, <4>2
        <5> HIDE DEF m
        <5>3. f.k \in -1 .. m
          BY <5>1, <5>2
        <5>4. QED BY <5>3 DEF m
      <4>4. QED BY <3>1, <4>1, <4>2, <4>3 DEF LoopFits
    <3>2. CASE f.pc \in {"rtc", "begin", "finish"}
      BY <3>2 DEF LoopFits
    <3>3. QED BY <2>1, <3>1, <3>2
  <2>5. WaiterTypes'
    BY <1>3, SameAlting, SameWaiters
  <2>6. AltInv' /\ Runs(p, f)
    BY <1>1, <1>2, <1>3, <1>4, <1>6, <2>1, <2>3, <2>4, <2>5, LoopGoes
  <2>7. QED BY <1>1, <1>3, <1>6, <2>1, <2>6
<1>7. QED BY <1>5, <1>6

LEMMA FinishInv ==
  ASSUME AltInv, UrgencyInv', Finish
  PROVE  /\ AltInv' /\ UNCHANGED <<state, altVars, ioVars, timeVars>>
         /\ Top.proc \in Procs /\ Top.pc = "finish"
         /\ IF state[Top.proc] = "waiting" THEN Runs(Top.proc, Off)
            ELSE \E f : Runs(Top.proc, f) /\ f.pc = "select" /\ f.partner = Top.partner
<1> DEFINE p == Top.proc
           r == IF state[p] = "waiting" THEN NoProc ELSE p
           a == [Top EXCEPT !.pc = "select"]
           f == [a EXCEPT !.proc = r]
<1>1. At("finish")
  BY DEF Finish
<1>2. p \in Procs /\ Top.pc = "finish"
  BY <1>1, AtFacts DEF AltInv, UrgencyInv, At, ProcPcs, SchedulePcs
<1>3. /\ IsFrame(Top) /\ Typed(Top) /\ Top.partner \in Alting \cup {NoProc} /\ Top.fn = "schedule" /\ ~Counts(Top)
      /\ AltFits(p, Top, state[p], alt[p], active[p], timeout[p]) /\ p # NoProc
  BY <1>2, Here
<1>4. state[p] # "done"
  BY <1>2 DEF AltInv, UrgencyInv, NoneEnds, Records
<1>5. /\ intr' = FALSE /\ Goto([Top EXCEPT !.pc = "select", !.proc = r])
      /\ UNCHANGED <<rq, freed, state, current, altVars, ioVars, timeVars, handlers, fault>>
  BY <1>4 DEF Finish
<1>6. Goto(f)
  BY <1>3, <1>5 DEF IsFrame
<1> HIDE DEF r
<1>7. Typed(f) /\ f.fn = "schedule" /\ f.proc = r /\ f.partner = Top.partner /\ f.pc = "select" /\ ~Counts(f)
  <2>1. IsFrame(a) /\ Typed(a) /\ a.fn = "schedule" /\ a.pc = "select" /\ a.partner = Top.partner
    BY <1>3, TypedFrames DEF IsFrame
  <2> HIDE DEF a
  <2>2. QED BY <2>1, TypedFrames DEF IsFrame, Counts
<1> HIDE DEF f
<1>8. UNCHANGED <<state, current, freed, alt, active, connected, sent, got, now, timeout, pend, chan, ichan, timerQ, alarm>>
  BY <1>5 DEF altVars, ioVars, timeVars
<1>9. alarm' \in Int /\ intr' \in BOOLEAN
  BY <1>5, <1>8 DEF AltInv, DataTypes
<1>10. Alting' = Alting /\ WaiterTypes'
  BY <1>8, SameAlting, SameWaiters
<1>11. \A e : e.pc \in Free => AltFits(p, e, state'[p], alt'[p], active'[p], timeout'[p])
  BY <1>2, <1>3, <1>8, FreeFits
<1>12. CASE state[p] = "waiting"
  <2>1. UrgencyInv /\ StackInv /\ ViewOK /\ ViewOK' /\ FrameTypes
    BY Views, ViewsNext DEF AltInv, UrgencyInv
  <2>2. f.proc = NoProc /\ NoProc \notin Procs
    BY <1>7, <1>12, RecordAssumption DEF r, Records
  <2>3. Runs(p, Off)
    <3>1. view' = [q \in Procs |-> IF q = f.proc THEN f ELSE IF q = Top.proc THEN Off ELSE view[q]]
      BY <1>6, <2>1, GotoView
    <3>2. view' = [q \in Procs |-> IF q = p THEN Off ELSE view[q]]
      BY <2>2, <3>1
    <3>3. QED BY <1>8, <3>2 DEF Runs, Kept
  <2>4. FrameTypes'
    BY <1>3, <1>5, <1>6, <1>7, <1>10, <2>1, GotoTypes
  <2>5. DataTypes'
    BY <1>5, <1>8, <1>9 DEF AltInv, DataTypes
  <2>6. AltFits(p, Off, state'[p], alt'[p], active'[p], timeout'[p])
    <3>1. Off.pc \in Free
      BY DEF Off, Frame, Free
    <3>2. QED BY <1>11, <3>1
  <2>7. AltInv'
    BY <1>2, <1>10, <2>3, <2>4, <2>5, <2>6, RunsInv
  <2>8. QED BY <1>2, <1>5, <1>12, <2>3, <2>7
<1>13. CASE state[p] # "waiting"
  <2>1. f.proc = p
    BY <1>7, <1>13 DEF r
  <2>2. LoopFits(p, f, alt[p], active[p], timeout[p]) /\ StateFits(p, f, state[p], alt[p])
    <3>1. AltFits(p, f, state[p], alt[p], active[p], timeout[p])
      BY <1>2, <1>3, <1>7, FreeFits DEF Free
    <3>2. QED BY <3>1 DEF AltFits
  <2>3. AltInv' /\ Runs(p, f)
    BY <1>2, <1>3, <1>5, <1>6, <1>7, <1>8, <1>9, <1>10, <2>1, <2>2, LoopGoes
  <2>4. QED BY <1>2, <1>5, <1>7, <1>13, <2>3
<1>14. QED BY <1>12, <1>13

-----------------------------------------------------------------------------
\* start(), called by main() and by the code of a process.

\* Process q, which has not run before, is started.
Begins(q) ==
  /\ state[q] \in {"unstarted", "initial"} /\ state'[q] = "initial"
  /\ alt'[q].guards = NoProc /\ alt'[q].index = alt[q].index /\ alt'[q].count = 0
  /\ active'[q] = {} /\ timeout'[q] = [time |-> 0, proc |-> NoProc]

LEMMA BeginsFits ==
  ASSUME Fits, NEW q \in Procs, Begins(q), view'[q] = view[q]
  PROVE  AltFits(q, view'[q], state'[q], alt'[q], active'[q], timeout'[q])
<1> DEFINE a == view[q]
           al == alt'[q]
<1>1. AltFits(q, a, state[q], alt[q], active[q], timeout[q])
  BY DEF Fits
<1>2. NoProc \notin Procs
  BY RecordAssumption DEF Records
<1>3. StateFits(q, a, "initial", al) /\ LoopFits(q, a, al, {}, timeout'[q])
  <2>1. /\ a.pc \notin {"begin", "enable", "insert", "enabled", "disable", "partner", "partnerRet"}
        /\ a.pc \in {"rtc", "rtcRest"} => ~a.flag
        /\ a.pc = "rtcRest" => a.act.active \subseteq Branches(q)
    BY <1>1 DEF AltFits, StateFits, LoopFits, Begins
  <2>2. al.guards = NoProc
    BY DEF Begins
  <2> HIDE DEF a, al
  <2>3. QED BY <2>1, <2>2 DEF StateFits, LoopFits
<1>4. NrGuards[q] > 0 => al.index \in Branches(q) /\ al.count \in Branches(q)
  <2>1. NrGuards[q] \in 0 .. 255
    BY ApplicationAssumption
  <2>2. NrGuards[q] > 0 => 0 \in Branches(q)
    BY <2>1 DEF Branches
  <2>3. QED BY <1>1, <2>2 DEF AltFits, Begins
<1>5. timeout'[q].proc \in {q, NoProc} /\ (timeout'[q].time > 0 => timeout'[q].proc = q)
  BY DEF Begins
<1>6. {} \subseteq Branches(q) /\ al.guards \in {NoProc, q}
  BY DEF Begins
<1> HIDE DEF a, al
<1>7. AltFits(q, a, "initial", al, {}, timeout'[q])
  BY <1>3, <1>4, <1>5, <1>6 DEF AltFits
<1>8. QED BY <1>7 DEF Begins, a, al

LEMMA StartFacts ==
  ASSUME AltInv, NEW q \in Procs, state[q] \in {"unstarted", "initial"}, NEW f, start(q, f),
         UNCHANGED <<chan, ichan, connected, got, now, timerQ, alarm, pend, fault>>,
         sent' \in [Chans -> 0 .. MsgMod - 1]
  PROVE  /\ Begins(q) /\ (\A r \in Procs : r # q => Kept(r))
         /\ Alting' = Alting /\ DataTypes' /\ WaiterTypes' /\ Call(f, StartFrame(q))
         /\ alt[q].guards = NoProc
<1>1. q \in Records /\ Procs \subseteq Records
  BY DEF Records
<1>2. /\ state \in [Records -> {"unstarted", "initial", "quiescent", "enabling", "waiting", "ready"}]
      /\ alt \in [Records -> [guards : Procs \cup {NoProc}, index : Int, count : Int]]
      /\ active \in [Procs -> SUBSET (0 .. 255)]
      /\ timeout \in [Procs -> [time : Nat, proc : Procs \cup {NoProc}]]
      /\ freed = {}
  BY DEF AltInv, DataTypes, UrgencyInv, NoneEnds
<1>3. /\ Call(f, StartFrame(q))
      /\ state' = [state EXCEPT ![q] = "initial"]
      /\ freed' = freed \ {q}
      /\ alt' = [alt EXCEPT ![q].guards = NoProc, ![q].count = 0]
      /\ active' = [active EXCEPT ![q] = {}]
      /\ timeout' = [timeout EXCEPT ![q] = [time |-> 0, proc |-> NoProc]]
      /\ intr' = TRUE
  BY DEF start
<1>4. /\ alt' \in [Records -> [guards : Procs \cup {NoProc}, index : Int, count : Int]]
      /\ alt'[q].guards = NoProc /\ alt'[q].index = alt[q].index /\ alt'[q].count = 0
      /\ \A r \in Records : r # q => alt'[r] = alt[r]
  <2> DEFINE b == [alt EXCEPT ![q].guards = NoProc]
  <2>1. alt[q] \in [guards : Procs \cup {NoProc}, index : Int, count : Int]
    BY <1>1, <1>2
  <2>2. [alt[q] EXCEPT !.guards = NoProc] \in [guards : Procs \cup {NoProc}, index : Int, count : Int]
    BY <2>1
  <2>3. /\ b \in [Records -> [guards : Procs \cup {NoProc}, index : Int, count : Int]]
        /\ b[q].guards = NoProc /\ b[q].index = alt[q].index
        /\ \A r \in Records : r # q => b[r] = alt[r]
    BY <1>1, <1>2, <2>1, <2>2
  <2>4. alt' = [b EXCEPT ![q].count = 0]
    BY <1>3
  <2> HIDE DEF b
  <2>5. b[q] \in [guards : Procs \cup {NoProc}, index : Int, count : Int]
    BY <1>1, <2>3
  <2>6. [b[q] EXCEPT !.count = 0] \in [guards : Procs \cup {NoProc}, index : Int, count : Int]
    BY <2>5
  <2>7. QED BY <1>1, <2>3, <2>4, <2>5, <2>6
<1>5. Begins(q)
  <2>1. state'[q] = "initial" /\ active'[q] = {} /\ timeout'[q] = [time |-> 0, proc |-> NoProc]
    BY <1>1, <1>2, <1>3
  <2>2. QED BY <1>1, <1>4, <2>1 DEF Begins
<1>6. \A r \in Procs : r # q => Kept(r)
  BY <1>1, <1>2, <1>3, <1>4 DEF Kept
<1>7. alt[q].guards = NoProc
  BY <1>1 DEF AltInv, Fits, AltFits, StateFits
<1>8. Alting' = Alting
  <2>1. \A r \in Procs : alt'[r].guards = alt[r].guards
    BY <1>1, <1>4, <1>7
  <2>2. QED BY <2>1, SameAlting
<1>9. DataTypes'
  <2>1. /\ active' \in [Procs -> SUBSET (0 .. 255)]
        /\ timeout' \in [Procs -> [time : Nat, proc : Procs \cup {NoProc}]]
        /\ freed' = {} /\ intr' \in BOOLEAN
    BY <1>1, <1>2, <1>3
  <2>2. QED BY <1>4, <2>1 DEF AltInv, DataTypes
<1>10. WaiterTypes'
  BY <1>8, SameWaiters
<1>11. QED BY <1>1, <1>3, <1>5, <1>6, <1>7, <1>8, <1>9, <1>10

LEMMA MainStartInv ==
  ASSUME AltInv, UrgencyInv', MainStart
  PROVE  /\ AltInv' /\ view' = view /\ UNCHANGED <<ioVars, timerQ, now>>
         /\ \E q \in Procs : Begins(q) /\ \A r \in Procs : r # q => Kept(r)
<1> DEFINE q == MainStarts[Top.k + 1]
           f == [Top EXCEPT !.k = Top.k + 1]
           g == StartFrame(q)
<1>1. /\ At("main") /\ Top.pc = "main" /\ Top.k < Len(MainStarts)
      /\ start(q, f)
      /\ UNCHANGED <<current, ioVars, now, timerQ, alarm, pend, handlers, fault>>
  BY DEF MainStart, At
<1>2. UrgencyInv /\ StackInv /\ StackShape /\ ViewOK /\ ViewOK' /\ FrameTypes
  BY Views, ViewsNext DEF AltInv, UrgencyInv, StackInv
<1>3. IsFrame(Top) /\ Typed(Top) /\ Top.fn = "main" /\ Top.k \in Nat /\ Top.proc = NoProc
      /\ Top.partner \in Alting \cup {NoProc} /\ Booting
  BY <1>1, <1>2, AtFacts, Stacked DEF FrameOK, FrameTypes, Booting
<1>4. q \in Procs
  <2>1. MainStarts \in Seq(Procs)
    BY ApplicationAssumption
  <2>2. \A n \in Nat : n < Len(MainStarts) => MainStarts[n + 1] \in Procs
    BY <2>1
  <2>3. QED BY <1>1, <1>3, <2>2
<1>5. state[q] \in {"unstarted", "initial"}
  BY <1>2, <1>3, <1>4 DEF UrgencyInv, Quiet, AllNew
<1>6. IsFrame(f) /\ Typed(f) /\ f.fn = "main" /\ f.proc = NoProc /\ f.partner = Top.partner /\ ~Counts(f) /\ ~Counts(Top)
  <2>1. \A n \in Int : Typed([Top EXCEPT !.k = n])
    BY <1>3, TypedFrames
  <2>2. Typed(f)
    BY <1>3, <2>1
  <2>3. QED BY <1>3, <2>2 DEF IsFrame, Counts
<1>7. /\ g.proc = NoProc /\ Typed(g) /\ g.fn = "start" /\ ~Counts(g)
  <2>1. g.proc = NoProc
    BY DEF StartFrame, Frame
  <2>2. QED BY <1>4, <2>1, NewTyped DEF Counts
<1> HIDE DEF q, f, g
<1>8. UNCHANGED <<chan, ichan, connected, got, sent, now, timerQ, alarm, pend, fault>>
  BY <1>1 DEF ioVars
<1>9. /\ Begins(q) /\ (\A r \in Procs : r # q => Kept(r))
      /\ Alting' = Alting /\ DataTypes' /\ WaiterTypes' /\ Call(f, g)
  <2>1. sent' \in [Chans -> 0 .. MsgMod - 1]
    BY <1>8 DEF AltInv, DataTypes
  <2>2. QED BY <1>1, <1>4, <1>5, <1>8, <2>1, StartFacts DEF g
<1>10. /\ Len(stack') = Len(stack) + 1
       /\ \A n \in Frames : stack'[n] = IF n = Len(stack) THEN f ELSE stack[n]
       /\ stack'[Len(stack) + 1] = g
  BY <1>2, <1>9, CallSeq
<1>11. view' = view
  <2>1. view' = [r \in Procs |-> IF r = f.proc THEN f ELSE view[r]]
    BY <1>2, <1>3, <1>6, <1>7, <1>10, PushView
  <2>2. f.proc \notin Procs
    BY <1>6, RecordAssumption DEF Records
  <2>3. view' = [r \in Procs |-> view[r]] /\ view = [r \in Procs |-> view[r]]
    BY <2>1, <2>2 DEF view
  <2>4. QED BY <2>3
<1>12. Fits'
  <2>1. ASSUME NEW r \in Procs
        PROVE  AltFits(r, view'[r], state'[r], alt'[r], active'[r], timeout'[r])
    <3>1. Fits /\ view'[r] = view[r]
      BY <1>11 DEF AltInv
    <3>2. CASE r = q
      BY <1>9, <3>1, <3>2, BeginsFits
    <3>3. CASE r # q
      BY <1>9, <3>1, <3>3, KeptFits
    <3>4. QED BY <3>2, <3>3
  <2>2. QED BY <2>1 DEF Fits, AltFits, StateFits, LoopFits, HasAlt
<1>13. FrameTypes'
  <2>1. handlers \in Nat
    BY <1>2, CountedHandlers DEF FrameTypes
  <2>2. handlers' = handlers + (IF Counts(g) THEN 1 ELSE 0) - (IF Counts(Top) /\ ~Counts(f) THEN 1 ELSE 0)
    BY <1>1, <1>6, <1>7, <2>1
  <2>3. QED BY <1>2, <1>3, <1>6, <1>7, <1>9, <1>10, <2>2, PushTypes
<1>14. AltInv'
  BY <1>9, <1>12, <1>13 DEF AltInv
<1>15. QED BY <1>1, <1>4, <1>9, <1>11, <1>14

-----------------------------------------------------------------------------
\* The other steps of main() and start(), and the handlers.

LEMMA MainRunInv ==
  ASSUME AltInv, UrgencyInv', MainRun
  PROVE  AltInv' /\ Aside /\ UNCHANGED <<state, altVars, ioVars, timeVars>>
<1> DEFINE f == [Top EXCEPT !.pc = "returned"]
           g == ScheduleFrame(PRI_MIN - 1)
<1>1. /\ At("main") /\ Top.pc = "main" /\ Call(f, g)
      /\ UNCHANGED <<procVars, altVars, ioVars, timeVars, intr, handlers, fault>>
  BY DEF MainRun, At
<1>2. UrgencyInv /\ StackInv /\ StackShape /\ FrameTypes
  BY DEF AltInv, UrgencyInv, StackInv
<1>3. IsFrame(Top) /\ Typed(Top) /\ Top.fn = "main" /\ Top.proc = NoProc
      /\ Top.partner \in Alting \cup {NoProc}
  BY <1>1, <1>2, AtFacts, Stacked DEF FrameOK, FrameTypes
<1>4. Typed(f) /\ f.fn = "main" /\ f.proc = NoProc /\ f.partner = Top.partner /\ ~Counts(f) /\ ~Counts(Top)
  BY <1>3, TypedFrames DEF IsFrame, Counts
<1>5. g.proc = NoProc /\ g.fn = "schedule" /\ Typed(g) /\ g.partner = NoProc /\ ~Counts(g)
  <2>1. PRI_MIN - 1 \in Int
    BY DEF PRI_MIN
  <2>2. g.proc = NoProc /\ g.fn = "schedule"
    BY DEF ScheduleFrame, Frame
  <2>3. QED BY <2>1, <2>2, NewTyped
<1> HIDE DEF f, g
<1>6. UNCHANGED <<state, freed, alt, active, connected, sent, got, now, timeout, pend, chan, ichan, timerQ, alarm>>
  BY <1>1 DEF procVars, altVars, ioVars, timeVars
<1>7. Alting' = Alting
  BY <1>6, SameAlting
<1>8. /\ Len(stack') = Len(stack) + 1
      /\ \A n \in Frames : stack'[n] = IF n = Len(stack) THEN f ELSE stack[n]
      /\ stack'[Len(stack) + 1] = g
  BY <1>1, <1>2, CallSeq
<1>9. FrameTypes'
  <2>1. handlers \in Nat
    BY <1>2, CountedHandlers DEF FrameTypes
  <2>2. handlers' = handlers + (IF Counts(g) THEN 1 ELSE 0) - (IF Counts(Top) /\ ~Counts(f) THEN 1 ELSE 0)
    BY <1>1, <1>4, <1>5, <2>1
  <2>3. QED BY <1>2, <1>3, <1>4, <1>5, <1>7, <1>8, <2>2, PushTypes
<1>10. WaiterTypes' /\ DataTypes'
  BY <1>1, <1>6, <1>7, SameWaiters DEF AltInv, DataTypes
<1>11. (\A q \in Procs : Kept(q)) /\ Top.proc \notin Procs
  BY <1>3, <1>6, RecordAssumption DEF Kept, Records
<1>12. AltInv' /\ Aside
  BY <1>3, <1>4, <1>5, <1>8, <1>9, <1>10, <1>11, CallsAside
<1>13. QED BY <1>1, <1>6, <1>12

LEMMA StartStepInv ==
  ASSUME AltInv, UrgencyInv', StartStep
  PROVE  AltInv' /\ Aside /\ UNCHANGED <<state, altVars, ioVars, timeVars>>
<1>1. /\ At("link") \/ At("tail") \/ At("next") \/ At("head")
      /\ Return \/ \E pc : Goto([Top EXCEPT !.pc = pc])
      /\ UNCHANGED <<state, current, freed, altVars, ioVars, timeVars, intr, handlers, fault>>
  BY DEF StartStep, AppendLink, AppendTail, AppendNext, AppendHead, AppendStep
<1>2. UrgencyInv /\ StackInv /\ ViewOK /\ ViewOK' /\ FrameTypes
  BY Views, ViewsNext DEF AltInv, UrgencyInv
<1>3. IsFrame(Top) /\ Typed(Top) /\ Top.fn = "start" /\ Top.proc = NoProc /\ ~Counts(Top)
  BY <1>1, <1>2, AtFacts, Stacked DEF FrameOK, FrameTypes, Counts, At, StartPcs
<1>4. UNCHANGED <<state, freed, alt, active, connected, sent, got, now, timeout, pend, chan, ichan, timerQ, alarm, intr>>
  BY <1>1 DEF altVars, ioVars, timeVars
<1>5. Alting' = Alting /\ alarm' \in Int /\ intr' \in BOOLEAN
  BY <1>4, SameAlting DEF AltInv, DataTypes
<1>6. CASE Return
  <2>1. Aside
    BY <1>2, <1>3, <1>4, <1>6, ReturnView DEF Aside, Kept
  <2>2. FrameTypes'
    BY <1>1, <1>2, <1>3, <1>5, <1>6, ReturnTypes
  <2>3. WaiterTypes' /\ DataTypes'
    BY <1>1, <1>4, <1>5, SameWaiters DEF AltInv, DataTypes
  <2>4. QED BY <1>1, <1>4, <2>1, <2>2, <2>3, AsideInv
<1>7. ASSUME NEW pc, Goto([Top EXCEPT !.pc = pc])
      PROVE  AltInv' /\ Aside
  <2> DEFINE f == [Top EXCEPT !.pc = pc]
  <2>1. Typed(f) /\ f.fn = "start" /\ f.proc = NoProc /\ ~Counts(f) /\ Goto(f)
    BY <1>3, <1>7, TypedFrames DEF IsFrame, Counts
  <2> HIDE DEF f
  <2>2. Top.proc \notin Procs /\ f.proc \notin Procs
    BY <1>3, <2>1, RecordAssumption DEF Records
  <2>3. QED BY <1>1, <1>3, <1>4, <1>5, <2>1, <2>2, AsideGoes
<1>8. QED BY <1>1, <1>4, <1>6, <1>7

\* A signal is delivered.
LEMMA InterruptInv ==
  ASSUME AltInv, UrgencyInv', NEW src \in Intrs \cup {"elapsed", "timeout"}, Interrupt(src), pend' \in BOOLEAN
  PROVE  AltInv' /\ Aside /\ UNCHANGED <<state, altVars, ioVars, now, timeout, timerQ, alarm>>
<1> DEFINE g == HandlerFrame(src)
<1>1. /\ stack' = Append(stack, g) /\ intr' = FALSE /\ handlers' = handlers + 1
      /\ UNCHANGED <<procVars, altVars, ioVars, now, timeout, timerQ, alarm, fault>>
  BY DEF Interrupt
<1>2. UrgencyInv /\ StackInv /\ StackShape /\ ViewOK /\ ViewOK' /\ FrameTypes
  BY Views, ViewsNext DEF AltInv, UrgencyInv, StackInv
<1>3. /\ Len(stack') = Len(stack) + 1 /\ stack'[Len(stack) + 1] = g
      /\ \A n \in Frames : stack'[n] = IF n = Len(stack) THEN Top ELSE stack[n]
  BY <1>1, <1>2, PushSeq, Stacked
<1>4. g.proc = NoProc /\ Typed(g) /\ g.partner = NoProc /\ Counts(g)
  <2>1. g.proc = NoProc
    BY DEF HandlerFrame, Frame
  <2>2. QED BY <2>1, NewTyped
<1> HIDE DEF g
<1>5. Typed(Top) /\ (Top.fn # "start" => Top.partner \in Alting \cup {NoProc})
  BY <1>2, Stacked DEF FrameTypes
<1>6. UNCHANGED <<state, freed, alt, active, connected, sent, got, now, timeout, chan, ichan, timerQ, alarm>>
  BY <1>1 DEF procVars, altVars, ioVars
<1>7. Alting' = Alting
  BY <1>6, SameAlting
<1>8. view' = view
  <2>1. view' = [q \in Procs |-> IF q = Top.proc THEN Top ELSE view[q]]
    BY <1>2, <1>3, <1>4, PushView
  <2>2. Top.proc \in Procs => view[Top.proc] = Top
    BY <1>2, Stacked DEF ViewOK
  <2>3. view = [q \in Procs |-> view[q]]
    BY DEF view
  <2>4. QED BY <2>1, <2>2, <2>3
<1>9. Aside
  BY <1>6, <1>8 DEF Aside, Kept
<1>10. FrameTypes'
  <2>1. handlers \in Nat
    BY <1>2, CountedHandlers DEF FrameTypes
  <2>2. handlers' = handlers + (IF Counts(g) THEN 1 ELSE 0) - (IF Counts(Top) /\ ~Counts(Top) THEN 1 ELSE 0)
    BY <1>1, <1>4, <2>1
  <2>3. QED BY <1>2, <1>3, <1>4, <1>5, <1>7, <2>2, PushTypes
<1>11. WaiterTypes' /\ DataTypes'
  BY <1>1, <1>6, <1>7, SameWaiters DEF AltInv, DataTypes
<1>12. AltInv'
  BY <1>9, <1>10, <1>11, AsideInv
<1>13. QED BY <1>1, <1>6, <1>9, <1>12

\* A handler has no process, and is counted until it has decremented
\* activeHandlers.
LEMMA HandlerFacts ==
  ASSUME AltInv, Top.pc \in HandlerPcs
  PROVE  /\ IsFrame(Top) /\ Typed(Top) /\ Top.fn = "handler" /\ Top.proc = NoProc /\ Top.proc \notin Procs
         /\ Top.partner \in Alting \cup {NoProc} /\ (Counts(Top) <=> Top.pc # "leave") /\ handlers \in Nat
<1>1. UrgencyInv /\ StackInv /\ FrameTypes
  BY DEF AltInv, UrgencyInv
<1>2. FrameOK(Top) /\ Top.fn = "handler" /\ Typed(Top) /\ Top.partner \in Alting \cup {NoProc}
  BY <1>1, Stacked DEF FrameOK, FrameTypes
<1>3. IsFrame(Top) /\ Top.proc = NoProc /\ NoProc \notin Procs
  BY <1>2, RecordAssumption DEF FrameOK, Records
<1>4. QED BY <1>1, <1>2, <1>3, CountedHandlers DEF Counts, FrameTypes

\* An element of a queue.
LEMMA FirstIn ==
  ASSUME NEW S, NEW q \in Seq(S), q # << >>
  PROVE  q[1] \in S /\ Tail(q) \in Seq(S)
OBVIOUS

\* A handler wakes q.
LEMMA HandlerWakes ==
  ASSUME AltInv, UrgencyInv', Top.pc \in HandlerPcs \ {"leave"}, NEW q \in Alting, NEW f,
         readyProcessIfNecessary(q, f), IsFrame(f), Typed(f), f.proc = NoProc, f.fn = "handler",
         f.partner = Top.partner, Counts(f),
         UNCHANGED <<freed, altVars, connected, sent, got, now, timeout, handlers, fault, alarm, pend, intr>>,
         Alting' = Alting => WaiterTypes'
  PROVE  AltInv' /\ Aside
<1> DEFINE g == [f EXCEPT !.prev = current]
           h == ScheduleFrame(PriOf(current))
<1>1. /\ state' = [state EXCEPT ![q] = "ready"]
      /\ Goto(f) \/ Call(g, h)
  BY DEF readyProcessIfNecessary
<1>2. /\ Top.proc = NoProc /\ Top.proc \notin Procs /\ Top.partner \in Alting \cup {NoProc} /\ Counts(Top)
      /\ handlers \in Nat
  BY HandlerFacts
<1>3. /\ IsFrame(g) /\ Typed(g) /\ g.fn = "handler" /\ g.proc = NoProc /\ g.partner = Top.partner /\ Counts(g)
      /\ h.proc = NoProc /\ Typed(h) /\ h.fn = "schedule" /\ h.partner = NoProc /\ ~Counts(h)
  BY Saving DEF Counts
<1> HIDE DEF g, h
<1>4. /\ \A r \in Procs : Kept(r)
      /\ Alting' = Alting /\ DataTypes'
  <2>1. alarm' \in Int /\ pend' \in BOOLEAN /\ intr' \in BOOLEAN
    BY DEF AltInv, DataTypes
  <2>2. QED BY <1>1, <2>1, WakeKeeps
<1>5. CASE Goto(f)
  BY <1>2, <1>4, <1>5, GoesAside
<1>6. CASE Call(g, h)
  <2>1. StackInv /\ StackShape /\ FrameTypes
    BY DEF AltInv, UrgencyInv, StackInv
  <2>2. /\ Len(stack') = Len(stack) + 1
        /\ \A n \in Frames : stack'[n] = IF n = Len(stack) THEN g ELSE stack[n]
        /\ stack'[Len(stack) + 1] = h
    BY <1>6, <2>1, CallSeq
  <2>3. handlers' = handlers + (IF Counts(h) THEN 1 ELSE 0) - (IF Counts(Top) /\ ~Counts(g) THEN 1 ELSE 0)
    BY <1>2, <1>3
  <2>4. FrameTypes'
    BY <1>2, <1>3, <1>4, <2>1, <2>2, <2>3, PushTypes
  <2>5. QED BY <1>2, <1>3, <1>4, <2>2, <2>4, CallsAside
<1>7. QED BY <1>1, <1>5, <1>6

LEMMA HandleUserInv ==
  ASSUME AltInv, UrgencyInv', HandleUser
  PROVE  /\ AltInv' /\ Aside
         /\ \/ state' = state
            \/ \E q \in Alting : state' = [state EXCEPT ![q] = "ready"]
<1> DEFINE u == Top.src
           w == ichan[u].waiting
           f == [Top EXCEPT !.pc = "userRet"]
           e == [Top EXCEPT !.pc = "exit"]
<1>1. /\ At("user") /\ Top.pc = "user"
      /\ ichan' = IF u \in connected THEN [ichan EXCEPT ![u].count = @ + 1] ELSE ichan
      /\ \/ u \in connected /\ w \in Records /\ readyProcessIfNecessary(w, f)
         \/ Goto(e) /\ state' = state
      /\ UNCHANGED <<current, freed, altVars, chan, connected, sent, got, timeVars,
                     intr, handlers, fault>>
  BY DEF HandleUser, At
<1>2. Top.pc \in HandlerPcs \ {"leave"} /\ "userRet" \in HandlerPcs \ {"leave"} /\ "exit" \in HandlerPcs \ {"leave"}
  BY <1>1 DEF HandlerPcs
<1>3. /\ IsFrame(f) /\ Typed(f) /\ f.proc = NoProc /\ f.fn = "handler" /\ f.partner = Top.partner /\ Counts(f)
      /\ Typed(e) /\ e.proc = NoProc /\ e.fn = "handler" /\ e.partner = Top.partner /\ Counts(e)
  <2>1. IsFrame(Top) /\ Typed(Top) /\ Top.fn = "handler" /\ Top.proc = NoProc
    BY <1>2, HandlerFacts
  <2>2. QED BY <2>1, TypedFrames DEF IsFrame, Counts
<1>4. /\ Top.proc \notin Procs /\ NoProc \notin Procs /\ Top.partner \in Alting \cup {NoProc} /\ Counts(Top)
  BY <1>1, <1>2, HandlerFacts
<1>5. UNCHANGED <<freed, alt, active, timeout, connected, sent, got, now, handlers, fault, alarm, pend, intr, chan, timerQ>>
  BY <1>1 DEF altVars, timeVars
<1> HIDE DEF f, e
<1>6. Alting' = Alting => WaiterTypes'
  <2>1. CASE u \in connected
    <3>1. u \in Intrs
      BY <2>1 DEF AltInv, DataTypes
    <3>2. ichan' = [ichan EXCEPT ![u].count = @ + 1]
      BY <1>1, <2>1
    <3> HIDE DEF u
    <3>3. QED BY <1>5, <3>1, <3>2, IntrCounts
  <2>2. CASE u \notin connected
    BY <1>1, <1>5, <2>2, SameWaiters
  <2>3. QED BY <2>1, <2>2
<1>7. CASE u \in connected /\ w \in Records /\ readyProcessIfNecessary(w, f)
  <2>1. w \in Alting
    <3>1. u \in Intrs
      BY <1>7 DEF AltInv, DataTypes
    <3>2. w \in Alting \cup {NoProc}
      BY <3>1 DEF AltInv, WaiterTypes
    <3>3. QED BY <1>7, <3>2, RecordAssumption DEF Records
  <2> HIDE DEF w, u
  <2>2. AltInv' /\ Aside
    BY <1>2, <1>3, <1>5, <1>6, <1>7, <2>1, HandlerWakes DEF altVars
  <2>3. QED BY <1>7, <2>1, <2>2 DEF readyProcessIfNecessary
<1>8. CASE Goto(e) /\ state' = state
  <2>1. (\A q \in Procs : Kept(q)) /\ Alting' = Alting
    BY <1>5, <1>8, SameAlting DEF Kept
  <2>2. DataTypes'
    BY <1>5, <1>8 DEF AltInv, DataTypes
  <2>3. Alting \subseteq Alting' /\ WaiterTypes' /\ handlers' = handlers
    BY <1>5, <1>6, <2>1
  <2>4. AltInv' /\ Aside
    BY <1>3, <1>4, <1>8, <2>1, <2>2, <2>3, GoesAside
  <2>5. QED BY <1>8, <2>4
<1>9. QED BY <1>1, <1>7, <1>8

LEMMA HandleTimeoutInv ==
  ASSUME AltInv, UrgencyInv', HandleTimeout
  PROVE  AltInv' /\ Aside /\ UNCHANGED <<state, altVars, ioVars, timeVars>>
<1> DEFINE f == [Top EXCEPT !.pc = "due", !.time = Now]
<1>1. /\ At("timeout") /\ Top.pc = "timeout" /\ Goto(f)
      /\ UNCHANGED <<procVars, altVars, ioVars, timeVars, intr, handlers, fault>>
  BY DEF HandleTimeout, At
<1>2. Top.pc \in HandlerPcs \ {"leave"} /\ "due" \in HandlerPcs \ {"leave"} /\ Now \in Nat
  BY <1>1, NowOK DEF HandlerPcs, AltInv
<1>3. /\ Typed(f) /\ f.proc = NoProc /\ f.fn = "handler" /\ f.partner = Top.partner /\ Counts(f)
  <2> DEFINE a == [Top EXCEPT !.pc = "due"]
  <2>1. IsFrame(Top) /\ Typed(Top) /\ Top.fn = "handler" /\ Top.proc = NoProc
    BY <1>2, HandlerFacts
  <2>2. IsFrame(a) /\ Typed(a) /\ a.fn = "handler" /\ a.proc = NoProc /\ a.partner = Top.partner /\ a.pc = "due"
    BY <2>1, TypedFrames DEF IsFrame
  <2>3. f = [a EXCEPT !.time = Now]
    OBVIOUS
  <2> HIDE DEF a, f
  <2>4. QED BY <1>2, <2>2, <2>3, TypedFrames DEF IsFrame, Counts
<1> HIDE DEF f
<1>4. /\ Top.proc \notin Procs /\ f.proc \notin Procs /\ Top.partner \in Alting \cup {NoProc} /\ Counts(Top)
  BY <1>1, <1>2, <1>3, HandlerFacts
<1>5. UNCHANGED <<state, freed, now, timeout, timerQ, pend, alarm, intr>>
  BY <1>1 DEF procVars, timeVars
<1>6. alarm' \in Int /\ intr' \in BOOLEAN
  BY <1>5 DEF AltInv, DataTypes
<1>7. AltInv' /\ Aside
  BY <1>1, <1>3, <1>4, <1>5, <1>6, AsideGoes
<1>8. QED BY <1>1, <1>5, <1>7

LEMMA TimeoutDueInv ==
  ASSUME AltInv, UrgencyInv', TimeoutDue
  PROVE  /\ AltInv' /\ Aside
         /\ \/ UNCHANGED <<state, timerQ>>
            \/ /\ timerQ # << >> /\ timerQ[1].proc \in Alting /\ timerQ' = Tail(timerQ)
               /\ state' = [state EXCEPT ![timerQ[1].proc] = "ready"]
         /\ UNCHANGED <<altVars, ioVars, now, timeout>>
<1> DEFINE q == timerQ[1].proc
           f == [Top EXCEPT !.pc = "dueRet"]
<1>1. At("due") /\ Top.pc = "due" /\ timerQ # << >>
  BY DEF TimeoutDue, At, Due
<1>2. CASE Crash("null")
  <2>1. AltInv' /\ Aside
    BY <1>2, CrashInv
  <2>2. QED BY <1>2, <2>1 DEF Crash, procVars, timeVars
<1>3. CASE /\ timerQ' = Tail(timerQ)
           /\ readyProcessIfNecessary(q, f)
           /\ UNCHANGED <<current, freed, altVars, ioVars, now, timeout, alarm, pend,
                          intr, handlers, fault>>
  <2>1. timerQ \in Seq([time : Nat, proc : Alting])
    BY DEF AltInv, WaiterTypes
  <2>2. q \in Alting /\ timerQ' \in Seq([time : Nat, proc : Alting])
    <3>1. timerQ[1] \in [time : Nat, proc : Alting] /\ Tail(timerQ) \in Seq([time : Nat, proc : Alting])
      BY <1>1, <2>1, FirstIn
    <3>2. QED BY <1>3, <3>1
  <2>3. Top.pc \in HandlerPcs \ {"leave"} /\ "dueRet" \in HandlerPcs \ {"leave"}
    BY <1>1 DEF HandlerPcs
  <2>4. IsFrame(f) /\ Typed(f) /\ f.proc = NoProc /\ f.fn = "handler" /\ f.partner = Top.partner /\ Counts(f)
    <3>1. IsFrame(Top) /\ Typed(Top) /\ Top.fn = "handler" /\ Top.proc = NoProc
      BY <2>3, HandlerFacts
    <3>2. QED BY <3>1, TypedFrames DEF IsFrame, Counts
  <2>5. UNCHANGED <<freed, altVars, connected, sent, got, now, timeout, handlers, fault, alarm, pend, intr, chan, ichan>>
    BY <1>3 DEF ioVars
  <2>6. Alting' = Alting => WaiterTypes'
    BY <2>2, <2>5, QueueWaits
  <2> HIDE DEF q, f
  <2>7. AltInv' /\ Aside
    BY <1>3, <2>2, <2>3, <2>4, <2>5, <2>6, HandlerWakes
  <2>8. state' = [state EXCEPT ![q] = "ready"]
    BY <1>3 DEF readyProcessIfNecessary
  <2>9. QED BY <1>1, <1>3, <2>2, <2>7, <2>8 DEF q
<1>4. QED BY <1>2, <1>3 DEF TimeoutDue

LEMMA TimeoutRearmInv ==
  ASSUME AltInv, UrgencyInv', TimeoutRearm
  PROVE  AltInv' /\ Aside /\ UNCHANGED <<state, altVars, ioVars, now, timeout, timerQ>>
<1> DEFINE f == [Top EXCEPT !.pc = "exit"]
<1>1. /\ At("due") /\ Top.pc = "due" /\ Goto(f)
      /\ alarm' = IF timerQ = << >> THEN alarm ELSE Armed(timerQ[1].time, Top.time)
      /\ UNCHANGED <<procVars, altVars, ioVars, now, timeout, timerQ, pend, intr, handlers, fault>>
  BY DEF TimeoutRearm, At
<1>2. Top.pc \in HandlerPcs \ {"leave"} /\ "exit" \in HandlerPcs \ {"leave"}
  BY <1>1 DEF HandlerPcs
<1>3. /\ Typed(f) /\ f.proc = NoProc /\ f.fn = "handler" /\ f.partner = Top.partner /\ Counts(f)
  <2>1. IsFrame(Top) /\ Typed(Top) /\ Top.fn = "handler" /\ Top.proc = NoProc
    BY <1>2, HandlerFacts
  <2>2. QED BY <2>1, TypedFrames DEF IsFrame, Counts
<1> HIDE DEF f
<1>4. /\ Top.proc \notin Procs /\ f.proc \notin Procs /\ Top.partner \in Alting \cup {NoProc} /\ Counts(Top) /\ Typed(Top)
  BY <1>1, <1>2, <1>3, HandlerFacts
<1>5. UNCHANGED <<state, freed, now, timeout, timerQ, pend, intr>>
  BY <1>1 DEF procVars
<1>6. alarm' \in Int /\ intr' \in BOOLEAN
  <2>1. alarm \in Int /\ now \in Nat /\ intr \in BOOLEAN /\ Top.time \in Nat
    BY <1>4 DEF AltInv, DataTypes, Typed
  <2>2. timerQ # << >> => timerQ[1].time \in Nat
    <3>1. timerQ \in Seq([time : Nat, proc : Alting])
      BY DEF AltInv, WaiterTypes
    <3>2. timerQ # << >> => timerQ[1] \in [time : Nat, proc : Alting]
      BY <3>1, FirstIn
    <3>3. QED BY <3>2
  <2>3. timerQ # << >> => Armed(timerQ[1].time, Top.time) \in Int
    BY <2>1, <2>2 DEF Armed, NoTime
  <2>4. QED BY <1>1, <1>5, <2>1, <2>3
<1>7. AltInv' /\ Aside
  BY <1>1, <1>3, <1>4, <1>5, <1>6, AsideGoes
<1>8. QED BY <1>1, <1>5, <1>7

LEMMA HandlerReturnInv ==
  ASSUME AltInv, UrgencyInv', HandlerReturn
  PROVE  AltInv' /\ Aside /\ UNCHANGED <<state, altVars, ioVars, timeVars>>
<1>1. /\ Top.pc \in {"userRet", "dueRet"} /\ At(Top.pc)
      /\ UNCHANGED <<rq, state, freed, altVars, ioVars, timeVars, intr, handlers, fault>>
  BY DEF HandlerReturn, At
<1>2. PICK pc \in {"exit", "due"} : Goto([Top EXCEPT !.pc = pc, !.prev = NoProc])
  BY DEF HandlerReturn
<1> DEFINE a == [Top EXCEPT !.pc = pc]
           f == [Top EXCEPT !.pc = pc, !.prev = NoProc]
<1>3. Top.pc \in HandlerPcs \ {"leave"} /\ pc # "leave"
  BY <1>1 DEF HandlerPcs
<1>4. IsFrame(Top) /\ Typed(Top) /\ Top.fn = "handler" /\ Top.proc = NoProc
      /\ Top.proc \notin Procs /\ Top.partner \in Alting \cup {NoProc} /\ Counts(Top)
  BY <1>3, HandlerFacts
<1>5. /\ Typed(f) /\ f.proc = NoProc /\ f.fn = "handler" /\ f.partner = Top.partner /\ Counts(f)
  <2>1. IsFrame(a) /\ Typed(a) /\ a.fn = "handler" /\ a.proc = NoProc /\ a.partner = Top.partner /\ a.pc = pc
    BY <1>4, TypedFrames DEF IsFrame
  <2>2. f = [a EXCEPT !.prev = NoProc]
    OBVIOUS
  <2> HIDE DEF a, f
  <2>3. QED BY <1>3, <2>1, <2>2, TypedFrames DEF IsFrame, Counts
<1>6. Goto(f)
  BY <1>2
<1> HIDE DEF f
<1>7. UNCHANGED <<state, freed, altVars, ioVars, now, timeout, timerQ, pend, alarm, handlers, intr, fault>>
  BY <1>1 DEF timeVars
<1>8. alarm' \in Int /\ intr' \in BOOLEAN
  BY <1>7 DEF AltInv, DataTypes
<1>9. f.proc \notin Procs
  BY <1>4, <1>5
<1>10. AltInv' /\ Aside
  BY <1>4, <1>5, <1>6, <1>7, <1>8, <1>9, AsideGoes
<1>11. QED BY <1>1, <1>10

LEMMA HandlerExitInv ==
  ASSUME AltInv, UrgencyInv', HandlerExit
  PROVE  AltInv' /\ Aside /\ UNCHANGED <<state, altVars, ioVars, timeVars>>
<1> DEFINE f == [Top EXCEPT !.pc = "leave"]
           g == ScheduleFrame(PriOf(current))
<1>1. /\ At("exit") /\ Top.pc = "exit" /\ intr' = FALSE /\ handlers' = handlers - 1
      /\ Call(f, g) \/ Goto(f)
      /\ UNCHANGED <<procVars, altVars, ioVars, timeVars, fault>>
  BY DEF HandlerExit, At
<1>2. IsFrame(Top) /\ Typed(Top) /\ Top.fn = "handler" /\ Top.proc = NoProc
      /\ Top.proc \notin Procs /\ Top.partner \in Alting \cup {NoProc} /\ Counts(Top) /\ handlers \in Nat
  BY <1>1, HandlerFacts DEF HandlerPcs
<1>3. Typed(f) /\ f.fn = "handler" /\ f.proc = NoProc /\ f.partner = Top.partner /\ ~Counts(f)
  BY <1>2, TypedFrames DEF IsFrame, Counts
<1>4. g.proc = NoProc /\ g.fn = "schedule" /\ Typed(g) /\ g.partner = NoProc /\ ~Counts(g)
  BY <1>2, Saving
<1> HIDE DEF f, g
<1>5. UNCHANGED <<state, freed, alt, active, connected, sent, got, now, timeout, pend, chan, ichan, timerQ, alarm>>
  BY <1>1 DEF procVars, altVars, ioVars, timeVars
<1>6. Alting' = Alting
  BY <1>5, SameAlting
<1>7. UrgencyInv /\ StackInv /\ StackShape /\ FrameTypes /\ ViewOK /\ ViewOK'
  BY Views, ViewsNext DEF AltInv, UrgencyInv, StackInv
<1>8. WaiterTypes' /\ DataTypes'
  BY <1>1, <1>5, <1>6, SameWaiters DEF AltInv, DataTypes
<1>9. \A q \in Procs : Kept(q)
  BY <1>5 DEF Kept
<1>10. CASE Call(f, g)
  <2>1. /\ Len(stack') = Len(stack) + 1
        /\ \A n \in Frames : stack'[n] = IF n = Len(stack) THEN f ELSE stack[n]
        /\ stack'[Len(stack) + 1] = g
    BY <1>7, <1>10, CallSeq
  <2>2. handlers' = handlers + (IF Counts(g) THEN 1 ELSE 0) - (IF Counts(Top) /\ ~Counts(f) THEN 1 ELSE 0)
    BY <1>1, <1>2, <1>3, <1>4
  <2>3. FrameTypes'
    BY <1>2, <1>3, <1>4, <1>6, <1>7, <2>1, <2>2, PushTypes
  <2>4. f.proc = Top.proc
    BY <1>2, <1>3
  <2>5. Top.proc \notin Procs /\ g.proc = NoProc
    BY <1>2, <1>4
  <2>6. AltInv' /\ Aside
    BY <1>8, <1>9, <2>1, <2>3, <2>4, <2>5, CallsAside
  <2>7. QED BY <1>1, <2>6 DEF procVars
<1>11. CASE Goto(f)
  <2>1. /\ Frames' = Frames /\ Top = stack[Len(stack)] /\ Len(stack) \in Frames
        /\ \A n \in Frames : stack'[n] = IF n = Len(stack) THEN f ELSE stack[n]
    BY <1>7, <1>11, GotoTop, Stacked
  <2>2. view' = view
    <3>1. view' = [q \in Procs |-> IF q = f.proc THEN f ELSE IF q = Top.proc THEN Off ELSE view[q]]
      BY <1>7, <1>11, GotoView
    <3>2. \A q \in Procs : q # f.proc /\ q # Top.proc
      BY <1>2, <1>3
    <3>3. view = [q \in Procs |-> view[q]]
      BY DEF view
    <3>4. QED BY <3>1, <3>2, <3>3
  <2>3. Handlers' = Handlers \ {Len(stack)}
    BY <1>3, <2>1 DEF Handlers, Counts
  <2>4. handlers' = Cardinality(Handlers')
    <3>1. PICK H : H = Handlers \ {Len(stack)}
      OBVIOUS
    <3>2. Cardinality(H) = handlers - 1
      BY <1>2, <1>7, <3>1, LeaveTypes
    <3>3. QED BY <1>1, <2>3, <3>1, <3>2
  <2>5. \A n \in Frames : Typed(stack'[n]) /\ (stack'[n].fn # "start" => stack'[n].partner \in Alting' \cup {NoProc})
    BY <1>2, <1>3, <1>6, <1>7, <2>1 DEF FrameTypes
  <2>6. FrameTypes'
    BY <2>1, <2>4, <2>5 DEF FrameTypes, Typed
  <2>7. Aside
    BY <1>9, <2>2 DEF Aside
  <2>8. QED BY <1>1, <1>5, <1>8, <2>6, <2>7, AsideInv
<1>12. QED BY <1>1, <1>10, <1>11

LEMMA HandlerRestoreInv ==
  ASSUME AltInv, UrgencyInv', HandlerRestore
  PROVE  AltInv' /\ Aside /\ UNCHANGED <<state, altVars, ioVars, timeVars>>
<1>1. /\ At("leave") /\ Top.pc = "leave" /\ Return /\ intr' = TRUE
      /\ UNCHANGED <<procVars, altVars, ioVars, timeVars, handlers, fault>>
  BY DEF HandlerRestore, At
<1>2. Top.fn = "handler" /\ Top.proc = NoProc /\ ~Counts(Top)
  BY <1>1, HandlerFacts DEF HandlerPcs
<1>3. UNCHANGED <<state, freed, alt, active, connected, sent, got, now, timeout, pend, chan, ichan, timerQ, alarm>>
  BY <1>1 DEF procVars, altVars, ioVars, timeVars
<1>4. view' = view
  <2>1. ViewOK /\ ViewOK' /\ UrgencyInv
    BY Views, ViewsNext DEF AltInv
  <2>2. QED BY <1>1, <1>2, <2>1, ReturnView
<1>5. Aside
  BY <1>3, <1>4 DEF Aside, Kept
<1>6. Alting' = Alting
  BY <1>3, SameAlting
<1>7. FrameTypes'
  BY <1>1, <1>2, <1>6, ReturnTypes DEF AltInv, UrgencyInv
<1>8. WaiterTypes' /\ DataTypes'
  BY <1>1, <1>3, <1>6, SameWaiters DEF AltInv, DataTypes
<1>9. QED BY <1>1, <1>3, <1>5, <1>7, <1>8, AsideInv

LEMMA ClockInv ==
  ASSUME AltInv, UrgencyInv', Clock \/ AlarmFires
  PROVE  /\ AltInv' /\ Aside /\ UNCHANGED <<state, altVars, ioVars, timeout, timerQ, stack>>
         /\ now' >= now
<1>1. /\ UNCHANGED <<procVars, altVars, ioVars, timeout, timerQ, cpuVars>>
      /\ \/ now' = now + 1 /\ UNCHANGED <<alarm, pend>>
         \/ now' = now /\ alarm' = NoTime /\ pend' = TRUE
  BY DEF Clock, AlarmFires
<1>2. UNCHANGED <<state, alt, active, freed, connected, sent, got, timeout, chan, ichan, timerQ, handlers, stack, intr, fault>>
  BY <1>1 DEF procVars, altVars, ioVars, cpuVars
<1>3. now' \in Nat /\ alarm' \in Int /\ pend' \in BOOLEAN /\ intr' \in BOOLEAN /\ now' >= now
      /\ fault' \in {"none", "null", "divide", "exit"}
  <2>1. now \in Nat /\ alarm \in Int /\ pend \in BOOLEAN /\ intr \in BOOLEAN
        /\ fault \in {"none", "null", "divide", "exit"}
    BY DEF AltInv, DataTypes
  <2>2. intr' = intr /\ fault' = fault
    BY <1>2
  <2>3. \/ now' = now + 1 /\ alarm' = alarm /\ pend' = pend
        \/ now' = now /\ alarm' = -1 /\ pend' = TRUE
    BY <1>1 DEF NoTime
  <2>4. pend' \in BOOLEAN /\ intr' \in BOOLEAN
    BY <2>1, <2>2, <2>3, Zenon
  <2>5. now' \in Nat /\ alarm' \in Int /\ now' >= now
    BY <2>1, <2>3
  <2>6. QED BY <2>1, <2>2, <2>4, <2>5
<1>4. AltInv' /\ Aside
  BY <1>2, <1>3, Rests
<1>5. QED BY <1>1, <1>2, <1>3, <1>4

-----------------------------------------------------------------------------
\* The RTC code.

\* What a run of it may do.
RunOf(p, act) ==
  /\ act \in Acts /\ act.active \subseteq Branches(p)
  /\ act.connect = {} \/ \E s \in -1 .. NrGuards[p] - 1 : act \in Program[p][s]

LEMMA RtcChoice ==
  ASSUME AltInv, RtcEnter
  PROVE  \E act, f :
           /\ RunOf(Top.proc, act) /\ f = [Top EXCEPT !.pc = "rtcRest", !.act = act]
           /\ \/ /\ act.start \in Procs /\ state[act.start] = "unstarted" /\ start(act.start, f)
                 /\ handlers' = handlers
              \/ /\ Goto(f) /\ UNCHANGED <<state, rq, freed, altVars, timeout, intr, handlers>>
              \/ /\ act.send \in Intrs /\ Call(f, HandlerFrame(act.send)) /\ intr' = FALSE /\ handlers' = handlers + 1
                 /\ UNCHANGED <<state, rq, freed, altVars, timeout>>
<1> DEFINE p == Top.proc
           s == Selected
           known == s \in -1 .. NrGuards[p] - 1
<1>1. At("rtc") /\ Top.pc = "rtc"
  BY DEF RtcEnter, At
<1>2. p \in Procs
  BY <1>1, AtFacts DEF AltInv, UrgencyInv, ProcPcs, SchedulePcs
<1>3. PICK act \in IF known THEN Program[p][s] ELSE {[NoAct EXCEPT !.active = active[p]]} :
        LET f == [Top EXCEPT !.pc = "rtcRest", !.act = act]
        IN  \/ /\ Startable(act.start)
               /\ start(act.start, f)
               /\ UNCHANGED handlers
            \/ /\ ~Startable(act.start)
               /\ IF act.send = None
                  THEN Goto(f) /\ UNCHANGED <<intr, handlers>>
                  ELSE /\ Call(f, HandlerFrame(act.send))
                       /\ intr' = FALSE
                       /\ handlers' = handlers + 1
               /\ UNCHANGED <<state, rq, freed, altVars, timeout>>
  BY Zenon DEF RtcEnter
<1> HIDE DEF s
<1>4. RunOf(p, act)
  <2>1. CASE known
    <3>1. s \in -1 .. NrGuards[p] - 1 /\ act \in Program[p][s]
      BY <1>3, <2>1
    <3>2. act \in Acts /\ act.active \subseteq Branches(p)
      BY <1>2, <3>1, ApplicationAssumption
    <3>3. QED BY <3>1, <3>2 DEF RunOf
  <2>2. CASE ~known
    <3>1. act = [NoAct EXCEPT !.active = active[p]]
      BY <1>3, <2>2
    <3>2. active[p] \subseteq Branches(p) /\ active[p] \subseteq 0 .. 255
      BY <1>2 DEF AltInv, Fits, AltFits, DataTypes
    <3>3. act = [alt |-> FALSE, active |-> active[p], start |-> NoProc, send |-> None,
                 connect |-> {}, disconnect |-> {}, delay |-> 0, term |-> FALSE]
      BY <3>1 DEF NoAct
    <3>4. \A on \in SUBSET (0 .. 255) :
            [alt |-> FALSE, active |-> on, start |-> NoProc, send |-> None,
             connect |-> {}, disconnect |-> {}, delay |-> 0, term |-> FALSE] \in Acts
      BY DEF Acts
    <3>5. act \in Acts /\ act.active = active[p] /\ act.connect = {}
      BY <3>2, <3>3, <3>4
    <3>6. QED BY <3>2, <3>5 DEF RunOf
  <2>3. QED BY <2>1, <2>2
<1> DEFINE f == [Top EXCEPT !.pc = "rtcRest", !.act = act]
<1>5. \/ Startable(act.start) /\ start(act.start, f) /\ handlers' = handlers
      \/ act.send = None /\ Goto(f) /\ UNCHANGED <<state, rq, freed, altVars, timeout, intr, handlers>>
      \/ /\ act.send # None /\ Call(f, HandlerFrame(act.send)) /\ intr' = FALSE /\ handlers' = handlers + 1
         /\ UNCHANGED <<state, rq, freed, altVars, timeout>>
  BY <1>3, Zenon
<1>6. Startable(act.start) => act.start \in Procs /\ state[act.start] = "unstarted"
  BY DEF Startable, AltInv, DataTypes
<1>7. act.send # None => act.send \in Intrs
  BY <1>4 DEF RunOf, Acts
<1>8. PICK e : e = f
  OBVIOUS
<1> HIDE DEF f
<1>9. /\ RunOf(p, act)
      /\ \/ /\ act.start \in Procs /\ state[act.start] = "unstarted" /\ start(act.start, e)
            /\ handlers' = handlers
         \/ /\ Goto(e) /\ UNCHANGED <<state, rq, freed, altVars, timeout, intr, handlers>>
         \/ /\ act.send \in Intrs /\ Call(e, HandlerFrame(act.send)) /\ intr' = FALSE /\ handlers' = handlers + 1
            /\ UNCHANGED <<state, rq, freed, altVars, timeout>>
  BY <1>4, <1>5, <1>6, <1>7, <1>8
<1>10. e = [Top EXCEPT !.pc = "rtcRest", !.act = act]
  BY <1>8 DEF f
<1>11. QED BY <1>9, <1>10, Zenon

LEMMA RtcSent ==
  ASSUME AltInv, RtcEnter
  PROVE  /\ sent' \in [Chans -> 0 .. MsgMod - 1] /\ Top.proc \in Procs /\ Top.pc = "rtc" /\ Top.fn = "schedule"
         /\ UNCHANGED <<current, chan, ichan, connected, got, now, timerQ, alarm, pend, fault>>
<1> DEFINE p == Top.proc
           s == Selected
<1>1. At("rtc") /\ Top.pc = "rtc"
  BY DEF RtcEnter, At
<1>2. p \in Procs /\ Top.fn = "schedule"
  BY <1>1, AtFacts, Here DEF AltInv, UrgencyInv, ProcPcs, SchedulePcs
<1>3. /\ sent' = IF s \in -1 .. NrGuards[p] - 1 /\ s >= 0 /\ Guards[p][s].type = "chanout"
                 THEN [sent EXCEPT ![Guards[p][s].ch] = plus1_mod(@, MsgMod)] ELSE sent
      /\ UNCHANGED <<current, chan, ichan, connected, got, now, timerQ, alarm, pend, fault>>
  BY DEF RtcEnter
<1>4. sent \in [Chans -> 0 .. MsgMod - 1]
  BY DEF AltInv, DataTypes
<1> HIDE DEF s
<1>5. CASE s \in -1 .. NrGuards[p] - 1 /\ s >= 0 /\ Guards[p][s].type = "chanout"
  <2>1. s \in Branches(p)
    <3>1. NrGuards[p] \in 0 .. 255
      BY <1>2, ApplicationAssumption
    <3>2. QED BY <1>5, <3>1 DEF Branches
  <2>2. Guards[p][s].ch \in Chans
    BY <1>2, <1>5, <2>1, GuardFacts
  <2>3. [sent EXCEPT ![Guards[p][s].ch] = plus1_mod(@, MsgMod)] \in [Chans -> 0 .. MsgMod - 1]
    BY <1>4, <2>2, Counted
  <2>4. QED BY <1>1, <1>2, <1>3, <1>5, <2>3
<1>6. CASE ~(s \in -1 .. NrGuards[p] - 1 /\ s >= 0 /\ Guards[p][s].type = "chanout")
  BY <1>1, <1>2, <1>3, <1>4, <1>6
<1>7. QED BY <1>5, <1>6

LEMMA RtcEnterInv ==
  ASSUME AltInv, UrgencyInv', RtcEnter
  PROVE  /\ AltInv' /\ Top.proc \in Procs /\ Top.pc = "rtc"
         /\ UNCHANGED <<chan, ichan, connected, got, now, timerQ>>
         /\ \E act, f : /\ RunOf(Top.proc, act) /\ f.pc = "rtcRest" /\ f.act = act
                        /\ f.partner = Top.partner /\ f.flag = Top.flag
                        /\ view' = [q \in Procs |-> IF q = Top.proc THEN f ELSE view[q]]
         /\ Kept(Top.proc) /\ state'[Top.proc] = state[Top.proc]
         /\ \A q \in Procs : Kept(q) \/ Begins(q)
<1> DEFINE p == Top.proc
<1>1. /\ sent' \in [Chans -> 0 .. MsgMod - 1] /\ p \in Procs /\ Top.pc = "rtc" /\ Top.fn = "schedule"
      /\ UNCHANGED <<current, chan, ichan, connected, got, now, timerQ, alarm, pend, fault>>
  BY RtcSent
<1>2. PICK act, f :
        /\ RunOf(p, act) /\ f = [Top EXCEPT !.pc = "rtcRest", !.act = act]
        /\ \/ /\ act.start \in Procs /\ state[act.start] = "unstarted" /\ start(act.start, f)
              /\ handlers' = handlers
           \/ /\ Goto(f) /\ UNCHANGED <<state, rq, freed, altVars, timeout, intr, handlers>>
           \/ /\ act.send \in Intrs /\ Call(f, HandlerFrame(act.send)) /\ intr' = FALSE /\ handlers' = handlers + 1
              /\ UNCHANGED <<state, rq, freed, altVars, timeout>>
  BY RtcChoice, Zenon
<1>3. /\ IsFrame(Top) /\ Typed(Top) /\ Top.partner \in Alting \cup {NoProc} /\ ~Counts(Top)
      /\ AltFits(p, Top, state[p], alt[p], active[p], timeout[p]) /\ p # NoProc /\ p # Idle
      /\ act \in Acts
  BY <1>1, <1>2, Here DEF RunOf
<1>4. /\ Typed(f) /\ f.fn = "schedule" /\ f.proc = p /\ f.partner = Top.partner /\ f.pc = "rtcRest"
      /\ f.flag = Top.flag /\ f.act = act /\ ~Counts(f)
  <2> DEFINE a == [Top EXCEPT !.pc = "rtcRest"]
  <2>1. /\ IsFrame(a) /\ Typed(a) /\ a.fn = "schedule" /\ a.pc = "rtcRest" /\ a.partner = Top.partner
        /\ a.flag = Top.flag /\ a.proc = p
    BY <1>1, <1>3, TypedFrames DEF IsFrame
  <2>2. f = [a EXCEPT !.act = act]
    BY <1>2
  <2> HIDE DEF a
  <2>3. QED BY <1>3, <2>1, <2>2, TypedFrames DEF IsFrame, Counts
<1>5. AltFits(p, f, state[p], alt[p], active[p], timeout[p])
  <2>1. state[p] \in IF Top.flag THEN {"quiescent", "ready"} ELSE {"initial"}
    BY <1>1, <1>3 DEF AltFits, StateFits
  <2>2. act.active \subseteq Branches(p)
    BY <1>2 DEF RunOf
  <2>3. StateFits(p, f, state[p], alt[p])
    BY <1>3, <1>4, <2>1 DEF AltFits, StateFits
  <2>4. LoopFits(p, f, alt[p], active[p], timeout[p])
    BY <1>4, <2>2 DEF LoopFits
  <2>5. QED BY <1>3, <2>3, <2>4 DEF AltFits
<1>6. UrgencyInv /\ StackInv /\ StackShape /\ ViewOK /\ ViewOK' /\ FrameTypes
  BY Views, ViewsNext DEF AltInv, UrgencyInv, StackInv
<1>7. CASE act.start \in Procs /\ state[act.start] = "unstarted" /\ start(act.start, f) /\ handlers' = handlers
  <2> DEFINE r == act.start
             g == StartFrame(r)
  <2>1. r \in Procs /\ state[r] = "unstarted" /\ r # p
    <3>1. state[p] # "unstarted"
      BY <1>1, <1>3 DEF AltFits, StateFits
    <3>2. QED BY <1>7, <3>1
  <2>2. g.proc = NoProc /\ Typed(g) /\ g.fn = "start" /\ ~Counts(g)
    <3>1. g.proc = NoProc
      BY DEF StartFrame, Frame
    <3>2. QED BY <2>1, <3>1, NewTyped DEF Counts
  <2>3. /\ Begins(r) /\ (\A q \in Procs : q # r => Kept(q))
        /\ Alting' = Alting /\ DataTypes' /\ WaiterTypes' /\ Call(f, g)
    <3>1. start(r, f) /\ state[r] \in {"unstarted", "initial"}
      BY <1>7
    <3> HIDE DEF r
    <3>2. QED BY <1>1, <2>1, <3>1, StartFacts
  <2>4. state'[p] = state[p]
    <3>1. state' = [state EXCEPT ![r] = "initial"]
      BY <1>7 DEF start
    <3> HIDE DEF r
    <3>2. p \in Records /\ state \in [Records -> {"unstarted", "initial", "quiescent", "enabling", "waiting", "ready"}]
      BY <1>1 DEF AltInv, UrgencyInv, NoneEnds, Records
    <3>3. QED BY <2>1, <3>1, <3>2
  <2> HIDE DEF r, g
  <2>5. /\ Len(stack') = Len(stack) + 1
        /\ \A n \in Frames : stack'[n] = IF n = Len(stack) THEN f ELSE stack[n]
        /\ stack'[Len(stack) + 1] = g
    BY <1>6, <2>3, CallSeq
  <2>6. view' = [q \in Procs |-> IF q = p THEN f ELSE view[q]]
    <3>1. view' = [q \in Procs |-> IF q = f.proc THEN f ELSE view[q]]
      BY <1>4, <1>6, <2>2, <2>5, PushView
    <3>2. QED BY <1>4, <3>1
  <2>7. Fits'
    <3>1. ASSUME NEW q \in Procs
          PROVE  AltFits(q, view'[q], state'[q], alt'[q], active'[q], timeout'[q])
      <4>1. CASE q = p
        <5>1. view'[p] = f /\ alt'[p] = alt[p] /\ active'[p] = active[p] /\ timeout'[p] = timeout[p]
          BY <1>1, <2>1, <2>3, <2>6 DEF Kept
        <5>2. QED BY <1>5, <2>4, <4>1, <5>1
      <4>2. CASE q = r
        <5>1. view'[q] = view[q] /\ Fits /\ Begins(q)
          BY <2>1, <2>3, <2>6, <3>1, <4>2 DEF AltInv
        <5>2. QED BY <3>1, <5>1, BeginsFits
      <4>3. CASE q # p /\ q # r
        <5>1. view'[q] = view[q] /\ Fits /\ Kept(q)
          BY <2>3, <2>6, <3>1, <4>3 DEF AltInv
        <5>2. QED BY <3>1, <5>1, KeptFits
      <4>4. QED BY <4>1, <4>2, <4>3
    <3>2. QED BY <3>1 DEF Fits, AltFits, StateFits, LoopFits, HasAlt
  <2>8. FrameTypes'
    <3>1. handlers \in Nat
      BY <1>6, CountedHandlers DEF FrameTypes
    <3>2. handlers' = handlers + (IF Counts(g) THEN 1 ELSE 0) - (IF Counts(Top) /\ ~Counts(f) THEN 1 ELSE 0)
      BY <1>3, <1>7, <2>2, <3>1
    <3>3. QED BY <1>3, <1>4, <1>6, <2>2, <2>3, <2>5, <3>2, PushTypes
  <2>9. AltInv'
    BY <2>3, <2>7, <2>8 DEF AltInv
  <2>10. Kept(p) /\ \A q \in Procs : Kept(q) \/ Begins(q)
    BY <1>1, <2>1, <2>3
  <2>11. QED BY <1>1, <1>2, <1>4, <2>4, <2>6, <2>9, <2>10
<1>8. ASSUME UNCHANGED <<state, rq, freed, altVars, timeout>>, intr' \in BOOLEAN,
             \/ Goto(f) /\ handlers' = handlers
             \/ act.send \in Intrs /\ Call(f, HandlerFrame(act.send)) /\ handlers' = handlers + 1
      PROVE  /\ AltInv' /\ Runs(p, f) /\ state'[p] = state[p] /\ \A q \in Procs : Kept(q)
  <2>1. (\A q \in Procs : Kept(q)) /\ Alting' = Alting
    BY <1>8, SameAlting DEF Kept, altVars
  <2>2. WaiterTypes' /\ Alting \subseteq Alting'
    BY <1>1, <2>1, SameWaiters
  <2>3. DataTypes'
    BY <1>1, <1>8 DEF AltInv, DataTypes, altVars
  <2>4. AltFits(p, f, state'[p], alt'[p], active'[p], timeout'[p])
    BY <1>5, <1>8 DEF altVars
  <2>5. f.partner \in Alting \cup {NoProc}
    BY <1>3, <1>4
  <2>6. CASE Goto(f) /\ handlers' = handlers
    <3>1. AltInv' /\ Runs(p, f)
      BY <1>1, <1>4, <2>1, <2>2, <2>3, <2>4, <2>5, <2>6, Goes
    <3>2. QED BY <1>8, <2>1, <3>1
  <2>7. CASE act.send \in Intrs /\ Call(f, HandlerFrame(act.send)) /\ handlers' = handlers + 1
    <3> DEFINE h == HandlerFrame(act.send)
    <3>1. h.proc = NoProc /\ Typed(h) /\ h.partner = NoProc /\ Counts(h)
      <4>1. h.proc = NoProc
        BY DEF HandlerFrame, Frame
      <4>2. QED BY <2>7, <4>1, NewTyped
    <3>2. Call(f, h)
      BY <2>7
    <3> HIDE DEF h
    <3>3. handlers' = handlers + (IF Counts(h) THEN 1 ELSE 0) /\ (h.fn # "start" => h.partner = NoProc)
      BY <2>7, <3>1
    <3>4. AltInv' /\ Runs(p, f)
      BY <1>1, <1>4, <2>1, <2>2, <2>3, <2>4, <2>5, <3>1, <3>2, <3>3, Calls
    <3>5. QED BY <1>8, <2>1, <3>4
  <2>8. QED BY <1>8, <2>6, <2>7
<1>9. CASE \/ /\ Goto(f) /\ UNCHANGED <<state, rq, freed, altVars, timeout, intr, handlers>>
           \/ /\ act.send \in Intrs /\ Call(f, HandlerFrame(act.send)) /\ intr' = FALSE /\ handlers' = handlers + 1
              /\ UNCHANGED <<state, rq, freed, altVars, timeout>>
  <2>1. AltInv' /\ Runs(p, f) /\ state'[p] = state[p] /\ \A q \in Procs : Kept(q)
    <3>1. intr' \in BOOLEAN
      BY <1>9 DEF AltInv, DataTypes
    <3>2. QED BY <1>8, <1>9, <3>1
  <2>2. view' = [q \in Procs |-> IF q = p THEN f ELSE view[q]]
    BY <2>1 DEF Runs
  <2>3. QED BY <1>1, <1>2, <1>4, <2>1, <2>2
<1>10. QED BY <1>2, <1>7, <1>9

LEMMA SeqGrows ==
  ASSUME NEW S, NEW T, S \subseteq T, NEW q \in Seq(S)
  PROVE  q \in Seq(T)
OBVIOUS

\* Who waits has an ALT, when more processes have one.
LEMMA MoreAlting ==
  ASSUME AltInv, Alting \subseteq Alting', UNCHANGED <<chan, timerQ>>,
         ichan' \in [Intrs -> [waiting : Alting \cup {NoProc}, count : Nat]]
  PROVE  WaiterTypes'
<1> DEFINE S == Alting \cup {NoProc}
           T == Alting' \cup {NoProc}
<1>1. S \subseteq T
  OBVIOUS
<1>2. /\ chan \in [Chans -> [waiting : S, src : Procs \cup {NoProc}]]
      /\ ichan' \in [Intrs -> [waiting : S, count : Nat]]
  BY DEF AltInv, WaiterTypes
<1>3. timerQ \in Seq([time : Nat, proc : Alting'])
  <2>1. timerQ \in Seq([time : Nat, proc : Alting]) /\ [time : Nat, proc : Alting] \subseteq [time : Nat, proc : Alting']
    BY DEF AltInv, WaiterTypes
  <2>2. QED BY <2>1, SeqGrows
<1> HIDE DEF S, T
<1>4. [waiting : S, src : Procs \cup {NoProc}] \subseteq [waiting : T, src : Procs \cup {NoProc}]
      /\ [waiting : S, count : Nat] \subseteq [waiting : T, count : Nat]
  BY <1>1
<1>5. /\ chan \in [Chans -> [waiting : T, src : Procs \cup {NoProc}]]
      /\ ichan' \in [Intrs -> [waiting : T, count : Nat]]
  BY <1>2, <1>4
<1>6. QED BY <1>3, <1>5 DEF WaiterTypes, T

LEMMA RtcRestInv ==
  ASSUME AltInv, UrgencyInv', RtcRest
  PROVE  /\ AltInv' /\ Top.proc \in Procs /\ Top.pc = "rtcRest" /\ Top.act \in Acts
         /\ UNCHANGED <<chan, sent, got, now, timerQ>>
         /\ ichan' = [u \in Intrs |-> IF u \in Top.act.connect THEN [waiting |-> NoProc, count |-> 0] ELSE ichan[u]]
         /\ \E f : Runs(Top.proc, f) /\ f.pc = "finish" /\ f.partner = Top.partner
         /\ state'[Top.proc] \in {"quiescent", state[Top.proc]}
         /\ active'[Top.proc] = Top.act.active
<1> DEFINE p == Top.proc
           act == Top.act
           f == [Top EXCEPT !.pc = "finish", !.act = NoAct]
           a == [Top EXCEPT !.pc = "finish"]
<1>1. At("rtcRest") /\ Top.pc = "rtcRest"
  BY DEF RtcRest, At
<1>2. p \in Procs
  BY <1>1, AtFacts DEF AltInv, UrgencyInv, ProcPcs, SchedulePcs
<1>3. /\ IsFrame(Top) /\ Typed(Top) /\ Top.partner \in Alting \cup {NoProc} /\ Top.fn = "schedule"
      /\ AltFits(p, Top, state[p], alt[p], active[p], timeout[p]) /\ p # NoProc /\ current = p
      /\ act \in Acts /\ p \in Records
  BY <1>1, <1>2, Here DEF Typed, Records
<1>4. ~act.term
  <2>1. StackInv /\ LinkInv
    BY DEF AltInv, UrgencyInv
  <2>2. KindOK(Top)
    BY <2>1, Stacked DEF LinkInv, Linkage
  <2>3. QED BY <1>1, <1>3, <2>2 DEF KindOK
<1>5. /\ active' = [active EXCEPT ![p] = act.active]
      /\ alt' = IF ~act.alt THEN alt
                ELSE [alt EXCEPT ![p].guards = p, ![p].index = IF p \in AltPri THEN @ ELSE NrGuards[p] - 1]
      /\ timeout' = IF act.delay = 0 THEN timeout ELSE [timeout EXCEPT ![p] = [time |-> Now + act.delay, proc |-> p]]
      /\ ichan' = [u \in Intrs |-> IF u \in act.connect THEN [waiting |-> NoProc, count |-> 0] ELSE ichan[u]]
      /\ connected' = (connected \cup act.connect) \ act.disconnect
      /\ state' = IF Top.flag THEN state ELSE [state EXCEPT ![p] = "quiescent"]
      /\ Goto(f)
      /\ UNCHANGED <<rq, current, freed, chan, sent, got, now, timerQ, alarm, pend, intr, handlers, fault>>
  BY <1>3, <1>4, Zenon DEF RtcRest
<1>6. /\ Typed(f) /\ f.fn = "schedule" /\ f.proc = p /\ f.partner = Top.partner /\ f.pc = "finish"
  <2>1. /\ IsFrame(a) /\ Typed(a) /\ a.fn = "schedule" /\ a.pc = "finish" /\ a.partner = Top.partner /\ a.proc = p
    BY <1>3, TypedFrames DEF IsFrame
  <2>2. f = [a EXCEPT !.act = NoAct]
    OBVIOUS
  <2>3. NoAct \in Acts
    BY DEF NoAct, Acts
  <2> HIDE DEF a, f
  <2>4. QED BY <2>1, <2>2, <2>3, TypedFrames DEF IsFrame
<1> HIDE DEF f
<1>7. /\ state \in [Records -> {"unstarted", "initial", "quiescent", "enabling", "waiting", "ready"}]
      /\ alt \in [Records -> [guards : Procs \cup {NoProc}, index : Int, count : Int]]
      /\ active \in [Procs -> SUBSET (0 .. 255)] /\ Now \in Nat
      /\ timeout \in [Procs -> [time : Nat, proc : Procs \cup {NoProc}]]
      /\ ichan \in [Intrs -> [waiting : Alting \cup {NoProc}, count : Nat]] /\ connected \subseteq Intrs
  BY NowOK DEF AltInv, DataTypes, UrgencyInv, NoneEnds, WaiterTypes
<1>8. /\ act.active \in SUBSET (0 .. 255) /\ act.delay \in Nat /\ act.connect \subseteq Intrs
      /\ act.active \subseteq Branches(p) /\ NrGuards[p] \in 0 .. 255
  <2>1. act.active \subseteq Branches(p)
    BY <1>1, <1>3 DEF AltFits, LoopFits
  <2>2. NrGuards[p] \in 0 .. 255
    BY <1>2, ApplicationAssumption
  <2> HIDE DEF act
  <2>3. QED BY <1>3, <2>1, <2>2 DEF Acts
<1> HIDE DEF act
<1>9. /\ active' \in [Procs -> SUBSET (0 .. 255)] /\ active'[p] = act.active
      /\ \A q \in Procs : q # p => active'[q] = active[q]
  BY <1>2, <1>5, <1>7, <1>8
<1>10. /\ timeout' \in [Procs -> [time : Nat, proc : Procs \cup {NoProc}]]
       /\ timeout'[p].proc \in {p, NoProc} /\ (timeout'[p].time > 0 => timeout'[p].proc = p)
       /\ \A q \in Procs : q # p => timeout'[q] = timeout[q]
  <2>1. timeout[p].proc \in {p, NoProc} /\ (timeout[p].time > 0 => timeout[p].proc = p)
    BY <1>3 DEF AltFits
  <2>2. CASE act.delay = 0
    BY <1>5, <1>7, <2>1, <2>2
  <2>3. CASE act.delay # 0
    <3>1. [time |-> Now + act.delay, proc |-> p] \in [time : Nat, proc : Procs \cup {NoProc}]
      BY <1>2, <1>7, <1>8
    <3>2. timeout' = [timeout EXCEPT ![p] = [time |-> Now + act.delay, proc |-> p]]
      BY <1>5, <2>3
    <3>3. QED BY <1>2, <1>7, <3>1, <3>2
  <2>4. QED BY <2>2, <2>3
<1>11. /\ alt' \in [Records -> [guards : Procs \cup {NoProc}, index : Int, count : Int]]
       /\ alt'[p].guards \in {p, alt[p].guards} /\ alt'[p].count = alt[p].count
       /\ alt'[p].index \in {NrGuards[p] - 1, alt[p].index}
       /\ \A q \in Records : q # p => alt'[q] = alt[q]
  <2>1. CASE ~act.alt
    BY <1>5, <1>7, <2>1
  <2>2. CASE act.alt
    <3> DEFINE b == [alt EXCEPT ![p].guards = p]
               n == IF p \in AltPri THEN b[p].index ELSE NrGuards[p] - 1
    <3>1. /\ b \in [Records -> [guards : Procs \cup {NoProc}, index : Int, count : Int]]
          /\ b[p].guards = p /\ b[p].count = alt[p].count /\ b[p].index = alt[p].index
          /\ \A q \in Records : q # p => b[q] = alt[q]
      <4>1. alt[p] \in [guards : Procs \cup {NoProc}, index : Int, count : Int]
        BY <1>3, <1>7
      <4>2. [alt[p] EXCEPT !.guards = p] \in [guards : Procs \cup {NoProc}, index : Int, count : Int]
        BY <1>2, <4>1
      <4>3. QED BY <1>3, <1>7, <4>1, <4>2
    <3>2. alt' = [b EXCEPT ![p].index = n]
      BY <1>5, <2>2
    <3> HIDE DEF b
    <3>3. n \in Int /\ n \in {NrGuards[p] - 1, alt[p].index}
      <4>1. b[p] \in [guards : Procs \cup {NoProc}, index : Int, count : Int] /\ NrGuards[p] - 1 \in Int
        BY <1>3, <1>8, <3>1
      <4>2. QED BY <3>1, <4>1
    <3> HIDE DEF n
    <3>4. b[p] \in [guards : Procs \cup {NoProc}, index : Int, count : Int]
      BY <1>3, <3>1
    <3>5. [b[p] EXCEPT !.index = n] \in [guards : Procs \cup {NoProc}, index : Int, count : Int]
      BY <3>3, <3>4
    <3>6. QED BY <1>3, <3>1, <3>2, <3>3, <3>4, <3>5
  <2>3. QED BY <2>1, <2>2
<1>12. /\ state'[p] \in {"quiescent", "ready"} /\ state'[p] \in {"quiescent", state[p]}
       /\ (state'[p] = "ready" => HasAlt(p, alt[p]))
       /\ \A q \in Procs : q # p => state'[q] = state[q]
  <2>1. /\ state[p] \in IF Top.flag THEN {"quiescent", "ready"} ELSE {"initial"}
        /\ state[p] = "ready" => HasAlt(p, alt[p])
    BY <1>1, <1>3 DEF AltFits, StateFits
  <2>2. QED BY <1>3, <1>5, <1>7, <2>1
<1>13. \A q \in Procs : q # p => Kept(q)
  BY <1>9, <1>10, <1>11, <1>12 DEF Kept, Records
<1>14. Alting \subseteq Alting'
  <2>1. \A q \in Procs : HasAlt(q, alt[q]) => HasAlt(q, alt'[q])
    BY <1>11 DEF HasAlt, Records
  <2>2. QED BY <2>1 DEF Alting, HasAlt
<1>15. WaiterTypes'
  <2>1. ichan' \in [Intrs -> [waiting : Alting \cup {NoProc}, count : Nat]]
    BY <1>5, <1>7
  <2>2. QED BY <1>5, <1>14, <2>1, MoreAlting
<1>16. DataTypes'
  <2>1. connected' \subseteq Intrs
    BY <1>5, <1>7, <1>8
  <2>2. QED BY <1>5, <1>9, <1>10, <1>11, <2>1 DEF AltInv, DataTypes
<1>17. AltFits(p, f, state'[p], alt'[p], active'[p], timeout'[p])
  <2>1. StateFits(p, f, state'[p], alt'[p])
    BY <1>6, <1>11, <1>12 DEF StateFits, HasAlt
  <2>2. LoopFits(p, f, alt'[p], active'[p], timeout'[p])
    BY <1>6 DEF LoopFits
  <2>3. alt'[p].guards \in {NoProc, p}
    BY <1>3, <1>11 DEF AltFits
  <2>4. NrGuards[p] > 0 => alt'[p].index \in Branches(p) /\ alt'[p].count \in Branches(p)
    <3>1. NrGuards[p] > 0 => NrGuards[p] - 1 \in Branches(p)
      BY <1>8 DEF Branches
    <3>2. NrGuards[p] > 0 => alt[p].index \in Branches(p) /\ alt[p].count \in Branches(p)
      BY <1>3 DEF AltFits
    <3>3. QED BY <1>11, <3>1, <3>2
  <2>5. QED BY <1>8, <1>9, <1>10, <2>1, <2>2, <2>3, <2>4 DEF AltFits
<1>18. f.partner \in Alting \cup {NoProc} /\ handlers' = handlers
  BY <1>3, <1>5, <1>6
<1>19. AltInv' /\ Runs(p, f)
  BY <1>2, <1>5, <1>6, <1>13, <1>14, <1>15, <1>16, <1>17, <1>18, Goes
<1>20. QED BY <1>1, <1>2, <1>3, <1>5, <1>6, <1>9, <1>12, <1>19 DEF act

-----------------------------------------------------------------------------
\* The invariant holds of every orderly application.

LEMMA InitAlt == Orderly /\ Init => AltInv
<1> SUFFICES ASSUME Orderly, Init PROVE AltInv
  OBVIOUS
<1> DEFINE f == Frame("main", "main", 0, None)
<1>1. UrgencyInv /\ StackInv
  BY InitStackInv, InitUrgency, InitTime DEF UrgencyInv, Urgent
<1>2. stack = <<f>> /\ handlers = 0
  BY DEF Init
<1>3. f.fn = "main" /\ f.proc = NoProc /\ f.partner = NoProc /\ Typed(f)
  <2>1. f.fn = "main" /\ f.proc = NoProc /\ f.partner = NoProc
    BY DEF Frame
  <2>2. QED BY <2>1, NewTyped
<1> HIDE DEF f
<1>4. Frames = {1} /\ stack[1] = f
  BY <1>2 DEF Frames
<1>5. Alting = {}
  BY RecordAssumption DEF Init, Alting, HasAlt, Records
<1>6. FrameTypes
  <2>1. Handlers = {}
    BY <1>3, <1>4 DEF Handlers
  <2>2. Cardinality(Handlers) = 0
    BY <2>1, FS_EmptySet
  <2>3. QED BY <1>2, <1>3, <1>4, <2>2 DEF FrameTypes
<1>7. WaiterTypes
  BY <1>5 DEF Init, WaiterTypes
<1>8. DataTypes
  <2>1. MsgMod \in Nat \ {0}
    BY ApplicationAssumption
  <2>2. 0 \in 0 .. MsgMod - 1
    BY <2>1
  <2>3. /\ alt \in [Records -> [guards : Procs \cup {NoProc}, index : Int, count : Int]]
        /\ timeout \in [Procs -> [time : Nat, proc : Procs \cup {NoProc}]]
    BY DEF Init
  <2>4. active \in [Procs -> SUBSET (0 .. 255)] /\ freed = {} /\ connected = {}
    BY DEF Init
  <2>5. sent \in [Chans -> 0 .. MsgMod - 1] /\ got \in [Chans -> 0 .. MsgMod - 1]
    BY <2>2 DEF Init
  <2>6. now \in Nat /\ alarm \in Int /\ fault = "none"
    BY DEF Init, NoTime
  <2>7. pend \in BOOLEAN /\ intr \in BOOLEAN
    BY Zenon DEF Init
  <2>8. QED BY <2>3, <2>4, <2>5, <2>6, <2>7 DEF DataTypes
<1>9. Fits
  <2>1. ASSUME NEW p \in Procs
        PROVE  AltFits(p, view[p], state[p], alt[p], active[p], timeout[p])
    <3> DEFINE a == view[p]
    <3>1. a = Off
      <4>1. ViewOK
        BY <1>1, Views
      <4>2. \A n \in Frames : stack[n].proc # p
        BY <1>3, <1>4, RecordAssumption DEF Records
      <4>3. QED BY <4>1, <4>2 DEF ViewOK
    <3>2. a.pc = "off"
      BY <3>1 DEF Off, Frame
    <3> HIDE DEF a
    <3>3. state[p] \in {"unstarted", "initial"} /\ alt[p] = [guards |-> NoProc, index |-> 0, count |-> 0]
          /\ active[p] = {} /\ timeout[p] = [time |-> 0, proc |-> NoProc]
      BY DEF Init, Records
    <3>4. NrGuards[p] > 0 => 0 \in Branches(p)
      <4>1. NrGuards[p] \in 0 .. 255
        BY ApplicationAssumption
      <4>2. QED BY <4>1 DEF Branches
    <3>5. AltFits(p, a, state[p], alt[p], active[p], timeout[p])
      BY <3>2, <3>3, <3>4 DEF AltFits, StateFits, LoopFits
    <3>6. QED BY <3>5 DEF a
  <2>2. QED BY <2>1, Zenon DEF Fits
<1>10. QED BY <1>1, <1>6, <1>7, <1>8, <1>9 DEF AltInv

\* The steps that move neither the activations nor the clock.
LEMMA StillInv ==
  ASSUME AltInv, UrgencyInv', DISABLE \/ SigReturn \/ UNCHANGED vars
  PROVE  AltInv' /\ Aside /\ UNCHANGED <<rq, state, ichan, now, timerQ, stack>>
<1>1. /\ UNCHANGED <<procVars, altVars, ioVars, timeVars, handlers, stack, fault>>
      /\ intr' \in {FALSE, intr}
  BY DEF DISABLE, SigReturn, vars, cpuVars
<1>2. /\ UNCHANGED <<state, alt, active, freed, connected, sent, got, timeout, chan, ichan, timerQ, handlers, stack>>
      /\ UNCHANGED <<rq, now, alarm, pend, fault>>
  BY <1>1 DEF procVars, altVars, ioVars, timeVars
<1>3. now' \in Nat /\ alarm' \in Int /\ pend' \in BOOLEAN /\ intr' \in BOOLEAN
      /\ fault' \in {"none", "null", "divide", "exit"}
  BY <1>1, <1>2 DEF AltInv, DataTypes
<1>4. QED BY <1>2, <1>3, Rests

LEMMA NextAlt ==
  ASSUME AltInv, UrgencyInv', [Next]_vars
  PROVE  AltInv'
<1>1. CASE MainStep
  BY <1>1, MainStartInv, MainRunInv DEF MainStep
<1>2. CASE StartStep
  BY <1>2, StartStepInv
<1>3. CASE ScheduleStep
  <2>1. CASE SelectSame \/ SelectNone \/ SelectNew \/ Take
    BY <2>1, SelectSameInv, SelectNoneInv, SelectNewInv, TakeAltInv
  <2>2. CASE Load \/ Finish \/ NoPartner \/ WakePartner \/ PartnerReturn
    BY <2>2, LoadInv, FinishInv, PartnerEndInv, WakePartnerInv
  <2>3. QED BY <1>3, <2>1, <2>2 DEF ScheduleStep
<1>4. CASE RtcStep
  BY <1>4, RtcEnterInv, RtcRestInv DEF RtcStep
<1>5. CASE EnableStep
  <2>1. CASE EnableBegin \/ EnableInactive \/ EnableChanIn \/ EnableChanOut \/ EnableSkip
    BY <2>1, EnableBeginInv, EnableInactiveInv, EnableChanInInv, EnableChanOutInv, EnableSkipInv
  <2>2. CASE EnableTimeout \/ EnableInsert \/ EnableIntr \/ EnableEnd \/ EnableDone
    BY <2>2, EnableTimeoutInv, EnableInsertInv, EnableIntrInv, EnableEndInv, EnableDoneInv
  <2>3. QED BY <1>5, <2>1, <2>2 DEF EnableStep
<1>6. CASE DisableStep
  <2>1. CASE DisableInactive \/ DisableChanIn \/ DisableOutOrSkip \/ DisableTimeout
    BY <2>1, DisableInactiveInv, DisableChanInInv, DisableOutOrSkipInv, DisableTimeoutInv
  <2>2. CASE DisableIntr \/ TransferMessage \/ TransferCount \/ TransferNothing
    BY <2>2, DisableIntrInv, TransferMessageInv, TransferCountInv, TransferNothingInv
  <2>3. QED BY <1>6, <2>1, <2>2 DEF DisableStep
<1>7. CASE HandlerStep
  <2>1. CASE HandleUser \/ HandleTimeout \/ TimeoutDue \/ TimeoutRearm
    BY <2>1, HandleUserInv, HandleTimeoutInv, TimeoutDueInv, TimeoutRearmInv
  <2>2. CASE HandlerReturn \/ HandlerExit \/ HandlerRestore
    BY <2>2, HandlerReturnInv, HandlerExitInv, HandlerRestoreInv
  <2>3. QED BY <1>7, <2>1, <2>2 DEF HandlerStep
<1>8. CASE Environment
  <2>1. CASE Clock \/ AlarmFires
    BY <2>1, ClockInv
  <2>2. CASE ElapsedInterrupt \/ TimeoutInterrupt \/ \E u \in Intrs : UserInterrupt(u)
    <3>1. PICK src \in Intrs \cup {"elapsed", "timeout"} : Interrupt(src) /\ (pend' = pend \/ pend' = FALSE)
      BY <2>2 DEF ElapsedInterrupt, TimeoutInterrupt, UserInterrupt
    <3>2. pend' \in BOOLEAN
      BY <3>1 DEF AltInv, DataTypes
    <3>3. QED BY <3>1, <3>2, InterruptInv
  <2>3. QED BY <1>8, <2>1, <2>2 DEF Environment
<1>9. CASE DISABLE \/ SigReturn \/ UNCHANGED vars
  BY <1>9, StillInv
<1>10. QED BY <1>1, <1>2, <1>3, <1>4, <1>5, <1>6, <1>7, <1>8, <1>9 DEF Next, CpuStep

\* In an orderly application the loops of enable_alt() and disable_alt() never
\* leave the array of guards, and only a process with an ALT is made ready.
THEOREM AltInvariant == Orderly /\ Spec => []AltInv
<1> DEFINE Inv == Orderly /\ AltInv
<1>1. Orderly /\ Init => Inv
  BY InitAlt
<1>2. Inv /\ [Next]_vars => Inv'
  <2> SUFFICES ASSUME Inv, [Next]_vars
               PROVE  Inv'
    OBVIOUS
  <2>1. UrgencyInv'
    BY NextUrgency DEF AltInv
  <2>2. AltInv'
    BY <2>1, NextAlt
  <2>3. Orderly'
    BY DEF Orderly, PriOf
  <2>4. QED BY <2>2, <2>3
<1>3. Inv => AltInv
  OBVIOUS
<1> HIDE DEF Inv
<1>4. QED BY <1>1, <1>2, <1>3, PTL DEF Spec

\* Every variable keeps its type (TypeOK).
THEOREM TypeOKHolds == Orderly /\ Spec => []TypeOK
<1> DEFINE FrameSet == [fn : {"main", "schedule", "start", "handler"},
                        pc : MainPcs \cup SchedulePcs \cup StartPcs \cup HandlerPcs,
                        base : Int, src : Intrs \cup {None, "elapsed", "timeout"},
                        proc : Records \cup {NoProc}, partner : Records \cup {NoProc},
                        prev : Records \cup {NoProc}, i : Int, k : Int,
                        flag : BOOLEAN, time : Nat, act : Acts]
<1>1. ASSUME AltInv
      PROVE  TypeOK
  <2>1. StackInv /\ StackShape /\ NoneEnds /\ LinkInv /\ QueueLevels /\ current \in Records
    BY <1>1 DEF AltInv, UrgencyInv, StackInv, CurrentAbove
  <2>2. Procs \subseteq Records /\ Alting \subseteq Procs
    BY DEF Records, Alting
  <2>3. stack \in Seq(FrameSet) /\ stack # << >>
    <3>1. ASSUME NEW n \in Frames
          PROVE  stack[n] \in FrameSet
      <4> DEFINE f == stack[n]
      <4>1. FrameOK(f) /\ KindOK(f) /\ Typed(f) /\ (f.fn # "start" => f.partner \in Alting \cup {NoProc})
        BY <1>1, <2>1, <3>1, Stacked DEF LinkInv, Linkage, AltInv, FrameTypes
      <4> HIDE DEF f
      <4>2. IsFrame(f) /\ f = [x \in DOMAIN f |-> f[x]]
        BY <4>1 DEF FrameOK, Typed
      <4>3. /\ f.fn \in {"main", "schedule", "start", "handler"}
            /\ f.pc \in MainPcs \cup SchedulePcs \cup StartPcs \cup HandlerPcs
        BY <4>1 DEF KindOK, MainPcs
      <4>4. f.base \in Int /\ f.proc \in Records \cup {NoProc} /\ f.prev \in Records \cup {NoProc}
        BY <4>1 DEF FrameOK
      <4>5. f.partner \in Records \cup {NoProc}
        <5>1. f.fn = "start" => f.partner \in Procs
          BY <4>1 DEF KindOK, FrameOK
        <5>2. QED BY <2>2, <4>1, <5>1
      <4>6. /\ f.src \in Intrs \cup {None, "elapsed", "timeout"}
            /\ f.i \in Int /\ f.k \in Int /\ f.flag \in BOOLEAN /\ f.time \in Nat /\ f.act \in Acts
        BY <4>1 DEF Typed
      <4>7. f \in FrameSet
        BY <4>2, <4>3, <4>4, <4>5, <4>6 DEF IsFrame
      <4>8. QED BY <4>7 DEF f
    <3> HIDE DEF FrameSet
    <3>2. stack \in Seq({stack[n] : n \in Frames}) /\ stack # << >>
      BY <2>1 DEF StackShape
    <3>3. {stack[n] : n \in Frames} \subseteq FrameSet
      BY <3>1
    <3>4. QED BY <3>2, <3>3, SeqGrows
  <2>4. /\ chan \in [Chans -> [waiting : Records \cup {NoProc}, src : Procs \cup {NoProc}]]
        /\ ichan \in [Intrs -> [waiting : Records \cup {NoProc}, count : Nat]]
    BY <1>1, <2>2 DEF AltInv, WaiterTypes
  <2>5. timerQ \in Seq([time : Nat, proc : Records \cup {NoProc}])
    <3>1. timerQ \in Seq([time : Nat, proc : Alting])
      BY <1>1 DEF AltInv, WaiterTypes
    <3>2. [time : Nat, proc : Alting] \subseteq [time : Nat, proc : Records \cup {NoProc}]
      BY <2>2
    <3>3. QED BY <3>1, <3>2, SeqGrows
  <2>6. /\ alt \in [Records -> [guards : Procs \cup {NoProc}, index : Int, count : Int]]
        /\ active \in [Procs -> SUBSET Nat] /\ freed \subseteq Procs
        /\ timeout \in [Procs -> [time : Nat, proc : Records \cup {NoProc}]]
    <3>1. /\ alt \in [Records -> [guards : Procs \cup {NoProc}, index : Int, count : Int]]
          /\ active \in [Procs -> SUBSET (0 .. 255)] /\ freed = {}
          /\ timeout \in [Procs -> [time : Nat, proc : Procs \cup {NoProc}]]
      BY <1>1 DEF AltInv, DataTypes
    <3>2. SUBSET (0 .. 255) \subseteq SUBSET Nat
      OBVIOUS
    <3>3. active \in [Procs -> SUBSET Nat]
      BY <3>1, <3>2
    <3>4. timeout \in [Procs -> [time : Nat, proc : Records \cup {NoProc}]]
      BY <2>2, <3>1
    <3>5. QED BY <3>1, <3>3, <3>4
  <2>7. /\ connected \subseteq Intrs
        /\ sent \in [Chans -> 0 .. MsgMod - 1] /\ got \in [Chans -> 0 .. MsgMod - 1]
        /\ now \in Nat /\ alarm \in Int /\ pend \in BOOLEAN /\ intr \in BOOLEAN
        /\ fault \in {"none", "null", "divide", "exit"}
    BY <1>1 DEF AltInv, DataTypes
  <2>8. handlers \in Nat
    BY <1>1, <2>1, CountedHandlers DEF AltInv, FrameTypes
  <2>9. /\ rq \in QueueType
        /\ state \in [Records -> {"unstarted", "initial", "quiescent", "enabling", "waiting", "ready", "done"}]
    BY <2>1 DEF QueueLevels, NoneEnds
  <2>10. currentTime \in Nat /\ phase \in Nat /\ tick \in BOOLEAN /\ returning \in Seq(Nat)
    BY <1>1 DEF AltInv, UrgencyInv, TimeInv
  <2>11. QED BY <2>1, <2>3, <2>4, <2>5, <2>6, <2>7, <2>8, <2>9, <2>10 DEF TypeOK
<1>2. AltInv => TypeOK
  BY <1>1
<1> HIDE DEF FrameSet
<1>3. QED BY <1>2, AltInvariant, PTL

-----------------------------------------------------------------------------
\* The timeout queue.

\* Guard i of p, which is active, is enabled: enable_alt() has passed it, and
\* disable_alt() has not yet come to it.
Engaged(p, i, a, s, al) ==
  \/ a.pc \in {"enable", "insert"} /\ i \in Visited(a.i, a.k, p)
  \/ a.pc = "enabled" /\ i \in IF a.flag THEN Visited(a.i, a.k, p) ELSE ToVisit(a.i, a.k, p)
  \/ a.pc = "disable" /\ i \in ToVisit(a.i, a.k, p)
  \/ /\ a.pc \in {"off", "load", "select", "finish", "partner", "partnerRet"}
     /\ s \in {"waiting", "ready"}
     /\ a.pc \in {"partner", "partnerRet"} => ~a.flag
     /\ i \in ToVisit(al.index, al.count, p)

\* A timeout guard of p is enabled.
Timed(p, a, s, al, on) ==
  \E i \in Branches(p) : i \in on /\ Guards[p][i].type = "timeout" /\ Engaged(p, i, a, s, al)

\* An entry of the queue is the Timeout of a process with an enabled timeout guard.
Entries ==
  \A n \in 1 .. Len(timerQ) :
    LET q == timerQ[n].proc
    IN  timerQ[n] = timeout[q] /\ Timed(q, view[q], state[q], alt[q], active[q])

\* In time order, and no process twice.
Ordered(q) ==
  \A m, n \in 1 .. Len(q) : m < n => q[m].time <= q[n].time /\ q[m].proc # q[n].proc

\* Until enable_alt() has found a ready guard `ready' is FALSE.
Searching(a) == a.pc \in {"begin", "enable", "insert"} => ~a.flag

QueueInv ==
  /\ Entries /\ Ordered(timerQ)
  /\ \A p \in Procs : Searching(view[p])

LEMMA ElementIn ==
  ASSUME NEW S, NEW q \in Seq(S)
  PROVE  Len(q) \in Nat /\ \A n \in 1 .. Len(q) : q[n] \in S
OBVIOUS

LEMMA QueueExact ==
  ASSUME AltInv, QueueInv
  PROVE  TimerQueueExact
<1>1. ASSUME NEW n \in 1 .. Len(timerQ)
      PROVE  state[timerQ[n].proc] \in {"enabling", "waiting", "ready"}
  <2> DEFINE q == timerQ[n].proc
             a == view[q]
  <2>1. q \in Procs
    <3>1. timerQ \in Seq([time : Nat, proc : Alting])
      BY DEF AltInv, WaiterTypes
    <3>2. timerQ[n] \in [time : Nat, proc : Alting]
      BY <1>1, <3>1, ElementIn
    <3>3. QED BY <3>2 DEF Alting
  <2>2. Timed(q, a, state[q], alt[q], active[q])
    BY DEF QueueInv, Entries
  <2>3. StateFits(q, a, state[q], alt[q])
    BY <2>1 DEF AltInv, Fits, AltFits
  <2> HIDE DEF q, a
  <2>4. state[q] \in {"enabling", "waiting", "ready"}
    BY <2>2, <2>3 DEF Timed, Engaged, StateFits
  <2>5. QED BY <2>4 DEF q
<1>2. QED BY <1>1 DEF QueueInv, Ordered, TimerQueueExact

\* The queue stays, or loses its first entry, and whoever is in it still waits.
LEMMA QueueStays ==
  ASSUME AltInv, QueueInv, timerQ' = timerQ \/ (timerQ # << >> /\ timerQ' = Tail(timerQ)),
         \A q \in Procs : Timed(q, view[q], state[q], alt[q], active[q]) =>
           Timed(q, view'[q], state'[q], alt'[q], active'[q]) /\ timeout'[q] = timeout[q],
         \A q \in Procs : Searching(view'[q])
  PROVE  QueueInv'
<1> DEFINE S == [time : Nat, proc : Alting]
<1>1. timerQ \in Seq(S) /\ \A e \in S : e.proc \in Procs
  BY DEF AltInv, WaiterTypes, Alting
<1>2. PICK d \in {0, 1} : /\ Len(timerQ') = Len(timerQ) - d /\ Len(timerQ) \in Nat
                          /\ \A n \in 1 .. Len(timerQ') : n + d \in 1 .. Len(timerQ) /\ timerQ'[n] = timerQ[n + d]
  <2> HIDE DEF S
  <2>1. CASE timerQ' = timerQ
    <3>1. \A n \in 1 .. Len(timerQ') : n + 0 = n
      BY <1>1, <2>1
    <3>2. QED BY <1>1, <2>1, <3>1
  <2>2. CASE timerQ # << >> /\ timerQ' = Tail(timerQ)
    BY <1>1, <2>2
  <2>3. QED BY <2>1, <2>2
<1>3. \A n \in 1 .. Len(timerQ) : timerQ[n].proc \in Procs
  <2>1. \A n \in 1 .. Len(timerQ) : timerQ[n] \in S
    <3> HIDE DEF S
    <3>1. QED BY <1>1, ElementIn
  <2>2. QED BY <1>1, <2>1
<1> HIDE DEF S
<1>4. ASSUME NEW n \in 1 .. Len(timerQ')
      PROVE  LET q == timerQ'[n].proc
             IN  timerQ'[n] = timeout'[q] /\ Timed(q, view'[q], state'[q], alt'[q], active'[q])
  <2> DEFINE q == timerQ[n + d].proc
  <2>1. timerQ'[n] = timerQ[n + d] /\ q \in Procs /\ n + d \in 1 .. Len(timerQ)
    BY <1>2, <1>3
  <2>2. timerQ[n + d] = timeout[q] /\ Timed(q, view[q], state[q], alt[q], active[q])
    BY <2>1 DEF QueueInv, Entries
  <2>3. QED BY <2>1, <2>2
<1>5. Entries'
  BY <1>4, Zenon DEF Entries
<1>6. Ordered(timerQ')
  <2>1. ASSUME NEW m \in 1 .. Len(timerQ'), NEW n \in 1 .. Len(timerQ'), m < n
        PROVE  timerQ'[m].time <= timerQ'[n].time /\ timerQ'[m].proc # timerQ'[n].proc
    <3> DEFINE x == m + d
               y == n + d
    <3>1. /\ x \in 1 .. Len(timerQ) /\ y \in 1 .. Len(timerQ) /\ x < y
          /\ timerQ'[m] = timerQ[x] /\ timerQ'[n] = timerQ[y]
      BY <1>2, <2>1
    <3>2. \A i, j \in 1 .. Len(timerQ) :
            i < j => timerQ[i].time <= timerQ[j].time /\ timerQ[i].proc # timerQ[j].proc
      BY DEF QueueInv, Ordered
    <3> HIDE DEF x, y
    <3>3. QED BY <3>1, <3>2
  <2>2. QED BY <2>1 DEF Ordered
<1>7. QED BY <1>5, <1>6 DEF QueueInv, Ordered, Searching

\* A process that a step does not move keeps its enabled guards.
LEMMA StaysTimed ==
  ASSUME NEW q \in Procs, Kept(q), view'[q] = view[q], Timed(q, view[q], state[q], alt[q], active[q])
  PROVE  Timed(q, view'[q], state'[q], alt'[q], active'[q]) /\ timeout'[q] = timeout[q]
<1> DEFINE a == view[q]
<1>1. PICK i \in Branches(q) : /\ i \in active[q] /\ Guards[q][i].type = "timeout"
                               /\ Engaged(q, i, a, state[q], alt[q])
  BY DEF Timed
<1>2. /\ alt'[q] = alt[q] /\ active'[q] = active[q] /\ timeout'[q] = timeout[q]
      /\ state'[q] = state[q] \/ state'[q] = "ready"
  BY DEF Kept
<1> HIDE DEF a
<1>3. Engaged(q, i, a, state'[q], alt[q])
  BY <1>1, <1>2 DEF Engaged
<1>4. Timed(q, a, state'[q], alt'[q], active'[q])
  BY <1>1, <1>2, <1>3 DEF Timed
<1>5. QED BY <1>2, <1>4 DEF a

LEMMA AsideQueue ==
  ASSUME AltInv, QueueInv, Aside, timerQ' = timerQ \/ (timerQ # << >> /\ timerQ' = Tail(timerQ))
  PROVE  QueueInv'
<1>1. \A q \in Procs : Kept(q) /\ view'[q] = view[q]
  BY DEF Aside
<1>2. \A q \in Procs : Timed(q, view[q], state[q], alt[q], active[q]) =>
        Timed(q, view'[q], state'[q], alt'[q], active'[q]) /\ timeout'[q] = timeout[q]
  BY <1>1, StaysTimed
<1>3. \A q \in Procs : Searching(view'[q])
  BY <1>1 DEF QueueInv
<1>4. QED BY <1>2, <1>3, QueueStays

\* Process p executes; it keeps its enabled timeout guard, or has none.
LEMMA RunsQueue ==
  ASSUME AltInv, QueueInv, timerQ' = timerQ, NEW p \in Procs, NEW a, Runs(p, a), Searching(a),
         Timed(p, view[p], state[p], alt[p], active[p]) =>
           Timed(p, a, state'[p], alt'[p], active'[p]) /\ timeout'[p] = timeout[p]
  PROVE  QueueInv'
<1>1. view'[p] = a /\ \A q \in Procs : q # p => Kept(q) /\ view'[q] = view[q]
  BY DEF Runs
<1>2. ASSUME NEW q \in Procs, Timed(q, view[q], state[q], alt[q], active[q])
      PROVE  Timed(q, view'[q], state'[q], alt'[q], active'[q]) /\ timeout'[q] = timeout[q]
  <2>1. CASE q = p
    BY <1>1, <1>2, <2>1
  <2>2. CASE q # p
    BY <1>1, <1>2, <2>2, StaysTimed
  <2>3. QED BY <2>1, <2>2
<1>3. \A q \in Procs : Searching(view'[q])
  BY <1>1 DEF QueueInv
<1>4. QED BY <1>2, <1>3, QueueStays

\* The same, guard by guard.
LEMMA GuardsQueue ==
  ASSUME AltInv, QueueInv, timerQ' = timerQ, NEW p \in Procs, NEW a, Runs(p, a), Searching(a),
         UNCHANGED <<active, timeout>>,
         \A i \in Branches(p) :
           i \in active[p] /\ Guards[p][i].type = "timeout" /\ Engaged(p, i, view[p], state[p], alt[p]) =>
             Engaged(p, i, a, state'[p], alt'[p])
  PROVE  QueueInv'
<1> DEFINE b == view[p]
<1>1. Timed(p, b, state[p], alt[p], active[p]) => Timed(p, a, state'[p], alt'[p], active'[p])
  <2> HIDE DEF b
  <2>1. \A i \in Branches(p) :
          i \in active[p] /\ Guards[p][i].type = "timeout" /\ Engaged(p, i, b, state[p], alt[p]) =>
            Engaged(p, i, a, state'[p], alt'[p])
    BY DEF b
  <2>2. QED BY <2>1 DEF Timed
<1>2. QED BY <1>1, RunsQueue

\* A process with no enabled guard goes on.
LEMMA FreshQueue ==
  ASSUME AltInv, QueueInv, timerQ' = timerQ, NEW p \in Procs, NEW a, Runs(p, a), Searching(a),
         \A i \in Branches(p) : ~Engaged(p, i, view[p], state[p], alt[p])
  PROVE  QueueInv'
<1> DEFINE b == view[p]
<1>1. ~Timed(p, b, state[p], alt[p], active[p])
  <2> HIDE DEF b
  <2>1. \A i \in Branches(p) : ~Engaged(p, i, b, state[p], alt[p])
    BY DEF b
  <2>2. QED BY <2>1 DEF Timed
<1>2. QED BY <1>1, RunsQueue

\* enable_alt() passes guard i; it is no timeout, or is not active.
LEMMA PassQueue ==
  ASSUME AltInv, QueueInv, timerQ' = timerQ, NEW p \in Procs, NEW g, NEW a, Runs(p, a),
         UNCHANGED <<active, timeout>>, p = Top.proc, Top.pc = "enable", Top.k \in Branches(p), Top.i \in Branches(p),
         a.pc = "enable", a.i = plus1_mod(Top.i, NrGuards[p]), a.k = Top.k + 1, a.flag = Top.flag
  PROVE  QueueInv'
<1>1. view[p] = Top
  BY Here
<1>2. Searching(a)
  <2>1. Searching(Top)
    BY <1>1 DEF QueueInv
  <2>2. QED BY <2>1 DEF Searching
<1>3. \A i \in Branches(p) : Engaged(p, i, Top, state[p], alt[p]) => Engaged(p, i, a, state'[p], alt'[p])
  BY Loops DEF Engaged
<1>4. QED BY <1>1, <1>2, <1>3, GuardsQueue

\* enable_alt() leaves its loop at a ready guard.
LEMMA FoundQueue ==
  ASSUME AltInv, QueueInv, timerQ' = timerQ, NEW p \in Procs, NEW a, Runs(p, a),
         UNCHANGED <<active, timeout>>, p = Top.proc, Top.pc = "enable",
         a.pc = "enabled", a.i = Top.i, a.k = Top.k, a.flag
  PROVE  QueueInv'
<1>1. view[p] = Top
  BY Here
<1>2. Searching(a)
  BY DEF Searching
<1>3. \A i \in Branches(p) : Engaged(p, i, Top, state[p], alt[p]) => Engaged(p, i, a, state'[p], alt'[p])
  BY DEF Engaged
<1>4. QED BY <1>1, <1>2, <1>3, GuardsQueue

\* The activation with which the loops over the guards go on, or end.
LEMMA LoopFrames ==
  ASSUME NEW f, IsFrame(f), NEW w
  PROVE  LET g == [f EXCEPT !.partner = w]
         IN  /\ NextGuard(f).pc = f.pc /\ NextGuard(f).i = plus1_mod(f.i, Size(f.proc))
             /\ NextGuard(f).k = f.k + 1 /\ NextGuard(f).flag = f.flag
             /\ NextGuard(g).pc = f.pc /\ NextGuard(g).i = plus1_mod(f.i, Size(f.proc))
             /\ NextGuard(g).k = f.k + 1 /\ NextGuard(g).flag = f.flag
             /\ Ready(f).pc = "enabled" /\ Ready(f).i = f.i /\ Ready(f).k = f.k /\ Ready(f).flag
             /\ Ready(g).pc = "enabled" /\ Ready(g).i = f.i /\ Ready(g).k = f.k /\ Ready(g).flag
             /\ PrevGuard(f).pc = f.pc /\ PrevGuard(f).i = minus1_mod(f.i, Size(f.proc)) /\ PrevGuard(f).k = f.k - 1
             /\ PrevGuard(g).pc = f.pc /\ PrevGuard(g).i = minus1_mod(f.i, Size(f.proc)) /\ PrevGuard(g).k = f.k - 1
BY DEF IsFrame, NextGuard, Ready, PrevGuard

LEMMA InsertFrame ==
  ASSUME NEW f, IsFrame(f), NEW c
  PROVE  LET h == [f EXCEPT !.pc = c]
         IN  h.pc = c /\ h.i = f.i /\ h.k = f.k /\ h.flag = f.flag
BY DEF IsFrame

\* The steps of enable_alt() that leave the queue alone.
LEMMA EnableQueue ==
  ASSUME AltInv, QueueInv, UrgencyInv',
         EnableInactive \/ EnableChanIn \/ EnableChanOut \/ EnableSkip \/ EnableIntr
  PROVE  QueueInv'
<1>1. /\ At("enable")
      /\ UNCHANGED <<timerQ, timeout, active>>
  BY DEF EnableInactive, EnableChanIn, EnableChanOut, EnableSkip, EnableIntr, Enabling, timeVars, altVars
<1>2. Top.proc \in Procs /\ HasAlt(Top.proc, alt[Top.proc]) /\ Top.pc = "enable"
      /\ Top.i \in Branches(Top.proc) /\ Top.k \in 0 .. NrGuards[Top.proc]
  BY <1>1, EnableFacts DEF At
<1>3. Size(Top.proc) = NrGuards[Top.proc] /\ IsFrame(Top)
  BY <1>2, Guarded, Here
<1>4. Top.k \in Branches(Top.proc)
  <2>1. Top.k < Size(Top.proc)
    BY DEF EnableInactive, EnableChanIn, EnableChanOut, EnableSkip, EnableIntr, Enabling
  <2>2. QED BY <1>1, <2>1, EnableFacts
<1>5. \E w : LET g == [Top EXCEPT !.partner = w]
             IN  \/ Runs(Top.proc, NextGuard(Top)) \/ Runs(Top.proc, NextGuard(g))
                 \/ Runs(Top.proc, Ready(Top)) \/ Runs(Top.proc, Ready(g))
  <2>1. CASE EnableInactive \/ EnableSkip \/ EnableIntr
    BY <2>1, EnableInactiveInv, EnableSkipInv, EnableIntrInv
  <2>2. CASE EnableChanIn
    BY <2>2, EnableChanInInv, Zenon
  <2>3. CASE EnableChanOut
    BY <2>3, EnableChanOutInv, Zenon
  <2>4. QED BY <2>1, <2>2, <2>3
<1>6. PICK w : LET g == [Top EXCEPT !.partner = w]
               IN  \/ Runs(Top.proc, NextGuard(Top)) \/ Runs(Top.proc, NextGuard(g))
                   \/ Runs(Top.proc, Ready(Top)) \/ Runs(Top.proc, Ready(g))
  BY <1>5
<1> DEFINE g == [Top EXCEPT !.partner = w]
<1>7. ASSUME NEW a, a = NextGuard(Top) \/ a = NextGuard(g), Runs(Top.proc, a)
      PROVE  QueueInv'
  <2>1. a.pc = "enable" /\ a.i = plus1_mod(Top.i, NrGuards[Top.proc]) /\ a.k = Top.k + 1 /\ a.flag = Top.flag
    BY <1>2, <1>3, <1>7, LoopFrames
  <2>2. QED BY <1>1, <1>2, <1>4, <1>7, <2>1, PassQueue
<1>8. ASSUME NEW a, a = Ready(Top) \/ a = Ready(g), Runs(Top.proc, a)
      PROVE  QueueInv'
  <2>1. a.pc = "enabled" /\ a.i = Top.i /\ a.k = Top.k /\ a.flag
    BY <1>3, <1>8, LoopFrames
  <2>2. QED BY <1>1, <1>2, <1>8, <2>1, FoundQueue
<1>9. QED BY <1>6, <1>7, <1>8

\* enable_timeout(): the guard is ready, or about to be inserted.
LEMMA EnableTimeoutQueue ==
  ASSUME AltInv, QueueInv, UrgencyInv', EnableTimeout
  PROVE  QueueInv'
<1> DEFINE f == [Top EXCEPT !.pc = "insert"]
           late == Now >= timeout[Top.proc].time
<1>1. UNCHANGED <<timerQ, timeout, active>> /\ Enabling("timeout")
  BY DEF EnableTimeout, timeVars, altVars
<1>2. Top.proc \in Procs /\ Top.pc = "enable" /\ IsFrame(Top) /\ view[Top.proc] = Top
  BY <1>1, EnablingFacts, Here
<1>3. Runs(Top.proc, IF late THEN Ready(Top) ELSE f)
  BY EnableTimeoutInv
<1>4. CASE late
  <2>1. Ready(Top).pc = "enabled" /\ Ready(Top).i = Top.i /\ Ready(Top).k = Top.k /\ Ready(Top).flag
    BY <1>2, LoopFrames
  <2>2. Runs(Top.proc, Ready(Top))
    BY <1>3, <1>4
  <2>3. QED BY <1>1, <1>2, <2>1, <2>2, FoundQueue
<1>5. CASE ~late
  <2>1. f.pc = "insert" /\ f.i = Top.i /\ f.k = Top.k /\ f.flag = Top.flag
    BY <1>2, InsertFrame
  <2>2. Runs(Top.proc, f)
    BY <1>3, <1>5
  <2> HIDE DEF f
  <2>3. Searching(f)
    <3>1. Searching(Top)
      BY <1>2 DEF QueueInv
    <3>2. QED BY <1>2, <2>1, <3>1 DEF Searching
  <2>4. \A i \in Branches(Top.proc) : Engaged(Top.proc, i, Top, state[Top.proc], alt[Top.proc]) =>
          Engaged(Top.proc, i, f, state'[Top.proc], alt'[Top.proc])
    BY <1>2, <2>1 DEF Engaged
  <2>5. QED BY <1>1, <1>2, <2>2, <2>3, <2>4, GuardsQueue
<1>6. QED BY <1>4, <1>5

\* init of the loop: no guard is enabled yet.
LEMMA EnableBeginQueue ==
  ASSUME AltInv, QueueInv, UrgencyInv', EnableBegin
  PROVE  QueueInv'
<1>1. Top.proc \in Procs /\ Top.pc = "begin" /\ view[Top.proc] = Top
  BY EnableBeginInv, Here
<1>2. \/ Aside /\ UNCHANGED timeVars
      \/ \E f : Runs(Top.proc, f) /\ f.pc = "enable" /\ f.flag = Top.flag /\ UNCHANGED timeVars
  BY EnableBeginInv
<1>3. CASE Aside /\ UNCHANGED timeVars
  BY <1>3, AsideQueue DEF timeVars
<1>4. CASE \E f : Runs(Top.proc, f) /\ f.pc = "enable" /\ f.flag = Top.flag /\ UNCHANGED timeVars
  <2>1. PICK f : Runs(Top.proc, f) /\ f.pc = "enable" /\ f.flag = Top.flag /\ UNCHANGED timeVars
    BY <1>4
  <2>2. Searching(f)
    <3>1. Searching(Top)
      BY <1>1 DEF QueueInv
    <3>2. QED BY <1>1, <2>1, <3>1 DEF Searching
  <2>3. \A i \in Branches(Top.proc) : ~Engaged(Top.proc, i, Top, state[Top.proc], alt[Top.proc])
    BY <1>1 DEF Engaged
  <2>4. timerQ' = timerQ
    BY <2>1 DEF timeVars
  <2>5. QED BY <1>1, <2>1, <2>2, <2>3, <2>4, FreshQueue
<1>5. QED BY <1>2, <1>3, <1>4

\* insertInQueue() and removeFromQueue() keep the queue in order.
LEMMA InsertOrdered ==
  ASSUME NEW S, \A e \in S : e.time \in Nat, NEW q \in Seq(S), NEW t \in S, Ordered(q),
         \A n \in 1 .. Len(q) : q[n].proc # t.proc
  PROVE  LET r == insertInQueue(q, t)
         IN  /\ Ordered(r)
             /\ \A n \in 1 .. Len(r) : r[n] = t \/ \E m \in 1 .. Len(q) : r[n] = q[m]
<1> DEFINE r == insertInQueue(q, t)
           k == insertAt(q, t)
           l == Len(q)
<1>1. /\ k \in 0 .. l /\ l \in Nat
      /\ \A i \in 1 .. k : t.time >= q[i].time
      /\ k < l => ~(t.time >= q[k + 1].time)
  <2>1. l \in Nat
    BY ElementIn
  <2>2. QED BY <2>1, InsertAt
<1>2. Len(r) = l + 1 /\ \A i \in 1 .. l + 1 : r[i] = IF i <= k THEN q[i] ELSE IF i = k + 1 THEN t ELSE q[i - 1]
  BY Insertion
<1>3. /\ t.time \in Nat
      /\ \A i \in 1 .. l : q[i].time \in Nat
      /\ \A i, j \in 1 .. l : i < j => q[i].time <= q[j].time /\ q[i].proc # q[j].proc
  <2>1. \A i \in 1 .. l : q[i] \in S
    BY ElementIn
  <2>2. QED BY <2>1 DEF Ordered
<1> HIDE DEF r, k, l
<1>4. \A i \in 1 .. l : i > k => t.time <= q[i].time
  <2> SUFFICES ASSUME NEW i \in 1 .. l, i > k
               PROVE  t.time <= q[i].time
    OBVIOUS
  <2> DEFINE j == k + 1
  <2>1. j \in 1 .. l /\ j <= i
    BY <1>1
  <2>2. q[j].time >= t.time
    BY <1>1, <1>3, <2>1
  <2> HIDE DEF j
  <2>3. q[j].time <= q[i].time
    BY <1>3, <2>1
  <2>4. QED BY <1>3, <2>1, <2>2, <2>3
<1>5. ASSUME NEW m \in 1 .. Len(r), NEW n \in 1 .. Len(r), m < n
      PROVE  r[m].time <= r[n].time /\ r[m].proc # r[n].proc
  <2>0. Len(r) = l + 1 /\ l \in Nat /\ k \in 0 .. l
    BY <1>1, <1>2
  <2> DEFINE x == m - 1
             y == n - 1
  <2>1. CASE n <= k
    <3>1. m \in 1 .. l /\ n \in 1 .. l /\ r[m] = q[m] /\ r[n] = q[n]
      BY <1>2, <1>5, <2>0, <2>1
    <3>2. QED BY <1>3, <1>5, <3>1
  <2>2. CASE n = k + 1
    <3>1. m \in 1 .. l /\ m \in 1 .. k /\ r[m] = q[m] /\ r[n] = t
      BY <1>2, <1>5, <2>0, <2>2
    <3>2. t.time >= q[m].time /\ q[m].proc # t.proc
      BY <1>1, <3>1 DEF l
    <3>3. QED BY <1>3, <3>1, <3>2
  <2>3. CASE n > k + 1 /\ m <= k
    <3>1. m \in 1 .. l /\ y \in 1 .. l /\ r[m] = q[m] /\ r[n] = q[y] /\ m < y
      BY <1>2, <1>5, <2>0, <2>3
    <3> HIDE DEF y
    <3>2. QED BY <1>3, <3>1
  <2>4. CASE n > k + 1 /\ m = k + 1
    <3>1. y \in 1 .. l /\ y > k /\ r[m] = t /\ r[n] = q[y]
      BY <1>2, <1>5, <2>0, <2>4
    <3> HIDE DEF y
    <3>2. t.time <= q[y].time /\ q[y].proc # t.proc
      BY <1>4, <3>1 DEF l
    <3>3. QED BY <3>1, <3>2
  <2>5. CASE m > k + 1
    <3>1. x \in 1 .. l /\ y \in 1 .. l /\ r[m] = q[x] /\ r[n] = q[y] /\ x < y
      BY <1>2, <1>5, <2>0, <2>5
    <3> HIDE DEF x, y
    <3>2. QED BY <1>3, <3>1
  <2>6. QED BY <1>5, <2>0, <2>1, <2>2, <2>3, <2>4, <2>5
<1>6. ASSUME NEW n \in 1 .. Len(r)
      PROVE  r[n] = t \/ \E m \in 1 .. l : r[n] = q[m]
  <2> DEFINE y == n - 1
  <2>1. \/ n \in 1 .. l /\ r[n] = q[n]
        \/ r[n] = t
        \/ y \in 1 .. l /\ r[n] = q[y]
    BY <1>1, <1>2
  <2> HIDE DEF y
  <2>2. QED BY <2>1
<1>7. Ordered(r)
  BY <1>5 DEF Ordered
<1>8. QED BY <1>6, <1>7 DEF r, l

LEMMA RemoveOrdered ==
  ASSUME NEW S, \A e \in S : e.time \in Nat, NEW q \in Seq(S), Ordered(q), NEW t, t.time \in Nat, NEW p \in Procs,
         \A n \in 1 .. Len(q) : q[n].proc = p => q[n].time = t.time /\ t.proc = p
  PROVE  LET r == removeFromQueue(q, t.time, t.proc)
         IN  /\ Ordered(r)
             /\ t.proc = p \/ \A n \in 1 .. Len(q) : q[n].proc # p
             /\ \A n \in 1 .. Len(r) : (t.proc = p => r[n].proc # p) /\ \E m \in 1 .. Len(q) : r[n] = q[m]
<1> DEFINE r == removeFromQueue(q, t.time, t.proc)
           l == Len(q)
<1>1. l \in Nat /\ \A i \in 1 .. l : q[i].time \in Nat
  BY ElementIn
<1>2. \A i, j \in 1 .. l : i < j => q[i].time <= q[j].time /\ q[i].proc # q[j].proc
  BY DEF Ordered
<1>3. PICK k \in 0 .. l : Unlinks(S, q, t.time, t.proc, k)
  BY Removal
<1>4. /\ \A i \in 1 .. k : q[i].time < t.time \/ (q[i].time = t.time /\ q[i].proc # t.proc)
      /\ k < l => ~(q[k + 1].time < t.time \/ (q[k + 1].time = t.time /\ q[k + 1].proc # t.proc))
      /\ IF k < l /\ q[k + 1].time = t.time /\ q[k + 1].proc = t.proc
         THEN /\ Len(r) = l - 1
              /\ \A i \in 1 .. l - 1 : r[i] = IF i <= k THEN q[i] ELSE q[i + 1]
         ELSE r = q
  BY <1>3 DEF Unlinks
<1>5. \A i \in 1 .. l : q[i].proc = p => q[i].time = t.time /\ t.proc = p
  OBVIOUS
<1>6. t.proc = p \/ \A n \in 1 .. l : q[n].proc # p
  BY <1>5
<1> HIDE DEF r, l
<1>7. CASE k < l /\ q[k + 1].time = t.time /\ q[k + 1].proc = t.proc
  <2> DEFINE o == k + 1
             Back(n) == IF n <= k THEN n ELSE n + 1
  <2>1. o \in 1 .. l /\ q[o].proc = t.proc
    BY <1>1, <1>7
  <2>2. Len(r) = l - 1
    BY <1>4, <1>7
  <2>3. \A n \in 1 .. Len(r) : Back(n) \in 1 .. l /\ Back(n) # o /\ r[n] = q[Back(n)]
    BY <1>1, <1>4, <1>7, <2>2
  <2>4. \A m, n \in 1 .. Len(r) : m < n => Back(m) < Back(n)
    BY <1>1, <2>2
  <2> HIDE DEF o, Back
  <2>5. ASSUME NEW m \in 1 .. Len(r), NEW n \in 1 .. Len(r), m < n
        PROVE  r[m].time <= r[n].time /\ r[m].proc # r[n].proc
    <3> DEFINE x == Back(m)
               y == Back(n)
    <3>1. x \in 1 .. l /\ y \in 1 .. l /\ r[m] = q[x] /\ r[n] = q[y]
      BY <2>3
    <3>2. x < y
      BY <2>4, <2>5
    <3> HIDE DEF x, y
    <3>3. QED BY <1>2, <3>1, <3>2
  <2>6. \A i, j \in 1 .. l : i # j => q[i].proc # q[j].proc
    <3>1. \A i, j \in 1 .. l : i # j => i < j \/ j < i
      OBVIOUS
    <3>2. QED BY <1>2, <3>1
  <2>7. ASSUME NEW n \in 1 .. Len(r)
        PROVE  (t.proc = p => r[n].proc # p) /\ \E m \in 1 .. l : r[n] = q[m]
    BY <2>1, <2>3, <2>6
  <2>8. QED BY <1>6, <2>5, <2>7 DEF Ordered, r, l
<1>8. CASE ~(k < l /\ q[k + 1].time = t.time /\ q[k + 1].proc = t.proc)
  <2>1. r = q
    BY <1>4, <1>8
  <2>2. ASSUME NEW n \in 1 .. l, t.proc = p
        PROVE  q[n].proc # p
    <3> SUFFICES ASSUME q[n].proc = p
                 PROVE  FALSE
      OBVIOUS
    <3>1. q[n].time = t.time /\ q[n].proc = t.proc
      BY <1>5, <2>2
    <3>2. ~(n \in 1 .. k)
      BY <1>4, <3>1
    <3> DEFINE o == k + 1
    <3>3. o \in 1 .. l /\ o <= n /\ k < l
      BY <1>1, <3>2
    <3>4. ~(q[o].time < t.time) /\ ~(q[o].time = t.time /\ q[o].proc # t.proc) /\ ~(q[o].time = t.time /\ q[o].proc = t.proc)
      BY <1>4, <1>8, <3>3
    <3> HIDE DEF o
    <3>5. q[o].time \in Nat /\ q[n].time \in Nat
      BY <1>1, <3>3
    <3>6. q[o].time <= q[n].time
      <4>1. CASE o = n
        BY <3>5, <4>1
      <4>2. CASE o < n
        BY <1>2, <3>3, <4>2
      <4>3. QED BY <3>3, <4>1, <4>2
    <3>7. q[o].time = t.time
      <4> DEFINE x == q[o].time
                 y == t.time
      <4>1. x <= y /\ ~(x < y) /\ x \in Nat /\ y \in Nat
        BY <3>1, <3>4, <3>5, <3>6
      <4> HIDE DEF x, y
      <4>2. x = y
        BY <4>1
      <4>3. QED BY <4>2 DEF x, y
    <3>8. QED BY <3>4, <3>7
  <2>3. QED BY <1>6, <2>1, <2>2 DEF r, l
<1>9. QED BY <1>7, <1>8

\* What the queue holds after a step in which p executes.
LEMMA NewQueue ==
  ASSUME AltInv, QueueInv, NEW p \in Procs, NEW a, Runs(p, a), Searching(a), Ordered(timerQ'),
         \A n \in 1 .. Len(timerQ') :
           \/ /\ timerQ'[n].proc = p /\ timerQ'[n] = timeout'[p]
              /\ Timed(p, a, state'[p], alt'[p], active'[p])
           \/ timerQ'[n].proc # p /\ \E m \in 1 .. Len(timerQ) : timerQ'[n] = timerQ[m]
  PROVE  QueueInv'
<1>1. view'[p] = a /\ \A q \in Procs : q # p => Kept(q) /\ view'[q] = view[q]
  BY DEF Runs
<1>2. \A n \in 1 .. Len(timerQ) : timerQ[n].proc \in Procs
  <2> DEFINE S == [time : Nat, proc : Alting]
  <2>1. timerQ \in Seq(S) /\ \A e \in S : e.proc \in Procs
    BY DEF AltInv, WaiterTypes, Alting
  <2> HIDE DEF S
  <2>2. QED BY <2>1, ElementIn
<1>3. ASSUME NEW n \in 1 .. Len(timerQ')
      PROVE  LET q == timerQ'[n].proc
             IN  timerQ'[n] = timeout'[q] /\ Timed(q, view'[q], state'[q], alt'[q], active'[q])
  <2>1. CASE timerQ'[n].proc = p
    BY <1>1, <2>1
  <2>2. CASE timerQ'[n].proc # p
    <3>1. PICK m \in 1 .. Len(timerQ) : timerQ'[n] = timerQ[m]
      BY <2>2
    <3> DEFINE q == timerQ[m].proc
    <3>2. q \in Procs /\ q # p /\ timerQ[m] = timeout[q] /\ Timed(q, view[q], state[q], alt[q], active[q])
      BY <1>2, <2>2, <3>1 DEF QueueInv, Entries
    <3>3. Timed(q, view'[q], state'[q], alt'[q], active'[q]) /\ timeout'[q] = timeout[q]
      BY <1>1, <3>2, StaysTimed
    <3>4. QED BY <3>1, <3>2, <3>3
  <2>3. QED BY <2>1, <2>2
<1>4. Entries'
  BY <1>3, Zenon DEF Entries
<1>5. \A q \in Procs : Searching(view'[q])
  BY <1>1 DEF QueueInv
<1>6. QED BY <1>4, <1>5 DEF QueueInv, Ordered, Searching

\* insertInQueue(): the process has no other timeout guard, so it is not in the
\* queue yet.
LEMMA EnableInsertQueue ==
  ASSUME AltInv, QueueInv, OneTimeout, UrgencyInv', EnableInsert
  PROVE  QueueInv'
<1> DEFINE p == Top.proc
           i == Top.i
           k == Top.k
           t == timeout[p]
           a == NextGuard([Top EXCEPT !.pc = "enable"])
<1>1. /\ p \in Procs /\ Top.pc = "insert" /\ Runs(p, a) /\ timerQ' = insertInQueue(timerQ, t)
      /\ t \in [time : Nat, proc : Alting]
  BY EnableInsertInv
<1>2. UNCHANGED <<timeout, active, state, alt>>
  BY DEF EnableInsert, procVars, altVars
<1>3. /\ k \in Branches(p) /\ i \in active[p] /\ i \in Branches(p) /\ Guards[p][i].type = "timeout" /\ t.proc = p
      /\ HasAlt(p, alt[p]) /\ view[p] = Top /\ IsFrame(Top)
  BY <1>1, Here DEF AltFits, LoopFits
<1>4. a.pc = "enable" /\ a.i = plus1_mod(i, NrGuards[p]) /\ a.k = k + 1 /\ a.flag = Top.flag
  <2>1. Size(p) = NrGuards[p]
    BY <1>1, <1>3, Guarded
  <2>2. QED BY <1>3, <2>1 DEF IsFrame, NextGuard
<1> HIDE DEF a
<1>5. Searching(a)
  <2>1. Searching(Top)
    BY <1>1, <1>3 DEF QueueInv
  <2>2. QED BY <1>1, <1>4, <2>1 DEF Searching
<1>6. i \notin Visited(i, k, p) /\ i \in Visited(plus1_mod(i, NrGuards[p]), k + 1, p)
  BY <1>1, <1>3, Loops
<1>7. \A n \in 1 .. Len(timerQ) : timerQ[n].proc # p
  <2> SUFFICES ASSUME NEW n \in 1 .. Len(timerQ), timerQ[n].proc = p
               PROVE  FALSE
    OBVIOUS
  <2>1. Timed(p, Top, state[p], alt[p], active[p])
    BY <1>3 DEF QueueInv, Entries
  <2>2. PICK j \in Branches(p) : Guards[p][j].type = "timeout" /\ Engaged(p, j, Top, state[p], alt[p])
    BY <2>1 DEF Timed
  <2>3. j \in Visited(i, k, p)
    BY <1>1, <2>2 DEF Engaged
  <2>4. j = i
    BY <1>1, <1>3, <2>2 DEF OneTimeout
  <2>5. QED BY <1>6, <2>3, <2>4
<1>8. Timed(p, a, state'[p], alt'[p], active'[p])
  <2>1. Engaged(p, i, a, state'[p], alt'[p])
    BY <1>4, <1>6 DEF Engaged
  <2>2. QED BY <1>2, <1>3, <2>1 DEF Timed
<1>9. /\ Ordered(timerQ')
      /\ \A n \in 1 .. Len(timerQ') : timerQ'[n] = t \/ \E m \in 1 .. Len(timerQ) : timerQ'[n] = timerQ[m]
  <2> DEFINE S == [time : Nat, proc : Alting]
  <2>1. timerQ \in Seq(S) /\ Ordered(timerQ) /\ t \in S /\ \A e \in S : e.time \in Nat
    BY <1>1 DEF AltInv, WaiterTypes, QueueInv
  <2>2. \A n \in 1 .. Len(timerQ) : timerQ[n].proc # t.proc
    BY <1>3, <1>7
  <2> HIDE DEF S, t
  <2>3. QED BY <1>1, <2>1, <2>2, InsertOrdered
<1>10. \A n \in 1 .. Len(timerQ') :
         \/ /\ timerQ'[n].proc = p /\ timerQ'[n] = timeout'[p]
            /\ Timed(p, a, state'[p], alt'[p], active'[p])
         \/ timerQ'[n].proc # p /\ \E m \in 1 .. Len(timerQ) : timerQ'[n] = timerQ[m]
  BY <1>2, <1>3, <1>7, <1>8, <1>9
<1>11. QED BY <1>1, <1>5, <1>9, <1>10, NewQueue

\* enable_alt() has enabled every guard, none of them is ready.
LEMMA EnableEndQueue ==
  ASSUME AltInv, QueueInv, UrgencyInv', EnableEnd
  PROVE  QueueInv'
<1> DEFINE p == Top.proc
           a == Rewound(Top)
<1>1. /\ p \in Procs /\ Runs(p, a) /\ Top.pc = "enable" /\ Top.i \in Branches(p)
      /\ a.pc = "enabled" /\ a.k = NrGuards[p] - 1 /\ a.flag = Top.flag
      /\ a.i \in Branches(p) /\ view[p] = Top
  BY EnableEndInv, Here
<1>2. UNCHANGED <<timerQ, active, timeout>>
  BY DEF EnableEnd, altVars, timeVars
<1> HIDE DEF a
<1>3. ~a.flag
  <2>1. Searching(Top)
    BY <1>1 DEF QueueInv
  <2>2. QED BY <1>1, <2>1 DEF Searching
<1>4. Searching(a)
  BY <1>1 DEF Searching
<1>5. \A j \in Branches(p) : Engaged(p, j, a, state'[p], alt'[p])
  <2>1. ToVisit(a.i, a.k, p) = Branches(p)
    BY <1>1, Loops
  <2>2. QED BY <1>1, <1>3, <2>1 DEF Engaged
<1>6. QED BY <1>1, <1>2, <1>4, <1>5, GuardsQueue

\* schedule() decides on the state; the guards stay enabled.
LEMMA EnableDoneQueue ==
  ASSUME AltInv, QueueInv, UrgencyInv', EnableDone
  PROVE  QueueInv'
<1> DEFINE p == Top.proc
<1>1. /\ p \in Procs /\ Top.pc = "enabled" /\ Top.i \in Branches(p) /\ Top.k \in Branches(p)
      /\ alt' = [alt EXCEPT ![p].index = Top.i, ![p].count = Top.k]
      /\ UNCHANGED <<active, timerQ, timeout>> /\ view[p] = Top /\ Typed(Top)
  BY EnableDoneInv, Here DEF timeVars
<1>2. PICK f, s :
        /\ Runs(p, f) /\ state' = [state EXCEPT ![p] = s] /\ f.i = Top.i /\ f.k = Top.k
        /\ \/ s = "ready" /\ f.pc = "disable"
           \/ s = "waiting" /\ f.pc = "partner" /\ ~f.flag /\ ~Top.flag
  BY EnableDoneInv
<1>3. alt'[p].index = Top.i /\ alt'[p].count = Top.k /\ state'[p] = s
  <2>1. state \in [Records -> {"unstarted", "initial", "quiescent", "enabling", "waiting", "ready", "done"}]
        /\ alt \in [Records -> [guards : Procs \cup {NoProc}, index : Int, count : Int]] /\ p \in Records
    BY <1>1 DEF AltInv, DataTypes, UrgencyInv, NoneEnds, Records
  <2>2. QED BY <1>1, <1>2, <2>1
<1>4. Searching(f)
  BY <1>2 DEF Searching
<1>5. ASSUME NEW j \in Branches(p), Engaged(p, j, Top, state[p], alt[p])
      PROVE  Engaged(p, j, f, state'[p], alt'[p])
  <2>1. j \in IF Top.flag THEN Visited(Top.i, Top.k, p) ELSE ToVisit(Top.i, Top.k, p)
    BY <1>1, <1>5 DEF Engaged
  <2>2. j \in ToVisit(Top.i, Top.k, p)
    BY <1>1, <2>1, Loops
  <2>3. QED BY <1>2, <1>3, <2>2 DEF Engaged
<1>6. QED BY <1>1, <1>2, <1>4, <1>5, GuardsQueue

\* The steps of disable_alt() that leave the queue alone.
LEMMA DisableQueue ==
  ASSUME AltInv, QueueInv, UrgencyInv', DisableInactive \/ DisableChanIn \/ DisableOutOrSkip \/ DisableIntr
  PROVE  QueueInv'
<1> DEFINE p == Top.proc
           i == Top.i
           k == Top.k
<1>1. At("disable") /\ k >= 0 /\ UNCHANGED <<timerQ, timeout, active>>
  BY DEF DisableInactive, DisableChanIn, DisableOutOrSkip, DisableIntr, Disabling, timeVars, altVars
<1>2. /\ p \in Procs /\ Top.pc = "disable" /\ HasAlt(p, alt[p]) /\ i \in Branches(p) /\ k \in Branches(p)
      /\ view[p] = Top /\ IsFrame(Top) /\ Size(p) = NrGuards[p]
  BY <1>1, DisableFacts, Guarded, Here
<1>3. ~(i \in active[p] /\ Guards[p][i].type = "timeout")
  <2>1. CASE DisableInactive
    BY <2>1, DisableInactiveInv
  <2>2. CASE Disabling("chanin") \/ Disabling("chanout") \/ Disabling("skip") \/ Disabling("interrupt")
    BY <2>2, DisablingFacts
  <2>3. QED BY <2>1, <2>2 DEF DisableChanIn, DisableOutOrSkip, DisableIntr
<1>4. \E a : Runs(p, a) /\ a.pc = "disable" /\ a.i = minus1_mod(i, NrGuards[p]) /\ a.k = k - 1
  <2>1. CASE DisableInactive \/ DisableOutOrSkip \/ DisableIntr
    <3>1. Runs(p, PrevGuard(Top))
      BY <2>1, DisableInactiveInv, DisableOutOrSkipInv, DisableIntrInv
    <3>2. PrevGuard(Top).pc = "disable" /\ PrevGuard(Top).i = minus1_mod(i, NrGuards[p]) /\ PrevGuard(Top).k = k - 1
      BY <1>2 DEF IsFrame, PrevGuard
    <3>3. QED BY <3>1, <3>2
  <2>2. CASE DisableChanIn
    <3>1. PICK w : Runs(p, PrevGuard([Top EXCEPT !.partner = w]))
      BY <2>2, DisableChanInInv
    <3> DEFINE g == [Top EXCEPT !.partner = w]
    <3>2. PrevGuard(g).pc = "disable" /\ PrevGuard(g).i = minus1_mod(i, NrGuards[p]) /\ PrevGuard(g).k = k - 1
      BY <1>2, LoopFrames
    <3>3. QED BY <3>1, <3>2
  <2>3. QED BY <2>1, <2>2
<1>5. PICK a : Runs(p, a) /\ a.pc = "disable" /\ a.i = minus1_mod(i, NrGuards[p]) /\ a.k = k - 1
  BY <1>4
<1>6. Searching(a)
  BY <1>5 DEF Searching
<1>7. ASSUME NEW j \in Branches(p), j \in active[p] /\ Guards[p][j].type = "timeout" /\ Engaged(p, j, Top, state[p], alt[p])
      PROVE  Engaged(p, j, a, state'[p], alt'[p])
  <2>1. j \in ToVisit(i, k, p) /\ j # i
    BY <1>2, <1>3, <1>7 DEF Engaged
  <2>2. j \in ToVisit(minus1_mod(i, NrGuards[p]), k - 1, p)
    BY <1>2, <2>1, Loops
  <2>3. QED BY <1>5, <2>2 DEF Engaged
<1>8. QED BY <1>1, <1>2, <1>5, <1>6, <1>7, GuardsQueue

\* disable_timeout() takes the process out of the queue, if it is there.
LEMMA DisableTimeoutQueue ==
  ASSUME AltInv, QueueInv, UrgencyInv', DisableTimeout
  PROVE  QueueInv'
<1> DEFINE p == Top.proc
           a == PrevGuard(Top)
           t == timeout[p]
           S == [time : Nat, proc : Alting]
<1>1. p \in Procs /\ Runs(p, a) /\ timerQ' = removeFromQueue(timerQ, t.time, t.proc) /\ Top.pc = "disable"
  BY DisableTimeoutInv
<1>2. Searching(a)
  <2>1. IsFrame(Top)
    BY <1>1, Here
  <2>2. a.pc = "disable"
    BY <1>1, <2>1 DEF IsFrame, PrevGuard
  <2>3. QED BY <2>2 DEF Searching
<1>3. timerQ \in Seq(S) /\ Ordered(timerQ) /\ t.time \in Nat /\ \A e \in S : e.time \in Nat
  BY <1>1 DEF AltInv, WaiterTypes, DataTypes, QueueInv
<1>4. \A n \in 1 .. Len(timerQ) : timerQ[n].proc = p => timerQ[n].time = t.time /\ t.proc = p
  <2>1. \A n \in 1 .. Len(timerQ) : timerQ[n] = timeout[timerQ[n].proc]
    BY DEF QueueInv, Entries
  <2>2. QED BY <2>1
<1> HIDE DEF S, a, t
<1>5. /\ Ordered(timerQ')
      /\ t.proc = p \/ \A n \in 1 .. Len(timerQ) : timerQ[n].proc # p
      /\ \A n \in 1 .. Len(timerQ') :
           (t.proc = p => timerQ'[n].proc # p) /\ \E m \in 1 .. Len(timerQ) : timerQ'[n] = timerQ[m]
  <2> DEFINE r == removeFromQueue(timerQ, t.time, t.proc)
  <2>1. timerQ' = r
    BY <1>1
  <2>2. /\ Ordered(r)
        /\ t.proc = p \/ \A n \in 1 .. Len(timerQ) : timerQ[n].proc # p
        /\ \A n \in 1 .. Len(r) :
             (t.proc = p => r[n].proc # p) /\ \E m \in 1 .. Len(timerQ) : r[n] = timerQ[m]
    BY <1>1, <1>3, <1>4, RemoveOrdered
  <2> HIDE DEF r
  <2>3. QED BY <2>1, <2>2
<1>6. \A n \in 1 .. Len(timerQ') : timerQ'[n].proc # p /\ \E m \in 1 .. Len(timerQ) : timerQ'[n] = timerQ[m]
  BY <1>5
<1>7. QED BY <1>1, <1>2, <1>5, <1>6, NewQueue

\* The end of disable_alt(): every guard is disabled.
LEMMA TransferQueue ==
  ASSUME AltInv, QueueInv, UrgencyInv', TransferMessage \/ TransferCount \/ TransferNothing
  PROVE  QueueInv'
<1> DEFINE p == Top.proc
           a == Leaving
<1>1. /\ p \in Procs /\ Top.pc = "disable" /\ Top.k = -1
      /\ Aside \/ Runs(p, a)
  BY TransferMessageInv, TransferCountInv, TransferNothingInv
<1>2. Top.i \in Branches(p) /\ view[p] = Top /\ a.pc = "partner"
  <2>1. At("disable")
    BY Zenon DEF TransferMessage, TransferCount, TransferNothing, Disabled
  <2>2. IsFrame(Top)
    BY <1>1, Here
  <2>3. QED BY <1>1, <2>1, <2>2, DisableFacts, Here DEF Leaving, IsFrame
<1>3. timerQ' = timerQ
  <2>1. CASE TransferMessage
    <3>1. UNCHANGED timeVars
      BY <2>1, Zenon DEF TransferMessage, Crash
    <3>2. QED BY <3>1 DEF timeVars
  <2>2. CASE TransferCount \/ TransferNothing
    BY <2>2, TransferCountInv, TransferNothingInv DEF timeVars
  <2>3. QED BY <2>1, <2>2
<1> HIDE DEF a
<1>4. Searching(a)
  BY <1>2 DEF Searching
<1>5. \A j \in Branches(p) : ~Engaged(p, j, Top, state[p], alt[p])
  <2>1. ToVisit(Top.i, Top.k, p) = {}
    BY <1>1, <1>2, Loops
  <2>2. QED BY <1>1, <2>1 DEF Engaged
<1>6. QED BY <1>1, <1>2, <1>3, <1>4, <1>5, AsideQueue, FreshQueue

\* Waking a partner, and the ways out of schedule() and back.
LEMMA PartnerQueue ==
  ASSUME AltInv, QueueInv, UrgencyInv', NoPartner \/ PartnerReturn \/ WakePartner
  PROVE  QueueInv'
<1> DEFINE p == Top.proc
<1>1. /\ p \in Procs /\ Top.pc \in {"partner", "partnerRet"} /\ view[p] = Top
      /\ UNCHANGED <<active, alt, timeout, timerQ>>
  BY PartnerEndInv, WakePartnerInv, Here DEF altVars, timeVars
<1>2. state'[p] \in {"ready", state[p]}
  <2>1. CASE NoPartner \/ PartnerReturn
    BY <2>1, PartnerEndInv
  <2>2. CASE WakePartner
    <3>1. state' = [state EXCEPT ![Top.partner] = "ready"]
      BY <2>2, WakePartnerInv
    <3>2. state \in [Records -> {"unstarted", "initial", "quiescent", "enabling", "waiting", "ready"}] /\ p \in Records
      BY <1>1 DEF AltInv, UrgencyInv, NoneEnds, Records
    <3>3. QED BY <3>1, <3>2
  <2>3. QED BY <2>1, <2>2
<1>3. \E f : /\ Runs(p, f) /\ f.flag = Top.flag
             /\ \/ f.pc = "partnerRet"
                \/ f.pc = "finish" /\ ~Top.flag
                \/ f.pc = "rtc" /\ Top.flag
  <2>1. CASE NoPartner \/ PartnerReturn
    <3>1. \E f : Runs(p, f) /\ f.pc = (IF Top.flag THEN "rtc" ELSE "finish") /\ f.flag = Top.flag
      BY <2>1, PartnerEndInv
    <3>2. QED BY <3>1
  <2>2. CASE WakePartner
    BY <2>2, WakePartnerInv
  <2>3. QED BY <2>1, <2>2
<1>4. PICK f : /\ Runs(p, f) /\ f.flag = Top.flag
               /\ \/ f.pc = "partnerRet"
                  \/ f.pc = "finish" /\ ~Top.flag
                  \/ f.pc = "rtc" /\ Top.flag
  BY <1>3
<1>5. Searching(f)
  BY <1>4 DEF Searching
<1>6. \A j \in Branches(p) : Engaged(p, j, Top, state[p], alt[p]) => Engaged(p, j, f, state'[p], alt'[p])
  BY <1>1, <1>2, <1>4 DEF Engaged
<1>7. QED BY <1>1, <1>4, <1>5, <1>6, GuardsQueue

LEMMA ScheduleQueue ==
  ASSUME AltInv, QueueInv, UrgencyInv', ScheduleStep
  PROVE  QueueInv'
<1>1. CASE NoPartner \/ PartnerReturn \/ WakePartner
  BY <1>1, PartnerQueue
<1>2. CASE SelectNone \/ SelectNew
  <2>1. Aside /\ timerQ' = timerQ
    BY <1>2, SelectNoneInv, SelectNewInv DEF timeVars
  <2>2. QED BY <2>1, AsideQueue
<1>3. CASE SelectSame \/ Take \/ Load \/ Finish
  <2>1. UNCHANGED <<state, active, alt, timeout, timerQ>>
    BY <1>3, SelectSameInv, TakeAltInv, LoadInv, FinishInv DEF altVars, timeVars
  <2>2. \/ Aside
        \/ \E p \in Procs : \E f :
             /\ Runs(p, f) /\ view[p].pc \in {"off", "select", "load", "finish"}
             /\ \/ f.pc \in {"load", "select", "off"}
                \/ f.pc = "finish" /\ state[p] \notin {"initial", "quiescent", "ready"}
                \/ f.pc \in {"rtc", "begin"} /\ ~f.flag /\ state[p] \in {"initial", "quiescent"}
                \/ f.pc = "disable" /\ state[p] = "ready" /\ f.i = alt[p].index /\ f.k = alt[p].count
    <3>1. CASE SelectSame
      BY <3>1, SelectSameInv, Here
    <3>2. CASE Take
      <4>1. Off.pc = "off"
        BY DEF Off, Frame
      <4>2. QED BY <3>2, <4>1, TakeAltInv
    <3>3. CASE Load
      BY <3>3, LoadInv, Here
    <3>4. CASE Finish
      <4>1. Off.pc = "off"
        BY DEF Off, Frame
      <4>2. QED BY <3>4, <4>1, FinishInv, Here
    <3>5. QED BY <1>3, <3>1, <3>2, <3>3, <3>4
  <2>3. CASE Aside
    BY <2>1, <2>3, AsideQueue
  <2>4. ASSUME NEW p \in Procs, NEW f,
               Runs(p, f), view[p].pc \in {"off", "select", "load", "finish"},
               \/ f.pc \in {"load", "select", "off"}
               \/ f.pc = "finish" /\ state[p] \notin {"initial", "quiescent", "ready"}
               \/ f.pc \in {"rtc", "begin"} /\ ~f.flag /\ state[p] \in {"initial", "quiescent"}
               \/ f.pc = "disable" /\ state[p] = "ready" /\ f.i = alt[p].index /\ f.k = alt[p].count
        PROVE  QueueInv'
    <3> DEFINE a == view[p]
    <3>1. Searching(f)
      BY <2>4 DEF Searching
    <3>2. a.pc \in {"off", "select", "load", "finish"}
      BY <2>4
    <3> HIDE DEF a
    <3>3. \A j \in Branches(p) : Engaged(p, j, a, state[p], alt[p]) => Engaged(p, j, f, state'[p], alt'[p])
      BY <2>1, <2>4, <3>2 DEF Engaged
    <3>4. QED BY <2>1, <2>4, <3>1, <3>3, GuardsQueue DEF a
  <2>5. QED BY <2>2, <2>3, <2>4
<1>4. QED BY <1>1, <1>2, <1>3 DEF ScheduleStep

\* A process that start() begins, or begins anew, has no enabled guard.
LEMMA StartQueue ==
  ASSUME AltInv, QueueInv, timerQ' = timerQ, NEW A, \A q \in Procs : q \notin A => view'[q] = view[q],
         \A q \in A : q \in Procs => Kept(q) /\ Searching(view'[q]) /\ view[q].pc = "rtc",
         \A q \in Procs : Kept(q) \/ Begins(q)
  PROVE  QueueInv'
<1>1. ASSUME NEW q \in Procs, Timed(q, view[q], state[q], alt[q], active[q])
      PROVE  Timed(q, view'[q], state'[q], alt'[q], active'[q]) /\ timeout'[q] = timeout[q]
  <2> DEFINE a == view[q]
  <2>1. a.pc # "rtc" /\ ~Begins(q)
    <3>1. Timed(q, a, state[q], alt[q], active[q]) /\ StateFits(q, a, state[q], alt[q])
      BY <1>1 DEF AltInv, Fits, AltFits
    <3> HIDE DEF a
    <3>2. PICK i \in Branches(q) : Engaged(q, i, a, state[q], alt[q])
      BY <3>1 DEF Timed
    <3>3. QED BY <3>1, <3>2 DEF Engaged, StateFits, Begins
  <2>2. Kept(q) /\ view'[q] = view[q]
    BY <1>1, <2>1
  <2>3. QED BY <1>1, <2>2, StaysTimed
<1>2. \A q \in Procs : Searching(view'[q])
  BY DEF QueueInv
<1>3. QED BY <1>1, <1>2, QueueStays

LEMMA RtcQueue ==
  ASSUME AltInv, QueueInv, UrgencyInv', RtcStep
  PROVE  QueueInv'
<1> DEFINE p == Top.proc
<1>1. CASE RtcEnter
  <2>1. PICK f : f.pc = "rtcRest" /\ view' = [q \in Procs |-> IF q = p THEN f ELSE view[q]]
    BY <1>1, RtcEnterInv
  <2>2. /\ p \in Procs /\ Top.pc = "rtc" /\ timerQ' = timerQ /\ Kept(p) /\ view[p] = Top
        /\ \A q \in Procs : Kept(q) \/ Begins(q)
    BY <1>1, RtcEnterInv, Here
  <2>3. Searching(f)
    BY <2>1 DEF Searching
  <2> DEFINE A == {p}
  <2>4. /\ \A q \in Procs : q \notin A => view'[q] = view[q]
        /\ \A q \in A : q \in Procs => Kept(q) /\ Searching(view'[q]) /\ view[q].pc = "rtc"
    BY <2>1, <2>2, <2>3
  <2> HIDE DEF A
  <2>5. QED BY <2>2, <2>4, StartQueue
<1>2. CASE RtcRest
  <2>1. /\ p \in Procs /\ Top.pc = "rtcRest" /\ view[p] = Top /\ timerQ' = timerQ
    BY <1>2, RtcRestInv, Here
  <2>2. PICK f : Runs(p, f) /\ f.pc = "finish"
    BY <1>2, RtcRestInv
  <2>3. Searching(f)
    BY <2>2 DEF Searching
  <2>4. \A i \in Branches(p) : ~Engaged(p, i, Top, state[p], alt[p])
    BY <2>1 DEF Engaged
  <2>5. QED BY <2>1, <2>2, <2>3, <2>4, FreshQueue
<1>3. QED BY <1>1, <1>2 DEF RtcStep

LEMMA NextQueue ==
  ASSUME AltInv, QueueInv, OneTimeout, UrgencyInv', [Next]_vars
  PROVE  QueueInv'
<1>1. CASE MainStep
  <2>1. CASE MainStart
    <3>1. view' = view /\ timerQ' = timerQ /\ \A q \in Procs : Kept(q) \/ Begins(q)
      BY <2>1, MainStartInv
    <3> DEFINE A == {}
    <3>2. /\ \A q \in Procs : q \notin A => view'[q] = view[q]
          /\ \A q \in A : q \in Procs => Kept(q) /\ Searching(view'[q]) /\ view[q].pc = "rtc"
      BY <3>1
    <3> HIDE DEF A
    <3>3. QED BY <3>1, <3>2, StartQueue
  <2>2. CASE MainRun
    <3>1. Aside /\ timerQ' = timerQ
      BY <2>2, MainRunInv DEF timeVars
    <3>2. QED BY <3>1, AsideQueue
  <2>3. QED BY <1>1, <2>1, <2>2 DEF MainStep
<1>2. CASE StartStep \/ HandlerStep
  <2>1. Aside /\ (timerQ' = timerQ \/ (timerQ # << >> /\ timerQ' = Tail(timerQ)))
    <3>1. CASE StartStep
      BY <3>1, StartStepInv DEF timeVars
    <3>2. CASE HandleUser
      BY <3>2, HandleUserInv DEF HandleUser, timeVars
    <3>3. CASE TimeoutDue
      BY <3>3, TimeoutDueInv
    <3>4. CASE HandleTimeout \/ TimeoutRearm \/ HandlerReturn \/ HandlerExit \/ HandlerRestore
      BY <3>4, HandleTimeoutInv, TimeoutRearmInv, HandlerReturnInv, HandlerExitInv, HandlerRestoreInv DEF timeVars
    <3>5. QED BY <1>2, <3>1, <3>2, <3>3, <3>4 DEF HandlerStep
  <2>2. QED BY <2>1, AsideQueue
<1>3. CASE ScheduleStep \/ RtcStep
  BY <1>3, ScheduleQueue, RtcQueue
<1>4. CASE EnableStep
  <2>1. CASE EnableInactive \/ EnableChanIn \/ EnableChanOut \/ EnableSkip \/ EnableIntr
    BY <2>1, EnableQueue
  <2>2. CASE EnableBegin \/ EnableTimeout \/ EnableInsert \/ EnableEnd \/ EnableDone
    BY <2>2, EnableBeginQueue, EnableTimeoutQueue, EnableInsertQueue, EnableEndQueue, EnableDoneQueue
  <2>3. QED BY <1>4, <2>1, <2>2 DEF EnableStep
<1>5. CASE DisableStep
  BY <1>5, DisableQueue, DisableTimeoutQueue, TransferQueue DEF DisableStep
<1>6. CASE Environment
  <2>1. CASE Clock \/ AlarmFires
    <3>1. Aside /\ timerQ' = timerQ
      BY <2>1, ClockInv
    <3>2. QED BY <3>1, AsideQueue
  <2>2. CASE ElapsedInterrupt \/ TimeoutInterrupt \/ \E u \in Intrs : UserInterrupt(u)
    <3>1. PICK src \in Intrs \cup {"elapsed", "timeout"} : Interrupt(src) /\ (pend' = pend \/ pend' = FALSE)
      BY <2>2 DEF ElapsedInterrupt, TimeoutInterrupt, UserInterrupt
    <3>2. pend' \in BOOLEAN
      BY <3>1 DEF AltInv, DataTypes
    <3>3. Aside /\ timerQ' = timerQ
      BY <3>1, <3>2, InterruptInv
    <3>4. QED BY <3>3, AsideQueue
  <2>3. QED BY <1>6, <2>1, <2>2 DEF Environment
<1>7. CASE DISABLE \/ SigReturn \/ UNCHANGED vars
  <2>1. Aside /\ timerQ' = timerQ
    BY <1>7, StillInv
  <2>2. QED BY <2>1, AsideQueue
<1>8. QED BY <1>1, <1>2, <1>3, <1>4, <1>5, <1>6, <1>7 DEF Next, CpuStep

\* In the beginning nobody is on the CPU.
LEMMA InitViews ==
  ASSUME Orderly, Init
  PROVE  \A p \in Procs : view[p] = Off /\ view[p].pc = "off"
<1>1. ViewOK /\ \A n \in Frames : stack[n].proc \notin Procs
  <2>1. ViewOK
    BY InitAlt, Views DEF AltInv
  <2>2. stack = <<Frame("main", "main", 0, None)>>
    BY DEF Init
  <2>3. \A n \in Frames : stack[n].proc = NoProc
    BY <2>2 DEF Frames, Frame
  <2>4. QED BY <2>1, <2>3, RecordAssumption DEF Records
<1>2. \A p \in Procs : (\A n \in Frames : stack[n].proc # p) => view[p] = Off
  BY <1>1 DEF ViewOK
<1>3. \A p \in Procs : \A n \in Frames : stack[n].proc # p
  BY <1>1
<1>4. \A p \in Procs : view[p] = Off
  BY <1>2, <1>3, Zenon
<1>5. Off.pc = "off"
  BY DEF Off, Frame
<1>6. QED BY <1>4, <1>5, Zenon

\* Whatever the interleaving of enable_alt(), disable_alt() and the handler of
\* the timeout interrupt, the queue of timer.c is in time order, holds nobody
\* twice, and holds only processes in the middle of their ALT (TimerQueueExact).
THEOREM TimerQueueExactHolds == Orderly /\ OneTimeout /\ Spec => []TimerQueueExact
<1> DEFINE Inv == Orderly /\ OneTimeout /\ AltInv /\ QueueInv
<1>1. Orderly /\ OneTimeout /\ Init => Inv
  <2> SUFFICES ASSUME Orderly, OneTimeout, Init
               PROVE  QueueInv
    BY InitAlt
  <2>1. timerQ = << >>
    BY DEF Init
  <2>2. \A p \in Procs : Searching(view[p])
    <3> SUFFICES ASSUME NEW p \in Procs
                 PROVE  Searching(view[p])
      BY Zenon
    <3> DEFINE a == view[p]
    <3>1. a.pc = "off"
      BY InitViews
    <3> HIDE DEF a
    <3>2. Searching(a)
      BY <3>1 DEF Searching
    <3>3. QED BY <3>2 DEF a
  <2>3. QED BY <2>1, <2>2 DEF QueueInv, Entries, Ordered
<1>2. Inv /\ [Next]_vars => Inv'
  <2> SUFFICES ASSUME Inv, [Next]_vars
               PROVE  Inv'
    OBVIOUS
  <2>1. UrgencyInv'
    BY NextUrgency DEF AltInv
  <2>2. AltInv' /\ QueueInv'
    BY <2>1, NextAlt, NextQueue
  <2>3. Orderly' /\ OneTimeout'
    BY DEF Orderly, PriOf, OneTimeout, Branches
  <2>4. QED BY <2>2, <2>3
<1>3. Inv => TimerQueueExact
  BY QueueExact
<1> HIDE DEF Inv
<1>4. QED BY <1>1, <1>2, <1>3, PTL DEF Spec
=============================================================================
