--------------------------- MODULE ChannelProofs ---------------------------
(***************************************************************************)
(* Proof that in a synchronous application the channels are rendezvous:    *)
(* schedule(), enable_alt(), disable_alt() and the operations on channels  *)
(* implement the specification of Rendezvous.tla, wake only the writer of  *)
(* the message taken, select only a branch that is ready, and let no       *)
(* process wait for a branch that is.                                      *)
(*                                                                         *)
(* The proof has two layers.  The lower one looks at the stack: only the   *)
(* innermost process executes, every other one is off the CPU or waits for *)
(* readyProcessIfNecessary() to return, so that the stack may be seen as a *)
(* function `view' from a process to its activation.  The upper one looks  *)
(* at each process through five functions of that activation, and at the   *)
(* channels.                                                               *)
(***************************************************************************)
EXTENDS SchedProofs

-----------------------------------------------------------------------------
\* The lower layer.

\* The activation of a process that has none.
Off == Frame("schedule", "off", 0, None)

view == [p \in Procs |-> IF OnCpu(p) THEN stack[CHOOSE n \in Frames : stack[n].proc = p] ELSE Off]

\* Only the innermost process executes, and only it has called schedule(); a
\* partner is remembered no longer than until it was woken.
Inner ==
  /\ \A m, n \in Frames :
       m < n /\ stack[m].proc # NoProc /\ stack[n].proc # NoProc => stack[m].pc = "partnerRet"
  /\ \A n \in Frames : stack[n].prev # NoProc => stack[n].pc = "partnerRet"
  /\ \A n \in Frames :
       stack[n].pc \in {"select", "take", "load", "rtc", "rtcRest", "finish"} => stack[n].partner = NoProc

\* Nobody waits for an interrupt or for a timeout, and no record was released.
Unused ==
  /\ timerQ = << >>
  /\ ichan \in [Intrs -> [waiting : {NoProc}, count : Int]]
  /\ connected \subseteq Intrs
  /\ freed = {}

Nested == Inner /\ Unused

-----------------------------------------------------------------------------
\* The upper layer: what process p with activation a and scheduling state s is
\* doing about its ALT.

\* The k guards before guard i, in the cyclic order of enable_alt(), and the
\* k + 1 guards up to i, in that of disable_alt().
Visited(i, k, p) == {j \in Branches(p) : IF j < i THEN i - j <= k ELSE i + NrGuards[p] - j <= k}
ToVisit(i, k, p) == {j \in Branches(p) : IF j <= i THEN i - j <= k ELSE i + NrGuards[p] - j <= k}

ModeOf(a, s) ==
  IF a.pc = "disable" THEN "choosing"
  ELSE IF s \in {"enabling", "waiting", "ready"} THEN s
  ELSE IF a.pc \in {"partner", "partnerRet", "rtc"} /\ a.flag THEN "selected"
  ELSE "outside"

\* The active guards that are enabled.
RegOf(p, a, s, on) ==
  IF a.pc = "enable" \/ (a.pc = "enabled" /\ a.flag) THEN on \cap Visited(a.i, a.k, p)
  ELSE IF a.pc = "disable" THEN on \cap ToVisit(a.i, a.k, p)
  ELSE IF a.pc = "enabled" \/ s \in {"waiting", "ready"} THEN on
  ELSE {}

\* The reader, and the writer, that the process has still to wake.
WakeOf(a) == IF a.pc \in {"enable", "enabled", "partner"} /\ ~a.flag THEN a.partner ELSE NoProc
OwesOf(a) == IF a.pc = "partner" /\ a.flag THEN a.partner ELSE NoProc

mode == [p \in Procs |-> ModeOf(view[p], state[p])]
reg  == [p \in Procs |-> RegOf(p, view[p], state[p], active[p])]
wake == [p \in Procs |-> WakeOf(view[p])]
owes == [p \in Procs |-> OwesOf(view[p])]

\* The guards that could be selected now.
open == [p \in Procs |-> {i \in Branches(p) : GuardReady(p, i)}]

Reads(p, i, c)  == i \in Branches(p) /\ Guards[p][i].type = "chanin" /\ Guards[p][i].ch = c
Writes(p, i, c) == i \in Branches(p) /\ Guards[p][i].type = "chanout" /\ Guards[p][i].ch = c

-----------------------------------------------------------------------------
\* The invariant, process by process.

StateAt(a, s) ==
  /\ a.pc = "off" => s \in {"unstarted", "initial", "waiting", "ready"}
  /\ a.pc = "load" => s \in {"unstarted", "initial", "quiescent", "waiting", "ready"}
  /\ a.pc \in {"select", "finish"} => s \in {"unstarted", "quiescent", "waiting", "ready"}
  /\ a.pc = "begin" => s = "quiescent" /\ ~a.flag
  /\ a.pc = "enable" => s = "enabling" /\ ~a.flag
  /\ a.pc = "enabled" => s = "enabling"
  /\ a.pc = "disable" => s = "ready"
  /\ a.pc = "partner" => s = IF a.flag THEN "quiescent" ELSE "waiting"
  /\ a.pc = "partnerRet" => s \in IF a.flag THEN {"quiescent"} ELSE {"waiting", "ready"}
  /\ a.pc \in {"rtc", "rtcRest"} => s = IF a.flag THEN "quiescent" ELSE "initial"
  /\ a.pc \in {"off", "load", "select", "finish", "begin", "enable", "enabled", "disable",
               "partner", "partnerRet", "rtc", "rtcRest"}

LoopAt(p, a) ==
  /\ a.pc \in {"enable", "enabled", "disable"} => a.i \in Branches(p)
  /\ a.pc = "enable" => a.k \in 0 .. NrGuards[p]
  /\ a.pc = "enabled" => a.k \in Branches(p) /\ (~a.flag => a.k = NrGuards[p] - 1)
  /\ a.pc = "disable" => a.k \in -1 .. NrGuards[p] - 1
  /\ a.pc = "rtcRest" => a.act.active \subseteq Branches(p) /\ a.act.connect \subseteq Intrs

\* An active output guard is the only active guard.
Alone(p, on) == \A i \in on : Guards[p][i].type = "chanout" => on = {i}

Local(p, a, s, al, on) ==
  /\ StateAt(a, s)
  /\ LoopAt(p, a)
  /\ on \subseteq Branches(p)
  /\ al.guards \in {NoProc, p}
  /\ ModeOf(a, s) # "outside" => al.guards = p /\ Alone(p, on)
  /\ ModeOf(a, s) \in {"waiting", "ready"} =>
       al.count = NrGuards[p] - 1 /\ al.index \in Branches(p)
  /\ ModeOf(a, s) \in {"enabling", "waiting", "ready"} =>
       \A i \in RegOf(p, a, s, on) : Guards[p][i].type # "skip"

\* enable_alt() leaves its loop, and disable_alt() chooses.
Chooses(p, a, al, on, r, o) ==
  /\ a.pc = "enabled" /\ a.flag => a.i \in on \cap o /\ Guards[p][a.i].type # "chanout"
  /\ a.pc = "disable" =>
       /\ \A j \in r : Guards[p][j].type = "skip" => j = a.i /\ a.partner = NoProc
       /\ \/ a.partner = NoProc /\ r \cap o # {}
          \/ /\ al.index \in on \cap o
             /\ a.partner = IF Guards[p][al.index].type = "chanin"
                            THEN Sender(Guards[p][al.index].ch) ELSE NoProc
  /\ a.pc = "partner" /\ a.flag =>
       a.partner = IF Guards[p][al.index].type = "chanin"
                   THEN Sender(Guards[p][al.index].ch) ELSE NoProc

LocalInv ==
  \A p \in Procs :
    /\ Local(p, view[p], state[p], alt[p], active[p])
    /\ Chooses(p, view[p], alt[p], active[p], reg[p], open[p])

-----------------------------------------------------------------------------
\* The invariant between the processes and the channels.

Types ==
  /\ chan \in [Chans -> [waiting : Procs \cup {NoProc}, src : Procs \cup {NoProc}]]
  /\ sent \in [Chans -> 0 .. MsgMod - 1] /\ got \in [Chans -> 0 .. MsgMod - 1]
  /\ alt \in [Records -> [guards : Procs \cup {NoProc}, index : Int, count : Int]]
  /\ active \in [Procs -> SUBSET Nat]

\* A process that was made ready has a branch to select, and the branch it has
\* selected is one that was open.
ReadyInv ==
  \A p \in Procs :
    /\ mode[p] = "ready" => active[p] \cap open[p] # {}
    /\ mode[p] = "selected" =>
         /\ alt[p].index \in active[p]
         /\ Guards[p][alt[p].index].type = "chanout" => alt[p].index \in open[p]
    /\ owes[p] # NoProc =>
         \E c \in Chans : /\ Reads(p, alt[p].index, c)
                          /\ owes[p] = Sender(c) /\ got[c] # sent[c]
                          /\ mode[owes[p]] = "waiting"

\* A writer whose message was not taken is the one that waits in the channel ...
OfferInv ==
  \A p \in Procs : \A i \in reg[p] : \A c \in Chans :
    Writes(p, i, c) /\ got[c] = sent[c] => chan[c].waiting = p /\ chan[c].src = p

\* ... a reader waits in it, or has been overtaken by the writer, which then
\* wakes it or has done so ...
ListenInv ==
  \A p \in Procs : \A i \in reg[p] : \A c \in Chans :
    Reads(p, i, c) =>
      /\ chan[c].waiting # NoProc
      /\ mode[p] = "enabling" => chan[c].waiting = p
      /\ mode[p] = "waiting" /\ chan[c].waiting # p => \E q \in Procs : wake[q] = p

\* ... and nobody else waits in it.
WaitingInv ==
  \A c \in Chans : chan[c].waiting # NoProc =>
    \E i \in reg[chan[c].waiting] :
      \/ Reads(chan[c].waiting, i, c)
      \/ Writes(chan[c].waiting, i, c) /\ got[c] = sent[c]

\* A message that was taken is one that its writer has still to learn of.
TakenInv ==
  \A c \in Chans :
    /\ got[c] \in {sent[c], plus1_mod(sent[c], MsgMod)}
    /\ got[c] # sent[c] =>
         \E i \in active[Sender(c)] :
           /\ Writes(Sender(c), i, c)
           /\ \/ mode[Sender(c)] \in {"ready", "choosing"}
              \/ /\ mode[Sender(c)] = "waiting"
                 /\ \E q \in Procs : owes[q] = Sender(c) /\ Reads(q, alt[q].index, c)
              \/ mode[Sender(c)] = "selected" /\ alt[Sender(c)].index = i

\* The reader that is to be woken has an offer.
WakesInv ==
  \A p \in Procs : wake[p] # NoProc =>
    /\ wake[p] \in Procs /\ mode[wake[p]] \in {"waiting", "ready"}
    /\ \E c \in Chans : \E i \in reg[p], j \in reg[wake[p]] :
         Writes(p, i, c) /\ got[c] = sent[c] /\ Reads(wake[p], j, c)

CrossInv == Types /\ ReadyInv /\ OfferInv /\ ListenInv /\ WaitingInv /\ TakenInv /\ WakesInv

ChannelInv == UrgencyInv /\ Nested /\ LocalInv /\ CrossInv

-----------------------------------------------------------------------------
\* Channels are point to point.

LEMMA PointToPoint ==
  ASSUME Synchronous
  PROVE  /\ \A p \in Procs : \A i, c : Writes(p, i, c) => c \in Chans /\ Sender(c) = p
         /\ \A p \in Procs : \A i, c : Reads(p, i, c) => c \in Chans /\ Sender(c) # p
         /\ \A c \in Chans : Sender(c) \in Procs /\ Sender(c) # NoProc
         /\ \A p, q \in Procs : \A i, j, c :
              Writes(p, i, c) /\ Writes(q, j, c) => p = q /\ i = j
         /\ \A p, q \in Procs : \A i, j, c :
              Reads(p, i, c) /\ Reads(q, j, c) => p = q /\ i = j
         /\ \A p \in Procs : \A i \in Branches(p) :
              Guards[p][i].type = "skip" \/ \E c \in Chans : Reads(p, i, c) \/ Writes(p, i, c)
<1>1. /\ \A p \in Procs : \A i \in Branches(p) :
           \/ Guards[p][i].type = "skip"
           \/ Guards[p][i].type \in {"chanin", "chanout"} /\ Guards[p][i].ch \in Chans
      /\ \A p, q \in Procs : \A i \in Branches(p), j \in Branches(q) :
           Guards[p][i].type # "skip" /\ Guards[q][j].type # "skip" /\ Guards[p][i].ch = Guards[q][j].ch =>
             IF Guards[p][i].type = Guards[q][j].type THEN p = q /\ i = j ELSE p # q
      /\ \A c \in Chans : \E p \in Procs : \E i \in Branches(p) :
           Guards[p][i] = [type |-> "chanout", ch |-> c]
  BY DEF Synchronous
<1>2. \A p \in Procs : \A i, c : Writes(p, i, c) \/ Reads(p, i, c) => c \in Chans
  BY <1>1 DEF Writes, Reads
<1>3. \A p, q \in Procs : \A i, j, c :
        /\ Writes(p, i, c) /\ Writes(q, j, c) => p = q /\ i = j
        /\ Reads(p, i, c) /\ Reads(q, j, c) => p = q /\ i = j
        /\ Reads(p, i, c) /\ Writes(q, j, c) => p # q
  BY <1>1 DEF Writes, Reads
<1>4. ASSUME NEW c \in Chans
      PROVE  Sender(c) \in Procs /\ \E i : Writes(Sender(c), i, c)
  <2> DEFINE P(p) == p \in Procs /\ \E i \in Branches(p) : Guards[p][i] = [type |-> "chanout", ch |-> c]
  <2>1. \E p : P(p)
    BY <1>1
  <2>2. Sender(c) = CHOOSE p : P(p)
    BY DEF Sender
  <2>3. P(Sender(c))
    BY <2>1, <2>2
  <2>4. QED BY <2>3 DEF Writes
<1>5. \A p \in Procs : \A i \in Branches(p) :
        Guards[p][i].type = "skip" \/ \E c \in Chans : Reads(p, i, c) \/ Writes(p, i, c)
  BY <1>1 DEF Reads, Writes
<1>6. \A c \in Chans : Sender(c) # NoProc
  BY <1>4, RecordAssumption DEF Records
<1>7. QED BY <1>2, <1>3, <1>4, <1>5, <1>6

LEMMA PlusOne ==
  ASSUME NEW m \in Nat \ {0, 1}, NEW i \in 0 .. m - 1
  PROVE  /\ plus1_mod(i, m) = IF i = m - 1 THEN 0 ELSE i + 1
         /\ plus1_mod(i, m) \in 0 .. m - 1 /\ plus1_mod(i, m) # i
         /\ (plus1_mod(i, m) - i) % m = 1 /\ (i - i) % m = 0
<1>1. i \in Nat /\ i + 1 <= m
  OBVIOUS
<1>2. (i + 1) % m = IF i = m - 1 THEN 0 ELSE i + 1
  <2>1. CASE i = m - 1
    BY <2>1
  <2>2. CASE i # m - 1
    <3>1. i + 1 \in 0 .. m - 1
      BY <2>2
    <3>2. \A n \in 0 .. m - 1 : n % m = n
      OBVIOUS
    <3>3. QED BY <2>2, <3>1, <3>2
  <2>3. QED BY <2>1, <2>2
<1>3. (1 - m) % m = 1 /\ 1 % m = 1 /\ 0 % m = 0
  OBVIOUS
<1>4. CASE i = m - 1
  <2>1. 0 - i = 1 - m
    BY <1>4
  <2>2. QED BY <1>2, <1>3, <1>4, <2>1 DEF plus1_mod
<1>5. CASE i # m - 1
  <2>1. (i + 1) - i = 1
    OBVIOUS
  <2>2. QED BY <1>2, <1>3, <1>5, <2>1 DEF plus1_mod
<1>6. QED BY <1>4, <1>5

LEMMA Neighbours ==
  ASSUME NEW n \in Nat \ {0}, NEW i \in 0 .. n - 1
  PROVE  /\ plus1_mod(i, n) = IF i = n - 1 THEN 0 ELSE i + 1
         /\ minus1_mod(i, n) = IF i = 0 THEN n - 1 ELSE i - 1
<1>1. \A k \in 0 .. n - 1 : k % n = k
  OBVIOUS
<1>2. plus1_mod(i, n) = IF i = n - 1 THEN 0 ELSE i + 1
  <2>1. CASE i = n - 1
    <3>1. n % n = 0 /\ i + 1 = n
      BY <2>1
    <3>2. QED BY <2>1, <3>1 DEF plus1_mod
  <2>2. CASE i # n - 1
    <3>1. i + 1 \in 0 .. n - 1
      BY <2>2
    <3>2. QED BY <1>1, <2>2, <3>1 DEF plus1_mod
  <2>3. QED BY <2>1, <2>2
<1>3. minus1_mod(i, n) = IF i = 0 THEN n - 1 ELSE i - 1
  <2>1. CASE i = 0
    <3>1. i - 1 + n = n - 1 /\ n - 1 \in 0 .. n - 1
      BY <2>1
    <3>2. QED BY <1>1, <2>1, <3>1 DEF minus1_mod
  <2>2. CASE i # 0
    <3>1. i - 1 \in 0 .. n - 1
      BY <2>2
    <3>2. \A k \in 0 .. n - 1 : (k + n) % n = k
      OBVIOUS
    <3>3. QED BY <2>2, <3>1, <3>2 DEF minus1_mod
  <2>3. QED BY <2>1, <2>2
<1>4. QED BY <1>2, <1>3

\* The guards before and behind the position of the two loops.
LEMMA Loops ==
  ASSUME NEW p \in Procs, NEW i \in Branches(p)
  PROVE  /\ NrGuards[p] \in Nat \ {0}
         /\ Visited(i, 0, p) = {} /\ Visited(i, NrGuards[p], p) = Branches(p)
         /\ \A k \in Branches(p) :
              /\ i \notin Visited(i, k, p)
              /\ plus1_mod(i, NrGuards[p]) \in Branches(p)
              /\ Visited(plus1_mod(i, NrGuards[p]), k + 1, p) = Visited(i, k, p) \cup {i}
              /\ ToVisit(i, k, p) = Visited(i, k, p) \cup {i}
              /\ minus1_mod(i, NrGuards[p]) \in Branches(p)
              /\ ToVisit(minus1_mod(i, NrGuards[p]), k - 1, p) = ToVisit(i, k, p) \ {i}
         /\ ToVisit(i, NrGuards[p] - 1, p) = Branches(p) /\ ToVisit(i, -1, p) = {}
<1> DEFINE n == NrGuards[p]
<1>1. n \in Nat \ {0} /\ i \in 0 .. n - 1 /\ Branches(p) = 0 .. n - 1
  <2>1. n \in 0 .. 255 /\ i \in 0 .. n - 1
    BY ApplicationAssumption DEF Branches
  <2>2. QED BY <2>1 DEF Branches
<1>2. \A k \in Int : \A m \in Branches(p) : \A j :
        j \in Visited(m, k, p) <=> j \in 0 .. n - 1 /\ IF j < m THEN m - j <= k ELSE m + n - j <= k
  BY <1>1 DEF Visited
<1>3. \A k \in Int : \A m \in Branches(p) : \A j :
        j \in ToVisit(m, k, p) <=> j \in 0 .. n - 1 /\ IF j <= m THEN m - j <= k ELSE m + n - j <= k
  BY <1>1 DEF ToVisit
<1>4. /\ plus1_mod(i, n) = IF i = n - 1 THEN 0 ELSE i + 1
      /\ minus1_mod(i, n) = IF i = 0 THEN n - 1 ELSE i - 1
  BY <1>1, Neighbours
<1> HIDE DEF n
<1>5. /\ \A j : j \notin Visited(i, 0, p)
      /\ \A j : j \in Visited(i, n, p) <=> j \in 0 .. n - 1
  BY <1>1, <1>2
<1>6. /\ \A j : j \in ToVisit(i, n - 1, p) <=> j \in 0 .. n - 1
      /\ \A j : j \notin ToVisit(i, -1, p)
  <2>1. n - 1 \in Int /\ -1 \in Int
    BY <1>1
  <2>2. QED BY <1>1, <1>3, <2>1
<1>7. ASSUME NEW k \in Branches(p)
      PROVE  /\ i \notin Visited(i, k, p)
             /\ plus1_mod(i, n) \in Branches(p)
             /\ Visited(plus1_mod(i, n), k + 1, p) = Visited(i, k, p) \cup {i}
             /\ ToVisit(i, k, p) = Visited(i, k, p) \cup {i}
             /\ minus1_mod(i, n) \in Branches(p)
             /\ ToVisit(minus1_mod(i, n), k - 1, p) = ToVisit(i, k, p) \ {i}
  <2>1. plus1_mod(i, n) \in Branches(p) /\ minus1_mod(i, n) \in Branches(p) /\ k \in Int /\ k + 1 \in Int /\ k - 1 \in Int
    BY <1>1, <1>4, <1>7
  <2>2. i \notin Visited(i, k, p)
    BY <1>1, <1>2, <1>7, <2>1
  <2>3. Visited(plus1_mod(i, n), k + 1, p) = Visited(i, k, p) \cup {i}
    <3>1. ASSUME NEW j \in 0 .. n - 1
          PROVE  j \in Visited(plus1_mod(i, n), k + 1, p) <=> j \in Visited(i, k, p) \/ j = i
      <4>1. CASE i = n - 1
        BY <1>1, <1>2, <1>4, <1>7, <2>1, <4>1
      <4>2. CASE i # n - 1
        BY <1>1, <1>2, <1>4, <1>7, <2>1, <4>2
      <4>3. QED BY <4>1, <4>2
    <3>2. QED BY <1>1, <1>2, <2>1, <3>1
  <2>4. ToVisit(i, k, p) = Visited(i, k, p) \cup {i}
    BY <1>1, <1>2, <1>3, <1>7, <2>1
  <2>5. ToVisit(minus1_mod(i, n), k - 1, p) = ToVisit(i, k, p) \ {i}
    <3>1. CASE i = 0
      BY <1>1, <1>3, <1>4, <1>7, <2>1, <3>1
    <3>2. CASE i # 0
      BY <1>1, <1>3, <1>4, <1>7, <2>1, <3>2
    <3>3. QED BY <3>1, <3>2
  <2>6. QED BY <2>1, <2>2, <2>3, <2>4, <2>5
<1>8. QED BY <1>1, <1>5, <1>6, <1>7 DEF n

\* What it means for a guard to be open, before and after a step.
LEMMA OpenIs ==
  ASSUME Synchronous, NEW p \in Procs, NEW i \in Branches(p)
  PROVE  /\ \A c : Reads(p, i, c) => (i \in open[p] <=> chan[c].waiting = Sender(c))
         /\ \A c : Writes(p, i, c) => (i \in open[p] <=> got[c] # sent[c])
         /\ Guards[p][i].type = "skip" => i \in open[p]
         /\ \A c : Reads(p, i, c) => (i \in open'[p] <=> chan'[c].waiting = Sender(c))
         /\ \A c : Writes(p, i, c) => (i \in open'[p] <=> got'[c] # sent'[c])
         /\ Guards[p][i].type = "skip" => i \in open'[p]
<1>1. /\ i \in open[p] <=> GuardReady(p, i)
      /\ i \in open'[p] <=> GuardReady(p, i)'
  BY DEF open
<1>2. ASSUME NEW c, Reads(p, i, c)
      PROVE  /\ GuardReady(p, i) <=> chan[c].waiting = Sender(c)
             /\ GuardReady(p, i)' <=> chan'[c].waiting = Sender(c)
  <2>1. Guards[p][i].type = "chanin" /\ Guards[p][i].ch = c
    BY <1>2 DEF Reads
  <2>2. Sender(c)' = Sender(c)
    BY DEF Sender
  <2>3. QED BY <2>1, <2>2 DEF GuardReady
<1>3. ASSUME NEW c, Writes(p, i, c)
      PROVE  /\ GuardReady(p, i) <=> got[c] # sent[c]
             /\ GuardReady(p, i)' <=> got'[c] # sent'[c]
  <2>1. Guards[p][i].type = "chanout" /\ Guards[p][i].ch = c
    BY <1>3 DEF Writes
  <2>2. QED BY <2>1 DEF GuardReady
<1>4. Guards[p][i].type = "skip" => GuardReady(p, i) /\ GuardReady(p, i)'
  BY DEF GuardReady
<1>5. QED BY <1>1, <1>2, <1>3, <1>4

LEMMA OpenSame ==
  ASSUME Synchronous, \A c \in Chans : chan'[c].waiting = chan[c].waiting, got' = got, sent' = sent
  PROVE  \A p \in Procs : open'[p] = open[p]
<1> SUFFICES ASSUME NEW p \in Procs
             PROVE  open'[p] = open[p]
  OBVIOUS
<1>1. open[p] \subseteq Branches(p) /\ open'[p] \subseteq Branches(p)
  BY DEF open
<1>2. ASSUME NEW i \in Branches(p)
      PROVE  i \in open'[p] <=> i \in open[p]
  <2>1. /\ \A c : Reads(p, i, c) => c \in Chans /\ (i \in open[p] <=> chan[c].waiting = Sender(c))
                                             /\ (i \in open'[p] <=> chan'[c].waiting = Sender(c))
        /\ \A c : Writes(p, i, c) => (i \in open[p] <=> got[c] # sent[c]) /\ (i \in open'[p] <=> got'[c] # sent'[c])
        /\ Guards[p][i].type = "skip" => i \in open[p] /\ i \in open'[p]
    BY OpenIs, PointToPoint
  <2>2. Guards[p][i].type = "skip" \/ (\E c : Reads(p, i, c)) \/ (\E c : Writes(p, i, c))
    BY DEF Synchronous, Reads, Writes
  <2>3. QED BY <2>1, <2>2
<1>3. QED BY <1>1, <1>2

\* The five functions of a process.
Shape(p, m, r, w, o, on) ==
  /\ m \in {"outside", "enabling", "waiting", "ready", "choosing", "selected"}
  /\ r \subseteq on /\ on \subseteq Branches(p)
  /\ m \in {"outside", "selected"} => r = {}
  /\ m \in {"waiting", "ready"} => r = on
  /\ m # "outside" => Alone(p, on)
  /\ m \in {"enabling", "waiting", "ready"} => \A i \in r : Guards[p][i].type # "skip"
  /\ w # NoProc => m \in {"enabling", "waiting"}
  /\ o # NoProc => m = "selected"

Shaped == \A p \in Procs : Shape(p, mode[p], reg[p], wake[p], owes[p], active[p])

LEMMA LocalShape ==
  ASSUME NEW p \in Procs, NEW a, NEW s, NEW al, NEW on, Local(p, a, s, al, on)
  PROVE  Shape(p, ModeOf(a, s), RegOf(p, a, s, on), WakeOf(a), OwesOf(a), on)
<1>1. /\ StateAt(a, s) /\ on \subseteq Branches(p)
      /\ ModeOf(a, s) # "outside" => Alone(p, on)
      /\ ModeOf(a, s) \in {"enabling", "waiting", "ready"} =>
           \A i \in RegOf(p, a, s, on) : Guards[p][i].type # "skip"
  BY DEF Local
<1>2. ModeOf(a, s) \in {"outside", "enabling", "waiting", "ready", "choosing", "selected"}
  BY DEF ModeOf
<1>3. RegOf(p, a, s, on) \subseteq on
  BY DEF RegOf
<1>4. ModeOf(a, s) \in {"outside", "selected"} => RegOf(p, a, s, on) = {}
  BY <1>1 DEF ModeOf, RegOf, StateAt
<1>5. ModeOf(a, s) \in {"waiting", "ready"} => RegOf(p, a, s, on) = on
  BY <1>1 DEF ModeOf, RegOf, StateAt
<1>6. WakeOf(a) # NoProc => ModeOf(a, s) \in {"enabling", "waiting"}
  BY <1>1 DEF ModeOf, WakeOf, StateAt
<1>7. OwesOf(a) # NoProc => ModeOf(a, s) = "selected"
  BY <1>1 DEF ModeOf, OwesOf, StateAt
<1>8. QED BY <1>1, <1>2, <1>3, <1>4, <1>5, <1>6, <1>7 DEF Shape

Cross == ReadyInv /\ OfferInv /\ ListenInv /\ WaitingInv /\ TakenInv /\ WakesInv

\* A step leaves process q alone.
Keeps(q) ==
  /\ mode'[q] = mode[q] /\ reg'[q] = reg[q] /\ wake'[q] = wake[q] /\ owes'[q] = owes[q]
  /\ mode[q] # "outside" => active'[q] = active[q] /\ alt'[q].index = alt[q].index

LEMMA KeepAll ==
  ASSUME Synchronous, Types, Shaped, Cross, \A q \in Procs : Keeps(q),
         chan' = chan, got' = got, sent' = sent
  PROVE  Cross'
<1>0. /\ \A c \in Chans : Sender(c) \in Procs /\ Sender(c) # NoProc
      /\ \A c \in Chans : chan[c].waiting # NoProc => chan[c].waiting \in Procs
  BY PointToPoint DEF Types
<1>1. \A p \in Procs : open'[p] = open[p]
  BY OpenSame
<1>2. ReadyInv'
  BY <1>0, <1>1 DEF Cross, ReadyInv, Keeps, Shaped, Shape
<1>3. OfferInv'
  BY DEF Cross, OfferInv, Keeps
<1>4. ListenInv'
  BY DEF Cross, ListenInv, Keeps
<1>5. WaitingInv'
  BY <1>0 DEF Cross, WaitingInv, Keeps
<1>6. TakenInv'
  BY <1>0 DEF Cross, TakenInv, Keeps, Shaped, Shape
<1>7. WakesInv'
  BY DEF Cross, WakesInv, Keeps
<1>8. QED BY <1>2, <1>3, <1>4, <1>5, <1>6, <1>7 DEF Cross

\* The other processes, while p executes.
Rest(p) ==
  \A q \in Procs : q # p =>
    /\ Keeps(q)
    /\ mode[q] \in {"outside", "waiting", "ready", "selected"}
    /\ wake[q] = NoProc /\ owes[q] = NoProc

\* A process begins its ALT.
LEMMA BeginStep ==
  ASSUME Synchronous, Types, Shaped, Cross, NEW p \in Procs, Rest(p),
         chan' = chan, got' = got, sent' = sent,
         mode[p] = "outside", mode'[p] = "enabling",
         reg'[p] = {}, wake'[p] = NoProc, owes'[p] = NoProc
  PROVE  Cross'
<1>1. /\ \A c \in Chans : Sender(c) \in Procs /\ Sender(c) # NoProc
      /\ \A c \in Chans : chan[c].waiting # NoProc => chan[c].waiting \in Procs
      /\ reg[p] = {} /\ wake[p] = NoProc /\ owes[p] = NoProc
      /\ \A q \in Procs : reg'[q] = reg[q] /\ wake'[q] = wake[q] /\ owes'[q] = owes[q]
  <2>1. \A c \in Chans : Sender(c) \in Procs /\ Sender(c) # NoProc
    BY PointToPoint
  <2>2. reg[p] = {} /\ wake[p] = NoProc /\ owes[p] = NoProc
    BY DEF Shaped, Shape
  <2>3. QED BY <2>1, <2>2 DEF Types, Rest, Keeps
<1>2. \A q \in Procs : open'[q] = open[q]
  BY OpenSame
<1>3. ReadyInv'
  BY <1>1, <1>2 DEF Cross, ReadyInv, Rest, Keeps, Shaped, Shape
<1>4. OfferInv'
  BY <1>1 DEF Cross, OfferInv
<1>5. ListenInv'
  BY <1>1 DEF Cross, ListenInv, Rest, Keeps
<1>6. WaitingInv'
  BY <1>1 DEF Cross, WaitingInv
<1>7. TakenInv'
  BY <1>1 DEF Cross, TakenInv, Rest, Keeps, Shaped, Shape
<1>8. WakesInv'
  BY <1>1 DEF Cross, WakesInv, Rest, Keeps
<1>9. QED BY <1>3, <1>4, <1>5, <1>6, <1>7, <1>8 DEF Cross

\* It waits in a channel to read.
LEMMA ListenStep ==
  ASSUME Synchronous, Types, Shaped, Cross, NEW p \in Procs, Rest(p),
         mode[p] = "enabling", mode'[p] = "enabling",
         NEW i \in active[p], NEW c, Reads(p, i, c), chan[c].waiting \in {NoProc, p},
         chan'[c].waiting = p, \A d \in Chans : d # c => chan'[d] = chan[d],
         got' = got, sent' = sent,
         reg'[p] = reg[p] \cup {i}, wake'[p] = wake[p], owes'[p] = owes[p],
         active'[p] = active[p], alt'[p].index = alt[p].index
  PROVE  Cross'
<1>1. /\ \A d \in Chans : Sender(d) \in Procs /\ Sender(d) # NoProc
      /\ \A d \in Chans : chan[d].waiting # NoProc => chan[d].waiting \in Procs
      /\ c \in Chans /\ Sender(c) # p /\ \A q \in Procs : q # NoProc
      /\ \A q \in Procs : \A j : Reads(q, j, c) => q = p /\ j = i
      /\ \A j : ~Writes(p, j, c)
  BY PointToPoint, RecordAssumption DEF Types, Records
<1>2. /\ wake[p] = NoProc /\ \A j \in active[p] : \A d : ~Writes(p, j, d)
      /\ \A q \in Procs : wake'[q] = NoProc /\ wake[q] = NoProc
  <2>1. \A j \in active[p] : \A d : ~Writes(p, j, d)
    BY DEF Shaped, Shape, Alone, Reads, Writes
  <2>2. reg[p] \subseteq active[p]
    BY DEF Shaped, Shape
  <2>3. wake[p] = NoProc
    BY <2>1, <2>2 DEF Cross, WakesInv
  <2>4. QED BY <2>1, <2>3 DEF Rest, Keeps
<1>3. \A q \in Procs : q # p => open[q] \subseteq open'[q]
  <2> SUFFICES ASSUME NEW q \in Procs, q # p, NEW j \in open[q]
               PROVE  j \in open'[q]
    OBVIOUS
  <2>1. j \in Branches(q)
    BY DEF open
  <2>2. CASE Guards[q][j].type = "skip"
    BY <2>1, <2>2, OpenIs
  <2>3. CASE \E d \in Chans : Reads(q, j, d) \/ Writes(q, j, d)
    BY <1>1, <2>1, <2>3, OpenIs
  <2>4. QED BY <2>1, <2>2, <2>3, PointToPoint
<1>4. ReadyInv'
  BY <1>1, <1>3 DEF Cross, ReadyInv, Rest, Keeps, Shaped, Shape
<1>5. OfferInv'
  BY <1>1, <1>2 DEF Cross, OfferInv, Rest, Keeps, Shaped, Shape
<1>6. ListenInv'
  <2> SUFFICES ASSUME NEW q \in Procs, NEW j \in reg'[q], NEW d \in Chans, Reads(q, j, d)
               PROVE  /\ chan'[d].waiting # NoProc
                      /\ mode'[q] = "enabling" => chan'[d].waiting = q
                      /\ mode'[q] = "waiting" /\ chan'[d].waiting # q => \E r \in Procs : wake'[r] = q
    BY DEF ListenInv
  <2>1. CASE d = c
    BY <1>1, <2>1
  <2>2. CASE d # c
    <3>1. j \in reg[q] /\ mode'[q] = mode[q] /\ chan'[d] = chan[d]
      BY <1>1, <2>2 DEF Rest, Keeps, Reads
    <3>2. QED BY <1>2, <3>1 DEF Cross, ListenInv
  <2>3. QED BY <2>1, <2>2
<1>7. WaitingInv'
  BY <1>1, <1>2 DEF Cross, WaitingInv, Rest, Keeps
<1>8. TakenInv'
  BY <1>1 DEF Cross, TakenInv, Rest, Keeps, Shaped, Shape
<1>9. WakesInv'
  BY <1>2 DEF Cross, WakesInv, Rest, Keeps
<1>10. QED BY <1>4, <1>5, <1>6, <1>7, <1>8, <1>9 DEF Cross

\* It offers a message, and has to wake the reader that waits in the channel.
LEMMA OfferStep ==
  ASSUME Synchronous, Types, Shaped, Cross, NEW p \in Procs, Rest(p),
         mode[p] = "enabling", mode'[p] = "enabling",
         NEW i \in active[p], i \notin reg[p], NEW c, Writes(p, i, c),
         chan'[c].waiting = p, chan'[c].src = p, \A d \in Chans : d # c => chan'[d] = chan[d],
         got' = got, sent' = sent,
         reg'[p] = {i}, wake'[p] = chan[c].waiting, owes'[p] = owes[p],
         active'[p] = active[p], alt'[p].index = alt[p].index
  PROVE  /\ Cross'
         /\ got[c] = sent[c] /\ chan[c].waiting # p
<1>1. /\ \A d \in Chans : Sender(d) \in Procs /\ Sender(d) # NoProc
      /\ \A d \in Chans : chan[d].waiting # NoProc => chan[d].waiting \in Procs
      /\ c \in Chans /\ Sender(c) = p /\ \A q \in Procs : q # NoProc
      /\ \A q \in Procs : \A j : Writes(q, j, c) => q = p /\ j = i
      /\ \A j : ~Reads(p, j, c)
  <2>1. c \in Chans /\ Sender(c) = p
    BY PointToPoint
  <2>2. \A q \in Procs : \A j : Writes(q, j, c) => q = p /\ j = i
    BY PointToPoint
  <2>3. \A j : ~Reads(p, j, c)
    BY <2>1, PointToPoint
  <2>4. QED BY <2>1, <2>2, <2>3, PointToPoint, RecordAssumption DEF Types, Records
<1>2. active[p] = {i} /\ reg[p] = {} /\ owes[p] = NoProc
  BY DEF Shaped, Shape, Alone, Writes
<1>3. got[c] = sent[c]
  BY <1>1 DEF Cross, TakenInv
<1>4. chan[c].waiting # p
  BY <1>1, <1>2 DEF Cross, WaitingInv
<1>5. chan[c].waiting # NoProc =>
        /\ chan[c].waiting \in Procs /\ mode[chan[c].waiting] \in {"waiting", "ready"}
        /\ \E j \in reg[chan[c].waiting] : Reads(chan[c].waiting, j, c)
  BY <1>1, <1>4 DEF Cross, WaitingInv, Rest, Shaped, Shape
<1>6. \A q \in Procs : q # p => open[q] \subseteq open'[q]
  <2> SUFFICES ASSUME NEW q \in Procs, q # p, NEW j \in open[q]
               PROVE  j \in open'[q]
    OBVIOUS
  <2>1. j \in Branches(q)
    BY DEF open
  <2>2. CASE Guards[q][j].type = "skip"
    BY <2>1, <2>2, OpenIs
  <2>3. CASE \E d \in Chans : Reads(q, j, d) \/ Writes(q, j, d)
    BY <1>1, <2>1, <2>3, OpenIs
  <2>4. QED BY <2>1, <2>2, <2>3, PointToPoint
<1>7. ReadyInv'
  BY <1>1, <1>6, <1>2 DEF Cross, ReadyInv, Rest, Keeps, Shaped, Shape
<1>8. OfferInv'
  <2> SUFFICES ASSUME NEW q \in Procs, NEW j \in reg'[q], NEW d \in Chans, Writes(q, j, d), got[d] = sent[d]
               PROVE  chan'[d].waiting = q /\ chan'[d].src = q
    BY DEF OfferInv
  <2>1. CASE d = c
    BY <1>1, <2>1
  <2>2. CASE d # c
    <3>1. j \in reg[q] /\ chan'[d] = chan[d]
      BY <1>1, <2>2 DEF Rest, Keeps, Writes
    <3>2. QED BY <3>1 DEF Cross, OfferInv
  <2>3. QED BY <2>1, <2>2
<1>9. ListenInv'
  <2> SUFFICES ASSUME NEW q \in Procs, NEW j \in reg'[q], NEW d \in Chans, Reads(q, j, d)
               PROVE  /\ chan'[d].waiting # NoProc
                      /\ mode'[q] = "enabling" => chan'[d].waiting = q
                      /\ mode'[q] = "waiting" /\ chan'[d].waiting # q => \E r \in Procs : wake'[r] = q
    BY DEF ListenInv
  <2>1. q # p /\ j \in reg[q] /\ mode'[q] = mode[q] /\ mode[q] # "enabling"
    BY <1>1, <1>2 DEF Rest, Keeps, Reads, Writes
  <2>2. wake[p] = NoProc
    BY <1>2 DEF Cross, WakesInv
  <2>3. \A r \in Procs : wake[r] = NoProc
    BY <2>2 DEF Rest
  <2>4. CASE d = c
    <3>1. chan[c].waiting # NoProc /\ (mode[q] = "waiting" => chan[c].waiting = q)
      BY <1>1, <2>1, <2>3, <2>4 DEF Cross, ListenInv
    <3>2. QED BY <1>1, <2>1, <2>4, <3>1
  <2>5. CASE d # c
    BY <1>1, <2>1, <2>3, <2>5 DEF Cross, ListenInv
  <2>6. QED BY <2>4, <2>5
<1>10. WaitingInv'
  BY <1>1, <1>2, <1>3 DEF Cross, WaitingInv, Rest, Keeps
<1>11. TakenInv'
  BY <1>1, <1>2 DEF Cross, TakenInv, Rest, Keeps, Shaped, Shape
<1>12. WakesInv'
  <2>1. \A q \in Procs : q # p => wake'[q] = NoProc
    BY DEF Rest, Keeps
  <2>2. wake'[p] # NoProc =>
          /\ wake'[p] \in Procs /\ mode'[wake'[p]] \in {"waiting", "ready"}
          /\ \E j \in reg'[wake'[p]] : Reads(wake'[p], j, c)
    BY <1>4, <1>5 DEF Rest, Keeps
  <2>3. QED BY <1>1, <1>3, <2>1, <2>2 DEF WakesInv
<1>13. QED BY <1>3, <1>4, <1>7, <1>8, <1>9, <1>10, <1>11, <1>12 DEF Cross

\* It has enabled all its guards, and gives up the CPU.
LEMMA WaitStep ==
  ASSUME Synchronous, Types, Shaped, Cross, NEW p \in Procs, Rest(p),
         mode[p] = "enabling", mode'[p] = "waiting",
         chan' = chan, got' = got, sent' = sent,
         reg'[p] = reg[p], wake'[p] = wake[p], owes'[p] = owes[p], active'[p] = active[p]
  PROVE  Cross'
<1>1. /\ \A c \in Chans : Sender(c) \in Procs /\ Sender(c) # NoProc
      /\ \A c \in Chans : chan[c].waiting # NoProc => chan[c].waiting \in Procs
      /\ owes[p] = NoProc
      /\ \A q \in Procs : reg'[q] = reg[q] /\ wake'[q] = wake[q] /\ owes'[q] = owes[q]
  BY PointToPoint DEF Types, Shaped, Shape, Rest, Keeps
<1>2. \A q \in Procs : open'[q] = open[q]
  BY OpenSame
<1>3. ReadyInv'
  BY <1>1, <1>2 DEF Cross, ReadyInv, Rest, Keeps, Shaped, Shape
<1>4. OfferInv'
  BY <1>1 DEF Cross, OfferInv
<1>5. ListenInv'
  BY <1>1 DEF Cross, ListenInv, Rest, Keeps
<1>6. WaitingInv'
  BY <1>1 DEF Cross, WaitingInv
<1>7. TakenInv'
  BY <1>1 DEF Cross, TakenInv, Rest, Keeps, Shaped, Shape
<1>8. WakesInv'
  BY <1>1 DEF Cross, WakesInv, Rest, Keeps
<1>9. QED BY <1>3, <1>4, <1>5, <1>6, <1>7, <1>8 DEF Cross

\* It has found a ready guard, or was made ready, and begins to choose; the
\* guard that was ready is not enabled.
LEMMA ChooseStep ==
  ASSUME Synchronous, Types, Shaped, Cross, NEW p \in Procs, Rest(p),
         mode[p] \in {"enabling", "ready"}, mode'[p] = "choosing",
         chan' = chan, got' = got, sent' = sent,
         reg[p] \subseteq reg'[p],
         \A j \in reg'[p] \ reg[p] : /\ \A c : ~Writes(p, j, c)
                                     /\ \A c : Reads(p, j, c) => chan[c].waiting # NoProc,
         wake[p] = NoProc, wake'[p] = NoProc, owes'[p] = NoProc, active'[p] = active[p]
  PROVE  Cross'
<1>1. /\ \A c \in Chans : Sender(c) \in Procs /\ Sender(c) # NoProc
      /\ \A c \in Chans : chan[c].waiting # NoProc => chan[c].waiting \in Procs
      /\ owes[p] = NoProc
      /\ \A q \in Procs : wake'[q] = NoProc /\ wake[q] = NoProc /\ owes'[q] = owes[q]
  BY PointToPoint DEF Types, Shaped, Shape, Rest, Keeps
<1>2. \A q \in Procs : open'[q] = open[q]
  BY OpenSame
<1>3. ReadyInv'
  BY <1>1, <1>2 DEF Cross, ReadyInv, Rest, Keeps, Shaped, Shape
<1>4. OfferInv'
  BY <1>1 DEF Cross, OfferInv, Rest, Keeps
<1>5. ListenInv'
  BY <1>1 DEF Cross, ListenInv, Rest, Keeps
<1>6. WaitingInv'
  BY <1>1 DEF Cross, WaitingInv, Rest, Keeps
<1>7. TakenInv'
  BY <1>1 DEF Cross, TakenInv, Rest, Keeps, Shaped, Shape
<1>8. WakesInv'
  BY <1>1 DEF Cross, WakesInv, Rest, Keeps
<1>9. QED BY <1>3, <1>4, <1>5, <1>6, <1>7, <1>8 DEF Cross

\* It looks at guard i on the way back: it leaves the channel, if it waits there.
LEMMA RejectStep ==
  ASSUME Synchronous, Types, Shaped, Cross, NEW p \in Procs, Rest(p),
         mode[p] = "choosing", mode'[p] = "choosing", NEW i,
         \A c \in Chans : chan'[c].src = chan[c].src,
         \A c \in Chans : chan'[c].waiting =
           IF Reads(p, i, c) /\ chan[c].waiting = p THEN NoProc ELSE chan[c].waiting,
         \A c : Writes(p, i, c) => got[c] # sent[c],
         got' = got, sent' = sent,
         reg'[p] = reg[p] \ {i}, wake'[p] = wake[p], owes'[p] = owes[p], active'[p] = active[p]
  PROVE  Cross' /\ \A q \in Procs : open'[q] = open[q]
<1>1. /\ \A d \in Chans : Sender(d) \in Procs /\ Sender(d) # NoProc
      /\ \A d \in Chans : chan[d].waiting # NoProc => chan[d].waiting \in Procs
      /\ \A q \in Procs : q # NoProc
      /\ wake[p] = NoProc /\ owes[p] = NoProc
  BY PointToPoint, RecordAssumption DEF Types, Records, Shaped, Shape
<1>2. \A q \in Procs : wake'[q] = NoProc /\ owes'[q] = NoProc /\ mode'[q] = mode[q]
  BY <1>1 DEF Rest, Keeps
<1>3. \A q \in Procs : \A j, d : Reads(q, j, d) =>
        /\ d \in Chans
        /\ q # p \/ j # i => chan'[d].waiting = chan[d].waiting
        /\ chan'[d].waiting = Sender(d) <=> chan[d].waiting = Sender(d)
  <2> SUFFICES ASSUME NEW q \in Procs, NEW j, NEW d, Reads(q, j, d)
               PROVE  /\ d \in Chans
                      /\ q # p \/ j # i => chan'[d].waiting = chan[d].waiting
                      /\ chan'[d].waiting = Sender(d) <=> chan[d].waiting = Sender(d)
    OBVIOUS
  <2>1. d \in Chans /\ (Reads(p, i, d) => q = p /\ j = i /\ Sender(d) # p)
    BY PointToPoint
  <2>2. QED BY <1>1, <2>1
<1>4. \A q \in Procs : open'[q] = open[q]
  <2> SUFFICES ASSUME NEW q \in Procs, NEW j \in Branches(q)
               PROVE  j \in open[q] <=> j \in open'[q]
    BY DEF open
  <2>1. CASE Guards[q][j].type = "skip"
    BY <2>1, OpenIs
  <2>2. CASE \E d \in Chans : Reads(q, j, d) \/ Writes(q, j, d)
    BY <1>3, <2>2, OpenIs
  <2>3. QED BY <2>1, <2>2, PointToPoint
<1>5. ReadyInv'
  BY <1>2, <1>4 DEF Cross, ReadyInv, Rest, Keeps
<1>6. OfferInv'
  <2> SUFFICES ASSUME NEW q \in Procs, NEW j \in reg'[q], NEW d \in Chans, Writes(q, j, d), got[d] = sent[d]
               PROVE  chan'[d].waiting = q /\ chan'[d].src = q
    BY DEF OfferInv
  <2>1. chan[d].waiting = q /\ chan[d].src = q
    BY DEF Cross, OfferInv, Rest, Keeps
  <2>2. ~Reads(p, i, d) \/ chan[d].waiting # p
    <3>1. Sender(d) = q
      BY PointToPoint
    <3>2. Reads(p, i, d) => Sender(d) # p
      BY PointToPoint
    <3>3. QED BY <2>1, <3>1, <3>2
  <2>3. QED BY <2>1, <2>2
<1>7. ListenInv'
  <2> SUFFICES ASSUME NEW q \in Procs, NEW j \in reg'[q], NEW d \in Chans, Reads(q, j, d)
               PROVE  /\ chan'[d].waiting # NoProc
                      /\ mode'[q] = "enabling" => chan'[d].waiting = q
                      /\ mode'[q] = "waiting" /\ chan'[d].waiting # q => \E r \in Procs : wake'[r] = q
    BY DEF ListenInv
  <2>1. j \in reg[q] /\ chan'[d].waiting = chan[d].waiting
    BY <1>3 DEF Rest, Keeps
  <2>2. \A r \in Procs : wake[r] = NoProc
    BY <1>1 DEF Rest
  <2>3. QED BY <1>1, <1>2, <2>1, <2>2 DEF Cross, ListenInv
<1>8. WaitingInv'
  <2> SUFFICES ASSUME NEW d \in Chans, chan'[d].waiting # NoProc
               PROVE  \E j \in reg'[chan'[d].waiting] :
                        \/ Reads(chan'[d].waiting, j, d)
                        \/ Writes(chan'[d].waiting, j, d) /\ got[d] = sent[d]
    BY DEF WaitingInv
  <2>1. chan'[d].waiting = chan[d].waiting /\ ~(Reads(p, i, d) /\ chan[d].waiting = p)
    OBVIOUS
  <2>2. PICK j \in reg[chan[d].waiting] :
          \/ Reads(chan[d].waiting, j, d)
          \/ Writes(chan[d].waiting, j, d) /\ got[d] = sent[d]
    BY <2>1 DEF Cross, WaitingInv
  <2>3. j \in reg'[chan[d].waiting]
    BY <1>1, <2>1, <2>2 DEF Rest, Keeps
  <2>4. QED BY <2>1, <2>2, <2>3
<1>9. TakenInv'
  <2>1. \A q \in Procs : owes[q] = NoProc
    BY <1>1 DEF Rest
  <2>2. QED BY <1>1, <1>2, <2>1 DEF Cross, TakenInv, Rest, Keeps, Shaped, Shape
<1>10. WakesInv'
  BY <1>2 DEF WakesInv
<1>11. QED BY <1>4, <1>5, <1>6, <1>7, <1>8, <1>9, <1>10 DEF Cross

\* It takes the message of the branch it has selected, and has to wake the writer.
LEMMA FetchStep ==
  ASSUME Synchronous, Types, Shaped, Cross, NEW p \in Procs, Rest(p),
         mode[p] = "choosing", mode'[p] = "selected", reg[p] = {}, reg'[p] = {},
         alt[p].index \in active[p], NEW c, Reads(p, alt[p].index, c), chan[c].waiting = Sender(c),
         got'[c] = plus1_mod(got[c], MsgMod), \A d \in Chans : d # c => got'[d] = got[d],
         chan'[c].waiting = NoProc, \A d \in Chans : d # c => chan'[d] = chan[d],
         sent' = sent, alt' = alt, active' = active, wake'[p] = NoProc, owes'[p] = Sender(c)
  PROVE  /\ Cross'
         /\ got[c] = sent[c]
<1> DEFINE w == Sender(c)
           i == alt[p].index
<1>1. c \in Chans /\ w \in Procs /\ w # NoProc /\ w # p
  BY PointToPoint
<1>2. /\ \A d \in Chans : Sender(d) \in Procs /\ Sender(d) # NoProc
      /\ \A d \in Chans : chan[d].waiting # NoProc => chan[d].waiting \in Procs
      /\ \A q \in Procs : q # NoProc
      /\ \A q \in Procs : wake'[q] = NoProc
      /\ \A q \in Procs : owes[q] = NoProc
  <2>1. \A d \in Chans : Sender(d) \in Procs /\ Sender(d) # NoProc
    BY PointToPoint
  <2>2. wake[p] = NoProc /\ owes[p] = NoProc
    BY DEF Shaped, Shape
  <2>3. \A q \in Procs : q # p => wake'[q] = NoProc /\ owes[q] = NoProc
    BY DEF Rest, Keeps
  <2>4. QED BY <2>1, <2>2, <2>3, RecordAssumption DEF Types, Records
<1>3. /\ \A q \in Procs : \A j : Reads(q, j, c) => q = p /\ j = i
      /\ \A j : ~Reads(w, j, c)
  BY <1>1, PointToPoint
<1>4. PICK j \in reg[w] : Writes(w, j, c) /\ got[c] = sent[c]
  BY <1>1, <1>3 DEF Cross, WaitingInv
<1>5. mode[w] \in {"waiting", "ready"} /\ reg[w] = active[w] /\ active[w] = {j} /\ j \in Branches(w)
  BY <1>1, <1>4 DEF Rest, Shaped, Shape, Alone, Writes
<1>6. mode[w] = "waiting"
  BY <1>1, <1>4, <1>5, OpenIs DEF Cross, ReadyInv
<1>7. got[c] \in 0 .. MsgMod - 1 /\ got'[c] # sent[c] /\ got'[c] = plus1_mod(sent[c], MsgMod)
  BY <1>1, <1>4, PlusOne, ApplicationAssumption DEF Types
<1>8. \A q \in Procs : q # p => open[q] \subseteq open'[q]
  <2> SUFFICES ASSUME NEW q \in Procs, q # p, NEW k \in open[q]
               PROVE  k \in open'[q]
    OBVIOUS
  <2>1. k \in Branches(q)
    BY DEF open
  <2>2. CASE Guards[q][k].type = "skip"
    BY <2>1, <2>2, OpenIs
  <2>3. CASE \E d \in Chans : Reads(q, k, d)
    BY <1>3, <2>1, <2>3, OpenIs
  <2>4. CASE \E d \in Chans : Writes(q, k, d)
    BY <1>7, <2>1, <2>4, OpenIs
  <2>5. QED BY <2>1, <2>2, <2>3, <2>4, PointToPoint
<1>9. mode'[w] = "waiting" /\ reg'[w] = reg[w]
  BY <1>1, <1>6 DEF Rest, Keeps
<1>10. ReadyInv'
  <2> SUFFICES ASSUME NEW q \in Procs
               PROVE  /\ mode'[q] = "ready" => active'[q] \cap open'[q] # {}
                      /\ mode'[q] = "selected" =>
                           /\ alt'[q].index \in active'[q]
                           /\ Guards[q][alt'[q].index].type = "chanout" => alt'[q].index \in open'[q]
                      /\ owes'[q] # NoProc =>
                           \E d \in Chans : /\ Reads(q, alt'[q].index, d)
                                            /\ owes'[q] = Sender(d) /\ got'[d] # sent'[d]
                                            /\ mode'[owes'[q]] = "waiting"
    BY DEF ReadyInv, Reads, Sender
  <2>1. CASE q = p
    BY <1>1, <1>7, <1>9, <2>1 DEF Reads
  <2>2. CASE q # p
    BY <1>8, <2>2 DEF Cross, ReadyInv, Rest, Keeps
  <2>3. QED BY <2>1, <2>2
<1>11. OfferInv'
  <2> SUFFICES ASSUME NEW q \in Procs, NEW k \in reg'[q], NEW d \in Chans, Writes(q, k, d), got'[d] = sent'[d]
               PROVE  chan'[d].waiting = q /\ chan'[d].src = q
    BY DEF OfferInv
  <2>1. d # c /\ q # p
    BY <1>7
  <2>2. QED BY <2>1 DEF Cross, OfferInv, Rest, Keeps
<1>12. ListenInv'
  <2> SUFFICES ASSUME NEW q \in Procs, NEW k \in reg'[q], NEW d \in Chans, Reads(q, k, d)
               PROVE  /\ chan'[d].waiting # NoProc
                      /\ mode'[q] = "enabling" => chan'[d].waiting = q
                      /\ mode'[q] = "waiting" /\ chan'[d].waiting # q => \E r \in Procs : wake'[r] = q
    BY DEF ListenInv
  <2>1. d # c /\ q # p
    BY <1>3
  <2>2. \A r \in Procs : wake[r] = NoProc
    BY DEF Rest, Shaped, Shape
  <2>3. k \in reg[q] /\ mode'[q] = mode[q] /\ chan'[d] = chan[d]
    BY <2>1 DEF Rest, Keeps
  <2>4. QED BY <1>2, <2>2, <2>3 DEF Cross, ListenInv
<1>13. WaitingInv'
  <2> SUFFICES ASSUME NEW d \in Chans, chan'[d].waiting # NoProc
               PROVE  \E k \in reg'[chan'[d].waiting] :
                        \/ Reads(chan'[d].waiting, k, d)
                        \/ Writes(chan'[d].waiting, k, d) /\ got'[d] = sent'[d]
    BY DEF WaitingInv
  <2>1. d # c /\ chan'[d] = chan[d] /\ chan[d].waiting \in Procs
    BY <1>2
  <2>2. PICK k \in reg[chan[d].waiting] :
          \/ Reads(chan[d].waiting, k, d)
          \/ Writes(chan[d].waiting, k, d) /\ got[d] = sent[d]
    BY <2>1 DEF Cross, WaitingInv
  <2>3. k \in reg'[chan[d].waiting]
    BY <2>1, <2>2 DEF Rest, Keeps
  <2>4. QED BY <2>1, <2>2, <2>3
<1>14. TakenInv'
  <2> SUFFICES ASSUME NEW d \in Chans
               PROVE  /\ got'[d] \in {sent'[d], plus1_mod(sent'[d], MsgMod)}
                      /\ got'[d] # sent'[d] =>
                           \E k \in active'[Sender(d)] :
                             /\ Writes(Sender(d), k, d)
                             /\ \/ mode'[Sender(d)] \in {"ready", "choosing"}
                                \/ /\ mode'[Sender(d)] = "waiting"
                                   /\ \E q \in Procs : owes'[q] = Sender(d) /\ Reads(q, alt'[q].index, d)
                                \/ mode'[Sender(d)] = "selected" /\ alt'[Sender(d)].index = k
    BY DEF TakenInv, Sender, Writes, Reads, plus1_mod
  <2>1. CASE d = c
    BY <1>1, <1>4, <1>5, <1>7, <1>9, <2>1
  <2>2. CASE d # c
    <3>1. got'[d] = got[d] /\ Sender(d) \in Procs
      BY <1>2, <2>2
    <3>2. Sender(d) = p => got[d] = sent[d]
      BY <1>2, <1>3, <2>2 DEF Cross, TakenInv, Shaped, Shape, Alone, Reads, Writes
    <3>3. CASE Sender(d) = p
      BY <3>1, <3>2, <3>3
    <3>4. CASE Sender(d) # p
      BY <1>2, <3>1, <3>4 DEF Cross, TakenInv, Rest, Keeps
    <3>5. QED BY <3>3, <3>4
  <2>3. QED BY <2>1, <2>2
<1>15. WakesInv'
  BY <1>2 DEF WakesInv
<1>16. QED BY <1>4, <1>10, <1>11, <1>12, <1>13, <1>14, <1>15 DEF Cross

\* It has selected an output, whose message was taken, or a SKIP.
LEMMA PassStep ==
  ASSUME Synchronous, Types, Shaped, Cross, NEW p \in Procs, Rest(p),
         mode[p] = "choosing", mode'[p] = "selected", reg[p] = {}, reg'[p] = {},
         alt[p].index \in active[p] \cap open[p],
         chan' = chan, got' = got, sent' = sent, alt' = alt, active' = active,
         wake'[p] = NoProc, owes'[p] = NoProc
  PROVE  Cross'
<1>1. /\ \A d \in Chans : Sender(d) \in Procs /\ Sender(d) # NoProc
      /\ \A d \in Chans : chan[d].waiting # NoProc => chan[d].waiting \in Procs
      /\ wake[p] = NoProc /\ owes[p] = NoProc
  BY PointToPoint DEF Types, Shaped, Shape
<1>2. \A q \in Procs : reg'[q] = reg[q] /\ wake'[q] = wake[q] /\ owes'[q] = owes[q]
  BY <1>1 DEF Rest, Keeps
<1>3. \A q \in Procs : open'[q] = open[q]
  BY OpenSame
<1>4. ReadyInv'
  BY <1>1, <1>2, <1>3 DEF Cross, ReadyInv, Rest, Keeps
<1>5. OfferInv'
  BY <1>2 DEF Cross, OfferInv
<1>6. ListenInv'
  BY <1>1, <1>2 DEF Cross, ListenInv, Rest, Keeps
<1>7. WaitingInv'
  BY <1>1, <1>2 DEF Cross, WaitingInv
<1>8. TakenInv'
  BY <1>1, <1>2 DEF Cross, TakenInv, Rest, Keeps, Shaped, Shape, Alone, Writes
<1>9. WakesInv'
  BY <1>1, <1>2 DEF Cross, WakesInv, Rest
<1>10. QED BY <1>4, <1>5, <1>6, <1>7, <1>8, <1>9 DEF Cross

\* The processes but p are not executing.
Waits(p) ==
  \A q \in Procs : q # p =>
    /\ mode[q] \in {"outside", "waiting", "ready", "selected"}
    /\ wake[q] = NoProc /\ owes[q] = NoProc

\* What a step that makes one process ready leaves alone.
Wakes(w) ==
  /\ chan' = chan /\ got' = got /\ sent' = sent /\ alt' = alt /\ active' = active
  /\ mode' = [mode EXCEPT ![w] = "ready"]
  /\ reg' = reg

\* It wakes the writer of the message it has taken.
LEMMA PayStep ==
  ASSUME Synchronous, Types, Shaped, Cross, NEW p \in Procs, Waits(p), NEW w \in Procs,
         owes[p] = w, owes' = [owes EXCEPT ![p] = NoProc], wake' = wake, Wakes(w)
  PROVE  Cross'
<1>1. /\ \A d \in Chans : Sender(d) \in Procs
      /\ \A d \in Chans : chan[d].waiting # NoProc => chan[d].waiting \in Procs
      /\ w # NoProc /\ mode[p] = "selected"
  BY PointToPoint, RecordAssumption DEF Types, Records, Shaped, Shape
<1>2. \A q \in Procs : wake[q] = NoProc /\ owes'[q] = NoProc
  BY <1>1 DEF Shaped, Shape, Waits, owes
<1>3. PICK c \in Chans : w = Sender(c) /\ got[c] # sent[c] /\ mode[w] = "waiting"
  BY <1>1 DEF Cross, ReadyInv
<1>4. \A q \in Procs : mode'[q] = IF q = w THEN "ready" ELSE mode[q]
  BY DEF Wakes, mode
<1>5. \A q \in Procs : open'[q] = open[q]
  BY OpenSame DEF Wakes
<1>6. active[w] \cap open[w] # {}
  <2>1. PICK i \in active[w] : Writes(w, i, c)
    BY <1>3 DEF Cross, TakenInv
  <2>2. i \in open[w]
    BY <1>3, <2>1, OpenIs DEF Writes
  <2>3. QED BY <2>1, <2>2
<1>7. ReadyInv'
  BY <1>2, <1>4, <1>5, <1>6 DEF Cross, ReadyInv, Wakes
<1>8. OfferInv'
  BY DEF Cross, OfferInv, Wakes
<1>9. ListenInv'
  BY <1>1, <1>2, <1>4 DEF Cross, ListenInv, Wakes
<1>10. WaitingInv'
  BY <1>1 DEF Cross, WaitingInv, Wakes
<1>11. TakenInv'
  <2>1. \A q \in Procs : owes[q] # NoProc => q = p
    BY DEF Waits
  <2>2. \A d \in Chans : Sender(d) # w => ~\E q \in Procs : owes[q] = Sender(d)
    BY <1>1, <2>1, PointToPoint
  <2>3. QED BY <1>1, <1>4, <2>2 DEF Cross, TakenInv, Wakes
<1>12. WakesInv'
  BY <1>2 DEF WakesInv
<1>13. QED BY <1>7, <1>8, <1>9, <1>10, <1>11, <1>12 DEF Cross

\* Off to wait, it wakes the reader that it found in the channel.
LEMMA CallStep ==
  ASSUME Synchronous, Types, Shaped, Cross, NEW p \in Procs, Waits(p), NEW w \in Procs,
         mode[p] = "waiting", wake[p] = w, wake' = [wake EXCEPT ![p] = NoProc], owes' = owes, Wakes(w)
  PROVE  Cross'
<1>1. /\ \A d \in Chans : Sender(d) \in Procs
      /\ \A d \in Chans : chan[d].waiting # NoProc => chan[d].waiting \in Procs
      /\ w # NoProc /\ owes[p] = NoProc
  BY PointToPoint, RecordAssumption DEF Types, Records, Shaped, Shape
<1>2. \A q \in Procs : wake'[q] = NoProc /\ owes'[q] = NoProc /\ owes[q] = NoProc /\ (wake[q] # NoProc => q = p)
  BY <1>1 DEF Waits, wake
<1>3. \A q \in Procs : mode'[q] = IF q = w THEN "ready" ELSE mode[q]
  BY DEF Wakes, mode
<1>4. \A q \in Procs : open'[q] = open[q]
  BY OpenSame DEF Wakes
<1>5. mode[w] \in {"waiting", "ready"} /\ active[w] \cap open[w] # {}
  <2>1. PICK c \in Chans : \E i \in reg[p], j \in reg[w] :
          Writes(p, i, c) /\ got[c] = sent[c] /\ Reads(w, j, c)
    BY <1>1 DEF Cross, WakesInv
  <2>2. PICK i \in reg[p], j \in reg[w] : Writes(p, i, c) /\ got[c] = sent[c] /\ Reads(w, j, c)
    BY <2>1
  <2>3. chan[c].waiting = p
    BY <2>2 DEF Cross, OfferInv
  <2>4. Sender(c) = p
    BY <2>2, PointToPoint
  <2>5. j \in open[w]
    BY <2>2, <2>3, <2>4, OpenIs DEF Reads
  <2>6. mode[w] \in {"waiting", "ready"}
    BY <1>1 DEF Cross, WakesInv
  <2>7. QED BY <2>2, <2>5, <2>6 DEF Shaped, Shape
<1>6. ReadyInv'
  BY <1>2, <1>3, <1>4, <1>5 DEF Cross, ReadyInv, Wakes
<1>7. OfferInv'
  BY DEF Cross, OfferInv, Wakes
<1>8. ListenInv'
  <2> SUFFICES ASSUME NEW q \in Procs, NEW k \in reg'[q], NEW d \in Chans, Reads(q, k, d)
               PROVE  /\ chan'[d].waiting # NoProc
                      /\ mode'[q] = "enabling" => chan'[d].waiting = q
                      /\ mode'[q] = "waiting" /\ chan'[d].waiting # q => \E r \in Procs : wake'[r] = q
    BY DEF ListenInv
  <2>1. /\ chan[d].waiting # NoProc
        /\ mode[q] = "enabling" => chan[d].waiting = q
        /\ mode[q] = "waiting" /\ chan[d].waiting # q => \E r \in Procs : wake[r] = q
    BY DEF Cross, ListenInv, Wakes
  <2>2. q # NoProc
    BY RecordAssumption DEF Records
  <2>3. q # w => ~\E r \in Procs : wake[r] = q
    BY <1>2, <2>2
  <2>4. QED BY <1>3, <2>1, <2>3 DEF Wakes
<1>9. WaitingInv'
  BY <1>1 DEF Cross, WaitingInv, Wakes
<1>10. TakenInv'
  <2>1. \A d \in Chans : ~\E q \in Procs : owes[q] = Sender(d)
    BY <1>2, PointToPoint
  <2>2. QED BY <1>1, <1>3, <1>5, <2>1 DEF Cross, TakenInv, Wakes
<1>11. WakesInv'
  BY <1>2 DEF WakesInv
<1>12. QED BY <1>6, <1>7, <1>8, <1>9, <1>10, <1>11 DEF Cross

\* Its code runs; if an output was selected, the message was taken.
LEMMA ResumeStep ==
  ASSUME Synchronous, Types, Shaped, Cross, NEW p \in Procs, Rest(p),
         mode[p] \in {"outside", "selected"}, mode'[p] = "outside",
         reg'[p] = {}, wake'[p] = NoProc, owes[p] = NoProc, owes'[p] = NoProc,
         chan' = chan, got' = got,
         \A d \in Chans : sent'[d] = IF mode[p] = "selected" /\ Writes(p, alt[p].index, d)
                                     THEN plus1_mod(sent[d], MsgMod) ELSE sent[d]
  PROVE  /\ Cross'
         /\ \A d \in Chans : mode[p] = "selected" /\ Writes(p, alt[p].index, d) =>
              got[d] = plus1_mod(sent[d], MsgMod) /\ chan[d].waiting # p
<1>1. /\ \A d \in Chans : Sender(d) \in Procs /\ Sender(d) # NoProc
      /\ \A d \in Chans : chan[d].waiting # NoProc => chan[d].waiting \in Procs
      /\ \A q \in Procs : q # NoProc
      /\ reg[p] = {} /\ wake[p] = NoProc
  <2>1. \A d \in Chans : Sender(d) \in Procs /\ Sender(d) # NoProc
    BY PointToPoint
  <2>2. QED BY <2>1, RecordAssumption DEF Types, Records, Shaped, Shape
<1>2. \A q \in Procs : wake[q] = NoProc /\ wake'[q] = NoProc /\ owes[q] = NoProc /\ owes'[q] = NoProc /\ reg'[q] = reg[q]
  BY <1>1 DEF Rest, Keeps
<1>3. \A d \in Chans : mode[p] = "selected" /\ Writes(p, alt[p].index, d) =>
        got[d] = plus1_mod(sent[d], MsgMod) /\ chan[d].waiting # p
  <2> SUFFICES ASSUME NEW d \in Chans, mode[p] = "selected", Writes(p, alt[p].index, d)
               PROVE  got[d] = plus1_mod(sent[d], MsgMod) /\ chan[d].waiting # p
    OBVIOUS
  <2>1. alt[p].index \in open[p]
    BY DEF Cross, ReadyInv, Writes
  <2>2. got[d] # sent[d]
    BY <2>1, OpenIs DEF Writes
  <2>3. chan[d].waiting # p
    BY <1>1 DEF Cross, WaitingInv
  <2>4. QED BY <2>2, <2>3 DEF Cross, TakenInv
<1>4. \A d \in Chans : sent'[d] # sent[d] => sent'[d] = got[d] /\ Sender(d) = p
  BY <1>3, PointToPoint
<1>5. \A q \in Procs : q # p => open'[q] = open[q]
  <2> SUFFICES ASSUME NEW q \in Procs, q # p, NEW k \in Branches(q)
               PROVE  k \in open[q] <=> k \in open'[q]
    BY DEF open
  <2>1. CASE Guards[q][k].type = "skip"
    BY <2>1, OpenIs
  <2>2. CASE \E d \in Chans : Reads(q, k, d)
    BY <2>2, OpenIs
  <2>3. ASSUME NEW d \in Chans, Writes(q, k, d)
        PROVE  k \in open[q] <=> k \in open'[q]
    <3>1. Sender(d) = q
      BY <2>3, PointToPoint
    <3>2. sent'[d] = sent[d]
      BY <1>4, <3>1
    <3>3. QED BY <2>3, <3>2, OpenIs
  <2>4. QED BY <2>1, <2>2, <2>3, PointToPoint
<1>6. ReadyInv'
  BY <1>2, <1>5 DEF Cross, ReadyInv, Rest, Keeps
<1>7. OfferInv'
  <2> SUFFICES ASSUME NEW q \in Procs, NEW k \in reg'[q], NEW d \in Chans, Writes(q, k, d), got[d] = sent'[d]
               PROVE  chan[d].waiting = q /\ chan[d].src = q
    BY DEF OfferInv
  <2>1. q # p /\ k \in reg[q] /\ Sender(d) = q
    BY PointToPoint DEF Rest, Keeps
  <2>2. sent'[d] = sent[d]
    BY <1>4, <2>1
  <2>3. QED BY <2>1, <2>2 DEF Cross, OfferInv
<1>8. ListenInv'
  BY <1>1, <1>2 DEF Cross, ListenInv, Rest, Keeps
<1>9. WaitingInv'
  <2> SUFFICES ASSUME NEW d \in Chans, chan[d].waiting # NoProc
               PROVE  \E k \in reg'[chan[d].waiting] :
                        \/ Reads(chan[d].waiting, k, d)
                        \/ Writes(chan[d].waiting, k, d) /\ got[d] = sent'[d]
    BY DEF WaitingInv
  <2>1. PICK k \in reg[chan[d].waiting] :
          \/ Reads(chan[d].waiting, k, d)
          \/ Writes(chan[d].waiting, k, d) /\ got[d] = sent[d]
    BY DEF Cross, WaitingInv
  <2>2. chan[d].waiting \in Procs /\ chan[d].waiting # p
    BY <1>1, <2>1
  <2>3. k \in reg'[chan[d].waiting]
    BY <2>1, <2>2 DEF Rest, Keeps
  <2>4. Writes(chan[d].waiting, k, d) => Sender(d) # p
    BY <2>2, PointToPoint
  <2>5. QED BY <1>4, <2>1, <2>3, <2>4
<1>10. TakenInv'
  <2> SUFFICES ASSUME NEW d \in Chans
               PROVE  /\ got[d] \in {sent'[d], plus1_mod(sent'[d], MsgMod)}
                      /\ got[d] # sent'[d] =>
                           \E k \in active'[Sender(d)] :
                             /\ Writes(Sender(d), k, d)
                             /\ \/ mode'[Sender(d)] \in {"ready", "choosing"}
                                \/ /\ mode'[Sender(d)] = "waiting"
                                   /\ \E q \in Procs : owes'[q] = Sender(d) /\ Reads(q, alt'[q].index, d)
                                \/ mode'[Sender(d)] = "selected" /\ alt'[Sender(d)].index = k
    BY DEF TakenInv, Sender, Writes, Reads, plus1_mod
  <2>1. CASE sent'[d] # sent[d]
    BY <1>4, <2>1
  <2>2. CASE sent'[d] = sent[d] /\ got[d] = sent[d]
    BY <2>2
  <2>3. CASE sent'[d] = sent[d] /\ got[d] # sent[d]
    <3>1. PICK k \in active[Sender(d)] :
            /\ Writes(Sender(d), k, d)
            /\ \/ mode[Sender(d)] \in {"ready", "choosing"}
               \/ /\ mode[Sender(d)] = "waiting"
                  /\ \E q \in Procs : owes[q] = Sender(d) /\ Reads(q, alt[q].index, d)
               \/ mode[Sender(d)] = "selected" /\ alt[Sender(d)].index = k
      BY <2>3 DEF Cross, TakenInv
    <3>2. got[d] \in {sent[d], plus1_mod(sent[d], MsgMod)}
      BY DEF Cross, TakenInv
    <3>3. Sender(d) # p
      <4>1. sent[d] \in 0 .. MsgMod - 1
        BY DEF Types
      <4>2. plus1_mod(sent[d], MsgMod) # sent[d]
        BY <4>1, PlusOne, ApplicationAssumption
      <4>3. QED BY <2>3, <3>1, <4>2
    <3>4. /\ mode'[Sender(d)] = mode[Sender(d)]
          /\ mode[Sender(d)] # "outside" =>
               active'[Sender(d)] = active[Sender(d)] /\ alt'[Sender(d)].index = alt[Sender(d)].index
      BY <1>1, <3>3 DEF Rest, Keeps
    <3>5. ~\E q \in Procs : owes[q] = Sender(d)
      BY <1>1, <1>2
    <3>6. QED BY <2>3, <3>1, <3>2, <3>4, <3>5
  <2>4. QED BY <2>1, <2>2, <2>3
<1>11. WakesInv'
  BY <1>2 DEF WakesInv
<1>12. QED BY <1>3, <1>6, <1>7, <1>8, <1>9, <1>10, <1>11 DEF Cross

-----------------------------------------------------------------------------
\* How the steps change the view of the stack.

ViewOK ==
  /\ \A n \in Frames : stack[n].proc \in Procs => view[stack[n].proc] = stack[n]
  /\ \A p \in Procs : (\A n \in Frames : stack[n].proc # p) => view[p] = Off

LEMMA Views == UrgencyInv => ViewOK
<1> SUFFICES ASSUME UrgencyInv
             PROVE  ViewOK
  OBVIOUS
<1>1. ASSUME NEW n \in Frames, stack[n].proc \in Procs
      PROVE  view[stack[n].proc] = stack[n]
  <2> DEFINE p == stack[n].proc
             m == CHOOSE m \in Frames : stack[m].proc = p
  <2>1. OnCpu(p) /\ view[p] = stack[m]
    BY <1>1 DEF OnCpu, view
  <2>2. m \in Frames /\ stack[m].proc = p
    OBVIOUS
  <2>3. p # NoProc
    BY <1>1, RecordAssumption DEF Records
  <2> HIDE DEF m
  <2>4. m = n
    BY <1>1, <2>2, <2>3, SamePriority
  <2>5. QED BY <2>1, <2>4
<1>2. \A p \in Procs : (\A n \in Frames : stack[n].proc # p) => view[p] = Off
  BY DEF view, OnCpu
<1>3. QED BY <1>1, <1>2 DEF ViewOK

LEMMA GotoView ==
  ASSUME UrgencyInv, ViewOK, ViewOK', NEW f, Goto(f)
  PROVE  view' = [q \in Procs |-> IF q = f.proc THEN f ELSE IF q = Top.proc THEN Off ELSE view[q]]
<1>1. /\ Len(stack) \in Frames /\ Frames' = Frames /\ Top = stack[Len(stack)]
      /\ \A n \in Frames : stack'[n] = IF n = Len(stack) THEN f ELSE stack[n]
  BY GotoTop, Stacked DEF UrgencyInv
<1>2. ASSUME NEW q \in Procs
      PROVE  view'[q] = IF q = f.proc THEN f ELSE IF q = Top.proc THEN Off ELSE view[q]
  <2>1. CASE q = f.proc
    BY <1>1, <1>2, <2>1 DEF ViewOK
  <2>2. CASE q # f.proc /\ q = Top.proc
    <3>1. \A n \in Frames : n # Len(stack) => stack[n].proc # q
      BY <1>1, <1>2, <2>2, SamePriority, RecordAssumption DEF Records
    <3>2. QED BY <1>1, <1>2, <2>2, <3>1 DEF ViewOK
  <2>3. CASE q # f.proc /\ q # Top.proc
    <3>1. CASE \E n \in Frames : stack[n].proc = q
      BY <1>1, <1>2, <2>3, <3>1 DEF ViewOK
    <3>2. CASE ~\E n \in Frames : stack[n].proc = q
      BY <1>1, <1>2, <2>3, <3>2 DEF ViewOK
    <3>3. QED BY <2>3, <3>1, <3>2
  <2>4. QED BY <2>1, <2>2, <2>3
<1>3. view = [q \in Procs |-> view[q]] /\ view' = [q \in Procs |-> view'[q]]
  BY DEF view
<1>4. QED BY <1>2, <1>3

LEMMA PushView ==
  ASSUME UrgencyInv, ViewOK, ViewOK', NEW f, NEW g,
         Len(stack') = Len(stack) + 1,
         \A n \in Frames : stack'[n] = IF n = Len(stack) THEN f ELSE stack[n],
         stack'[Len(stack) + 1] = g, f.proc = Top.proc, g.proc = NoProc
  PROVE  view' = [q \in Procs |-> IF q = f.proc THEN f ELSE view[q]]
<1>1. /\ Len(stack) \in Frames /\ Top = stack[Len(stack)] /\ Len(stack) \in Nat
      /\ Frames = 1 .. Len(stack) /\ Frames' = 1 .. Len(stack) + 1
      /\ \A q \in Procs : q # NoProc
  BY Stacked, RecordAssumption DEF UrgencyInv, Frames, Records
<1>2. ASSUME NEW q \in Procs
      PROVE  view'[q] = IF q = f.proc THEN f ELSE view[q]
  <2>1. CASE q = f.proc
    BY <1>1, <1>2, <2>1 DEF ViewOK
  <2>2. CASE q # f.proc
    <3>1. CASE \E n \in Frames : stack[n].proc = q
      BY <1>1, <1>2, <2>2, <3>1 DEF ViewOK
    <3>2. CASE ~\E n \in Frames : stack[n].proc = q
      BY <1>1, <1>2, <2>2, <3>2 DEF ViewOK
    <3>3. QED BY <3>1, <3>2
  <2>3. QED BY <2>1, <2>2
<1>3. view = [q \in Procs |-> view[q]] /\ view' = [q \in Procs |-> view'[q]]
  BY DEF view
<1>4. QED BY <1>2, <1>3

LEMMA ReturnView ==
  ASSUME UrgencyInv, ViewOK, ViewOK', Return, Top.fn # "main", Top.proc = NoProc
  PROVE  view' = view
<1>1. /\ Len(stack) \in Frames /\ Top = stack[Len(stack)] /\ Len(stack) \in Nat /\ Len(stack) > 1
      /\ Frames = 1 .. Len(stack) /\ StackShape
      /\ \A q \in Procs : q # NoProc
  BY Stacked, RecordAssumption DEF UrgencyInv, StackInv, Records
<1>2. Frames' = 1 .. Len(stack) - 1 /\ \A n \in 1 .. Len(stack) - 1 : stack'[n] = stack[n] /\ n \in Frames
  BY <1>1, ReturnSeq DEF Frames
<1>3. ASSUME NEW q \in Procs
      PROVE  view'[q] = view[q]
  <2>1. CASE \E n \in Frames : stack[n].proc = q
    BY <1>1, <1>2, <1>3, <2>1 DEF ViewOK
  <2>2. CASE ~\E n \in Frames : stack[n].proc = q
    BY <1>1, <1>2, <1>3, <2>2 DEF ViewOK
  <2>3. QED BY <2>1, <2>2
<1>4. view = [q \in Procs |-> view[q]] /\ view' = [q \in Procs |-> view'[q]]
  BY DEF view
<1>5. QED BY <1>3, <1>4

LEMMA SameStack ==
  ASSUME stack' = stack, Inner
  PROVE  view' = view /\ Inner'
BY DEF view, OnCpu, Frames, Inner

Idling == {"select", "take", "load", "rtc", "rtcRest", "finish"}

\* What an activation must be for Inner.
InnerOK(f) ==
  /\ f.prev # NoProc => f.pc = "partnerRet"
  /\ f.pc \in Idling => f.partner = NoProc

LEMMA GotoInner ==
  ASSUME UrgencyInv, Inner, NEW f, Goto(f), InnerOK(f),
         f.proc \in {Top.proc, NoProc} \/ (Top.pc = "take" /\ Choosing(Top))
  PROVE  Inner'
<1>1. /\ Len(stack) \in Frames /\ Frames' = Frames /\ Top = stack[Len(stack)]
      /\ Len(stack) \in Nat /\ Frames = 1 .. Len(stack)
      /\ \A n \in Frames : stack'[n] = IF n = Len(stack) THEN f ELSE stack[n]
  BY GotoTop, Stacked DEF UrgencyInv
<1>2. ASSUME NEW m \in Frames, m < Len(stack), stack[m].proc # NoProc, f.proc # NoProc
      PROVE  stack[m].pc = "partnerRet"
  <2>1. CASE Top.proc # NoProc
    BY <1>1, <1>2, <2>1 DEF Inner
  <2>2. CASE Top.pc = "take" /\ Choosing(Top)
    <3> DEFINE b == stack[Len(stack) - 1]
    <3>1. Len(stack) > 1 /\ Len(stack) - 1 \in Frames /\ OnTopOf(Top, b) /\ FrameOK(b) /\ KindOK(b)
      BY <1>1, <1>2, Stacked DEF UrgencyInv, LinkInv, Linkage
    <3>2. b.pc = "returned" \/ b.prev # NoProc
      BY <2>2, <3>1 DEF OnTopOf, Choosing
    <3>3. CASE b.pc = "returned"
      <4>1. b.fn = "main"
        BY <3>1, <3>3 DEF KindOK, SchedulePcs, StartPcs, HandlerPcs
      <4>2. Len(stack) - 1 = 1
        BY <3>1, <4>1, Stacked DEF UrgencyInv
      <4>3. m = Len(stack) - 1
        <5>1. m \in Int /\ m >= 1 /\ m < Len(stack) /\ Len(stack) \in Int
          BY <1>1, <1>2
        <5>2. \A a, n \in Int : a >= 1 /\ a < n /\ n - 1 = 1 => a = n - 1
          OBVIOUS
        <5>3. QED BY <4>2, <5>1, <5>2
      <4>4. QED BY <1>2, <3>1, <4>1, <4>3 DEF FrameOK
    <3>4. CASE b.prev # NoProc
      <4>1. b.pc = "partnerRet" /\ b.proc # NoProc
        BY <3>1, <3>4, RecordAssumption DEF Inner, FrameOK, SchedulePcs, Records
      <4>2. m = Len(stack) - 1 \/ m < Len(stack) - 1
        BY <1>1, <1>2
      <4>3. QED BY <1>2, <3>1, <4>1, <4>2 DEF Inner
    <3>5. QED BY <3>2, <3>3, <3>4
  <2>3. QED BY <1>2, <2>1, <2>2
<1>3. \A m, n \in Frames : m < n /\ stack'[m].proc # NoProc /\ stack'[n].proc # NoProc => stack'[m].pc = "partnerRet"
  BY <1>1, <1>2 DEF Inner
<1>4. \A n \in Frames : InnerOK(stack'[n])
  BY <1>1 DEF Inner, InnerOK, Idling
<1>5. QED BY <1>1, <1>3, <1>4 DEF Inner, InnerOK, Idling

LEMMA PushInner ==
  ASSUME UrgencyInv, Inner, NEW f, NEW g,
         Len(stack') = Len(stack) + 1,
         \A n \in Frames : stack'[n] = IF n = Len(stack) THEN f ELSE stack[n],
         stack'[Len(stack) + 1] = g, f.proc = Top.proc, g.proc = NoProc, InnerOK(f), InnerOK(g)
  PROVE  Inner'
<1>1. /\ Len(stack) \in Frames /\ Top = stack[Len(stack)] /\ Len(stack) \in Nat
      /\ Frames = 1 .. Len(stack) /\ Frames' = 1 .. Len(stack) + 1
  BY Stacked DEF UrgencyInv, Frames
<1>2. \A m, n \in Frames' : m < n /\ stack'[m].proc # NoProc /\ stack'[n].proc # NoProc => stack'[m].pc = "partnerRet"
  BY <1>1 DEF Inner
<1>3. \A n \in Frames' : InnerOK(stack'[n])
  BY <1>1 DEF Inner, InnerOK, Idling
<1>4. QED BY <1>2, <1>3 DEF Inner, InnerOK, Idling

LEMMA ReturnInner ==
  ASSUME UrgencyInv, Inner, Return, Top.fn # "main"
  PROVE  Inner'
<1>1. /\ Len(stack) \in Nat /\ Len(stack) > 1 /\ Frames = 1 .. Len(stack) /\ StackShape
  BY Stacked DEF UrgencyInv, StackInv
<1>2. Frames' = 1 .. Len(stack) - 1 /\ \A n \in 1 .. Len(stack) - 1 : stack'[n] = stack[n] /\ n \in Frames
  BY <1>1, ReturnSeq DEF Frames
<1>3. QED BY <1>2 DEF Inner

-----------------------------------------------------------------------------
\* From the lower layer to the upper one.

\* What a step must establish.
Proceeds == Nested' /\ LocalInv' /\ CrossInv' /\ [Channels!Next]_Phase

\* The view of process p becomes a, that of the others does not change.
Becomes(p, a) == view' = [q \in Procs |-> IF q = p THEN a ELSE view[q]]

\* What process q knows of itself does not change.
Still(q) == view'[q] = view[q] /\ state'[q] = state[q] /\ active'[q] = active[q] /\ alt'[q] = alt[q]

LEMMA PhaseSame ==
  ASSUME chan' = chan, got' = got, sent' = sent
  PROVE  [Channels!Next]_Phase
BY DEF Phase, Sender

\* Process p is the innermost one.
LEMMA Here ==
  ASSUME ChannelInv, NEW p \in Procs, p = Top.proc
  PROVE  /\ view[p] = Top /\ FrameOK(Top) /\ IsFrame(Top) /\ InnerOK(Top)
         /\ Top.pc # "partnerRet" => current = p
         /\ Local(p, Top, state[p], alt[p], active[p])
         /\ Chooses(p, Top, alt[p], active[p], reg[p], open[p])
         /\ mode[p] = ModeOf(Top, state[p]) /\ reg[p] = RegOf(p, Top, state[p], active[p])
         /\ wake[p] = WakeOf(Top) /\ owes[p] = OwesOf(Top)
         /\ \A q \in Procs : q # p => view[q].pc \in {"off", "partnerRet"}
         /\ Types /\ Shaped /\ Cross
<1>1. /\ Len(stack) \in Frames /\ Top = stack[Len(stack)] /\ FrameOK(Top) /\ IsFrame(Top)
      /\ Frames = 1 .. Len(stack) /\ Len(stack) \in Nat /\ p # NoProc
  BY Stacked, RecordAssumption DEF ChannelInv, UrgencyInv, FrameOK, Records
<1>2. ViewOK /\ CurrentIsRunning
  BY Views, CurrentRuns DEF ChannelInv
<1>3. view[p] = Top
  BY <1>1, <1>2 DEF ViewOK
<1>4. InnerOK(Top)
  BY <1>1 DEF ChannelInv, Nested, Inner, InnerOK, Idling
<1>5. Top.pc # "partnerRet" => current = p
  <2>1. Top.fn = "schedule"
    BY <1>1 DEF FrameOK
  <2>2. QED BY <1>1, <1>2, <2>1 DEF CurrentIsRunning
<1>6. \A q \in Procs : q # p => view[q].pc \in {"off", "partnerRet"}
  <2> SUFFICES ASSUME NEW q \in Procs, q # p
               PROVE  view[q].pc \in {"off", "partnerRet"}
    OBVIOUS
  <2>1. CASE \E n \in Frames : stack[n].proc = q
    <3>1. PICK n \in Frames : stack[n].proc = q
      BY <2>1
    <3>2. n < Len(stack) /\ q # NoProc
      BY <1>1, <3>1, RecordAssumption DEF Records
    <3>3. stack[n].pc = "partnerRet"
      BY <1>1, <3>1, <3>2 DEF ChannelInv, Nested, Inner
    <3>4. QED BY <1>2, <3>1, <3>3 DEF ViewOK
  <2>2. CASE ~\E n \in Frames : stack[n].proc = q
    BY <1>2, <2>2 DEF ViewOK, Off, Frame
  <2>3. QED BY <2>1, <2>2
<1>7. /\ mode[p] = ModeOf(Top, state[p]) /\ reg[p] = RegOf(p, Top, state[p], active[p])
      /\ wake[p] = WakeOf(Top) /\ owes[p] = OwesOf(Top)
  BY <1>3 DEF mode, reg, wake, owes
<1>8. /\ Local(p, Top, state[p], alt[p], active[p])
      /\ Chooses(p, Top, alt[p], active[p], reg[p], open[p])
  BY <1>3 DEF ChannelInv, LocalInv
<1>9. Shaped
  BY LocalShape DEF ChannelInv, LocalInv, Shaped, mode, reg, wake, owes
<1>10. QED BY <1>1, <1>3, <1>4, <1>5, <1>6, <1>7, <1>8, <1>9 DEF ChannelInv, CrossInv, Cross

\* A process of which nothing changes.
LEMMA StillKeeps ==
  ASSUME NEW q \in Procs, Still(q)
  PROVE  Keeps(q)
BY DEF Still, Keeps, mode, reg, wake, owes

LEMMA StillLocal ==
  ASSUME LocalInv, NEW q \in Procs, Still(q), open'[q] = open[q] \/ view[q].pc \in {"off", "partnerRet"}
  PROVE  /\ Local(q, view'[q], state'[q], alt'[q], active'[q])
         /\ Chooses(q, view'[q], alt'[q], active'[q], reg'[q], open'[q])
<1>1. /\ Local(q, view[q], state[q], alt[q], active[q])
      /\ Chooses(q, view[q], alt[q], active[q], reg[q], open[q])
  BY DEF LocalInv
<1>2. reg'[q] = reg[q]
  BY DEF Still, reg
<1>3. QED BY <1>1, <1>2 DEF Still, Chooses

\* A process that does not execute.
LEMMA Away ==
  ASSUME LocalInv, NEW q \in Procs, view[q].pc \in {"off", "partnerRet"}
  PROVE  /\ mode[q] \in {"outside", "waiting", "ready", "selected"}
         /\ mode[q] \in {"waiting", "ready"} <=> state[q] \in {"waiting", "ready"}
         /\ mode[q] \in {"waiting", "ready"} => mode[q] = state[q]
         /\ wake[q] = NoProc /\ owes[q] = NoProc
<1>1. StateAt(view[q], state[q])
  BY DEF LocalInv, Local
<1>2. mode[q] = ModeOf(view[q], state[q])
  BY DEF mode
<1>3. wake[q] = NoProc /\ owes[q] = NoProc
  BY DEF wake, owes, WakeOf, OwesOf
<1>4. QED BY <1>1, <1>2, <1>3 DEF StateAt, ModeOf

\* The step of a process leaves the others alone.
LEMMA Alongside ==
  ASSUME LocalInv, NEW p \in Procs,
         \A q \in Procs : q # p => Still(q) /\ view[q].pc \in {"off", "partnerRet"}
  PROVE  /\ Rest(p)
         /\ \A q \in Procs : q # p =>
              /\ Local(q, view'[q], state'[q], alt'[q], active'[q])
              /\ Chooses(q, view'[q], alt'[q], active'[q], reg'[q], open'[q])
<1>1. Rest(p)
  BY StillKeeps, Away DEF Rest
<1>2. QED BY <1>1, StillLocal

\* The step of a process, by what it makes of its activation.
LEMMA Own ==
  ASSUME ChannelInv, NEW p \in Procs, p = Top.proc, NEW a, Becomes(p, a),
         \A q \in Procs : q # p => state'[q] = state[q] /\ active'[q] = active[q] /\ alt'[q] = alt[q]
  PROVE  /\ Rest(p)
         /\ mode'[p] = ModeOf(a, state'[p]) /\ reg'[p] = RegOf(p, a, state'[p], active'[p])
         /\ wake'[p] = WakeOf(a) /\ owes'[p] = OwesOf(a)
         /\ /\ Local(p, a, state'[p], alt'[p], active'[p])
            /\ Chooses(p, a, alt'[p], active'[p], reg'[p], open'[p])
            => LocalInv'
<1>1. view'[p] = a /\ \A q \in Procs : q # p => Still(q) /\ view[q].pc \in {"off", "partnerRet"}
  BY Here DEF Becomes, Still
<1>2. LocalInv
  BY DEF ChannelInv
<1>3. /\ Rest(p)
      /\ \A q \in Procs : q # p =>
           /\ Local(q, view'[q], state'[q], alt'[q], active'[q])
           /\ Chooses(q, view'[q], alt'[q], active'[q], reg'[q], open'[q])
  BY <1>1, <1>2, Alongside
<1>4. /\ mode'[p] = ModeOf(a, state'[p]) /\ reg'[p] = RegOf(p, a, state'[p], active'[p])
      /\ wake'[p] = WakeOf(a) /\ owes'[p] = OwesOf(a)
  BY <1>1 DEF mode, reg, wake, owes
<1>5. ASSUME Local(p, a, state'[p], alt'[p], active'[p]),
             Chooses(p, a, alt'[p], active'[p], reg'[p], open'[p])
      PROVE  LocalInv'
  <2>1. \A q \in Procs :
           /\ Local(q, view'[q], state'[q], alt'[q], active'[q])
           /\ Chooses(q, view'[q], alt'[q], active'[q], reg'[q], open'[q])
    BY <1>1, <1>3, <1>5
  <2>2. QED BY <2>1 DEF LocalInv, Local, Chooses, StateAt, LoopAt, Alone, ModeOf, RegOf, Sender
<1>6. QED BY <1>3, <1>4, <1>5

\* Nothing but the activation of one process changes, and it is doing the same
\* about its ALT as before.
LEMMA MoveOn ==
  ASSUME Synchronous, ChannelInv, NEW p \in Procs, NEW a, Becomes(p, a),
         state' = state, alt' = alt, active' = active, chan' = chan, got' = got, sent' = sent, Nested',
         ModeOf(a, state[p]) = mode[p], RegOf(p, a, state[p], active[p]) = reg[p],
         WakeOf(a) = wake[p], OwesOf(a) = owes[p],
         StateAt(a, state[p]), LoopAt(p, a),
         Chooses(p, a, alt[p], active[p], reg[p], open[p])
  PROVE  Proceeds
<1>1. Types /\ Cross /\ LocalInv /\ Shaped /\ \A q \in Procs : open'[q] = open[q]
  <2>1. Types /\ Cross /\ LocalInv
    BY DEF ChannelInv, CrossInv, Cross
  <2>2. Shaped
    BY <2>1, LocalShape DEF LocalInv, Shaped, mode, reg, wake, owes
  <2>3. QED BY <2>1, <2>2, OpenSame
<1>2. view'[p] = a /\ \A q \in Procs : q # p => Still(q)
  BY DEF Becomes, Still
<1>3. mode'[p] = mode[p] /\ reg'[p] = reg[p] /\ wake'[p] = wake[p] /\ owes'[p] = owes[p]
  BY <1>2 DEF mode, reg, wake, owes
<1>4. \A q \in Procs : Keeps(q)
  <2>1. Keeps(p)
    BY <1>3 DEF Keeps
  <2>2. QED BY <1>2, <2>1, StillKeeps
<1>5. Cross' /\ Types'
  <2>1. Cross'
    BY <1>1, <1>4, KeepAll
  <2>2. QED BY <1>1, <2>1 DEF Types
<1>6. LocalInv'
  <2>1. Local(p, view[p], state[p], alt[p], active[p])
    BY <1>1 DEF LocalInv
  <2>2. Local(p, a, state[p], alt[p], active[p])
    BY <2>1 DEF Local, mode, reg
  <2>3. /\ Local(p, view'[p], state'[p], alt'[p], active'[p])
        /\ Chooses(p, view'[p], alt'[p], active'[p], reg'[p], open'[p])
    BY <1>1, <1>2, <1>3, <2>2
  <2>4. \A q \in Procs : /\ Local(q, view'[q], state'[q], alt'[q], active'[q])
                        /\ Chooses(q, view'[q], alt'[q], active'[q], reg'[q], open'[q])
    BY <1>1, <1>2, <2>3, StillLocal
  <2>5. QED BY <2>4 DEF LocalInv, Local, Chooses, StateAt, LoopAt, Alone, ModeOf, RegOf, Sender
<1>7. QED BY <1>5, <1>6, PhaseSame DEF Proceeds, CrossInv, Cross

\* A step in which no process changes its activation, and at most one that is
\* not in an ALT is set up.
LEMMA SetUp ==
  ASSUME Synchronous, ChannelInv, NEW r, view' = view,
         \A q \in Procs : q # r => Still(q),
         r \in Procs => /\ view[r] = Off /\ state[r] \in {"unstarted", "initial"} /\ state'[r] = "initial"
                        /\ alt'[r].guards = NoProc /\ active'[r] = {},
         Types', chan' = chan, got' = got, sent' = sent, Nested'
  PROVE  Proceeds
<1>1. Types /\ Cross /\ LocalInv /\ \A q \in Procs : open'[q] = open[q]
  BY OpenSame DEF ChannelInv, CrossInv, Cross
<1>2. Shaped
  BY LocalShape DEF ChannelInv, LocalInv, Shaped, mode, reg, wake, owes
<1>3. ASSUME r \in Procs
      PROVE  /\ Keeps(r)
             /\ Local(r, view'[r], state'[r], alt'[r], active'[r])
             /\ Chooses(r, view'[r], alt'[r], active'[r], reg'[r], open'[r])
  <2>1. view'[r] = Off /\ view[r] = Off /\ Off.pc = "off"
    BY <1>3 DEF Off, Frame
  <2>2. /\ ModeOf(Off, state[r]) = "outside" /\ ModeOf(Off, state'[r]) = "outside"
        /\ RegOf(r, Off, state[r], active[r]) = {} /\ RegOf(r, Off, state'[r], active'[r]) = {}
    BY <1>3, <2>1 DEF ModeOf, RegOf
  <2>3. Keeps(r)
    BY <1>3, <2>1, <2>2 DEF Keeps, mode, reg, wake, owes
  <2>4. Local(r, Off, state'[r], alt'[r], active'[r])
    BY <1>3, <2>1, <2>2 DEF Local, StateAt, LoopAt
  <2>5. Chooses(r, Off, alt'[r], active'[r], reg'[r], open'[r])
    BY <2>1 DEF Chooses
  <2>6. QED BY <2>1, <2>3, <2>4, <2>5
<1>4. \A q \in Procs : Keeps(q)
  BY <1>3, StillKeeps
<1>5. Cross'
  BY <1>1, <1>2, <1>4, KeepAll
<1>6. LocalInv'
  <2>1. \A q \in Procs :
           /\ Local(q, view'[q], state'[q], alt'[q], active'[q])
           /\ Chooses(q, view'[q], alt'[q], active'[q], reg'[q], open'[q])
    BY <1>1, <1>3, StillLocal
  <2>2. QED BY <2>1 DEF LocalInv, Local, Chooses, StateAt, LoopAt, Alone, ModeOf, RegOf, Sender
<1>7. QED BY <1>5, <1>6, PhaseSame DEF Proceeds, CrossInv, Cross

\* A step in which nothing changes for any process.
LEMMA Undisturbed ==
  ASSUME Synchronous, ChannelInv, view' = view, state' = state, alt' = alt, active' = active,
         chan' = chan, got' = got, sent' = sent, Nested'
  PROVE  Proceeds
<1>1. \A q \in Procs : Still(q)
  BY DEF Still
<1>2. Types'
  BY DEF ChannelInv, CrossInv, Types
<1>3. NoProc \notin Procs
  BY RecordAssumption DEF Records
<1>4. QED BY <1>1, <1>2, <1>3, SetUp

LEMMA ViewsNext ==
  ASSUME UrgencyInv'
  PROVE  ViewOK'
BY Views, PTL

\* The activation of a process changes.
LEMMA GotoBecomes ==
  ASSUME ChannelInv, UrgencyInv', NEW p \in Procs, p = Top.proc, NEW f, Goto(f), f.proc = p, InnerOK(f)
  PROVE  Becomes(p, f) /\ Inner'
<1>1. UrgencyInv /\ Inner /\ ViewOK /\ ViewOK'
  BY Views, ViewsNext DEF ChannelInv, Nested
<1>2. view' = [q \in Procs |-> IF q = f.proc THEN f ELSE IF q = Top.proc THEN Off ELSE view[q]]
  BY <1>1, GotoView
<1>3. Inner'
  BY <1>1, GotoInner
<1>4. QED BY <1>2, <1>3 DEF Becomes

LEMMA CallBecomes ==
  ASSUME ChannelInv, UrgencyInv', NEW p \in Procs, p = Top.proc, NEW f, NEW g, Call(f, g),
         f.proc = p, g.proc = NoProc, InnerOK(f), InnerOK(g)
  PROVE  Becomes(p, f) /\ Inner'
<1>1. UrgencyInv /\ Inner /\ ViewOK /\ ViewOK' /\ StackShape
  BY Views, ViewsNext DEF ChannelInv, Nested, UrgencyInv, StackInv
<1>2. /\ Len(stack') = Len(stack) + 1
      /\ \A n \in Frames : stack'[n] = IF n = Len(stack) THEN f ELSE stack[n]
      /\ stack'[Len(stack) + 1] = g
  BY <1>1, CallSeq
<1>3. QED BY <1>1, <1>2, PushView, PushInner DEF Becomes

\* A process that is not one of those, or none, is the innermost one.
LEMMA GotoAside ==
  ASSUME ChannelInv, UrgencyInv', Top.proc \notin Procs, NEW f, Goto(f), f.proc \in {Top.proc, NoProc}, InnerOK(f)
  PROVE  view' = view /\ Inner'
<1>1. UrgencyInv /\ Inner /\ ViewOK /\ ViewOK' /\ f.proc \notin Procs
  BY Views, ViewsNext, RecordAssumption DEF ChannelInv, Nested, Records
<1>2. view' = [q \in Procs |-> IF q = f.proc THEN f ELSE IF q = Top.proc THEN Off ELSE view[q]]
  BY <1>1, GotoView
<1>3. Inner'
  BY <1>1, GotoInner
<1>4. view' = view
  BY <1>1, <1>2 DEF view
<1>5. QED BY <1>3, <1>4

LEMMA PushAside ==
  ASSUME ChannelInv, UrgencyInv', NEW f, NEW g,
         Call(f, g) \/ (stack' = Append(stack, g) /\ f = Top),
         f = Top \/ Top.proc \notin Procs, f.proc = Top.proc, g.proc = NoProc, InnerOK(f), InnerOK(g)
  PROVE  view' = view /\ Inner'
<1>1. UrgencyInv /\ Inner /\ ViewOK /\ ViewOK' /\ StackShape /\ Len(stack) \in Frames /\ Top = stack[Len(stack)]
  BY Views, ViewsNext, Stacked DEF ChannelInv, Nested, UrgencyInv, StackInv
<1>2. /\ Len(stack') = Len(stack) + 1
      /\ \A n \in Frames : stack'[n] = IF n = Len(stack) THEN f ELSE stack[n]
      /\ stack'[Len(stack) + 1] = g
  <2>1. CASE Call(f, g)
    BY <1>1, <2>1, CallSeq
  <2>2. CASE stack' = Append(stack, g) /\ f = Top
    BY <1>1, <2>2, PushSeq
  <2>3. QED BY <2>1, <2>2
<1>3. view' = [q \in Procs |-> IF q = f.proc THEN f ELSE view[q]] /\ Inner'
  BY <1>1, <1>2, PushView, PushInner
<1>4. \A q \in Procs : q = f.proc => view[q] = f
  BY <1>1 DEF ViewOK
<1>5. view' = view
  BY <1>3, <1>4 DEF view
<1>6. QED BY <1>3, <1>5

LEMMA ReturnAside ==
  ASSUME ChannelInv, UrgencyInv', Return, Top.fn # "main", Top.proc = NoProc
  PROVE  view' = view /\ Inner'
BY Views, ViewsNext, ReturnView, ReturnInner DEF ChannelInv, Nested

LEMMA KeepUnused ==
  ASSUME ChannelInv, timerQ' = timerQ, ichan' = ichan, connected' = connected, freed' = freed
  PROVE  Unused'
BY DEF ChannelInv, Nested, Unused

-----------------------------------------------------------------------------
\* The actions.  First what they share.

\* The code of a process is at pc.
LEMMA AtProc ==
  ASSUME ChannelInv, NEW pc \in SchedulePcs \ {"select", "take", "load", "idle"}, At(pc)
  PROVE  /\ Top.pc = pc /\ Top.proc \in Procs /\ IsFrame(Top) /\ InnerOK(Top)
         /\ (pc # "partnerRet" => Top.prev = NoProc /\ current = Top.proc)
<1>1. Top.pc = pc /\ FrameOK(Top) /\ StackInv
  BY Stacked DEF ChannelInv, UrgencyInv, At
<1>2. Top.proc \in Procs
  BY <1>1 DEF FrameOK
<1>3. QED BY <1>1, <1>2, Here DEF InnerOK

\* A step of a process that only moves on.
LEMMA GoOn ==
  ASSUME Synchronous, ChannelInv, UrgencyInv', NEW p \in Procs, p = Top.proc, NEW f, Goto(f), f.proc = p, InnerOK(f),
         UNCHANGED <<state, freed, alt, active, chan, ichan, connected, got, sent, timerQ>>,
         ModeOf(f, state[p]) = ModeOf(Top, state[p]),
         RegOf(p, f, state[p], active[p]) = RegOf(p, Top, state[p], active[p]),
         WakeOf(f) = WakeOf(Top), OwesOf(f) = OwesOf(Top),
         StateAt(f, state[p]), LoopAt(p, f),
         Chooses(p, f, alt[p], active[p], reg[p], open[p])
  PROVE  Proceeds
<1>1. Becomes(p, f) /\ Inner'
  BY GotoBecomes
<1>2. Nested'
  BY <1>1, KeepUnused DEF Nested
<1>3. /\ mode[p] = ModeOf(Top, state[p]) /\ reg[p] = RegOf(p, Top, state[p], active[p])
      /\ wake[p] = WakeOf(Top) /\ owes[p] = OwesOf(Top)
  BY Here
<1>4. QED BY <1>1, <1>2, <1>3, MoveOn

\* A step of another activation that concerns no process.
LEMMA Elsewhere ==
  ASSUME Synchronous, ChannelInv, view' = view, Inner',
         UNCHANGED <<state, freed, alt, active, chan, ichan, connected, got, sent, timerQ>>
  PROVE  Proceeds
BY KeepUnused, Undisturbed DEF Nested

\* A step that ends the program.
LEMMA Dies ==
  ASSUME Synchronous, ChannelInv, NEW why, Crash(why)
  PROVE  Proceeds
<1>1. view' = view /\ Inner'
  BY SameStack DEF Crash, ChannelInv, Nested
<1>2. QED BY <1>1, Elsewhere DEF Crash, procVars, altVars, ioVars, timeVars

-----------------------------------------------------------------------------
\* schedule(): choosing a process, and giving it up.

LEMMA SelectProceeds ==
  ASSUME Synchronous, ChannelInv, UrgencyInv', SelectSame \/ SelectNone \/ SelectNew
  PROVE  Proceeds
<1>1. FrameOK(Top) /\ IsFrame(Top) /\ Top.prev = NoProc /\ NoProc \notin Procs /\ Idle \notin Procs
      /\ Top.pc = "select" /\ Top.fn = "schedule" /\ Top.partner = NoProc
  <2>1. At("select")
    BY DEF SelectSame, SelectNone, SelectNew
  <2>2. FrameOK(Top) /\ Top.pc = "select" /\ Top.prev = NoProc /\ Len(stack) \in Frames /\ Top = stack[Len(stack)]
    BY <2>1, Stacked, AtFacts DEF ChannelInv, UrgencyInv, ReturnPcs
  <2>3. Top.partner = NoProc
    BY <2>2 DEF ChannelInv, Nested, Inner
  <2>4. QED BY <2>2, <2>3, RecordAssumption DEF FrameOK, SchedulePcs, Records
<1>2. UNCHANGED <<state, freed, alt, active, chan, ichan, connected, got, sent, timerQ>>
  BY DEF SelectSame, SelectNone, SelectNew, procVars, altVars, ioVars, timeVars
<1>3. CASE SelectSame
  <2> DEFINE f == [Top EXCEPT !.pc = "load"]
  <2>1. /\ f.pc = "load" /\ f.proc = Top.proc /\ f.prev = NoProc /\ f.partner = NoProc
        /\ Goto(f) /\ InnerOK(f)
    BY <1>1, <1>3 DEF IsFrame, SelectSame, InnerOK
  <2> HIDE DEF f
  <2>2. CASE Top.proc \in Procs
    <3>1. Local(Top.proc, Top, state[Top.proc], alt[Top.proc], active[Top.proc])
      BY <2>2, Here
    <3>2. StateAt(Top, state[Top.proc])
      BY <3>1 DEF Local
    <3>3. /\ StateAt(f, state[Top.proc]) /\ LoopAt(Top.proc, f)
          /\ Chooses(Top.proc, f, alt[Top.proc], active[Top.proc], reg[Top.proc], open[Top.proc])
      BY <1>1, <2>1, <3>2 DEF StateAt, LoopAt, Chooses
    <3>4. /\ ModeOf(f, state[Top.proc]) = ModeOf(Top, state[Top.proc])
          /\ RegOf(Top.proc, f, state[Top.proc], active[Top.proc])
               = RegOf(Top.proc, Top, state[Top.proc], active[Top.proc])
          /\ WakeOf(f) = WakeOf(Top) /\ OwesOf(f) = OwesOf(Top)
      BY <1>1, <2>1 DEF ModeOf, RegOf, WakeOf, OwesOf
    <3>5. QED BY <1>2, <2>1, <2>2, <3>3, <3>4, GoOn
  <2>3. CASE Top.proc \notin Procs
    <3>1. view' = view /\ Inner'
      BY <2>1, <2>3, GotoAside
    <3>2. QED BY <1>2, <3>1, Elsewhere
  <2>4. QED BY <2>2, <2>3
<1>4. CASE SelectNone
  <2>1. view' = view /\ Inner'
    BY <1>1, <1>4, ReturnAside DEF SelectNone
  <2>2. QED BY <1>2, <2>1, Elsewhere
<1>5. CASE SelectNew
  <2> DEFINE f == [Top EXCEPT !.pc = "take", !.k = highest_ready(rq.mask)]
  <2>1. /\ f.pc = "take" /\ f.proc = Top.proc /\ f.prev = NoProc /\ f.partner = NoProc
        /\ Goto(f) /\ InnerOK(f) /\ Top.proc = NoProc
    BY <1>1, <1>5 DEF IsFrame, SelectNew, InnerOK
  <2> HIDE DEF f
  <2>2. view' = view /\ Inner'
    BY <1>1, <2>1, GotoAside
  <2>3. QED BY <1>2, <2>2, Elsewhere
<1>6. QED BY <1>3, <1>4, <1>5

\* The process taken was off the CPU, and goes on as it is.
LEMMA TakeProceeds ==
  ASSUME Synchronous, ChannelInv, UrgencyInv', Take
  PROVE  Proceeds
<1> DEFINE p == rq.head[Top.k]
           f == [Top EXCEPT !.pc = "load", !.proc = p, !.k = 0]
<1>1. CASE p = NoProc
  BY <1>1, Dies DEF Take
<1>2. CASE p # NoProc
  <2>1. /\ FrameOK(Top) /\ IsFrame(Top) /\ Top.prev = NoProc /\ Top.pc = "take" /\ Top.partner = NoProc
        /\ Choosing(Top) /\ UrgencyInv /\ Inner /\ Len(stack) \in Frames /\ Top = stack[Len(stack)]
        /\ Frames = 1 .. Len(stack) /\ Len(stack) \in Nat
    <3>1. At("take")
      BY DEF Take
    <3>2. FrameOK(Top) /\ Top.pc = "take" /\ Top.prev = NoProc /\ Len(stack) \in Frames /\ Top = stack[Len(stack)]
          /\ Frames = 1 .. Len(stack) /\ Len(stack) \in Nat
      BY <3>1, Stacked, AtFacts DEF ChannelInv, UrgencyInv, ReturnPcs
    <3>3. Top.partner = NoProc
      BY <3>2 DEF ChannelInv, Nested, Inner
    <3>4. KindOK(Top)
      BY <3>2 DEF ChannelInv, UrgencyInv, LinkInv, Linkage
    <3>5. Choosing(Top)
      BY <3>2, <3>4 DEF KindOK, Choosing, StartPcs, HandlerPcs
    <3>6. QED BY <3>2, <3>3, <3>5 DEF ChannelInv, Nested, FrameOK
  <2>2. /\ f.pc = "load" /\ f.proc = p /\ f.prev = NoProc /\ f.partner = NoProc
        /\ Goto(f) /\ InnerOK(f)
    BY <1>2, <2>1 DEF IsFrame, Take, InnerOK
  <2>3. UNCHANGED <<state, freed, alt, active, chan, ichan, connected, got, sent, timerQ>>
    BY <1>2 DEF Take, altVars, ioVars, timeVars
  <2> HIDE DEF f
  <2>4. Inner' /\ ViewOK /\ ViewOK'
    BY <2>1, <2>2, GotoInner, Views, ViewsNext
  <2>5. view' = [q \in Procs |-> IF q = p THEN f ELSE IF q = Top.proc THEN Off ELSE view[q]]
    BY <2>1, <2>2, <2>4, GotoView
  <2>6. NoProc \notin Procs
    BY RecordAssumption DEF Records
  <2>7. Becomes(p, f)
    BY <2>1, <2>5, <2>6 DEF Becomes, Choosing
  <2>8. Nested'
    BY <2>3, <2>4, KeepUnused DEF Nested
  <2> HIDE DEF p
  <2>9. CASE p \in Procs
    <3>1. view[p] = Off
      <4>1. StackPriority'
        BY StackInvOrders, PTL DEF UrgencyInv
      <4>2. ASSUME NEW n \in Frames, stack[n].proc = p
            PROVE  FALSE
        <5>1. Frames' = Frames /\ \A m \in Frames : stack'[m] = IF m = Len(stack) THEN f ELSE stack[m]
          BY <2>1, <2>2, GotoTop DEF UrgencyInv
        <5>2. n # Len(stack)
          BY <2>1, <2>6, <2>9, <4>2 DEF Choosing
        <5>3. n < Len(stack)
          BY <2>1, <5>2
        <5>4. stack'[n].proc = p /\ stack'[Len(stack)].proc = p /\ n \in Frames' /\ Len(stack) \in Frames'
          BY <2>1, <2>2, <4>2, <5>1, <5>2
        <5>5. PriOf(p) < PriOf(p) /\ PriOf(p) \in Int
          <6>1. PriOf(p) < PriOf(p)
            BY <1>2, <4>1, <5>3, <5>4 DEF StackPriority
          <6>2. PriOf(p) \in Int
            BY <2>9, PriOfLevel DEF Records
          <6>3. QED BY <6>1, <6>2
        <5>6. QED BY <5>5
      <4>3. QED BY <2>4, <2>9, <4>2 DEF ViewOK
    <3>2. Local(p, view[p], state[p], alt[p], active[p]) /\ Off.pc = "off"
      BY <2>9 DEF ChannelInv, LocalInv, Off, Frame
    <3>3. StateAt(Off, state[p])
      BY <3>1, <3>2 DEF Local
    <3>4. /\ StateAt(f, state[p]) /\ LoopAt(p, f)
          /\ Chooses(p, f, alt[p], active[p], reg[p], open[p])
      BY <2>2, <3>2, <3>3 DEF StateAt, LoopAt, Chooses
    <3>5. /\ ModeOf(f, state[p]) = ModeOf(Off, state[p])
          /\ RegOf(p, f, state[p], active[p]) = RegOf(p, Off, state[p], active[p])
          /\ WakeOf(f) = WakeOf(Off) /\ OwesOf(f) = OwesOf(Off)
      BY <2>2, <3>2 DEF ModeOf, RegOf, WakeOf, OwesOf
    <3>6. /\ mode[p] = ModeOf(Off, state[p]) /\ reg[p] = RegOf(p, Off, state[p], active[p])
          /\ wake[p] = WakeOf(Off) /\ owes[p] = OwesOf(Off)
      BY <2>9, <3>1 DEF mode, reg, wake, owes
    <3>7. QED BY <2>3, <2>7, <2>8, <2>9, <3>4, <3>5, <3>6, MoveOn
  <2>10. CASE p \notin Procs
    <3>1. view' = view
      BY <2>7, <2>10 DEF Becomes, view
    <3>2. QED BY <2>3, <2>4, <3>1, Elsewhere
  <2>11. QED BY <2>9, <2>10
<1>3. QED BY <1>1, <1>2

\* The step of a process, by what it makes of its activation, once the channels
\* are seen to.
LEMMA Concludes ==
  ASSUME ChannelInv, NEW p \in Procs, p = Top.proc, NEW a, Becomes(p, a), Nested',
         \A q \in Procs : q # p => state'[q] = state[q] /\ active'[q] = active[q] /\ alt'[q] = alt[q],
         Local(p, a, state'[p], alt'[p], active'[p]), Chooses(p, a, alt'[p], active'[p], reg'[p], open'[p]),
         Types', Cross', [Channels!Next]_Phase
  PROVE  Proceeds
<1>1. LocalInv'
  BY Own
<1>2. QED BY <1>1 DEF Proceeds, CrossInv, Cross

\* A process that was made ready begins to choose.
LEMMA LoadReady ==
  ASSUME Synchronous, ChannelInv, UrgencyInv', NEW p \in Procs, p = Top.proc, Top.pc = "load", state[p] = "ready",
         NEW f, Goto(f), f.pc = "disable", f.proc = p, f.prev = NoProc, f.partner = NoProc,
         f.i = alt[p].index, f.k = alt[p].count,
         UNCHANGED <<state, freed, alt, active, chan, ichan, connected, got, sent, timerQ>>
  PROVE  Proceeds
<1>1. Becomes(p, f) /\ Inner'
  BY GotoBecomes DEF InnerOK, Idling
<1>2. Nested'
  BY <1>1, KeepUnused DEF Nested
<1>3. /\ Local(p, Top, state[p], alt[p], active[p])
      /\ mode[p] = ModeOf(Top, state[p]) /\ reg[p] = RegOf(p, Top, state[p], active[p])
      /\ wake[p] = WakeOf(Top)
      /\ Types /\ Shaped /\ Cross
  BY Here
<1>4. ModeOf(Top, "ready") = "ready" /\ RegOf(p, Top, "ready", active[p]) = active[p] /\ WakeOf(Top) = NoProc
  BY DEF ModeOf, RegOf, WakeOf
<1>5. /\ active[p] \subseteq Branches(p) /\ alt[p].guards = p /\ Alone(p, active[p])
      /\ alt[p].count = NrGuards[p] - 1 /\ alt[p].index \in Branches(p)
      /\ \A i \in active[p] : Guards[p][i].type # "skip"
  BY <1>3, <1>4 DEF Local
<1>6. ToVisit(f.i, f.k, p) = Branches(p) /\ NrGuards[p] \in Nat \ {0}
  BY <1>5, Loops
<1>7. RegOf(p, f, "ready", active[p]) = active[p] /\ ModeOf(f, "ready") = "choosing"
      /\ WakeOf(f) = NoProc /\ OwesOf(f) = NoProc
  BY <1>5, <1>6 DEF RegOf, ModeOf, WakeOf, OwesOf
<1>8. Rest(p) /\ mode'[p] = "choosing" /\ reg'[p] = active[p] /\ wake'[p] = NoProc /\ owes'[p] = NoProc
  BY <1>1, <1>7, Own
<1>9. mode[p] = "ready" /\ reg[p] = active[p] /\ wake[p] = NoProc
  BY <1>3, <1>4
<1>10. Cross'
  <2>1. reg[p] \subseteq reg'[p] /\ reg'[p] \ reg[p] = {}
    BY <1>8, <1>9
  <2>2. QED BY <1>3, <1>8, <1>9, <2>1, ChooseStep
<1>11. Local(p, f, state'[p], alt'[p], active'[p])
  <2>1. StateAt(f, "ready") /\ LoopAt(p, f)
    <3>1. f.k \in -1 .. NrGuards[p] - 1
      BY <1>5, <1>6
    <3>2. QED BY <1>5, <3>1 DEF StateAt, LoopAt
  <2>2. QED BY <1>5, <1>7, <2>1 DEF Local
<1>12. Chooses(p, f, alt'[p], active'[p], reg'[p], open'[p])
  <2>1. active[p] \cap open[p] # {}
    BY <1>3, <1>9 DEF Cross, ReadyInv
  <2>2. open'[p] = open[p]
    BY OpenSame
  <2>3. QED BY <1>5, <1>8, <2>1, <2>2 DEF Chooses
<1>13. Types'
  BY <1>3 DEF Types
<1>14. QED BY <1>1, <1>2, <1>10, <1>11, <1>12, <1>13, PhaseSame, Concludes

LEMMA LoadProceeds ==
  ASSUME Synchronous, ChannelInv, UrgencyInv', Load
  PROVE  Proceeds
<1> DEFINE p == Top.proc
           g == [Top EXCEPT !.flag = FALSE]
<1>1. /\ FrameOK(Top) /\ IsFrame(Top) /\ Top.prev = NoProc /\ Top.pc = "load" /\ Top.partner = NoProc
      /\ p \in Records
  <2>1. At("load")
    BY DEF Load
  <2>2. FrameOK(Top) /\ IsFrame(Top) /\ Top.pc = "load" /\ Top.prev = NoProc /\ Len(stack) \in Frames /\ Top = stack[Len(stack)]
    BY <2>1, Stacked, AtFacts DEF ChannelInv, UrgencyInv, ReturnPcs
  <2>3. Top.partner = NoProc
    BY <2>2 DEF ChannelInv, Nested, Inner
  <2>4. QED BY <2>2, <2>3 DEF FrameOK, SchedulePcs
<1>2. UNCHANGED <<state, freed, alt, active, chan, ichan, connected, got, sent, timerQ>>
  BY DEF Load, procVars, altVars, ioVars, timeVars
<1>3. /\ g.proc = p /\ g.prev = NoProc /\ g.partner = NoProc /\ g.flag = FALSE /\ IsFrame(g)
  BY <1>1 DEF IsFrame
<1> HIDE DEF g
<1>4. CASE p = Idle
  <2> DEFINE f == [g EXCEPT !.pc = "idle"]
  <2>1. Goto(f) /\ f.proc = p /\ InnerOK(f)
    BY <1>3, <1>4 DEF Load, g, IsFrame, InnerOK, Idling
  <2> HIDE DEF f
  <2>2. view' = view /\ Inner'
    BY <1>4, <2>1, GotoAside, RecordAssumption
  <2>3. QED BY <1>2, <2>2, Elsewhere
<1>5. CASE p # Idle
  <2>1. p \in Procs /\ Local(p, Top, state[p], alt[p], active[p])
    BY <1>1, <1>5, Here DEF Records
  <2>2. state[p] \in {"unstarted", "initial", "quiescent", "waiting", "ready"}
    BY <1>1, <2>1 DEF Local, StateAt
  <2>3. CASE state[p] = "ready"
    <3> DEFINE f == [g EXCEPT !.pc = "disable", !.i = alt[p].index, !.k = alt[p].count]
    <3>1. /\ f.pc = "disable" /\ f.proc = p /\ f.prev = NoProc /\ f.partner = NoProc
          /\ f.i = alt[p].index /\ f.k = alt[p].count
      BY <1>3 DEF IsFrame
    <3>2. Goto(f)
      BY <1>5, <2>3 DEF Load, g
    <3> HIDE DEF f
    <3>3. QED BY <1>1, <1>2, <2>1, <2>3, <3>1, <3>2, LoadReady
  <2>4. CASE state[p] # "ready"
    <3> DEFINE pc == IF state[p] = "initial" THEN "rtc" ELSE IF state[p] = "quiescent" THEN "begin" ELSE "finish"
               f == [g EXCEPT !.pc = pc]
    <3>1. f.pc = pc /\ f.proc = p /\ f.prev = NoProc /\ f.partner = NoProc /\ f.flag = FALSE /\ InnerOK(f)
      BY <1>3 DEF IsFrame, InnerOK
    <3>2. Goto(f)
      BY <1>5, <2>4 DEF Load, g
    <3> HIDE DEF f
    <3>3. /\ StateAt(f, state[p]) /\ LoopAt(p, f)
          /\ Chooses(p, f, alt[p], active[p], reg[p], open[p])
      BY <2>2, <2>4, <3>1 DEF StateAt, LoopAt, Chooses
    <3>4. /\ ModeOf(f, state[p]) = ModeOf(Top, state[p])
          /\ RegOf(p, f, state[p], active[p]) = RegOf(p, Top, state[p], active[p])
          /\ WakeOf(f) = WakeOf(Top) /\ OwesOf(f) = OwesOf(Top)
      BY <1>1, <2>2, <3>1 DEF ModeOf, RegOf, WakeOf, OwesOf
    <3>5. QED BY <1>2, <2>1, <3>1, <3>2, <3>3, <3>4, GoOn
  <2>5. QED BY <2>3, <2>4
<1>6. QED BY <1>4, <1>5

\* A process that waits is left without an activation.
LEMMA FinishProceeds ==
  ASSUME Synchronous, ChannelInv, UrgencyInv', Finish
  PROVE  Proceeds
<1> DEFINE p == Top.proc
           f == [Top EXCEPT !.pc = "select", !.proc = IF state[p] = "waiting" THEN NoProc ELSE p]
<1>1. /\ Top.pc = "finish" /\ p \in Procs /\ IsFrame(Top) /\ InnerOK(Top) /\ Top.prev = NoProc /\ Top.partner = NoProc
  BY AtProc DEF Finish, SchedulePcs, InnerOK, Idling
<1>2. state[p] \in {"unstarted", "quiescent", "waiting", "ready"}
  <2>1. Local(p, Top, state[p], alt[p], active[p])
    BY <1>1, Here
  <2>2. QED BY <1>1, <2>1 DEF Local, StateAt
<1>3. /\ UNCHANGED <<state, freed, alt, active, chan, ichan, connected, got, sent, timerQ>>
      /\ Goto(f)
  BY <1>2 DEF Finish, altVars, ioVars, timeVars
<1>4. f.pc = "select" /\ f.prev = NoProc /\ f.partner = NoProc /\ InnerOK(f)
      /\ f.proc = IF state[p] = "waiting" THEN NoProc ELSE p
  BY <1>1 DEF IsFrame, InnerOK
<1> HIDE DEF f
<1>5. NoProc \notin Procs
  BY RecordAssumption DEF Records
<1>6. CASE state[p] = "waiting"
  <2>1. UrgencyInv /\ Inner /\ ViewOK /\ ViewOK'
    BY Views, ViewsNext DEF ChannelInv, Nested
  <2>2. view' = [q \in Procs |-> IF q = f.proc THEN f ELSE IF q = Top.proc THEN Off ELSE view[q]]
    BY <1>3, <2>1, GotoView
  <2>3. Becomes(p, Off)
    BY <1>4, <1>5, <1>6, <2>2 DEF Becomes
  <2>4. Inner'
    BY <1>3, <1>4, <1>6, <2>1, GotoInner
  <2>5. Nested'
    BY <1>3, <2>4, KeepUnused DEF Nested
  <2>6. Off.pc = "off"
    BY DEF Off, Frame
  <2>7. /\ StateAt(Off, state[p]) /\ LoopAt(p, Off)
        /\ Chooses(p, Off, alt[p], active[p], reg[p], open[p])
    BY <1>6, <2>6 DEF StateAt, LoopAt, Chooses
  <2>8. /\ ModeOf(Off, state[p]) = ModeOf(Top, state[p])
        /\ RegOf(p, Off, state[p], active[p]) = RegOf(p, Top, state[p], active[p])
        /\ WakeOf(Off) = WakeOf(Top) /\ OwesOf(Off) = OwesOf(Top)
    BY <1>1, <1>6, <2>6 DEF ModeOf, RegOf, WakeOf, OwesOf
  <2>9. /\ mode[p] = ModeOf(Top, state[p]) /\ reg[p] = RegOf(p, Top, state[p], active[p])
        /\ wake[p] = WakeOf(Top) /\ owes[p] = OwesOf(Top)
    BY <1>1, Here
  <2>10. QED BY <1>1, <1>3, <2>3, <2>5, <2>7, <2>8, <2>9, MoveOn
<1>7. CASE state[p] # "waiting"
  <2>1. /\ StateAt(f, state[p]) /\ LoopAt(p, f)
        /\ Chooses(p, f, alt[p], active[p], reg[p], open[p])
    BY <1>2, <1>4, <1>7 DEF StateAt, LoopAt, Chooses
  <2>2. /\ ModeOf(f, state[p]) = ModeOf(Top, state[p])
        /\ RegOf(p, f, state[p], active[p]) = RegOf(p, Top, state[p], active[p])
        /\ WakeOf(f) = WakeOf(Top) /\ OwesOf(f) = OwesOf(Top)
    BY <1>1, <1>2, <1>4 DEF ModeOf, RegOf, WakeOf, OwesOf
  <2>3. f.proc = p
    BY <1>4, <1>7
  <2> HIDE DEF p
  <2>4. QED BY <1>1, <1>3, <1>4, <2>1, <2>2, <2>3, GoOn DEF p
<1>8. QED BY <1>6, <1>7

LEMMA PartnerProceeds ==
  ASSUME Synchronous, ChannelInv, UrgencyInv', NoPartner \/ PartnerReturn
  PROVE  Proceeds
<1> DEFINE p == Top.proc
           f == AfterPartner(Top)
<1>1. Top.pc \in {"partner", "partnerRet"} /\ p \in Procs /\ IsFrame(Top) /\ (Top.pc = "partner" => Top.partner = NoProc)
  BY AtProc DEF NoPartner, PartnerReturn, SchedulePcs
<1>2. /\ UNCHANGED <<state, freed, alt, active, chan, ichan, connected, got, sent, timerQ>>
      /\ Goto(f)
  BY DEF NoPartner, PartnerReturn, procVars, altVars, ioVars, timeVars
<1>3. /\ f.pc = (IF Top.flag THEN "rtc" ELSE "finish") /\ f.flag = Top.flag /\ f.proc = p
      /\ f.prev = NoProc /\ f.partner = NoProc /\ InnerOK(f)
  BY <1>1 DEF AfterPartner, IsFrame, InnerOK
<1> HIDE DEF f
<1>4. StateAt(Top, state[p])
  <2>1. Local(p, Top, state[p], alt[p], active[p])
    BY <1>1, Here
  <2>2. QED BY <2>1 DEF Local
<1>5. /\ StateAt(f, state[p]) /\ LoopAt(p, f)
      /\ Chooses(p, f, alt[p], active[p], reg[p], open[p])
  BY <1>1, <1>3, <1>4 DEF StateAt, LoopAt, Chooses
<1>6. /\ ModeOf(f, state[p]) = ModeOf(Top, state[p])
      /\ RegOf(p, f, state[p], active[p]) = RegOf(p, Top, state[p], active[p])
      /\ WakeOf(f) = WakeOf(Top) /\ OwesOf(f) = OwesOf(Top)
  BY <1>1, <1>3, <1>4 DEF ModeOf, RegOf, WakeOf, OwesOf, StateAt
<1>7. QED BY <1>1, <1>2, <1>3, <1>5, <1>6, GoOn

-----------------------------------------------------------------------------
\* enable_alt().

\* Its loop.
LEMMA Looping ==
  ASSUME Synchronous, ChannelInv, At("enable"), NEW p, p = Top.proc
  PROVE  /\ p \in Procs /\ IsFrame(Top) /\ InnerOK(Top) /\ Top.prev = NoProc /\ current = p
         /\ Top.pc = "enable" /\ ~Top.flag /\ state[p] = "enabling"
         /\ Owner(p) = p /\ Size(p) = NrGuards[p] /\ NrGuards[p] \in Nat \ {0}
         /\ GuardOf(p, Top.i) = Guards[p][Top.i]
         /\ (IsActive(p, Top.i) <=> Top.i \in active[p])
         /\ Top.i \in Branches(p) /\ Top.k \in 0 .. NrGuards[p] /\ active[p] \subseteq Branches(p)
         /\ Alone(p, active[p])
         /\ (\A j \in active[p] \cap Visited(Top.i, Top.k, p) : Guards[p][j].type # "skip")
         /\ mode[p] = "enabling" /\ reg[p] = active[p] \cap Visited(Top.i, Top.k, p)
         /\ wake[p] = Top.partner /\ owes[p] = NoProc
         /\ Types /\ Shaped /\ Cross
         /\ (Top.k < NrGuards[p] => Top.k \in Branches(p))
<1>1. p \in Procs /\ IsFrame(Top) /\ InnerOK(Top) /\ Top.prev = NoProc /\ current = p /\ Top.pc = "enable"
  BY AtProc DEF SchedulePcs
<1>2. /\ Local(p, Top, state[p], alt[p], active[p])
      /\ mode[p] = ModeOf(Top, state[p]) /\ reg[p] = RegOf(p, Top, state[p], active[p])
      /\ wake[p] = WakeOf(Top) /\ owes[p] = OwesOf(Top)
      /\ Types /\ Shaped /\ Cross
  BY <1>1, Here
<1>3. state[p] = "enabling" /\ ~Top.flag /\ Top.i \in Branches(p) /\ Top.k \in 0 .. NrGuards[p]
      /\ active[p] \subseteq Branches(p)
  BY <1>1, <1>2 DEF Local, StateAt, LoopAt
<1>4. /\ ModeOf(Top, state[p]) = "enabling"
      /\ RegOf(p, Top, state[p], active[p]) = active[p] \cap Visited(Top.i, Top.k, p)
      /\ WakeOf(Top) = Top.partner /\ OwesOf(Top) = NoProc
  BY <1>1, <1>3 DEF ModeOf, RegOf, WakeOf, OwesOf
<1>5. alt[p].guards = p /\ Alone(p, active[p])
      /\ \A j \in active[p] \cap Visited(Top.i, Top.k, p) : Guards[p][j].type # "skip"
  BY <1>2, <1>4 DEF Local
<1>6. NrGuards[p] \in Nat \ {0}
  BY <1>1, <1>3, Loops
<1>7. Owner(p) = p /\ Size(p) = NrGuards[p] /\ GuardOf(p, Top.i) = Guards[p][Top.i]
      /\ (IsActive(p, Top.i) <=> Top.i \in active[p])
  BY <1>1, <1>5, RecordAssumption DEF Owner, Size, GuardOf, IsActive, Records
<1>8. Top.k < NrGuards[p] => Top.k \in Branches(p)
  BY <1>3, <1>6 DEF Branches
<1>9. QED BY <1>1, <1>2, <1>3, <1>4, <1>5, <1>6, <1>7, <1>8

\* Its step to the next guard, when activation g differs in its partner only.
SameLoop(g) ==
  /\ IsFrame(g) /\ g.pc = Top.pc /\ g.proc = Top.proc /\ g.prev = Top.prev /\ g.flag = Top.flag
  /\ g.i = Top.i /\ g.k = Top.k

LEMMA Onwards ==
  ASSUME Synchronous, ChannelInv, At("enable"), NEW p, p = Top.proc, Top.k < NrGuards[p],
         NEW g, SameLoop(g), NEW f, f = NextGuard(g)
  PROVE  /\ f.pc = "enable" /\ f.proc = p /\ f.prev = NoProc /\ ~f.flag /\ InnerOK(f)
         /\ \A on : RegOf(p, f, "enabling", on) = on \cap (Visited(Top.i, Top.k, p) \cup {Top.i})
         /\ StateAt(f, "enabling") /\ LoopAt(p, f) /\ ModeOf(f, "enabling") = "enabling"
         /\ WakeOf(f) = g.partner /\ OwesOf(f) = NoProc
         /\ \A al, on, r, o : Chooses(p, f, al, on, r, o)
<1>1. /\ p \in Procs /\ Top.prev = NoProc /\ Top.pc = "enable" /\ ~Top.flag
      /\ Size(p) = NrGuards[p] /\ NrGuards[p] \in Nat \ {0} /\ Top.i \in Branches(p) /\ Top.k \in Branches(p)
  BY Looping
<1>2. /\ g.pc = "enable" /\ g.proc = p /\ g.prev = NoProc /\ ~g.flag
      /\ g.i = Top.i /\ g.k = Top.k /\ IsFrame(g)
  BY <1>1 DEF SameLoop
<1>3. /\ f.pc = "enable" /\ f.proc = p /\ f.prev = NoProc /\ ~f.flag /\ f.partner = g.partner
      /\ f.i = plus1_mod(Top.i, NrGuards[p]) /\ f.k = Top.k + 1
  BY <1>1, <1>2 DEF NextGuard, IsFrame
<1>4. /\ f.i \in Branches(p)
      /\ Visited(f.i, f.k, p) = Visited(Top.i, Top.k, p) \cup {Top.i}
  BY <1>1, <1>3, Loops
<1>5. f.k \in 0 .. NrGuards[p]
  BY <1>1, <1>3 DEF Branches
<1>6. \A on : RegOf(p, f, "enabling", on) = on \cap (Visited(Top.i, Top.k, p) \cup {Top.i})
  BY <1>3, <1>4 DEF RegOf
<1>7. QED BY <1>1, <1>3, <1>4, <1>5, <1>6 DEF InnerOK, Idling, StateAt, LoopAt, ModeOf, WakeOf, OwesOf, Chooses

LEMMA EnableBegins ==
  ASSUME Synchronous, ChannelInv, UrgencyInv', EnableBegin
  PROVE  Proceeds
<1> DEFINE p == Top.proc
           f == [Top EXCEPT !.pc = "enable", !.partner = NoProc, !.k = 0,
                            !.i = IF Owner(p) \in AltPri THEN 0 ELSE plus1_mod(alt[p].index, Size(p))]
<1>1. p \in Procs /\ IsFrame(Top) /\ Top.prev = NoProc /\ Top.pc = "begin"
  BY AtProc DEF SchedulePcs, EnableBegin
<1>2. /\ Local(p, Top, state[p], alt[p], active[p])
      /\ mode[p] = ModeOf(Top, state[p]) /\ Types /\ Shaped /\ Cross
  BY <1>1, Here
<1>3. state[p] = "quiescent" /\ ~Top.flag /\ active[p] \subseteq Branches(p) /\ alt[p].guards \in {NoProc, p}
  BY <1>1, <1>2 DEF Local, StateAt
<1>4. ModeOf(Top, "quiescent") = "outside"
  BY <1>1 DEF ModeOf
<1>5. CASE Size(p) = 0
  BY <1>5, Dies DEF EnableBegin
<1>6. CASE Size(p) # 0 /\ ActiveOutput(p) /\ Cardinality(ActiveGuards(p)) > 1
  BY <1>6, Dies DEF EnableBegin
<1>7. CASE Size(p) # 0 /\ ~(ActiveOutput(p) /\ Cardinality(ActiveGuards(p)) > 1)
  <2>1. /\ state' = [state EXCEPT ![p] = "enabling"] /\ Goto(f)
        /\ UNCHANGED <<freed, alt, active, chan, ichan, connected, got, sent, timerQ>>
    BY <1>7 DEF EnableBegin, altVars, ioVars, timeVars
  <2>2. alt[p].guards = p /\ Size(p) = NrGuards[p] /\ Owner(p) = p
    BY <1>3, <1>7 DEF Size, Owner
  <2>3. NrGuards[p] \in Nat \ {0} /\ Branches(p) = 0 .. NrGuards[p] - 1
    <3>1. NrGuards[p] \in 0 .. 255 /\ NrGuards[p] # 0
      BY <1>1, <1>7, <2>2, ApplicationAssumption
    <3>2. QED BY <3>1 DEF Branches
  <2>4. f.i \in Branches(p)
    <3>1. f.i = IF p \in AltPri THEN 0 ELSE plus1_mod(alt[p].index, NrGuards[p])
      BY <1>1, <2>2 DEF IsFrame
    <3>2. 0 \in Branches(p)
      BY <2>3
    <3>3. plus1_mod(alt[p].index, NrGuards[p]) \in Branches(p)
      <4>1. alt[p].index \in Int
        BY <1>1, <1>2 DEF Types, Records
      <4>2. \A a \in Int, n \in Nat \ {0} : (a + 1) % n \in 0 .. n - 1
        OBVIOUS
      <4>3. QED BY <2>3, <4>1, <4>2 DEF plus1_mod
    <3>4. QED BY <3>1, <3>2, <3>3
  <2>5. /\ f.pc = "enable" /\ f.proc = p /\ f.prev = NoProc /\ f.flag = Top.flag /\ f.partner = NoProc /\ f.k = 0
        /\ InnerOK(f)
    BY <1>1 DEF IsFrame, InnerOK, Idling
  <2> HIDE DEF f
  <2>6. Becomes(p, f) /\ Inner'
    BY <1>1, <2>1, <2>5, GotoBecomes
  <2>7. Nested'
    BY <2>1, <2>6, KeepUnused DEF Nested
  <2>8. state'[p] = "enabling" /\ \A q \in Procs : q # p => state'[q] = state[q] /\ active'[q] = active[q] /\ alt'[q] = alt[q]
    <3>1. state \in [Records -> {state[q] : q \in Records}]
      BY DEF ChannelInv, UrgencyInv, NoneEnds
    <3>2. QED BY <1>1, <2>1, <3>1 DEF Records
  <2>9. RegOf(p, f, "enabling", active[p]) = {} /\ ModeOf(f, "enabling") = "enabling"
        /\ WakeOf(f) = NoProc /\ OwesOf(f) = NoProc
    <3>1. Visited(f.i, 0, p) = {}
      BY <1>1, <2>4, Loops
    <3>2. QED BY <2>5, <3>1 DEF RegOf, ModeOf, WakeOf, OwesOf
  <2>10. Rest(p) /\ mode'[p] = "enabling" /\ reg'[p] = {} /\ wake'[p] = NoProc /\ owes'[p] = NoProc
    BY <1>1, <2>1, <2>6, <2>8, <2>9, Own
  <2>11. Cross'
    BY <1>1, <1>2, <1>3, <1>4, <2>1, <2>10, BeginStep
  <2>12. Alone(p, active[p])
    <3> SUFFICES ASSUME NEW i \in active[p], Guards[p][i].type = "chanout", NEW j \in active[p], i # j
                 PROVE  FALSE
      BY DEF Alone
    <3>1. ActiveGuards(p) = active[p]
      BY <1>3, <2>2 DEF ActiveGuards, IsActive
    <3>2. ActiveOutput(p)
      BY <2>2, <3>1 DEF ActiveOutput, GuardOf
    <3>3. IsFiniteSet(active[p])
      <4>1. IsFiniteSet(0 .. NrGuards[p] - 1)
        BY <2>3, FS_Interval
      <4>2. QED BY <1>3, <2>3, <4>1, FS_Subset
    <3>4. Cardinality({i, j}) = 2 /\ Cardinality({i, j}) <= Cardinality(active[p]) /\ Cardinality(active[p]) \in Nat
      <4>1. {i, j} \subseteq active[p]
        OBVIOUS
      <4>2. Cardinality({i}) = 1 /\ IsFiniteSet({i})
        BY FS_Singleton
      <4>3. {i, j} = {i} \cup {j} /\ j \notin {i}
        OBVIOUS
      <4>4. Cardinality({i, j}) = 2
        BY <4>2, <4>3, FS_AddElement
      <4>5. QED BY <3>3, <4>1, <4>4, FS_Subset, FS_CardinalityType
    <3>5. QED BY <1>7, <3>1, <3>2, <3>4
  <2>13. Local(p, f, state'[p], alt'[p], active'[p])
    <3>1. StateAt(f, "enabling") /\ LoopAt(p, f)
      BY <1>3, <2>3, <2>4, <2>5 DEF StateAt, LoopAt
    <3>2. QED BY <1>3, <2>1, <2>2, <2>8, <2>9, <2>12, <3>1 DEF Local
  <2>14. Chooses(p, f, alt'[p], active'[p], reg'[p], open'[p])
    BY <2>5 DEF Chooses
  <2>15. Types'
    BY <1>2, <2>1 DEF Types
  <2>16. QED BY <1>1, <2>1, <2>6, <2>7, <2>8, <2>11, <2>13, <2>14, <2>15, PhaseSame, Concludes
<1>8. QED BY <1>5, <1>6, <1>7

\* A guard that is not active.
LEMMA EnablePasses ==
  ASSUME Synchronous, ChannelInv, UrgencyInv', EnableInactive
  PROVE  Proceeds
<1> DEFINE p == Top.proc
           f == NextGuard(Top)
<1>1. At("enable") /\ Goto(f) /\ SameLoop(Top)
      /\ UNCHANGED <<state, freed, alt, active, chan, ichan, connected, got, sent, timerQ>>
  BY Looping DEF EnableInactive, procVars, altVars, ioVars, timeVars, SameLoop
<1>2. p \in Procs /\ state[p] = "enabling" /\ Top.k < NrGuards[p] /\ Top.i \notin active[p]
      /\ mode[p] = "enabling" /\ reg[p] = active[p] \cap Visited(Top.i, Top.k, p)
      /\ wake[p] = Top.partner /\ owes[p] = NoProc
  BY <1>1, Looping DEF EnableInactive
<1>3. /\ f.proc = p /\ InnerOK(f)
      /\ RegOf(p, f, "enabling", active[p]) = active[p] \cap (Visited(Top.i, Top.k, p) \cup {Top.i})
      /\ StateAt(f, "enabling") /\ LoopAt(p, f) /\ ModeOf(f, "enabling") = "enabling"
      /\ WakeOf(f) = Top.partner /\ OwesOf(f) = NoProc
      /\ Chooses(p, f, alt[p], active[p], reg[p], open[p])
  BY <1>1, <1>2, Onwards
<1>4. active[p] \cap (Visited(Top.i, Top.k, p) \cup {Top.i}) = reg[p]
  BY <1>2
<1> HIDE DEF f
<1>5. Becomes(p, f) /\ Inner'
  BY <1>1, <1>2, <1>3, GotoBecomes
<1>6. Nested'
  BY <1>1, <1>5, KeepUnused DEF Nested
<1>7. QED BY <1>1, <1>2, <1>3, <1>4, <1>5, <1>6, MoveOn

\* A guard that is ready at once: nobody is to be woken, since an active output
\* would be alone.
LEMMA EnableReady ==
  ASSUME Synchronous, ChannelInv, UrgencyInv', At("enable"), NEW p, p = Top.proc, Top.k < NrGuards[p],
         Top.i \in active[p], Top.i \in open[p], Guards[p][Top.i].type # "chanout",
         NEW g, g = Top \/ \E w : g = [Top EXCEPT !.partner = w], NEW f, f = Ready(g), Goto(f),
         UNCHANGED <<state, freed, alt, active, chan, ichan, connected, got, sent, timerQ>>
  PROVE  Proceeds
<1>1. p \in Procs /\ IsFrame(Top) /\ Top.prev = NoProc /\ Top.pc = "enable" /\ ~Top.flag
      /\ Top.i \in Branches(p) /\ Top.k \in Branches(p) /\ state[p] = "enabling" /\ Alone(p, active[p])
      /\ mode[p] = "enabling" /\ reg[p] = active[p] \cap Visited(Top.i, Top.k, p)
      /\ wake[p] = Top.partner /\ owes[p] = NoProc /\ Cross
  BY Looping
<1>2. g.proc = p /\ g.prev = NoProc /\ g.i = Top.i /\ g.k = Top.k /\ IsFrame(g)
  BY <1>1 DEF IsFrame
<1>3. f.pc = "enabled" /\ f.flag /\ f.proc = p /\ f.prev = NoProc /\ f.i = Top.i /\ f.k = Top.k
  BY <1>2 DEF Ready, IsFrame
<1>4. wake[p] = NoProc
  <2>1. \A j, c : j \in reg[p] => ~Writes(p, j, c)
    BY <1>1 DEF Alone, Writes
  <2>2. QED BY <1>1, <2>1 DEF Cross, WakesInv
<1>5. Becomes(p, f) /\ Inner'
  BY <1>1, <1>3, GotoBecomes DEF InnerOK, Idling
<1>6. Nested'
  BY <1>5, KeepUnused DEF Nested
<1>7. /\ ModeOf(f, "enabling") = "enabling"
      /\ RegOf(p, f, "enabling", active[p]) = active[p] \cap Visited(Top.i, Top.k, p)
      /\ WakeOf(f) = NoProc /\ OwesOf(f) = NoProc
  BY <1>3 DEF ModeOf, RegOf, WakeOf, OwesOf
<1>8. StateAt(f, "enabling") /\ LoopAt(p, f) /\ Chooses(p, f, alt[p], active[p], reg[p], open[p])
  BY <1>1, <1>3 DEF StateAt, LoopAt, Chooses
<1>9. QED BY <1>1, <1>4, <1>5, <1>6, <1>7, <1>8, MoveOn

LEMMA EnableSkips ==
  ASSUME Synchronous, ChannelInv, UrgencyInv', EnableSkip
  PROVE  Proceeds
<1> DEFINE p == Top.proc
<1>1. /\ At("enable") /\ Goto(Ready(Top)) /\ Top.k < NrGuards[p] /\ Top.i \in active[p] /\ Guards[p][Top.i].type = "skip"
      /\ p \in Procs /\ Top.i \in Branches(p)
  BY Looping DEF EnableSkip, Enabling
<1>2. UNCHANGED <<state, freed, alt, active, chan, ichan, connected, got, sent, timerQ>>
  BY DEF EnableSkip, procVars, altVars, ioVars, timeVars
<1>3. Top.i \in open[p]
  BY <1>1, OpenIs
<1>4. QED BY <1>1, <1>2, <1>3, EnableReady

\* The loop ends.
LEMMA EnableEnds ==
  ASSUME Synchronous, ChannelInv, UrgencyInv', EnableEnd
  PROVE  Proceeds
<1> DEFINE p == Top.proc
           f == [Top EXCEPT !.pc = "enabled", !.k = @ - 1, !.i = minus1_mod(@, Size(p))]
<1>1. /\ At("enable") /\ Goto(f) /\ Top.k = Size(p)
      /\ UNCHANGED <<state, freed, alt, active, chan, ichan, connected, got, sent, timerQ>>
  BY DEF EnableEnd, procVars, altVars, ioVars, timeVars
<1>2. p \in Procs /\ IsFrame(Top) /\ Top.prev = NoProc /\ ~Top.flag
      /\ Top.i \in Branches(p) /\ Top.k = NrGuards[p] /\ NrGuards[p] \in Nat \ {0} /\ Size(p) = NrGuards[p]
      /\ state[p] = "enabling" /\ active[p] \subseteq Branches(p)
      /\ mode[p] = "enabling" /\ reg[p] = active[p] \cap Visited(Top.i, Top.k, p)
      /\ wake[p] = Top.partner /\ owes[p] = NoProc
  BY <1>1, Looping
<1>3. f.pc = "enabled" /\ ~f.flag /\ f.proc = p /\ f.prev = NoProc /\ f.partner = Top.partner
      /\ f.i = minus1_mod(Top.i, NrGuards[p]) /\ f.k = NrGuards[p] - 1
  BY <1>2 DEF IsFrame
<1>4. f.k \in Branches(p) /\ 0 \in Branches(p)
  BY <1>2, <1>3 DEF Branches
<1>5. f.i \in Branches(p) /\ Visited(Top.i, NrGuards[p], p) = Branches(p)
  BY <1>2, <1>3, <1>4, Loops
<1> HIDE DEF f
<1>6. Becomes(p, f) /\ Inner'
  BY <1>1, <1>2, <1>3, GotoBecomes DEF InnerOK, Idling
<1>7. Nested'
  BY <1>1, <1>6, KeepUnused DEF Nested
<1>8. reg[p] = active[p]
  BY <1>2, <1>5
<1>9. /\ ModeOf(f, "enabling") = "enabling" /\ RegOf(p, f, "enabling", active[p]) = active[p]
      /\ WakeOf(f) = Top.partner /\ OwesOf(f) = NoProc
  BY <1>3 DEF ModeOf, RegOf, WakeOf, OwesOf
<1>10. StateAt(f, "enabling") /\ LoopAt(p, f) /\ Chooses(p, f, alt[p], active[p], reg[p], open[p])
  BY <1>3, <1>4, <1>5 DEF StateAt, LoopAt, Chooses
<1>11. QED BY <1>1, <1>2, <1>6, <1>7, <1>8, <1>9, <1>10, MoveOn

\* A channel guard: the phase of the other channels does not change.
LEMMA PhaseOf ==
  ASSUME Synchronous, Types, NEW c \in Chans
  PROVE  /\ Phase[c] = IF got[c] = sent[c] THEN (IF chan[c].waiting = Sender(c) THEN "offered" ELSE "idle")
                       ELSE IF got[c] = plus1_mod(sent[c], MsgMod) THEN "taken" ELSE Phase[c]
<1>1. MsgMod \in Nat \ {0, 1} /\ sent[c] \in 0 .. MsgMod - 1
  BY ApplicationAssumption DEF Types
<1>2. (plus1_mod(sent[c], MsgMod) - sent[c]) % MsgMod = 1 /\ (sent[c] - sent[c]) % MsgMod = 0
  BY <1>1, PlusOne
<1>3. CASE got[c] = sent[c]
  BY <1>2, <1>3 DEF Phase
<1>4. CASE got[c] = plus1_mod(sent[c], MsgMod) /\ got[c] # sent[c]
  BY <1>2, <1>4 DEF Phase
<1>5. QED BY <1>3, <1>4

\* One channel changes.
LEMMA PhaseStep ==
  ASSUME Synchronous, NEW c \in Chans,
         \A d \in Chans : d # c => chan'[d] = chan[d] /\ got'[d] = got[d] /\ sent'[d] = sent[d]
  PROVE  /\ Phase' = [Phase EXCEPT ![c] = Phase'[c]]
         /\ \/ Phase'[c] = Phase[c]
            \/ Phase[c] = "idle" /\ Phase'[c] = "offered"
            \/ Phase[c] = "offered" /\ Phase'[c] = "taken"
            \/ Phase[c] = "taken" /\ Phase'[c] = "idle"
            => [Channels!Next]_Phase
<1>1. \A d \in Chans : d # c => Phase'[d] = Phase[d]
  BY DEF Phase, Sender
<1>2. Phase' = [d \in Chans |-> Phase'[d]] /\ Phase = [d \in Chans |-> Phase[d]]
  BY DEF Phase
<1>3. Phase' = [Phase EXCEPT ![c] = Phase'[c]]
  BY <1>1, <1>2
<1>4. Phase'[c] = Phase[c] => Phase' = Phase
  BY <1>2, <1>3
<1>5. QED BY <1>3, <1>4 DEF Channels!Next, Channels!Offer, Channels!Take, Channels!Release

LEMMA EnableInputs ==
  ASSUME Synchronous, ChannelInv, UrgencyInv', EnableChanIn
  PROVE  Proceeds
<1> DEFINE p == Top.proc
           i == Top.i
           c == GuardOf(p, i).ch
           w == chan[c].waiting
<1>1. At("enable") /\ Enabling("chanin")
  BY DEF EnableChanIn, Enabling
<1>2. /\ p \in Procs /\ current = p /\ Top.k < NrGuards[p] /\ i \in active[p] /\ i \in Branches(p)
      /\ c = Guards[p][i].ch /\ Guards[p][i].type = "chanin" /\ active[p] \subseteq Branches(p)
      /\ state[p] = "enabling" /\ Alone(p, active[p]) /\ alt[p].guards = p
      /\ mode[p] = "enabling" /\ reg[p] = active[p] \cap Visited(i, Top.k, p)
      /\ (\A j \in reg[p] : Guards[p][j].type # "skip")
      /\ wake[p] = Top.partner /\ owes[p] = NoProc /\ Types /\ Shaped /\ Cross
  BY <1>1, Looping DEF Enabling, Owner
<1> HIDE DEF c
<1>3. Reads(p, i, c) /\ c \in Chans /\ Sender(c) # p /\ Sender(c) \in Procs /\ Sender(c) # NoProc
  <2>1. Reads(p, i, c)
    BY <1>2 DEF Reads
  <2>2. QED BY <1>2, <2>1, PointToPoint
<1>4. CASE w \in {NoProc, p}
  <2> DEFINE f == NextGuard(Top)
  <2>1. /\ chan' = [chan EXCEPT ![c].waiting = p] /\ Goto(f)
        /\ UNCHANGED <<state, freed, alt, active, ichan, connected, got, sent, timerQ>>
    BY <1>2, <1>4 DEF EnableChanIn, procVars, altVars, timeVars, c
  <2>2. /\ f.proc = p /\ InnerOK(f)
        /\ RegOf(p, f, "enabling", active[p]) = active[p] \cap (Visited(i, Top.k, p) \cup {i})
        /\ StateAt(f, "enabling") /\ LoopAt(p, f) /\ ModeOf(f, "enabling") = "enabling"
        /\ WakeOf(f) = Top.partner /\ OwesOf(f) = NoProc
        /\ Chooses(p, f, alt'[p], active'[p], reg'[p], open'[p])
    <3>1. SameLoop(Top)
      BY <1>1, Looping DEF SameLoop
    <3>2. QED BY <1>1, <1>2, <3>1, Onwards
  <2> HIDE DEF f
  <2>3. Becomes(p, f) /\ Inner'
    BY <1>2, <2>1, <2>2, GotoBecomes
  <2>4. Nested'
    BY <2>1, <2>3, KeepUnused DEF Nested
  <2>5. active[p] \cap (Visited(i, Top.k, p) \cup {i}) = reg[p] \cup {i}
    BY <1>2
  <2>6. Rest(p) /\ mode'[p] = "enabling" /\ reg'[p] = reg[p] \cup {i} /\ wake'[p] = wake[p] /\ owes'[p] = owes[p]
    BY <1>2, <2>1, <2>2, <2>3, <2>5, Own
  <2>7. chan'[c].waiting = p /\ chan'[c].src = chan[c].src /\ \A d \in Chans : d # c => chan'[d] = chan[d]
    BY <1>2, <1>3, <2>1 DEF Types
  <2>8. Cross'
    BY <1>2, <1>3, <1>4, <2>1, <2>6, <2>7, ListenStep
  <2>9. Local(p, f, state'[p], alt'[p], active'[p])
    <3>1. \A j \in reg[p] \cup {i} : Guards[p][j].type # "skip"
      BY <1>2
    <3>2. QED BY <1>2, <2>1, <2>2, <2>5, <3>1 DEF Local
  <2>10. Types'
    <3> DEFINE R == [waiting : Procs \cup {NoProc}, src : Procs \cup {NoProc}]
    <3>1. chan' \in [Chans -> R]
      <4>1. chan \in [Chans -> R] /\ chan[c] \in R
        BY <1>2, <1>3 DEF Types
      <4>2. [chan[c] EXCEPT !.waiting = p] \in R
        BY <1>2, <4>1
      <4>3. chan' = [chan EXCEPT ![c] = [chan[c] EXCEPT !.waiting = p]]
        BY <2>1
      <4> HIDE DEF R
      <4>4. QED BY <4>1, <4>2, <4>3
    <3>2. QED BY <1>2, <2>1, <3>1 DEF Types
  <2>11. [Channels!Next]_Phase
    <3>1. Phase'[c] = Phase[c]
      BY <1>3, <1>4, <2>1, <2>7 DEF Phase, Sender
    <3>2. QED BY <1>3, <2>1, <2>7, <3>1, PhaseStep
  <2>12. QED BY <1>2, <2>1, <2>2, <2>3, <2>4, <2>8, <2>9, <2>10, <2>11, Concludes
<1>5. CASE w \notin {NoProc, p}
  <2> DEFINE f == Ready([Top EXCEPT !.partner = w])
  <2>1. /\ Goto(f)
        /\ UNCHANGED <<state, freed, alt, active, chan, ichan, connected, got, sent, timerQ>>
    BY <1>2, <1>5 DEF EnableChanIn, procVars, altVars, timeVars, c
  <2>2. w = Sender(c)
    <3>1. w \in Procs
      BY <1>2, <1>3, <1>5 DEF Types
    <3>2. PICK j \in reg[w] : Reads(w, j, c) \/ Writes(w, j, c)
      BY <1>2, <1>3, <1>5 DEF Cross, WaitingInv
    <3>3. ~Reads(w, j, c)
      BY <1>2, <1>3, <1>5, <3>1, PointToPoint
    <3>4. QED BY <3>1, <3>2, <3>3, PointToPoint
  <2>3. i \in open[p]
    BY <1>2, <1>3, <2>2, OpenIs
  <2>4. QED BY <1>1, <1>2, <2>1, <2>3, EnableReady
<1>6. QED BY <1>4, <1>5

\* An offer.
LEMMA EnableOffers ==
  ASSUME Synchronous, ChannelInv, UrgencyInv', EnableChanOut
  PROVE  Proceeds
<1> DEFINE p == Top.proc
           i == Top.i
           c == GuardOf(p, i).ch
           w == chan[c].waiting
           g == [Top EXCEPT !.partner = w]
           f == NextGuard(g)
<1>1. At("enable") /\ Enabling("chanout")
  BY DEF EnableChanOut, Enabling
<1>2. /\ p \in Procs /\ current = p /\ Top.k < NrGuards[p] /\ i \in active[p] /\ i \in Branches(p)
      /\ c = Guards[p][i].ch /\ Guards[p][i].type = "chanout" /\ active[p] \subseteq Branches(p)
      /\ state[p] = "enabling" /\ Alone(p, active[p]) /\ alt[p].guards = p /\ Owner(p) = p
      /\ mode[p] = "enabling" /\ reg[p] = active[p] \cap Visited(i, Top.k, p)
      /\ (Top.k \in Branches(p)) /\ wake[p] = Top.partner /\ owes[p] = NoProc /\ Types /\ Shaped /\ Cross
  BY <1>1, Looping DEF Enabling, Owner
<1>3. active[p] = {i} /\ i \notin reg[p]
  <2>1. active[p] = {i}
    BY <1>2 DEF Alone
  <2>2. i \notin Visited(i, Top.k, p)
    BY <1>2, Loops
  <2>3. QED BY <1>2, <2>1, <2>2
<1> HIDE DEF c
<1>4. Writes(p, i, c) /\ c \in Chans /\ Sender(c) = p
  <2>1. Writes(p, i, c)
    BY <1>2 DEF Writes
  <2>2. QED BY <1>2, <2>1, PointToPoint
<1>5. /\ chan' = [chan EXCEPT ![c] = [waiting |-> p, src |-> p]] /\ Goto(f)
      /\ UNCHANGED <<state, freed, alt, active, ichan, connected, got, sent, timerQ>>
  BY <1>2 DEF EnableChanOut, procVars, altVars, timeVars, c
<1>6. /\ f.proc = p /\ InnerOK(f)
      /\ RegOf(p, f, "enabling", active[p]) = active[p] \cap (Visited(i, Top.k, p) \cup {i})
      /\ StateAt(f, "enabling") /\ LoopAt(p, f) /\ ModeOf(f, "enabling") = "enabling"
      /\ WakeOf(f) = w /\ OwesOf(f) = NoProc
      /\ Chooses(p, f, alt'[p], active'[p], reg'[p], open'[p])
  <2>1. SameLoop(g) /\ g.partner = w
    <3>1. IsFrame(Top)
      BY <1>1, Looping
    <3>2. QED BY <3>1 DEF SameLoop, IsFrame
  <2> HIDE DEF w, g
  <2>2. QED BY <1>1, <1>2, <2>1, Onwards
<1> HIDE DEF g, f
<1>7. Becomes(p, f) /\ Inner'
  BY <1>2, <1>5, <1>6, GotoBecomes
<1>8. Nested'
  BY <1>5, <1>7, KeepUnused DEF Nested
<1>9. active[p] \cap (Visited(i, Top.k, p) \cup {i}) = {i}
  BY <1>3
<1>10. Rest(p) /\ mode'[p] = "enabling" /\ reg'[p] = {i} /\ wake'[p] = w /\ owes'[p] = owes[p]
  BY <1>2, <1>5, <1>6, <1>7, <1>9, Own
<1>11. chan'[c].waiting = p /\ chan'[c].src = p /\ \A d \in Chans : d # c => chan'[d] = chan[d]
  BY <1>2, <1>4, <1>5 DEF Types
<1>12. Cross' /\ got[c] = sent[c] /\ w # p
  <2>1. active'[p] = active[p] /\ alt'[p].index = alt[p].index /\ got' = got /\ sent' = sent
    BY <1>5
  <2>2. i \in active[p] /\ Rest(p) /\ p \in Procs
    BY <1>2, <1>10
  <2>3. /\ mode[p] = "enabling" /\ mode'[p] = "enabling"
        /\ reg'[p] = {i} /\ wake'[p] = chan[c].waiting /\ owes'[p] = owes[p]
        /\ Types /\ Shaped /\ Cross
    BY <1>2, <1>10
  <2>4. chan'[c].waiting = p /\ chan'[c].src = p /\ (\A d \in Chans : d # c => chan'[d] = chan[d]) /\ i \notin reg[p]
        /\ Writes(p, i, c)
    BY <1>3, <1>4, <1>11
  <2>5. QED BY <2>1, <2>2, <2>3, <2>4, OfferStep
<1>13. Local(p, f, state'[p], alt'[p], active'[p])
  BY <1>2, <1>5, <1>6, <1>9 DEF Local
<1>14. Types'
  BY <1>2, <1>5 DEF Types
<1>15. [Channels!Next]_Phase
  <2>1. Phase[c] = "idle"
    BY <1>2, <1>4, <1>12, PhaseOf
  <2>2. Phase'[c] = "offered"
    <3>1. (got'[c] - sent'[c]) % MsgMod = 0
      <4>1. MsgMod \in Nat \ {0, 1} /\ sent[c] \in 0 .. MsgMod - 1
        BY <1>2, <1>4, ApplicationAssumption DEF Types
      <4>2. (sent[c] - sent[c]) % MsgMod = 0
        BY <4>1, PlusOne
      <4>3. QED BY <1>5, <1>12, <4>2
    <3>2. QED BY <1>4, <1>11, <3>1 DEF Phase, Sender
  <2>3. QED BY <1>4, <1>5, <1>11, <2>1, <2>2, PhaseStep
<1>16. QED BY <1>2, <1>5, <1>6, <1>7, <1>8, <1>12, <1>13, <1>14, <1>15, Concludes

\* A branch is ready: its process begins to choose.
LEMMA DoneReady ==
  ASSUME Synchronous, ChannelInv, UrgencyInv', NEW p \in Procs, p = Top.proc, Top.pc = "enabled", Top.flag,
         NEW f, Goto(f), f.pc = "disable", f.proc = p, f.prev = NoProc, f.partner = NoProc, f.i = Top.i, f.k = Top.k,
         state' = [state EXCEPT ![p] = "ready"], alt' = [alt EXCEPT ![p].index = Top.i, ![p].count = Top.k],
         UNCHANGED <<freed, active, chan, ichan, connected, got, sent, timerQ>>
  PROVE  Proceeds
<1>1. Becomes(p, f) /\ Inner'
  BY GotoBecomes DEF InnerOK, Idling
<1>2. Nested'
  BY <1>1, KeepUnused DEF Nested
<1>3. /\ Local(p, Top, state[p], alt[p], active[p])
      /\ Chooses(p, Top, alt[p], active[p], reg[p], open[p])
      /\ mode[p] = ModeOf(Top, state[p]) /\ reg[p] = RegOf(p, Top, state[p], active[p])
      /\ wake[p] = WakeOf(Top)
      /\ Types /\ Shaped /\ Cross
  BY Here
<1>4. state[p] = "enabling" /\ Top.i \in Branches(p) /\ Top.k \in Branches(p) /\ active[p] \subseteq Branches(p)
  BY <1>3 DEF Local, StateAt, LoopAt
<1>5. /\ ModeOf(Top, "enabling") = "enabling" /\ WakeOf(Top) = NoProc
      /\ RegOf(p, Top, "enabling", active[p]) = active[p] \cap Visited(Top.i, Top.k, p)
  BY DEF ModeOf, RegOf, WakeOf
<1>6. /\ alt[p].guards = p /\ Alone(p, active[p])
      /\ \A j \in reg[p] : Guards[p][j].type # "skip"
  BY <1>3, <1>4, <1>5 DEF Local
<1>7. Top.i \in active[p] \cap open[p] /\ Guards[p][Top.i].type # "chanout"
  BY <1>3 DEF Chooses
<1>8. /\ ToVisit(Top.i, Top.k, p) = Visited(Top.i, Top.k, p) \cup {Top.i}
      /\ Top.k \in 0 .. NrGuards[p] - 1 /\ NrGuards[p] \in Nat \ {0}
  <2>1. ToVisit(Top.i, Top.k, p) = Visited(Top.i, Top.k, p) \cup {Top.i} /\ NrGuards[p] \in Nat \ {0}
    BY <1>4, Loops
  <2>2. Top.k \in 0 .. NrGuards[p] - 1
    BY <1>4 DEF Branches
  <2>3. QED BY <2>1, <2>2
<1>9. /\ ModeOf(f, "ready") = "choosing" /\ WakeOf(f) = NoProc /\ OwesOf(f) = NoProc
      /\ RegOf(p, f, "ready", active[p]) = reg[p] \cup {Top.i}
  BY <1>3, <1>4, <1>5, <1>7, <1>8 DEF RegOf, ModeOf, WakeOf, OwesOf
<1>10. /\ \A q \in Procs : q # p => state'[q] = state[q] /\ active'[q] = active[q] /\ alt'[q] = alt[q]
       /\ state'[p] = "ready" /\ alt'[p].guards = p /\ active'[p] = active[p]
  <2>1. state \in [Records -> {state[q] : q \in Records}] /\ \A q \in Procs : q \in Records
    BY DEF ChannelInv, UrgencyInv, NoneEnds, Records
  <2>2. QED BY <1>3, <1>6, <2>1 DEF Types
<1>11. Rest(p) /\ mode'[p] = "choosing" /\ reg'[p] = reg[p] \cup {Top.i} /\ wake'[p] = NoProc /\ owes'[p] = NoProc
  <2>1. /\ Rest(p)
        /\ mode'[p] = ModeOf(f, state'[p]) /\ reg'[p] = RegOf(p, f, state'[p], active'[p])
        /\ wake'[p] = WakeOf(f) /\ owes'[p] = OwesOf(f)
    BY <1>1, <1>10, Own
  <2>2. QED BY <1>9, <1>10, <2>1
<1>12. mode[p] = "enabling" /\ wake[p] = NoProc
  BY <1>3, <1>4, <1>5
<1>13. Cross'
  <2>1. \A c : ~Writes(p, Top.i, c)
    BY <1>7 DEF Writes
  <2>2. \A c : Reads(p, Top.i, c) => chan[c].waiting # NoProc
    <3> SUFFICES ASSUME NEW c, Reads(p, Top.i, c)
                 PROVE  chan[c].waiting # NoProc
      OBVIOUS
    <3>1. chan[c].waiting = Sender(c) /\ c \in Chans
      BY <1>4, <1>7, OpenIs, PointToPoint
    <3>2. QED BY <3>1, PointToPoint
  <2>3. \A j \in reg'[p] \ reg[p] : j = Top.i
    BY <1>11
  <2>4. reg[p] \subseteq reg'[p]
    BY <1>11
  <2>5. \A j \in reg'[p] \ reg[p] : /\ \A c : ~Writes(p, j, c)
                                   /\ \A c : Reads(p, j, c) => chan[c].waiting # NoProc
    BY <2>1, <2>2, <2>3
  <2>6. QED BY <1>3, <1>10, <1>11, <1>12, <2>4, <2>5, ChooseStep
<1>14. Local(p, f, state'[p], alt'[p], active'[p])
  <2>1. StateAt(f, "ready") /\ LoopAt(p, f)
    <3>1. f.k \in -1 .. NrGuards[p] - 1
      BY <1>8
    <3>2. QED BY <1>4, <3>1 DEF StateAt, LoopAt
  <2>2. QED BY <1>4, <1>6, <1>9, <1>10, <2>1 DEF Local
<1>15. Chooses(p, f, alt'[p], active'[p], reg'[p], open'[p])
  <2>1. open'[p] = open[p]
    BY OpenSame
  <2>2. reg'[p] \cap open'[p] # {}
    BY <1>7, <1>11, <2>1
  <2>3. \A j \in reg'[p] : Guards[p][j].type = "skip" => j = f.i
    BY <1>6, <1>11
  <2>4. QED BY <2>2, <2>3 DEF Chooses
<1>16. Types'
  <2>1. Top.i \in Int /\ Top.k \in Int
    BY <1>4, <1>8 DEF Branches
  <2> DEFINE R == [guards : Procs \cup {NoProc}, index : Int, count : Int]
  <2>2. alt \in [Records -> R] /\ alt[p] \in R
    BY <1>3 DEF Types, Records
  <2>3. [alt[p] EXCEPT !.index = Top.i, !.count = Top.k] \in R
    BY <2>1, <2>2
  <2>4. alt' = [alt EXCEPT ![p] = [alt[p] EXCEPT !.index = Top.i, !.count = Top.k]]
    BY <2>2 DEF Records
  <2>5. alt' \in [Records -> R]
    <3> HIDE DEF R
    <3>1. QED BY <2>2, <2>3, <2>4
  <2>6. QED BY <1>3, <2>5 DEF Types
<1>17. QED BY <1>1, <1>2, <1>10, <1>13, <1>14, <1>15, <1>16, PhaseSame, Concludes

\* No branch is ready: its process waits.
LEMMA DoneWaiting ==
  ASSUME Synchronous, ChannelInv, UrgencyInv', NEW p \in Procs, p = Top.proc, Top.pc = "enabled", ~Top.flag,
         NEW f, Goto(f), f.pc = "partner", f.proc = p, f.prev = NoProc, f.partner = Top.partner, ~f.flag,
         state' = [state EXCEPT ![p] = "waiting"], alt' = [alt EXCEPT ![p].index = Top.i, ![p].count = Top.k],
         UNCHANGED <<freed, active, chan, ichan, connected, got, sent, timerQ>>
  PROVE  Proceeds
<1>1. Becomes(p, f) /\ Inner'
  BY GotoBecomes DEF InnerOK, Idling
<1>2. Nested'
  BY <1>1, KeepUnused DEF Nested
<1>3. /\ Local(p, Top, state[p], alt[p], active[p])
      /\ mode[p] = ModeOf(Top, state[p]) /\ reg[p] = RegOf(p, Top, state[p], active[p])
      /\ wake[p] = WakeOf(Top) /\ owes[p] = OwesOf(Top)
      /\ Types /\ Shaped /\ Cross
  BY Here
<1>4. state[p] = "enabling" /\ Top.i \in Branches(p) /\ Top.k = NrGuards[p] - 1 /\ active[p] \subseteq Branches(p)
  BY <1>3 DEF Local, StateAt, LoopAt
<1>5. /\ ModeOf(Top, "enabling") = "enabling" /\ WakeOf(Top) = Top.partner /\ OwesOf(Top) = NoProc
      /\ RegOf(p, Top, "enabling", active[p]) = active[p]
  BY DEF ModeOf, RegOf, WakeOf, OwesOf
<1>6. /\ alt[p].guards = p /\ Alone(p, active[p])
      /\ \A j \in active[p] : Guards[p][j].type # "skip"
  BY <1>3, <1>4, <1>5 DEF Local
<1>7. /\ ModeOf(f, "waiting") = "waiting" /\ WakeOf(f) = Top.partner /\ OwesOf(f) = NoProc
      /\ RegOf(p, f, "waiting", active[p]) = active[p]
  BY DEF RegOf, ModeOf, WakeOf, OwesOf
<1>8. /\ \A q \in Procs : q # p => state'[q] = state[q] /\ active'[q] = active[q] /\ alt'[q] = alt[q]
      /\ state'[p] = "waiting" /\ active'[p] = active[p]
      /\ alt'[p].guards = p /\ alt'[p].index = Top.i /\ alt'[p].count = Top.k
  <2>1. state \in [Records -> {state[q] : q \in Records}] /\ \A q \in Procs : q \in Records
    BY DEF ChannelInv, UrgencyInv, NoneEnds, Records
  <2>2. QED BY <1>3, <1>6, <2>1 DEF Types
<1>9. Rest(p) /\ mode'[p] = "waiting" /\ reg'[p] = active[p] /\ wake'[p] = Top.partner /\ owes'[p] = NoProc
  <2>1. /\ Rest(p)
        /\ mode'[p] = ModeOf(f, state'[p]) /\ reg'[p] = RegOf(p, f, state'[p], active'[p])
        /\ wake'[p] = WakeOf(f) /\ owes'[p] = OwesOf(f)
    BY <1>1, <1>8, Own
  <2>2. QED BY <1>7, <1>8, <2>1
<1>10. mode[p] = "enabling" /\ wake[p] = Top.partner /\ reg[p] = active[p] /\ owes[p] = NoProc
  BY <1>3, <1>4, <1>5
<1>11. Cross'
  BY <1>3, <1>8, <1>9, <1>10, WaitStep
<1>12. Local(p, f, state'[p], alt'[p], active'[p])
  <2>1. StateAt(f, "waiting") /\ LoopAt(p, f)
    BY DEF StateAt, LoopAt
  <2>2. QED BY <1>4, <1>6, <1>7, <1>8, <2>1 DEF Local
<1>13. Chooses(p, f, alt'[p], active'[p], reg'[p], open'[p])
  BY DEF Chooses
<1>14. Types'
  <2>1. Top.i \in Int /\ Top.k \in Int
    <3>1. NrGuards[p] \in 0 .. 255
      BY ApplicationAssumption
    <3>2. QED BY <1>4, <3>1 DEF Branches
  <2> DEFINE R == [guards : Procs \cup {NoProc}, index : Int, count : Int]
  <2>2. alt \in [Records -> R] /\ alt[p] \in R
    BY <1>3 DEF Types, Records
  <2>3. [alt[p] EXCEPT !.index = Top.i, !.count = Top.k] \in R
    BY <2>1, <2>2
  <2>4. alt' = [alt EXCEPT ![p] = [alt[p] EXCEPT !.index = Top.i, !.count = Top.k]]
    BY <2>2 DEF Records
  <2>5. alt' \in [Records -> R]
    <3> HIDE DEF R
    <3>1. QED BY <2>2, <2>3, <2>4
  <2>6. QED BY <1>3, <2>5 DEF Types
<1>15. QED BY <1>1, <1>2, <1>8, <1>11, <1>12, <1>13, <1>14, PhaseSame, Concludes

LEMMA EnableDoes ==
  ASSUME Synchronous, ChannelInv, UrgencyInv', EnableDone
  PROVE  Proceeds
<1> DEFINE p == Top.proc
<1>1. p \in Procs /\ IsFrame(Top) /\ Top.prev = NoProc /\ Top.pc = "enabled"
  BY AtProc DEF SchedulePcs, EnableDone
<1>2. state[p] = "enabling"
  <2>1. Local(p, Top, state[p], alt[p], active[p])
    BY <1>1, Here
  <2>2. QED BY <1>1, <2>1 DEF Local, StateAt
<1>3. UNCHANGED <<freed, active, chan, ichan, connected, got, sent, timerQ>>
  BY DEF EnableDone, ioVars, timeVars
<1>4. CASE Top.flag
  <2> DEFINE f == [Top EXCEPT !.pc = "disable", !.partner = NoProc]
  <2>1. /\ f.pc = "disable" /\ f.proc = p /\ f.prev = NoProc /\ f.partner = NoProc /\ f.i = Top.i /\ f.k = Top.k
    BY <1>1 DEF IsFrame
  <2>2. /\ Goto(f) /\ state' = [state EXCEPT ![p] = "ready"]
        /\ alt' = [alt EXCEPT ![p].index = Top.i, ![p].count = Top.k]
    BY <1>2, <1>4 DEF EnableDone
  <2> HIDE DEF f
  <2>3. QED BY <1>1, <1>3, <1>4, <2>1, <2>2, DoneReady
<1>5. CASE ~Top.flag
  <2> DEFINE f == [Top EXCEPT !.pc = "partner", !.flag = FALSE]
  <2>1. /\ f.pc = "partner" /\ f.proc = p /\ f.prev = NoProc /\ f.partner = Top.partner /\ ~f.flag
    BY <1>1 DEF IsFrame
  <2>2. /\ Goto(f) /\ state' = [state EXCEPT ![p] = "waiting"]
        /\ alt' = [alt EXCEPT ![p].index = Top.i, ![p].count = Top.k]
    BY <1>2, <1>5 DEF EnableDone
  <2> HIDE DEF f
  <2>3. QED BY <1>1, <1>3, <1>5, <2>1, <2>2, DoneWaiting
<1>6. QED BY <1>4, <1>5

\* There are no timeouts and interrupts to enable.
LEMMA EnableProceeds ==
  ASSUME Synchronous, ChannelInv, UrgencyInv', EnableStep
  PROVE  Proceeds
<1>1. ~EnableTimeout /\ ~EnableIntr
  <2> SUFFICES ASSUME NEW type \in {"timeout", "interrupt"}, Enabling(type)
               PROVE  FALSE
    BY DEF EnableTimeout, EnableIntr
  <2>1. At("enable")
    BY DEF Enabling
  <2>2. /\ Top.proc \in Procs /\ Top.i \in Branches(Top.proc) /\ Guards[Top.proc][Top.i].type = type
    BY <2>1, Looping DEF Enabling
  <2>3. QED BY <2>2 DEF Synchronous
<1>2. ~EnableInsert
  <2> SUFFICES ASSUME At("insert")
               PROVE  FALSE
    BY DEF EnableInsert
  <2>1. Top.pc = "insert" /\ Top.proc \in Procs
    BY AtProc DEF SchedulePcs
  <2>2. Local(Top.proc, Top, state[Top.proc], alt[Top.proc], active[Top.proc])
    BY <2>1, Here
  <2>3. QED BY <2>1, <2>2 DEF Local, StateAt
<1>3. QED BY <1>1, <1>2, EnableBegins, EnablePasses, EnableInputs, EnableOffers, EnableSkips, EnableEnds, EnableDoes
      DEF EnableStep

-----------------------------------------------------------------------------
\* disable_alt().

\* Its loop.
LEMMA Turning ==
  ASSUME Synchronous, ChannelInv, At("disable"), NEW p, p = Top.proc
  PROVE  /\ p \in Procs /\ IsFrame(Top) /\ InnerOK(Top) /\ Top.prev = NoProc /\ current = p
         /\ Top.pc = "disable" /\ state[p] = "ready"
         /\ alt[p].guards = p /\ Size(p) = NrGuards[p] /\ NrGuards[p] \in Nat \ {0}
         /\ (\A j : GuardOf(p, j) = Guards[p][j] /\ (IsActive(p, j) <=> j \in active[p]))
         /\ Top.i \in Branches(p) /\ Top.k \in -1 .. NrGuards[p] - 1 /\ active[p] \subseteq Branches(p)
         /\ Alone(p, active[p])
         /\ mode[p] = "choosing" /\ reg[p] = active[p] \cap ToVisit(Top.i, Top.k, p)
         /\ wake[p] = NoProc /\ owes[p] = NoProc
         /\ Types /\ Shaped /\ Cross
         /\ Chooses(p, Top, alt[p], active[p], reg[p], open[p])
         /\ (Top.k >= 0 => Top.k \in Branches(p) /\ ToVisit(Top.i, Top.k, p) = Visited(Top.i, Top.k, p) \cup {Top.i})
<1>1. p \in Procs /\ IsFrame(Top) /\ InnerOK(Top) /\ Top.prev = NoProc /\ current = p /\ Top.pc = "disable"
  BY AtProc DEF SchedulePcs
<1>2. /\ Local(p, Top, state[p], alt[p], active[p])
      /\ Chooses(p, Top, alt[p], active[p], reg[p], open[p])
      /\ mode[p] = ModeOf(Top, state[p]) /\ reg[p] = RegOf(p, Top, state[p], active[p])
      /\ wake[p] = WakeOf(Top) /\ owes[p] = OwesOf(Top)
      /\ Types /\ Shaped /\ Cross
  BY <1>1, Here
<1>3. state[p] = "ready" /\ Top.i \in Branches(p) /\ Top.k \in -1 .. NrGuards[p] - 1
      /\ active[p] \subseteq Branches(p)
  BY <1>1, <1>2 DEF Local, StateAt, LoopAt
<1>4. /\ ModeOf(Top, state[p]) = "choosing"
      /\ RegOf(p, Top, state[p], active[p]) = active[p] \cap ToVisit(Top.i, Top.k, p)
      /\ WakeOf(Top) = NoProc /\ OwesOf(Top) = NoProc
  BY <1>1, <1>3 DEF ModeOf, RegOf, WakeOf, OwesOf
<1>5. alt[p].guards = p /\ Alone(p, active[p])
  BY <1>2, <1>4 DEF Local
<1>6. NrGuards[p] \in Nat \ {0}
  BY <1>1, <1>3, Loops
<1>7. Size(p) = NrGuards[p] /\ \A j : GuardOf(p, j) = Guards[p][j] /\ (IsActive(p, j) <=> j \in active[p])
  BY <1>1, <1>5, RecordAssumption DEF Size, GuardOf, IsActive, Records
<1>8. Top.k >= 0 => Top.k \in Branches(p)
  BY <1>3, <1>6 DEF Branches
<1>9. Top.k >= 0 => ToVisit(Top.i, Top.k, p) = Visited(Top.i, Top.k, p) \cup {Top.i}
  BY <1>1, <1>3, <1>8, Loops
<1>10. QED BY <1>1, <1>2, <1>3, <1>4, <1>5, <1>6, <1>7, <1>8, <1>9

\* Its step to the guard before, when activation g differs in its partner only.
LEMMA Backwards ==
  ASSUME Synchronous, ChannelInv, At("disable"), NEW p, p = Top.proc, Top.k >= 0,
         NEW g, SameLoop(g), NEW f, f = PrevGuard(g)
  PROVE  /\ f.pc = "disable" /\ f.proc = p /\ f.prev = NoProc /\ f.partner = g.partner /\ InnerOK(f)
         /\ \A on : RegOf(p, f, "ready", on) = on \cap (ToVisit(Top.i, Top.k, p) \ {Top.i})
         /\ StateAt(f, "ready") /\ LoopAt(p, f) /\ ModeOf(f, "ready") = "choosing"
         /\ WakeOf(f) = NoProc /\ OwesOf(f) = NoProc
<1>1. /\ p \in Procs /\ IsFrame(g) /\ g.pc = "disable" /\ g.proc = p /\ g.prev = NoProc
      /\ g.i = Top.i /\ g.k = Top.k /\ Top.i \in Branches(p) /\ Top.k \in Branches(p)
      /\ Size(p) = NrGuards[p] /\ NrGuards[p] \in Nat \ {0}
  BY Turning DEF SameLoop
<1>2. /\ f.pc = "disable" /\ f.proc = p /\ f.prev = NoProc /\ f.partner = g.partner
      /\ f.i = minus1_mod(Top.i, NrGuards[p]) /\ f.k = Top.k - 1
  BY <1>1 DEF PrevGuard, IsFrame
<1>3. /\ f.i \in Branches(p)
      /\ ToVisit(f.i, f.k, p) = ToVisit(Top.i, Top.k, p) \ {Top.i}
  BY <1>1, <1>2, Loops
<1>4. f.k \in -1 .. NrGuards[p] - 1
  BY <1>1, <1>2 DEF Branches
<1>5. InnerOK(f)
  BY <1>2 DEF InnerOK, Idling
<1>6. StateAt(f, "ready") /\ LoopAt(p, f)
  BY <1>2, <1>3, <1>4 DEF StateAt, LoopAt
<1>7. QED BY <1>2, <1>3, <1>5, <1>6 DEF RegOf, ModeOf, WakeOf, OwesOf

LEMMA DisablePasses ==
  ASSUME Synchronous, ChannelInv, UrgencyInv', DisableInactive
  PROVE  Proceeds
<1> DEFINE p == Top.proc
           f == PrevGuard(Top)
<1>1. At("disable") /\ Goto(f) /\ SameLoop(Top) /\ Top.k >= 0
      /\ UNCHANGED <<state, freed, alt, active, chan, ichan, connected, got, sent, timerQ>>
  BY Turning DEF DisableInactive, procVars, altVars, ioVars, timeVars, SameLoop
<1>2. p \in Procs /\ state[p] = "ready" /\ Top.i \notin active[p] /\ Top.pc = "disable"
      /\ mode[p] = "choosing" /\ reg[p] = active[p] \cap ToVisit(Top.i, Top.k, p)
      /\ wake[p] = NoProc /\ owes[p] = NoProc
      /\ Chooses(p, Top, alt[p], active[p], reg[p], open[p])
  BY <1>1, Turning DEF DisableInactive
<1>3. /\ f.proc = p /\ InnerOK(f) /\ f.pc = "disable" /\ f.partner = Top.partner
      /\ RegOf(p, f, "ready", active[p]) = active[p] \cap (ToVisit(Top.i, Top.k, p) \ {Top.i})
      /\ StateAt(f, "ready") /\ LoopAt(p, f) /\ ModeOf(f, "ready") = "choosing"
      /\ WakeOf(f) = NoProc /\ OwesOf(f) = NoProc
  BY <1>1, <1>2, Backwards
<1>4. active[p] \cap (ToVisit(Top.i, Top.k, p) \ {Top.i}) = reg[p]
  BY <1>2
<1> HIDE DEF f
<1>5. Becomes(p, f) /\ Inner'
  BY <1>1, <1>2, <1>3, GotoBecomes
<1>6. Nested'
  BY <1>1, <1>5, KeepUnused DEF Nested
<1>7. Chooses(p, f, alt[p], active[p], reg[p], open[p])
  <2>1. \A j \in reg[p] : j # Top.i
    BY <1>2
  <2>2. QED BY <1>2, <1>3, <2>1 DEF Chooses
<1>8. QED BY <1>1, <1>2, <1>3, <1>4, <1>5, <1>6, <1>7, MoveOn

\* A guard that is disabled.
LEMMA Disables ==
  ASSUME Synchronous, ChannelInv, UrgencyInv', At("disable"), NEW p, p = Top.proc, Top.k >= 0,
         NEW g, SameLoop(g), NEW f, f = PrevGuard(g), Goto(f),
         UNCHANGED <<state, freed, active, ichan, connected, got, sent, timerQ>>,
         alt' \in {alt, [alt EXCEPT ![p].index = Top.i]},
         chan' \in [Chans -> [waiting : Procs \cup {NoProc}, src : Procs \cup {NoProc}]],
         \A c \in Chans : chan'[c].src = chan[c].src,
         \A c \in Chans : chan'[c].waiting =
           IF Reads(p, Top.i, c) /\ chan[c].waiting = p THEN NoProc ELSE chan[c].waiting,
         \A c : Writes(p, Top.i, c) => got[c] # sent[c],
         Chooses(p, f, alt'[p], active[p], reg[p] \ {Top.i}, open[p])
  PROVE  Proceeds
<1> DEFINE i == Top.i
<1>1. /\ p \in Procs /\ state[p] = "ready" /\ i \in Branches(p) /\ alt[p].guards = p /\ Alone(p, active[p])
      /\ active[p] \subseteq Branches(p)
      /\ mode[p] = "choosing" /\ reg[p] = active[p] \cap ToVisit(i, Top.k, p)
      /\ wake[p] = NoProc /\ owes[p] = NoProc /\ Types /\ Shaped /\ Cross
  BY Turning
<1>2. /\ f.proc = p /\ InnerOK(f) /\ f.pc = "disable" /\ f.partner = g.partner
      /\ RegOf(p, f, "ready", active[p]) = active[p] \cap (ToVisit(i, Top.k, p) \ {i})
      /\ StateAt(f, "ready") /\ LoopAt(p, f) /\ ModeOf(f, "ready") = "choosing"
      /\ WakeOf(f) = NoProc /\ OwesOf(f) = NoProc
  BY Backwards
<1>3. active[p] \cap (ToVisit(i, Top.k, p) \ {i}) = reg[p] \ {i}
  BY <1>1
<1>4. Becomes(p, f) /\ Inner'
  BY <1>1, <1>2, GotoBecomes
<1>5. Nested'
  BY <1>4, KeepUnused DEF Nested
<1>6. /\ \A q \in Procs : q # p => state'[q] = state[q] /\ active'[q] = active[q] /\ alt'[q] = alt[q]
      /\ state'[p] = "ready" /\ active'[p] = active[p] /\ alt'[p].guards = p
  <2>1. alt \in [Records -> {alt[q] : q \in Records}] /\ (\A q \in Procs : q \in Records)
        /\ alt[p] \in [guards : Procs \cup {NoProc}, index : Int, count : Int]
    BY <1>1 DEF Types, Records
  <2>2. QED BY <1>1, <2>1
<1>7. /\ Rest(p)
      /\ mode'[p] = ModeOf(f, state'[p]) /\ reg'[p] = RegOf(p, f, state'[p], active'[p])
      /\ wake'[p] = WakeOf(f) /\ owes'[p] = OwesOf(f)
  BY <1>1, <1>4, <1>6, Own
<1>8. mode'[p] = "choosing" /\ reg'[p] = reg[p] \ {i} /\ wake'[p] = wake[p] /\ owes'[p] = owes[p]
  BY <1>1, <1>2, <1>3, <1>6, <1>7
<1>9. Cross' /\ \A q \in Procs : open'[q] = open[q]
  <2>1. /\ \A c \in Chans : chan'[c].src = chan[c].src
        /\ \A c \in Chans : chan'[c].waiting =
             IF Reads(p, i, c) /\ chan[c].waiting = p THEN NoProc ELSE chan[c].waiting
        /\ \A c : Writes(p, i, c) => got[c] # sent[c]
    OBVIOUS
  <2>2. Types /\ Shaped /\ Cross /\ p \in Procs /\ mode[p] = "choosing"
    BY <1>1
  <2>3. /\ mode'[p] = "choosing" /\ active'[p] = active[p] /\ Rest(p)
        /\ reg'[p] = reg[p] \ {i} /\ wake'[p] = wake[p] /\ owes'[p] = owes[p]
    BY <1>6, <1>7, <1>8
  <2>4. got' = got /\ sent' = sent
    OBVIOUS
  <2> HIDE DEF i
  <2>5. QED BY <2>1, <2>2, <2>3, <2>4, RejectStep
<1>10. Local(p, f, state'[p], alt'[p], active'[p])
  BY <1>1, <1>2, <1>6 DEF Local
<1>11. Chooses(p, f, alt'[p], active'[p], reg'[p], open'[p])
  BY <1>1, <1>6, <1>8, <1>9
<1>12. Types'
  <2> DEFINE R == [guards : Procs \cup {NoProc}, index : Int, count : Int]
  <2>1. alt' \in [Records -> R]
    <3>1. alt \in [Records -> R] /\ alt[p] \in R /\ i \in Int
      BY <1>1 DEF Types, Records, Branches
    <3>2. [alt[p] EXCEPT !.index = i] \in R
      BY <3>1
    <3>3. alt' = alt \/ alt' = [alt EXCEPT ![p] = [alt[p] EXCEPT !.index = i]]
      BY <3>1
    <3> HIDE DEF R, i
    <3>4. QED BY <3>1, <3>2, <3>3
  <2>2. QED BY <1>1, <2>1 DEF Types
<1>13. [Channels!Next]_Phase
  <2>1. \A c \in Chans : Phase'[c] = Phase[c]
    <3> SUFFICES ASSUME NEW c \in Chans
                 PROVE  Phase'[c] = Phase[c]
      OBVIOUS
    <3>1. chan'[c].waiting = Sender(c) <=> chan[c].waiting = Sender(c)
      BY <1>1, PointToPoint
    <3>2. Sender(c)' = Sender(c)
      BY DEF Sender
    <3>3. QED BY <3>1, <3>2 DEF Phase
  <2>2. Phase' = Phase
    BY <2>1 DEF Phase
  <2>3. QED BY <2>2
<1>14. QED BY <1>1, <1>4, <1>5, <1>6, <1>9, <1>10, <1>11, <1>12, <1>13, Concludes

LEMMA DisableInputs ==
  ASSUME Synchronous, ChannelInv, UrgencyInv', DisableChanIn
  PROVE  Proceeds
<1> DEFINE p == Top.proc
           i == Top.i
           c == GuardOf(p, i).ch
           w == chan[c].waiting
           ready == w \notin {NoProc, current}
           g == [Top EXCEPT !.partner = IF ready THEN w ELSE @]
           f == PrevGuard(g)
<1>1. At("disable") /\ Disabling("chanin") /\ Top.k >= 0
  BY DEF DisableChanIn, Disabling
<1>2. /\ p \in Procs /\ current = p /\ i \in active[p] /\ i \in Branches(p) /\ IsFrame(Top)
      /\ c = Guards[p][i].ch /\ Guards[p][i].type = "chanin" /\ active[p] \subseteq Branches(p)
      /\ reg[p] = active[p] \cap ToVisit(i, Top.k, p)
      /\ Top.pc = "disable" /\ Types /\ Cross
      /\ Chooses(p, Top, alt[p], active[p], reg[p], open[p])
  BY <1>1, Turning DEF Disabling
<1> HIDE DEF c
<1>3. Reads(p, i, c) /\ c \in Chans /\ Sender(c) # p /\ Sender(c) \in Procs /\ Sender(c) # NoProc
  <2>1. Reads(p, i, c)
    BY <1>2 DEF Reads
  <2>2. QED BY <1>2, <2>1, PointToPoint
<1>4. /\ chan' = [chan EXCEPT ![c].waiting = IF ready THEN w ELSE NoProc]
      /\ alt' = IF ready THEN [alt EXCEPT ![p].index = i] ELSE alt
      /\ Goto(f) /\ UNCHANGED <<state, freed, active, ichan, connected, got, sent, timerQ>>
  BY DEF DisableChanIn, SelectIf, procVars, timeVars, c
<1>5. SameLoop(g) /\ g.partner = IF ready THEN w ELSE Top.partner
  BY <1>2 DEF SameLoop, IsFrame
<1> HIDE DEF g
<1>6. f.pc = "disable" /\ f.partner = g.partner
  BY <1>1, <1>5, Backwards
<1> HIDE DEF f
<1>7. /\ chan' \in [Chans -> [waiting : Procs \cup {NoProc}, src : Procs \cup {NoProc}]]
      /\ \A d \in Chans : chan'[d].src = chan[d].src
      /\ \A d \in Chans : chan'[d].waiting = IF Reads(p, i, d) /\ chan[d].waiting = p THEN NoProc ELSE chan[d].waiting
  <2> DEFINE R == [waiting : Procs \cup {NoProc}, src : Procs \cup {NoProc}]
  <2>1. chan \in [Chans -> R] /\ chan[c] \in R
    BY <1>2, <1>3 DEF Types
  <2>2. [chan[c] EXCEPT !.waiting = IF ready THEN w ELSE NoProc] \in R
    BY <2>1
  <2>3. chan' = [chan EXCEPT ![c] = [chan[c] EXCEPT !.waiting = IF ready THEN w ELSE NoProc]]
    BY <1>4
  <2>4. chan' \in [Chans -> R]
    <3> DEFINE v == [chan[c] EXCEPT !.waiting = IF ready THEN w ELSE NoProc]
    <3>1. v \in R /\ chan' = [chan EXCEPT ![c] = v]
      BY <2>2, <2>3
    <3> HIDE DEF R, v
    <3>2. QED BY <2>1, <3>1
  <2>5. \A d \in Chans : d # c => chan'[d] = chan[d] /\ ~Reads(p, i, d)
    <3>1. \A d : Reads(p, i, d) => d = c
      BY <1>2 DEF Reads
    <3>2. \A d \in Chans : d # c => chan'[d] = chan[d]
      BY <2>1, <2>3
    <3>3. QED BY <3>1, <3>2
  <2>6. chan'[c].src = chan[c].src /\ chan'[c].waiting = IF ready THEN w ELSE NoProc
    BY <1>3, <2>1, <2>3
  <2>7. chan'[c].waiting = IF Reads(p, i, c) /\ w = p THEN NoProc ELSE w
    BY <1>2, <1>3, <2>6
  <2>8. QED BY <2>4, <2>5, <2>6, <2>7
<1>8. ready => w = Sender(c)
  <2> SUFFICES ASSUME ready
               PROVE  w = Sender(c)
    OBVIOUS
  <2>1. w \in Procs /\ w # NoProc /\ w # p
    BY <1>2, <1>3 DEF Types
  <2>2. WaitingInv
    BY <1>2 DEF Cross
  <2>3. PICK j \in reg[w] : Reads(w, j, c) \/ Writes(w, j, c)
    BY <1>3, <2>1, <2>2 DEF WaitingInv
  <2>4. ~Reads(w, j, c)
    <3>1. p \in Procs /\ Reads(p, i, c)
      BY <1>2, <1>3
    <3>2. \A q \in Procs : \A k : Reads(q, k, c) => q = p
      BY <3>1, PointToPoint, Zenon
    <3>3. QED BY <2>1, <3>1, <3>2, Zenon
  <2>5. QED BY <2>1, <2>3, <2>4, PointToPoint
<1>9. i \in open[p] <=> ready
  <2>1. i \in open[p] <=> w = Sender(c)
    BY <1>2, <1>3, OpenIs
  <2>2. QED BY <1>2, <1>3, <1>8, <2>1
<1>10. Chooses(p, f, alt'[p], active[p], reg[p] \ {i}, open[p])
  <2>1. \A j \in reg[p] \ {i} : Guards[p][j].type # "skip"
    BY <1>2 DEF Chooses
  <2>2. CASE ready
    <3>1. alt'[p].index = i
      <4>1. alt \in [Records -> [guards : Procs \cup {NoProc}, index : Int, count : Int]] /\ p \in Records
        BY <1>2 DEF Types, Records
      <4>2. QED BY <1>4, <2>2, <4>1
    <3>2. Guards[p][i].type = "chanin" /\ Guards[p][i].ch = c
      BY <1>2
    <3>3. f.partner = Sender(c)
      BY <1>5, <1>6, <1>8, <2>2
    <3>4. i \in active[p] \cap open[p]
      BY <1>2, <1>9, <2>2
    <3>5. QED BY <1>6, <2>1, <3>1, <3>2, <3>3, <3>4 DEF Chooses
  <2>3. CASE ~ready
    <3>1. i \notin open[p] /\ f.partner = Top.partner /\ alt'[p] = alt[p]
      BY <1>4, <1>5, <1>6, <1>9, <2>3
    <3>2. reg[p] \cap open[p] # {} => (reg[p] \ {i}) \cap open[p] # {}
      BY <3>1
    <3>3. QED BY <1>2, <1>6, <2>1, <3>1, <3>2 DEF Chooses
  <2>4. QED BY <2>2, <2>3
<1>11. /\ \A d : Writes(p, i, d) => got[d] # sent[d]
       /\ alt' \in {alt, [alt EXCEPT ![p].index = i]}
  <2>1. \A d : Writes(p, i, d) => got[d] # sent[d]
    BY <1>2 DEF Writes
  <2>2. alt' \in {alt, [alt EXCEPT ![p].index = i]}
    BY <1>4
  <2>3. QED BY <2>1, <2>2
<1>12. f = PrevGuard(g)
  BY DEF f
<1>13. QED BY <1>1, <1>4, <1>5, <1>7, <1>10, <1>11, <1>12, Disables

\* An output and a SKIP are taken without a question: the output is alone, and
\* its process would not have been woken without a reader.
LEMMA DisableTakes ==
  ASSUME Synchronous, ChannelInv, UrgencyInv', DisableOutOrSkip
  PROVE  Proceeds
<1> DEFINE p == Top.proc
           i == Top.i
           f == PrevGuard(Top)
<1>1. At("disable") /\ Top.k >= 0 /\ (Disabling("chanout") \/ Disabling("skip"))
  BY DEF DisableOutOrSkip, Disabling
<1>2. /\ p \in Procs /\ current = p /\ i \in active[p] /\ i \in Branches(p) /\ IsFrame(Top)
      /\ Guards[p][i].type \in {"chanout", "skip"} /\ active[p] \subseteq Branches(p) /\ Alone(p, active[p])
      /\ reg[p] = active[p] \cap ToVisit(i, Top.k, p) /\ i \in ToVisit(i, Top.k, p)
      /\ Top.pc = "disable" /\ Types /\ Cross
      /\ Chooses(p, Top, alt[p], active[p], reg[p], open[p])
  BY <1>1, Turning DEF Disabling
<1>3. /\ alt' = [alt EXCEPT ![p].index = i]
      /\ Goto(f) /\ UNCHANGED <<state, freed, active, chan, ichan, connected, got, sent, timerQ>>
  BY DEF DisableOutOrSkip, SelectIf, procVars, timeVars, ioVars
<1>4. SameLoop(Top)
  BY <1>2 DEF SameLoop
<1>5. f.pc = "disable" /\ f.partner = Top.partner
  BY <1>1, <1>4, Backwards
<1> HIDE DEF f
<1>6. /\ chan' \in [Chans -> [waiting : Procs \cup {NoProc}, src : Procs \cup {NoProc}]]
      /\ \A d \in Chans : chan'[d].src = chan[d].src
      /\ \A d \in Chans : chan'[d].waiting = IF Reads(p, i, d) /\ chan[d].waiting = p THEN NoProc ELSE chan[d].waiting
  <2>1. \A d \in Chans : ~Reads(p, i, d)
    BY <1>2 DEF Reads
  <2>2. QED BY <1>2, <1>3, <2>1 DEF Types
<1>7. i \in open[p] /\ Top.partner = NoProc
  <2>1. CASE Guards[p][i].type = "skip"
    <3>1. i \in open[p]
      BY <1>2, <2>1, OpenIs
    <3>2. QED BY <1>2, <2>1, <3>1 DEF Chooses
  <2>2. CASE Guards[p][i].type = "chanout"
    <3>1. active[p] = {i} /\ reg[p] = {i}
      BY <1>2, <2>2 DEF Alone
    <3>2. QED BY <1>2, <2>2, <3>1 DEF Chooses
  <2>3. QED BY <1>2, <2>1, <2>2
<1>8. \A d : Writes(p, i, d) => got[d] # sent[d]
  BY <1>2, <1>7, OpenIs
<1>9. Chooses(p, f, alt'[p], active[p], reg[p] \ {i}, open[p])
  <2>1. alt'[p].index = i
    <3>1. alt \in [Records -> [guards : Procs \cup {NoProc}, index : Int, count : Int]] /\ p \in Records
      BY <1>2 DEF Types, Records
    <3>2. QED BY <1>3, <3>1
  <2>2. \A j \in reg[p] \ {i} : Guards[p][j].type # "skip"
    BY <1>2 DEF Chooses
  <2>3. QED BY <1>2, <1>5, <1>7, <2>1, <2>2 DEF Chooses
<1>10. f = PrevGuard(Top) /\ alt' \in {alt, [alt EXCEPT ![p].index = i]}
  BY <1>3 DEF f
<1>11. QED BY <1>1, <1>3, <1>4, <1>6, <1>8, <1>9, <1>10, Disables

\* Its end, for the branch that was selected.
WriterOf(p, i) == IF Guards[p][i].type = "chanin" THEN Sender(Guards[p][i].ch) ELSE NoProc

LEMMA Leaves ==
  ASSUME Synchronous, ChannelInv, UrgencyInv', Disabled, NEW p, p = Top.proc, NEW f, f = Leaving, Goto(f),
         state' = [state EXCEPT ![p] = "quiescent"],
         UNCHANGED <<freed, alt, active, ichan, connected, sent, timerQ>>
  PROVE  /\ p \in Procs /\ Types /\ Shaped /\ Cross /\ At("disable")
         /\ mode[p] = "choosing" /\ reg[p] = {} /\ alt[p].index \in active[p] \cap open[p]
         /\ active[p] \subseteq Branches(p) /\ alt[p].guards = p
         /\ Rest(p) /\ mode'[p] = "selected" /\ reg'[p] = {} /\ wake'[p] = NoProc
         /\ owes'[p] = WriterOf(p, alt[p].index)
         /\ (Types' /\ Cross' /\ [Channels!Next]_Phase => Proceeds)
<1>0. At("disable") /\ Top.k < 0
  BY DEF Disabled
<1>1. /\ p \in Procs /\ IsFrame(Top) /\ Top.prev = NoProc /\ Top.pc = "disable"
      /\ alt[p].guards = p /\ Alone(p, active[p]) /\ active[p] \subseteq Branches(p)
      /\ Top.i \in Branches(p) /\ Top.k \in -1 .. NrGuards[p] - 1 /\ NrGuards[p] \in Nat
      /\ mode[p] = "choosing" /\ reg[p] = active[p] \cap ToVisit(Top.i, Top.k, p)
      /\ Types /\ Shaped /\ Cross
      /\ Chooses(p, Top, alt[p], active[p], reg[p], open[p])
  BY <1>0, Turning
<1>2. reg[p] = {}
  <2>1. Top.k = -1
    BY <1>0, <1>1
  <2>2. ToVisit(Top.i, -1, p) = {}
    BY <1>1, Loops
  <2>3. QED BY <1>1, <2>1, <2>2
<1>3. /\ alt[p].index \in active[p] \cap open[p]
      /\ Top.partner = IF Guards[p][alt[p].index].type = "chanin"
                       THEN Sender(Guards[p][alt[p].index].ch) ELSE NoProc
  BY <1>1, <1>2 DEF Chooses
<1>4. f.pc = "partner" /\ f.flag /\ f.partner = Top.partner /\ f.proc = p /\ f.prev = NoProc
  BY <1>1 DEF Leaving, IsFrame
<1>5. Becomes(p, f) /\ Inner'
  BY <1>1, <1>4, GotoBecomes DEF InnerOK, Idling
<1>6. Nested'
  BY <1>5, KeepUnused DEF Nested
<1>7. /\ \A q \in Procs : q # p => state'[q] = state[q] /\ active'[q] = active[q] /\ alt'[q] = alt[q]
      /\ state'[p] = "quiescent" /\ active' = active /\ alt' = alt
  <2>1. state \in [Records -> {state[q] : q \in Records}] /\ \A q \in Procs : q \in Records
    BY DEF ChannelInv, UrgencyInv, NoneEnds, Records
  <2>2. QED BY <1>1, <2>1
<1>8. /\ Rest(p)
      /\ mode'[p] = ModeOf(f, state'[p]) /\ reg'[p] = RegOf(p, f, state'[p], active'[p])
      /\ wake'[p] = WakeOf(f) /\ owes'[p] = OwesOf(f)
  BY <1>1, <1>5, <1>7, Own
<1>9. /\ ModeOf(f, "quiescent") = "selected" /\ RegOf(p, f, "quiescent", active[p]) = {}
      /\ WakeOf(f) = NoProc /\ OwesOf(f) = f.partner
  BY <1>4 DEF ModeOf, RegOf, WakeOf, OwesOf
<1>10. mode'[p] = "selected" /\ reg'[p] = {} /\ wake'[p] = NoProc /\ owes'[p] = f.partner
  BY <1>7, <1>8, <1>9
<1>11. Local(p, f, state'[p], alt'[p], active'[p])
  <2>1. StateAt(f, "quiescent") /\ LoopAt(p, f)
    BY <1>4 DEF StateAt, LoopAt
  <2>2. QED BY <1>1, <1>7, <1>9, <2>1 DEF Local
<1>12. Chooses(p, f, alt'[p], active'[p], reg'[p], open'[p])
  BY <1>3, <1>4, <1>7 DEF Chooses, Sender
<1>13. Types' /\ Cross' /\ [Channels!Next]_Phase => Proceeds
  BY <1>1, <1>5, <1>6, <1>7, <1>11, <1>12, Concludes
<1>14. owes'[p] = WriterOf(p, alt[p].index)
  BY <1>3, <1>4, <1>10 DEF WriterOf
<1>15. QED BY <1>0, <1>1, <1>2, <1>3, <1>8, <1>10, <1>13, <1>14

\* The message is taken; a NULL pointer would end the program instead.
LEMMA TransferTakes ==
  ASSUME Synchronous, ChannelInv, UrgencyInv', TransferMessage
  PROVE  Proceeds
<1> DEFINE p == Top.proc
           i == alt[p].index
           c == GuardOf(p, i).ch
           f == Leaving
<1>1. Disabled /\ GuardOf(p, i).type = "chanin" /\ (chan[c].src = NoProc => Crash("null"))
  BY DEF TransferMessage
<1>2. CASE chan[c].src = NoProc
  BY <1>1, <1>2, Dies
<1>3. CASE chan[c].src # NoProc
  <2>0. /\ Goto(f) /\ state' = [state EXCEPT ![p] = "quiescent"]
        /\ UNCHANGED <<freed, alt, active, ichan, connected, sent, timerQ>>
    BY <1>3 DEF TransferMessage, altVars, timeVars
  <2>1. /\ chan' = [chan EXCEPT ![c].waiting = NoProc]
        /\ got' = [got EXCEPT ![c] = plus1_mod(@, MsgMod)]
        /\ alt' = alt /\ active' = active /\ sent' = sent
    BY <1>3 DEF TransferMessage, altVars
  <2>2. At("disable") /\ GuardOf(p, i) = Guards[p][i] /\ GuardOf(p, i).type = "chanin"
    BY <1>1, Turning DEF Disabled
  <2> HIDE DEF f, c
  <2>3. f = Leaving /\ c = Guards[p][i].ch /\ Guards[p][i].type = "chanin"
    BY <2>2 DEF f, c
  <2>4. /\ p \in Procs /\ Types /\ Shaped /\ Cross
        /\ mode[p] = "choosing" /\ reg[p] = {} /\ i \in active[p] \cap open[p] /\ active[p] \subseteq Branches(p)
        /\ Rest(p) /\ mode'[p] = "selected" /\ reg'[p] = {} /\ wake'[p] = NoProc /\ owes'[p] = Sender(c)
        /\ (Types' /\ Cross' /\ [Channels!Next]_Phase => Proceeds)
    <3>0. /\ Disabled /\ Goto(f) /\ state' = [state EXCEPT ![p] = "quiescent"] /\ f = Leaving
          /\ UNCHANGED <<freed, alt, active, ichan, connected, sent, timerQ>>
      BY <1>1, <2>0, <2>3
    <3>1. owes'[p] = WriterOf(p, i)
      BY <3>0, Leaves
    <3>2. /\ p \in Procs /\ Types /\ Shaped /\ Cross
          /\ mode[p] = "choosing" /\ reg[p] = {} /\ i \in active[p] \cap open[p] /\ active[p] \subseteq Branches(p)
          /\ Rest(p) /\ mode'[p] = "selected" /\ reg'[p] = {} /\ wake'[p] = NoProc
      BY <3>0, Leaves
    <3>3. Types' /\ Cross' /\ [Channels!Next]_Phase => Proceeds
      BY <3>0, Leaves
    <3>4. QED BY <2>3, <3>1, <3>2, <3>3 DEF WriterOf
  <2>5. Reads(p, i, c) /\ c \in Chans
    <3>1. Reads(p, i, c)
      BY <2>3, <2>4 DEF Reads
    <3>2. QED BY <2>4, <3>1, PointToPoint
  <2>6. chan[c].waiting = Sender(c)
    BY <2>4, <2>5, OpenIs
  <2>7. /\ chan'[c].waiting = NoProc /\ chan'[c].src = chan[c].src /\ \A d \in Chans : d # c => chan'[d] = chan[d]
        /\ got'[c] = plus1_mod(got[c], MsgMod) /\ \A d \in Chans : d # c => got'[d] = got[d]
    BY <2>1, <2>4, <2>5 DEF Types
  <2>8. Cross' /\ got[c] = sent[c]
    <3>1. i \in active[p]
      BY <2>4
    <3>2. QED BY <2>1, <2>4, <2>5, <2>6, <2>7, <3>1, FetchStep
  <2>9. got[c] \in 0 .. MsgMod - 1 /\ sent[c] \in 0 .. MsgMod - 1 /\ MsgMod \in Nat \ {0, 1}
    BY <2>4, <2>5, ApplicationAssumption DEF Types
  <2>10. plus1_mod(got[c], MsgMod) \in 0 .. MsgMod - 1 /\ (plus1_mod(got[c], MsgMod) - got[c]) % MsgMod = 1
    BY <2>9, PlusOne
  <2>11. Types'
    <3> DEFINE R == [waiting : Procs \cup {NoProc}, src : Procs \cup {NoProc}]
    <3>1. chan' \in [Chans -> R]
      <4>1. chan \in [Chans -> R] /\ chan[c] \in R
        BY <2>4, <2>5 DEF Types
      <4>2. [chan[c] EXCEPT !.waiting = NoProc] \in R
        BY <4>1
      <4>3. chan' = [chan EXCEPT ![c] = [chan[c] EXCEPT !.waiting = NoProc]]
        BY <2>1
      <4> HIDE DEF R
      <4>4. QED BY <4>1, <4>2, <4>3
    <3>2. got' \in [Chans -> 0 .. MsgMod - 1]
      BY <2>1, <2>4, <2>5, <2>10 DEF Types
    <3>3. QED BY <2>1, <2>4, <3>1, <3>2 DEF Types
  <2>12. [Channels!Next]_Phase
    <3>1. Phase[c] = "offered"
      BY <2>4, <2>5, <2>6, <2>8, PhaseOf
    <3>2. Phase'[c] = "taken"
      <4>1. (got'[c] - sent'[c]) % MsgMod = 1
        BY <2>1, <2>7, <2>8, <2>10
      <4>2. QED BY <2>5, <4>1 DEF Phase
    <3>3. \A d \in Chans : d # c => chan'[d] = chan[d] /\ got'[d] = got[d] /\ sent'[d] = sent[d]
      BY <2>1, <2>7
    <3>4. QED BY <2>5, <3>1, <3>2, <3>3, PhaseStep
  <2>13. QED BY <2>4, <2>8, <2>11, <2>12
<1>4. QED BY <1>2, <1>3

LEMMA TransferPasses ==
  ASSUME Synchronous, ChannelInv, UrgencyInv', TransferNothing
  PROVE  Proceeds
<1> DEFINE p == Top.proc
           i == alt[p].index
           f == Leaving
<1>1. /\ Disabled /\ GuardOf(p, i).type # "chanin"
      /\ Goto(f) /\ state' = [state EXCEPT ![p] = "quiescent"]
      /\ UNCHANGED <<freed, alt, active, chan, ichan, connected, got, sent, timerQ>>
  BY DEF TransferNothing, ioVars, altVars, timeVars
<1>2. At("disable") /\ GuardOf(p, i) = Guards[p][i]
  BY <1>1, Turning DEF Disabled
<1> HIDE DEF f
<1>3. f = Leaving /\ Guards[p][i].type # "chanin"
  BY <1>1, <1>2 DEF f
<1>4. /\ p \in Procs /\ Types /\ Shaped /\ Cross
      /\ mode[p] = "choosing" /\ reg[p] = {} /\ i \in active[p] \cap open[p]
      /\ Rest(p) /\ mode'[p] = "selected" /\ reg'[p] = {} /\ wake'[p] = NoProc /\ owes'[p] = NoProc
      /\ (Types' /\ Cross' /\ [Channels!Next]_Phase => Proceeds)
  <2>0. /\ Disabled /\ Goto(f) /\ state' = [state EXCEPT ![p] = "quiescent"] /\ f = Leaving
        /\ UNCHANGED <<freed, alt, active, ichan, connected, sent, timerQ>>
    BY <1>1, <1>3
  <2>1. owes'[p] = WriterOf(p, i)
    BY <2>0, Leaves
  <2>2. /\ p \in Procs /\ Types /\ Shaped /\ Cross
        /\ mode[p] = "choosing" /\ reg[p] = {} /\ i \in active[p] \cap open[p]
        /\ Rest(p) /\ mode'[p] = "selected" /\ reg'[p] = {} /\ wake'[p] = NoProc
    BY <2>0, Leaves
  <2>3. Types' /\ Cross' /\ [Channels!Next]_Phase => Proceeds
    BY <2>0, Leaves
  <2>4. QED BY <1>3, <2>1, <2>2, <2>3 DEF WriterOf
<1>5. Cross'
  BY <1>1, <1>4, PassStep
<1>6. Types'
  BY <1>1, <1>4 DEF Types
<1>7. [Channels!Next]_Phase
  BY <1>1, PhaseSame
<1>8. QED BY <1>4, <1>5, <1>6, <1>7

\* There are no timeouts and interrupts to disable.
LEMMA DisableProceeds ==
  ASSUME Synchronous, ChannelInv, UrgencyInv', DisableStep
  PROVE  Proceeds
<1>1. ~DisableTimeout /\ ~DisableIntr
  <2> SUFFICES ASSUME NEW type \in {"timeout", "interrupt"}, Disabling(type)
               PROVE  FALSE
    BY DEF DisableTimeout, DisableIntr
  <2>1. At("disable")
    BY DEF Disabling
  <2>2. /\ Top.proc \in Procs /\ Top.i \in Branches(Top.proc) /\ Guards[Top.proc][Top.i].type = type
    BY <2>1, Turning DEF Disabling
  <2>3. QED BY <2>2 DEF Synchronous
<1>2. ~TransferCount
  <2> SUFFICES ASSUME TransferCount
               PROVE  FALSE
    OBVIOUS
  <2> DEFINE p == Top.proc
             f == Leaving
  <2>1. /\ Disabled /\ GuardOf(p, alt[p].index).type = "interrupt" /\ At("disable")
        /\ Goto(f) /\ state' = [state EXCEPT ![p] = "quiescent"]
    BY DEF TransferCount, Disabled
  <2>2. /\ p \in Procs /\ GuardOf(p, alt[p].index) = Guards[p][alt[p].index] /\ active[p] \subseteq Branches(p)
        /\ Top.i \in Branches(p) /\ Top.k = -1 /\ reg[p] = active[p] \cap ToVisit(Top.i, Top.k, p)
        /\ Top.pc = "disable" /\ Chooses(p, Top, alt[p], active[p], reg[p], open[p])
    <3>1. Top.k < 0
      BY <2>1 DEF Disabled
    <3>2. Top.k \in -1 .. NrGuards[p] - 1 /\ NrGuards[p] \in Nat
      BY <2>1, Turning
    <3>3. Top.k = -1
      BY <3>1, <3>2
    <3>4. QED BY <2>1, <3>3, Turning
  <2>3. reg[p] = {}
    BY <2>2, Loops
  <2>4. alt[p].index \in Branches(p)
    BY <2>2, <2>3 DEF Chooses
  <2>5. QED BY <2>1, <2>2, <2>4 DEF Synchronous
<1>3. QED BY <1>1, <1>2, DisablePasses, DisableInputs, DisableTakes, TransferTakes, TransferPasses DEF DisableStep

-----------------------------------------------------------------------------
\* schedule(): waking the partner.

\* Who it is.
LEMMA PartnerIs ==
  ASSUME Synchronous, ChannelInv, NEW p \in Procs, p = Top.proc, Top.pc = "partner", NEW w, w = Top.partner, w # NoProc
  PROVE  /\ w \in Procs /\ w # p /\ state[w] \in {"waiting", "ready"}
         /\ view[w].pc \in {"off", "partnerRet"}
         /\ IF Top.flag THEN owes[p] = w /\ wake[p] = NoProc
            ELSE wake[p] = w /\ owes[p] = NoProc /\ mode[p] = "waiting"
<1>1. /\ Local(p, Top, state[p], alt[p], active[p])
      /\ mode[p] = ModeOf(Top, state[p])
      /\ wake[p] = WakeOf(Top) /\ owes[p] = OwesOf(Top)
      /\ \A q \in Procs : q # p => view[q].pc \in {"off", "partnerRet"}
      /\ Types /\ Shaped /\ Cross /\ LocalInv
  BY Here DEF ChannelInv
<1>2. IF Top.flag THEN owes[p] = w /\ wake[p] = NoProc /\ mode[p] = "selected"
      ELSE wake[p] = w /\ owes[p] = NoProc /\ mode[p] = "waiting"
  BY <1>1 DEF Local, StateAt, ModeOf, WakeOf, OwesOf
<1>3. w \in Procs /\ w # p /\ mode[w] \in {"waiting", "ready"}
  <2>1. CASE Top.flag
    <3>1. PICK c \in Chans : owes[p] = Sender(c) /\ mode[owes[p]] = "waiting"
      BY <1>1, <1>2, <2>1 DEF Cross, ReadyInv
    <3>2. QED BY <1>2, <2>1, <3>1, PointToPoint
  <2>2. CASE ~Top.flag
    <3>1. wake[p] \in Procs /\ mode[wake[p]] \in {"waiting", "ready"}
      BY <1>1, <1>2, <2>2 DEF Cross, WakesInv
    <3>2. PICK c \in Chans : \E i \in reg[p], j \in reg[wake[p]] : Writes(p, i, c) /\ Reads(wake[p], j, c)
      BY <1>1, <1>2, <2>2 DEF Cross, WakesInv
    <3>3. wake[p] # p
      BY <3>2, PointToPoint
    <3>4. QED BY <1>2, <2>2, <3>1, <3>3
  <2>3. QED BY <2>1, <2>2
<1>4. state[w] \in {"waiting", "ready"}
  BY <1>1, <1>3, Away
<1>5. QED BY <1>1, <1>2, <1>3, <1>4

LEMMA WakeProceeds ==
  ASSUME Synchronous, ChannelInv, UrgencyInv', WakePartner
  PROVE  Proceeds
<1> DEFINE p == Top.proc
           w == Top.partner
           f == [Top EXCEPT !.pc = "partnerRet"]
           h == [f EXCEPT !.prev = current]
           b == ScheduleFrame(PriOf(current))
<1>1. /\ p \in Procs /\ IsFrame(Top) /\ Top.pc = "partner" /\ w # NoProc /\ At("partner")
      /\ readyProcessIfNecessary(w, f)
      /\ state' = [state EXCEPT ![w] = "ready"] /\ (Goto(f) \/ Call(h, b))
      /\ UNCHANGED <<freed, alt, active, chan, ichan, connected, got, sent, timerQ>>
  <2>1. At("partner") /\ w \in Records /\ readyProcessIfNecessary(w, f)
    BY DEF WakePartner
  <2>2. p \in Procs /\ IsFrame(Top) /\ Top.pc = "partner"
    BY <2>1, AtProc DEF SchedulePcs
  <2>3. state' = [state EXCEPT ![w] = "ready"] /\ (Goto(f) \/ Call(h, b))
    BY <2>1 DEF readyProcessIfNecessary
  <2>4. UNCHANGED <<freed, alt, active, chan, ichan, connected, got, sent, timerQ>>
    BY DEF WakePartner, altVars, ioVars, timeVars
  <2>5. w # NoProc
    BY <2>1, RecordAssumption
  <2>6. QED BY <2>1, <2>2, <2>3, <2>4, <2>5
<1>2. /\ f.proc = p /\ f.pc = "partnerRet" /\ f.flag = Top.flag /\ InnerOK(f)
      /\ h.proc = p /\ h.pc = "partnerRet" /\ h.flag = Top.flag /\ InnerOK(h)
      /\ b.proc = NoProc /\ InnerOK(b)
  <2>1. f.proc = p /\ f.pc = "partnerRet" /\ f.flag = Top.flag /\ IsFrame(f)
    BY <1>1 DEF IsFrame
  <2>2. h.proc = p /\ h.pc = "partnerRet" /\ h.flag = Top.flag
    <3> HIDE DEF f
    <3>1. QED BY <2>1 DEF IsFrame
  <2>3. b.proc = NoProc /\ b.prev = NoProc /\ b.partner = NoProc
    BY DEF ScheduleFrame, Frame
  <2>4. QED BY <2>1, <2>2, <2>3 DEF InnerOK, Idling
<1> HIDE DEF f, h, b
<1>3. PICK a : a \in {f, h} /\ Becomes(p, a) /\ Inner'
  <2>1. CASE Goto(f)
    BY <1>1, <1>2, <2>1, GotoBecomes
  <2>2. CASE Call(h, b)
    BY <1>1, <1>2, <2>2, CallBecomes
  <2>3. QED BY <1>1, <2>1, <2>2
<1>4. a.pc = "partnerRet" /\ a.flag = Top.flag
  BY <1>2, <1>3
<1>5. Nested'
  BY <1>1, <1>3, KeepUnused DEF Nested
<1>6. /\ w \in Procs /\ w # p /\ state[w] \in {"waiting", "ready"} /\ view[w].pc \in {"off", "partnerRet"}
      /\ IF Top.flag THEN owes[p] = w /\ wake[p] = NoProc
         ELSE wake[p] = w /\ owes[p] = NoProc /\ mode[p] = "waiting"
  BY <1>1, PartnerIs
<1>7. /\ Local(p, Top, state[p], alt[p], active[p])
      /\ mode[p] = ModeOf(Top, state[p]) /\ reg[p] = RegOf(p, Top, state[p], active[p])
      /\ \A q \in Procs : q # p => view[q].pc \in {"off", "partnerRet"}
      /\ Types /\ Shaped /\ Cross /\ LocalInv
  BY <1>1, Here DEF ChannelInv
<1>8. /\ \A q \in Procs : state'[q] = IF q = w THEN "ready" ELSE state[q]
      /\ alt' = alt /\ active' = active /\ chan' = chan /\ got' = got /\ sent' = sent
      /\ \A q \in Procs : view'[q] = IF q = p THEN a ELSE view[q]
  <2>1. state \in [Records -> {state[q] : q \in Records}] /\ \A q \in Procs : q \in Records
    BY DEF ChannelInv, UrgencyInv, NoneEnds, Records
  <2>2. \A q \in Procs : state'[q] = IF q = w THEN "ready" ELSE state[q]
    BY <1>1, <2>1
  <2>3. QED BY <1>1, <1>3, <2>2 DEF Becomes
<1>9. /\ StateAt(a, state[p]) /\ LoopAt(p, a)
      /\ ModeOf(a, state[p]) = ModeOf(Top, state[p])
      /\ RegOf(p, a, state[p], active[p]) = RegOf(p, Top, state[p], active[p])
      /\ WakeOf(a) = NoProc /\ OwesOf(a) = NoProc
  <2>1. StateAt(Top, state[p])
    BY <1>7 DEF Local
  <2>2. StateAt(a, state[p]) /\ LoopAt(p, a)
    BY <1>1, <1>4, <2>1 DEF StateAt, LoopAt
  <2>3. /\ ModeOf(a, state[p]) = ModeOf(Top, state[p])
        /\ RegOf(p, a, state[p], active[p]) = RegOf(p, Top, state[p], active[p])
    BY <1>1, <1>4, <2>1 DEF StateAt, ModeOf, RegOf
  <2>4. WakeOf(a) = NoProc /\ OwesOf(a) = NoProc
    BY <1>4 DEF WakeOf, OwesOf
  <2>5. QED BY <2>2, <2>3, <2>4
<1>10. /\ Local(p, a, state'[p], alt'[p], active'[p])
       /\ Chooses(p, a, alt'[p], active'[p], reg'[p], open'[p])
  <2>1. Local(p, a, state[p], alt[p], active[p])
    BY <1>7, <1>9 DEF Local
  <2>2. state'[p] = state[p] /\ alt'[p] = alt[p] /\ active'[p] = active[p]
    BY <1>1, <1>6, <1>8
  <2>3. Chooses(p, a, alt'[p], active'[p], reg'[p], open'[p])
    BY <1>4 DEF Chooses
  <2>4. QED BY <2>1, <2>2, <2>3
<1>11. /\ Local(w, view[w], "ready", alt[w], active[w])
       /\ RegOf(w, view[w], "ready", active[w]) = RegOf(w, view[w], state[w], active[w])
       /\ ModeOf(view[w], "ready") = "ready"
  <2>1. Local(w, view[w], state[w], alt[w], active[w])
    BY <1>6, <1>7 DEF LocalInv
  <2>2. StateAt(view[w], "ready")
    BY <1>6, <2>1 DEF Local, StateAt
  <2>3. /\ RegOf(w, view[w], "ready", active[w]) = RegOf(w, view[w], state[w], active[w])
        /\ ModeOf(view[w], "ready") = "ready" /\ ModeOf(view[w], state[w]) = state[w]
    BY <1>6 DEF RegOf, ModeOf
  <2>4. QED BY <1>6, <2>1, <2>2, <2>3 DEF Local
<1>12. LocalInv'
  <2>1. \A q \in Procs :
           /\ Local(q, view'[q], state'[q], alt'[q], active'[q])
           /\ Chooses(q, view'[q], alt'[q], active'[q], reg'[q], open'[q])
    <3> SUFFICES ASSUME NEW q \in Procs
                 PROVE  /\ Local(q, view'[q], state'[q], alt'[q], active'[q])
                        /\ Chooses(q, view'[q], alt'[q], active'[q], reg'[q], open'[q])
      OBVIOUS
    <3>1. CASE q = p
      BY <1>8, <1>10, <3>1
    <3>2. CASE q = w
      <4>1. Local(q, view'[q], state'[q], alt'[q], active'[q])
        BY <1>6, <1>8, <1>11, <3>2
      <4>2. view'[q].pc \in {"off", "partnerRet"}
        BY <1>6, <1>8, <3>2
      <4>3. QED BY <4>1, <4>2 DEF Chooses
    <3>3. CASE q # p /\ q # w
      <4>1. Still(q)
        BY <1>8, <3>3 DEF Still
      <4>2. QED BY <1>7, <3>3, <4>1, StillLocal
    <3>4. QED BY <3>1, <3>2, <3>3
  <2>2. QED BY <2>1 DEF LocalInv, Local, Chooses, StateAt, LoopAt, Alone, ModeOf, RegOf, Sender
<1>13. /\ \A q \in Procs : mode'[q] = IF q = w THEN "ready" ELSE mode[q]
       /\ \A q \in Procs : reg'[q] = reg[q]
       /\ \A q \in Procs : wake'[q] = IF q = p THEN NoProc ELSE wake[q]
       /\ \A q \in Procs : owes'[q] = IF q = p THEN NoProc ELSE owes[q]
  BY <1>6, <1>7, <1>8, <1>9, <1>11 DEF mode, reg, wake, owes
<1>14. Wakes(w)
  <2>1. mode' = [mode EXCEPT ![w] = "ready"]
    BY <1>6, <1>13 DEF mode
  <2>2. reg' = reg
    BY <1>13 DEF reg
  <2>3. QED BY <1>8, <2>1, <2>2 DEF Wakes
<1>15. Waits(p)
  BY <1>7, Away DEF Waits
<1>16. /\ wake' = [wake EXCEPT ![p] = NoProc] /\ (wake[p] = NoProc => wake' = wake)
       /\ owes' = [owes EXCEPT ![p] = NoProc] /\ (owes[p] = NoProc => owes' = owes)
  <2>1. /\ wake = [q \in Procs |-> wake[q]] /\ wake' = [q \in Procs |-> wake'[q]]
        /\ owes = [q \in Procs |-> owes[q]] /\ owes' = [q \in Procs |-> owes'[q]]
    BY DEF wake, owes
  <2>2. /\ wake' = [wake EXCEPT ![p] = NoProc]
        /\ owes' = [owes EXCEPT ![p] = NoProc]
    BY <1>13, <2>1
  <2>3. /\ (wake[p] = NoProc => wake' = wake)
        /\ (owes[p] = NoProc => owes' = owes)
    BY <1>13, <2>1
  <2>4. QED BY <2>2, <2>3
<1>17. Cross'
  <2>1. CASE Top.flag
    <3>1. owes[p] = w /\ wake' = wake
      BY <1>6, <1>16, <2>1
    <3>2. QED BY <1>1, <1>6, <1>7, <1>14, <1>15, <1>16, <3>1, PayStep
  <2>2. CASE ~Top.flag
    <3>1. wake[p] = w /\ owes' = owes /\ mode[p] = "waiting"
      BY <1>6, <1>16, <2>2
    <3>2. QED BY <1>1, <1>6, <1>7, <1>14, <1>15, <1>16, <3>1, CallStep
  <2>3. QED BY <2>1, <2>2
<1>18. Types'
  BY <1>7, <1>8 DEF Types
<1>19. QED BY <1>5, <1>8, <1>12, <1>17, <1>18, PhaseSame DEF Proceeds, CrossInv, Cross

-----------------------------------------------------------------------------
\* The RTC code of a process.

\* It goes on from the branch selected, and may have set up another process.
LEMMA Resumes ==
  ASSUME Synchronous, ChannelInv, NEW p \in Procs, p = Top.proc, Top.pc = "rtc",
         NEW a, Becomes(p, a), a.pc = "rtcRest", a.flag = Top.flag, LoopAt(p, a), NEW r,
         \A q \in Procs : q # r => state'[q] = state[q] /\ alt'[q] = alt[q] /\ active'[q] = active[q],
         r \in Procs => /\ state[r] = "unstarted" /\ state'[r] = "initial"
                        /\ alt'[r].guards = NoProc /\ active'[r] = {},
         Types', chan' = chan, got' = got, Nested',
         \A d \in Chans : sent'[d] = IF mode[p] = "selected" /\ Writes(p, alt[p].index, d)
                                     THEN plus1_mod(sent[d], MsgMod) ELSE sent[d]
  PROVE  Proceeds
<1>1. /\ Local(p, Top, state[p], alt[p], active[p])
      /\ mode[p] = ModeOf(Top, state[p]) /\ reg[p] = RegOf(p, Top, state[p], active[p])
      /\ owes[p] = OwesOf(Top)
      /\ \A q \in Procs : q # p => view[q].pc \in {"off", "partnerRet"}
      /\ Types /\ Shaped /\ Cross /\ LocalInv
  BY Here DEF ChannelInv
<1>2. StateAt(Top, state[p]) /\ state[p] = (IF Top.flag THEN "quiescent" ELSE "initial")
  BY <1>1 DEF Local, StateAt
<1>3. mode[p] \in {"outside", "selected"} /\ owes[p] = NoProc
  BY <1>1, <1>2 DEF ModeOf, OwesOf
<1>4. r # p /\ state'[p] = state[p] /\ alt'[p] = alt[p] /\ active'[p] = active[p]
  BY <1>2
<1>5. view'[p] = a /\ \A q \in Procs : q # p => view'[q] = view[q]
  BY DEF Becomes
<1>6. /\ ModeOf(a, state[p]) = "outside" /\ RegOf(p, a, state[p], active[p]) = {}
      /\ WakeOf(a) = NoProc /\ OwesOf(a) = NoProc
  BY <1>2 DEF ModeOf, RegOf, WakeOf, OwesOf
<1>7. mode'[p] = "outside" /\ reg'[p] = {} /\ wake'[p] = NoProc /\ owes'[p] = NoProc
  BY <1>4, <1>5, <1>6 DEF mode, reg, wake, owes
<1>8. ASSUME r \in Procs
      PROVE  /\ Keeps(r)
             /\ Local(r, view'[r], state'[r], alt'[r], active'[r])
             /\ Chooses(r, view'[r], alt'[r], active'[r], reg'[r], open'[r])
  <2>1. view[r].pc = "off"
    <3>1. view[r].pc \in {"off", "partnerRet"} /\ StateAt(view[r], state[r])
      BY <1>1, <1>4, <1>8 DEF LocalInv, Local
    <3>2. QED BY <1>8, <3>1 DEF StateAt
  <2>2. /\ ModeOf(view[r], state[r]) = "outside" /\ ModeOf(view[r], state'[r]) = "outside"
        /\ RegOf(r, view[r], state[r], active[r]) = {} /\ RegOf(r, view[r], state'[r], active'[r]) = {}
    BY <1>8, <2>1 DEF ModeOf, RegOf
  <2>3. view'[r] = view[r]
    BY <1>4, <1>5, <1>8
  <2>4. Keeps(r)
    BY <1>8, <2>2, <2>3 DEF Keeps, mode, reg, wake, owes
  <2>5. Local(r, view[r], state'[r], alt'[r], active'[r])
    BY <1>8, <2>1, <2>2 DEF Local, StateAt, LoopAt
  <2>6. Chooses(r, view[r], alt'[r], active'[r], reg'[r], open'[r])
    BY <2>1 DEF Chooses
  <2>7. QED BY <2>3, <2>4, <2>5, <2>6
<1>9. \A q \in Procs : q # p /\ q # r => Still(q)
  BY <1>5 DEF Still
<1>10. Rest(p)
  <2>1. \A q \in Procs : q # p => Keeps(q)
    BY <1>8, <1>9, StillKeeps
  <2>2. QED BY <1>1, <2>1, Away DEF Rest
<1>11. /\ Cross'
       /\ \A d \in Chans : mode[p] = "selected" /\ Writes(p, alt[p].index, d) =>
            got[d] = plus1_mod(sent[d], MsgMod) /\ chan[d].waiting # p
  BY <1>1, <1>3, <1>7, <1>10, ResumeStep
<1>12. LocalInv'
  <2>1. \A q \in Procs :
           /\ Local(q, view'[q], state'[q], alt'[q], active'[q])
           /\ Chooses(q, view'[q], alt'[q], active'[q], reg'[q], open'[q])
    <3> SUFFICES ASSUME NEW q \in Procs
                 PROVE  /\ Local(q, view'[q], state'[q], alt'[q], active'[q])
                        /\ Chooses(q, view'[q], alt'[q], active'[q], reg'[q], open'[q])
      OBVIOUS
    <3>1. CASE q = p
      <4>1. StateAt(a, state[p])
        BY <1>2 DEF StateAt
      <4>2. Local(p, a, state[p], alt[p], active[p])
        BY <1>1, <1>6, <4>1 DEF Local
      <4>3. Chooses(p, a, alt'[p], active'[p], reg'[p], open'[p])
        BY DEF Chooses
      <4>4. QED BY <1>4, <1>5, <3>1, <4>2, <4>3
    <3>2. CASE q = r
      BY <1>8, <3>2
    <3>3. CASE q # p /\ q # r
      BY <1>1, <1>9, <3>3, StillLocal
    <3>4. QED BY <3>1, <3>2, <3>3
  <2>2. QED BY <2>1 DEF LocalInv, Local, Chooses, StateAt, LoopAt, Alone, ModeOf, RegOf, Sender
<1>13. [Channels!Next]_Phase
  <2>1. CASE \E d \in Chans : mode[p] = "selected" /\ Writes(p, alt[p].index, d)
    <3>1. PICK d \in Chans : mode[p] = "selected" /\ Writes(p, alt[p].index, d)
      BY <2>1
    <3>2. got[d] = plus1_mod(sent[d], MsgMod) /\ chan[d].waiting # p /\ sent'[d] = got[d] /\ Sender(d) = p
      BY <1>11, <3>1, PointToPoint
    <3>3. sent[d] \in 0 .. MsgMod - 1 /\ got[d] \in 0 .. MsgMod - 1 /\ MsgMod \in Nat \ {0, 1}
      BY <1>1, ApplicationAssumption DEF Types
    <3>4. Phase[d] = "taken"
      <4>1. got[d] # sent[d]
        BY <3>2, <3>3, PlusOne
      <4>2. QED BY <1>1, <3>2, <4>1, PhaseOf
    <3>5. Phase'[d] = "idle"
      <4>1. (got'[d] - sent'[d]) % MsgMod = 0
        <5>1. (got[d] - got[d]) % MsgMod = 0
          BY <3>3, PlusOne
        <5>2. QED BY <3>2, <5>1
      <4>2. chan'[d].waiting # Sender(d)
        BY <3>2
      <4>3. QED BY <4>1, <4>2 DEF Phase, Sender
    <3>6. \A e \in Chans : e # d => chan'[e] = chan[e] /\ got'[e] = got[e] /\ sent'[e] = sent[e]
      BY <3>1 DEF Writes
    <3>7. QED BY <3>4, <3>5, <3>6, PhaseStep
  <2>2. CASE ~\E d \in Chans : mode[p] = "selected" /\ Writes(p, alt[p].index, d)
    <3>1. \A d \in Chans : sent'[d] = sent[d]
      BY <2>2
    <3>2. sent' = sent
      BY <1>1, <3>1 DEF Types
    <3>3. QED BY <3>2, PhaseSame
  <2>3. QED BY <2>1, <2>2
<1>14. QED BY <1>11, <1>12, <1>13 DEF Proceeds, CrossInv, Cross

\* What the process was called for, and what it may do.
LEMMA Called ==
  ASSUME Synchronous, ChannelInv, At("rtc"), NEW p, p = Top.proc
  PROVE  /\ p \in Procs /\ IsFrame(Top) /\ Top.pc = "rtc" /\ current = p /\ Top.prev = NoProc
         /\ state[p] \in {"initial", "quiescent"} /\ Types
         /\ Selected \in -1 .. NrGuards[p] - 1
         /\ (Selected >= 0 <=> mode[p] = "selected") /\ (Selected >= 0 => Selected = alt[p].index)
<1>1. p \in Procs /\ IsFrame(Top) /\ Top.pc = "rtc" /\ current = p /\ Top.prev = NoProc
  BY AtProc DEF SchedulePcs
<1>2. /\ Local(p, Top, state[p], alt[p], active[p])
      /\ mode[p] = ModeOf(Top, state[p]) /\ Types /\ Cross
  BY <1>1, Here
<1>3. state[p] = (IF Top.flag THEN "quiescent" ELSE "initial") /\ active[p] \subseteq Branches(p)
  BY <1>1, <1>2 DEF Local, StateAt
<1>4. mode[p] = IF Top.flag THEN "selected" ELSE "outside"
  BY <1>1, <1>2, <1>3 DEF ModeOf
<1>5. NrGuards[p] \in Nat
  <2>1. NrGuards[p] \in 0 .. 255
    BY <1>1, ApplicationAssumption
  <2>2. QED BY <2>1
<1>6. CASE Top.flag
  <2>1. alt[p].index \in Branches(p) /\ Selected = alt[p].index
    BY <1>1, <1>2, <1>3, <1>4, <1>6 DEF Cross, ReadyInv, Selected
  <2>2. QED BY <1>1, <1>2, <1>3, <1>4, <1>5, <1>6, <2>1 DEF Branches
<1>7. CASE ~Top.flag
  <2>1. Selected = -1
    BY <1>1, <1>3, <1>7 DEF Selected
  <2>2. QED BY <1>1, <1>2, <1>3, <1>4, <1>5, <1>7, <2>1
<1>8. QED BY <1>6, <1>7

\* start() makes the record and the variables of a process as new.
LEMMA StartSets ==
  ASSUME ChannelInv, NEW r \in Procs, NEW f, start(r, f)
  PROVE  /\ alt' \in [Records -> [guards : Procs \cup {NoProc}, index : Int, count : Int]]
         /\ active' \in [Procs -> SUBSET Nat]
         /\ \A q \in Procs : q # r => state'[q] = state[q] /\ alt'[q] = alt[q] /\ active'[q] = active[q]
         /\ state'[r] = "initial" /\ alt'[r].guards = NoProc /\ active'[r] = {}
<1> DEFINE R == [guards : Procs \cup {NoProc}, index : Int, count : Int]
           u == [alt[r] EXCEPT !.guards = NoProc]
           v == [u EXCEPT !.count = 0]
<1>1. /\ alt \in [Records -> R] /\ alt[r] \in R /\ r \in Records
      /\ active \in [Procs -> SUBSET Nat] /\ state \in [Records -> {state[q] : q \in Records}]
      /\ \A q \in Procs : q \in Records
  BY DEF ChannelInv, CrossInv, Types, Records, UrgencyInv, NoneEnds
<1>2. /\ alt' = [alt EXCEPT ![r] = v] /\ active' = [active EXCEPT ![r] = {}]
      /\ state' = [state EXCEPT ![r] = "initial"]
  BY DEF start
<1>3. u \in R /\ u.guards = NoProc
  BY <1>1
<1> HIDE DEF u
<1>4. v \in R /\ v.guards = NoProc
  BY <1>3
<1> HIDE DEF R, v
<1>5. alt' \in [Records -> R] /\ active' \in [Procs -> SUBSET Nat]
  BY <1>1, <1>2, <1>4
<1>6. /\ \A q \in Procs : q # r => state'[q] = state[q] /\ alt'[q] = alt[q] /\ active'[q] = active[q]
      /\ state'[r] = "initial" /\ alt'[r].guards = NoProc /\ active'[r] = {}
  BY <1>1, <1>2, <1>4
<1>7. QED BY <1>5, <1>6 DEF R

LEMMA EnterProceeds ==
  ASSUME Synchronous, ChannelInv, UrgencyInv', RtcEnter
  PROVE  Proceeds
<1> DEFINE p == Top.proc
           s == Selected
<1>1. At("rtc")
  BY DEF RtcEnter
<1>2. /\ p \in Procs /\ IsFrame(Top) /\ Top.pc = "rtc" /\ current = p
      /\ state[p] \in {"initial", "quiescent"} /\ Types
      /\ s \in -1 .. NrGuards[p] - 1
      /\ (s >= 0 <=> mode[p] = "selected") /\ (s >= 0 => s = alt[p].index)
  BY <1>1, Called
<1>3. /\ sent' = IF s >= 0 /\ Guards[p][s].type = "chanout"
                 THEN [sent EXCEPT ![Guards[p][s].ch] = plus1_mod(@, MsgMod)] ELSE sent
      /\ UNCHANGED <<chan, ichan, connected, got, timerQ>>
  BY <1>2 DEF RtcEnter
<1>4. PICK act \in IF s \in -1 .. NrGuards[p] - 1 THEN Program[p][s] ELSE {[NoAct EXCEPT !.active = active[p]]} :
        LET f == [Top EXCEPT !.pc = "rtcRest", !.act = act]
        IN  \/ /\ Startable(act.start)
               /\ start(act.start, f)
               /\ UNCHANGED handlers
            \/ /\ ~Startable(act.start)
               /\ IF act.send = None
                  THEN Goto(f) /\ UNCHANGED <<intr, handlers>>
                  ELSE /\ Call(f, HandlerFrame(act.send))
                       /\ intr' = FALSE
                       /\ handlers' = handlers + 1
               /\ UNCHANGED <<state, rq, freed, altVars, timeout>>
  BY Zenon DEF RtcEnter
<1> DEFINE f == [Top EXCEPT !.pc = "rtcRest", !.act = act]
<1>5. act \in Acts /\ act.active \subseteq Branches(p)
  <2>1. act \in Program[p][s]
    BY <1>2, <1>4
  <2> HIDE DEF s
  <2>2. QED BY <1>2, <2>1, ApplicationAssumption
<1>6. /\ f.pc = "rtcRest" /\ f.proc = p /\ f.flag = Top.flag /\ f.prev = NoProc /\ InnerOK(f) /\ LoopAt(p, f)
  <2>1. Top.prev = NoProc /\ Top.partner = NoProc
    BY <1>2, Here DEF InnerOK, Idling
  <2>2. f.pc = "rtcRest" /\ f.proc = p /\ f.flag = Top.flag /\ f.prev = NoProc /\ f.partner = NoProc /\ f.act = act
    BY <1>2, <2>1 DEF IsFrame
  <2>3. act.connect \subseteq Intrs
    BY <1>5 DEF Acts
  <2> HIDE DEF f
  <2>4. QED BY <1>5, <2>2, <2>3 DEF InnerOK, LoopAt
<1> HIDE DEF f
<1>7. /\ sent' \in [Chans -> 0 .. MsgMod - 1]
      /\ \A d \in Chans : sent'[d] = IF mode[p] = "selected" /\ Writes(p, alt[p].index, d)
                                     THEN plus1_mod(sent[d], MsgMod) ELSE sent[d]
  <2>0. \A d : Writes(p, alt[p].index, d) <=>
          /\ alt[p].index \in Branches(p) /\ Guards[p][alt[p].index].type = "chanout"
          /\ Guards[p][alt[p].index].ch = d
    BY DEF Writes
  <2>1. sent' \in [Chans -> 0 .. MsgMod - 1]
    <3>1. \A d \in Chans : plus1_mod(sent[d], MsgMod) \in 0 .. MsgMod - 1
      BY <1>2, PlusOne, ApplicationAssumption DEF Types
    <3>2. QED BY <1>2, <1>3, <3>1 DEF Types
  <2>2. \A d \in Chans : sent'[d] = IF mode[p] = "selected" /\ Writes(p, alt[p].index, d)
                                    THEN plus1_mod(sent[d], MsgMod) ELSE sent[d]
    <3>1. CASE s >= 0
      <4>1. s = alt[p].index /\ mode[p] = "selected" /\ s \in Branches(p)
        BY <1>2, <3>1 DEF Branches
      <4>2. sent \in [Chans -> 0 .. MsgMod - 1]
        BY <1>2 DEF Types
      <4> HIDE DEF s
      <4>3. QED BY <1>3, <2>0, <3>1, <4>1, <4>2
    <3>2. CASE ~(s >= 0)
      BY <1>2, <1>3, <3>2
    <3>3. QED BY <3>1, <3>2
  <2>3. QED BY <2>1, <2>2
<1>8. CASE Startable(act.start) /\ start(act.start, f)
  <2> DEFINE r == act.start
  <2>1. r \in Procs /\ state[r] = "unstarted" /\ freed = {}
    BY <1>8 DEF Startable, ChannelInv, Nested, Unused
  <2>2. /\ Call(f, StartFrame(r)) /\ state' = [state EXCEPT ![r] = "initial"] /\ freed' = freed \ {r}
        /\ alt' = [alt EXCEPT ![r].guards = NoProc, ![r].count = 0] /\ active' = [active EXCEPT ![r] = {}]
    BY <1>8 DEF start
  <2> HIDE DEF r
  <2>3. Becomes(p, f) /\ Inner'
    <3> DEFINE h == StartFrame(r)
    <3>1. h.proc = NoProc /\ InnerOK(h)
      BY DEF StartFrame, Frame, InnerOK, Idling
    <3> HIDE DEF h
    <3>2. Call(f, h)
      BY <2>2 DEF h
    <3>3. QED BY <1>2, <1>6, <3>1, <3>2, CallBecomes
  <2>4. Nested'
    BY <1>3, <2>1, <2>2, <2>3 DEF ChannelInv, Nested, Unused
  <2>5. /\ alt' \in [Records -> [guards : Procs \cup {NoProc}, index : Int, count : Int]]
        /\ active' \in [Procs -> SUBSET Nat]
        /\ \A q \in Procs : q # r => state'[q] = state[q] /\ alt'[q] = alt[q] /\ active'[q] = active[q]
        /\ state'[r] = "initial" /\ alt'[r].guards = NoProc /\ active'[r] = {}
    BY <1>8, <2>1, StartSets DEF r
  <2>6. Types'
    BY <1>2, <1>3, <1>7, <2>5 DEF Types
  <2>7. QED BY <1>2, <1>3, <1>6, <1>7, <2>1, <2>3, <2>4, <2>5, <2>6, Resumes
<1>9. CASE /\ IF act.send = None THEN Goto(f) ELSE Call(f, HandlerFrame(act.send))
           /\ UNCHANGED <<state, rq, freed, altVars, timeout>>
  <2>1. state' = state /\ freed' = freed /\ alt' = alt /\ active' = active
    BY <1>9 DEF altVars
  <2>2. Becomes(p, f) /\ Inner'
    <3>1. CASE Goto(f)
      BY <1>2, <1>6, <3>1, GotoBecomes
    <3>2. CASE Call(f, HandlerFrame(act.send))
      <4> DEFINE h == HandlerFrame(act.send)
      <4>1. h.proc = NoProc /\ InnerOK(h)
        BY DEF HandlerFrame, Frame, InnerOK
      <4> HIDE DEF h
      <4>2. Call(f, h)
        BY <3>2 DEF h
      <4>3. QED BY <1>2, <1>6, <4>1, <4>2, CallBecomes
    <3>3. QED BY <1>9, <3>1, <3>2
  <2>3. Nested'
    BY <1>3, <2>1, <2>2, KeepUnused DEF Nested
  <2>4. NoProc \notin Procs
    BY RecordAssumption DEF Records
  <2>5. Types'
    BY <1>2, <1>3, <1>7, <2>1 DEF Types
  <2>6. QED BY <1>2, <1>3, <1>6, <1>7, <2>1, <2>2, <2>3, <2>4, <2>5, Resumes
<1>10. QED BY <1>4, <1>8, <1>9 DEF f

\* The rest of the RTC code readies the process for its next round.
LEMMA RestProceeds ==
  ASSUME Synchronous, ChannelInv, UrgencyInv', RtcRest
  PROVE  Proceeds
<1> DEFINE p == Top.proc
           act == Top.act
           f == [Top EXCEPT !.pc = "finish", !.act = NoAct]
<1>1. Top.pc = "rtcRest" /\ p \in Procs /\ IsFrame(Top) /\ InnerOK(Top) /\ Top.prev = NoProc /\ current = p
  BY AtProc DEF RtcRest, SchedulePcs
<1>2. /\ Local(p, Top, state[p], alt[p], active[p])
      /\ mode[p] = ModeOf(Top, state[p]) /\ reg[p] = RegOf(p, Top, state[p], active[p])
      /\ wake[p] = WakeOf(Top) /\ owes[p] = OwesOf(Top)
      /\ Types /\ Shaped /\ Cross
  BY <1>1, Here
<1>3. /\ state[p] = (IF Top.flag THEN "quiescent" ELSE "initial")
      /\ alt[p].guards \in {NoProc, p}
      /\ act.active \subseteq Branches(p) /\ act.connect \subseteq Intrs
  BY <1>1, <1>2 DEF Local, StateAt, LoopAt
<1>4. ~act.term
  <2>1. Linkage
    BY DEF ChannelInv, UrgencyInv, LinkInv
  <2>2. Len(stack) \in Frames /\ Top = stack[Len(stack)]
    BY Stacked DEF ChannelInv, UrgencyInv
  <2>3. KindOK(Top)
    BY <2>1, <2>2 DEF Linkage
  <2>4. QED BY <1>1, <2>3 DEF KindOK, StartPcs, HandlerPcs
<1>5. /\ active' = [active EXCEPT ![p] = act.active]
      /\ alt' = IF ~act.alt THEN alt
                ELSE [alt EXCEPT ![p].guards = p, ![p].index = IF p \in AltPri THEN @ ELSE NrGuards[p] - 1]
      /\ Goto(f)
      /\ UNCHANGED <<freed, chan, sent, got, timerQ>>
  BY <1>1 DEF RtcRest
<1>6. /\ ichan' = [u \in Intrs |-> IF u \in act.connect THEN [waiting |-> NoProc, count |-> 0] ELSE ichan[u]]
      /\ connected' = (connected \cup act.connect) \ act.disconnect
      /\ state' = IF Top.flag THEN state ELSE [state EXCEPT ![p] = "quiescent"]
  BY <1>1, <1>4 DEF RtcRest
<1>7. f.pc = "finish" /\ f.proc = p /\ f.prev = NoProc /\ f.partner = NoProc /\ InnerOK(f)
  BY <1>1 DEF IsFrame, InnerOK, Idling
<1> HIDE DEF f, act
<1>8. Becomes(p, f) /\ Inner'
  BY <1>1, <1>5, <1>7, GotoBecomes
<1>9. Nested'
  <2>1. timerQ' = << >> /\ freed' = {} /\ connected' \subseteq Intrs
    BY <1>3, <1>5, <1>6 DEF ChannelInv, Nested, Unused
  <2>2. ichan' \in [Intrs -> [waiting : {NoProc}, count : Int]]
    BY <1>3, <1>6 DEF ChannelInv, Nested, Unused
  <2>3. QED BY <1>8, <2>1, <2>2 DEF Nested, Unused
<1>10. /\ alt' \in [Records -> [guards : Procs \cup {NoProc}, index : Int, count : Int]]
       /\ alt'[p].guards \in {NoProc, p}
       /\ \A q \in Procs : q # p => alt'[q] = alt[q]
  <2> DEFINE R == [guards : Procs \cup {NoProc}, index : Int, count : Int]
             u == [alt[p] EXCEPT !.guards = p]
             v == [u EXCEPT !.index = IF p \in AltPri THEN @ ELSE NrGuards[p] - 1]
  <2>1. alt \in [Records -> R] /\ p \in Records /\ alt[p] \in R
    BY <1>1, <1>2 DEF Types, Records
  <2>2. NrGuards[p] \in Int
    <3>1. NrGuards[p] \in 0 .. 255
      BY <1>1, ApplicationAssumption
    <3>2. QED BY <3>1
  <2>3. u \in R /\ u.guards = p
    BY <1>1, <2>1
  <2>4. CASE ~act.alt
    BY <1>3, <1>5, <2>1, <2>4
  <2>5. CASE act.alt
    <3>1. alt' = [alt EXCEPT ![p] = v]
      BY <1>5, <2>5
    <3> HIDE DEF u
    <3>2. v \in R /\ v.guards = p
      BY <2>2, <2>3
    <3> HIDE DEF R, v
    <3>3. alt' \in [Records -> R]
      BY <2>1, <3>1, <3>2
    <3>4. alt'[p].guards \in {NoProc, p} /\ \A q \in Procs : q # p => alt'[q] = alt[q]
      BY <2>1, <3>1, <3>2
    <3>5. QED BY <3>3, <3>4 DEF R
  <2>6. QED BY <2>4, <2>5
<1>11. /\ active' \in [Procs -> SUBSET Nat] /\ active'[p] = act.active
       /\ \A q \in Procs : q # p => active'[q] = active[q]
  <2>1. active \in [Procs -> SUBSET Nat] /\ act.active \subseteq Nat
    BY <1>2, <1>3 DEF Types, Branches
  <2>2. QED BY <1>1, <1>5, <2>1
<1>12. state'[p] = "quiescent" /\ \A q \in Procs : q # p => state'[q] = state[q]
  <2>1. state \in [Records -> {state[q] : q \in Records}] /\ p \in Records
    BY <1>1 DEF ChannelInv, UrgencyInv, NoneEnds, Records
  <2>2. QED BY <1>1, <1>3, <1>6, <2>1
<1>13. Types'
  BY <1>2, <1>5, <1>10, <1>11 DEF Types
<1>14. /\ ModeOf(f, "quiescent") = "outside" /\ RegOf(p, f, "quiescent", active'[p]) = {}
       /\ WakeOf(f) = NoProc /\ OwesOf(f) = NoProc
  BY <1>7 DEF ModeOf, RegOf, WakeOf, OwesOf
<1>15. Local(p, f, state'[p], alt'[p], active'[p])
  BY <1>3, <1>7, <1>10, <1>11, <1>12, <1>14 DEF Local, StateAt, LoopAt
<1>16. Chooses(p, f, alt'[p], active'[p], reg'[p], open'[p])
  BY <1>7 DEF Chooses
<1>17. Cross'
  <2>1. /\ mode[p] = "outside" /\ reg[p] = {} /\ wake[p] = NoProc /\ owes[p] = NoProc
    BY <1>1, <1>2, <1>3 DEF ModeOf, RegOf, WakeOf, OwesOf
  <2>2. view'[p] = f /\ \A q \in Procs : q # p => view'[q] = view[q]
    BY <1>1, <1>8 DEF Becomes
  <2>3. mode'[p] = "outside" /\ reg'[p] = {} /\ wake'[p] = NoProc /\ owes'[p] = NoProc
    BY <1>1, <1>12, <1>14, <2>2 DEF mode, reg, wake, owes
  <2>4. Keeps(p)
    BY <2>1, <2>3 DEF Keeps
  <2>5. \A q \in Procs : q # p => Still(q)
    BY <1>10, <1>11, <1>12, <2>2 DEF Still
  <2>6. \A q \in Procs : Keeps(q)
    BY <2>4, <2>5, StillKeeps
  <2>7. chan' = chan /\ got' = got /\ sent' = sent
    BY <1>5
  <2>8. QED BY <1>2, <2>6, <2>7, KeepAll
<1>18. [Channels!Next]_Phase
  BY <1>5, PhaseSame
<1>19. \A q \in Procs : q # p => state'[q] = state[q] /\ active'[q] = active[q] /\ alt'[q] = alt[q]
  BY <1>10, <1>11, <1>12
<1>20. QED BY <1>1, <1>8, <1>9, <1>13, <1>15, <1>16, <1>17, <1>18, <1>19, Concludes

-----------------------------------------------------------------------------
\* main(), append() in start(), handle_signal() and the clock.

\* The innermost activation is not one of schedule().
LEMMA Bystander ==
  ASSUME ChannelInv, NEW pc \in {"main"} \cup StartPcs \cup HandlerPcs, At(pc)
  PROVE  /\ Top.pc = pc /\ IsFrame(Top) /\ Top.prev = NoProc /\ Top.proc = NoProc /\ NoProc \notin Procs
         /\ (pc = "main" => Top.fn = "main") /\ (pc # "main" => Top.fn # "main")
<1>1. Top.pc = pc /\ FrameOK(Top) /\ Len(stack) \in Frames /\ Top = stack[Len(stack)]
  BY Stacked DEF ChannelInv, UrgencyInv, At
<1>2. Top.prev # NoProc => Top.pc = "partnerRet"
  BY <1>1 DEF ChannelInv, Nested, Inner
<1>3. Top.prev = NoProc
  BY <1>1, <1>2 DEF StartPcs, HandlerPcs
<1>4. /\ IsFrame(Top) /\ (pc = "main" => Top.fn = "main") /\ (pc \in StartPcs => Top.fn = "start")
      /\ (pc \in HandlerPcs => Top.fn = "handler") /\ (Top.proc # NoProc => Top.fn = "schedule")
  BY <1>1 DEF FrameOK
<1>5. NoProc \notin Procs
  BY RecordAssumption DEF Records
<1>6. QED BY <1>1, <1>3, <1>4, <1>5

\* It goes on.
LEMMA Continues ==
  ASSUME Synchronous, ChannelInv, UrgencyInv', NEW pc \in {"main"} \cup StartPcs \cup HandlerPcs, At(pc),
         NEW f, Goto(f), f.proc = Top.proc, f.prev = NoProc, f.pc \notin Idling,
         UNCHANGED <<state, freed, alt, active, chan, ichan, connected, got, sent, timerQ>>
  PROVE  Proceeds
<1>1. InnerOK(f) /\ Top.proc \notin Procs
  BY Bystander DEF InnerOK
<1>2. view' = view /\ Inner'
  BY <1>1, GotoAside
<1>3. QED BY <1>2, Elsewhere

LEMMA StartProceeds ==
  ASSUME Synchronous, ChannelInv, UrgencyInv', StartStep
  PROVE  Proceeds
<1>1. UNCHANGED <<state, freed, alt, active, chan, ichan, connected, got, sent, timerQ>>
  BY DEF StartStep, AppendLink, AppendTail, AppendNext, AppendHead, AppendStep, altVars, ioVars, timeVars
<1>2. ASSUME NEW pc \in StartPcs, NEW next \in StartPcs, At(pc), Goto([Top EXCEPT !.pc = next])
      PROVE  Proceeds
  <2> DEFINE f == [Top EXCEPT !.pc = next]
  <2>1. f.proc = Top.proc /\ f.prev = NoProc /\ f.pc \notin Idling
    BY <1>2, Bystander DEF IsFrame, StartPcs, Idling
  <2>2. Goto(f)
    BY <1>2
  <2> HIDE DEF f
  <2>3. QED BY <1>1, <1>2, <2>1, <2>2, Continues
<1>3. CASE AppendHead
  <2>1. At("head") /\ Return
    BY <1>3 DEF AppendHead, AppendStep
  <2>2. Top.fn # "main" /\ Top.proc = NoProc
    BY <2>1, Bystander DEF StartPcs
  <2>3. view' = view /\ Inner'
    BY <2>1, <2>2, ReturnAside
  <2>4. QED BY <1>1, <2>3, Elsewhere
<1>4. QED BY <1>2, <1>3 DEF StartStep, AppendLink, AppendTail, AppendNext, AppendStep, StartPcs

\* main() starts a process while none has run.
LEMMA MainProceeds ==
  ASSUME Synchronous, ChannelInv, UrgencyInv', MainStep
  PROVE  Proceeds
<1>1. /\ Top.pc = "main" /\ IsFrame(Top) /\ Top.prev = NoProc /\ Top.proc = NoProc
      /\ NoProc \notin Procs /\ Top.fn = "main"
  BY Bystander DEF MainStep, MainStart, MainRun
<1>2. CASE MainStart
  <2> DEFINE r == MainStarts[Top.k + 1]
             f == [Top EXCEPT !.k = @ + 1]
             g == StartFrame(r)
  <2>1. r \in Procs
    <3>1. Top.k \in Nat /\ Top.k < Len(MainStarts)
      BY <1>1, <1>2, Stacked DEF MainStart, FrameOK, ChannelInv, UrgencyInv
    <3>2. QED BY <3>1, ApplicationAssumption
  <2>2. start(r, f) /\ UNCHANGED <<chan, ichan, connected, sent, got, timerQ>>
    BY <1>2 DEF MainStart, ioVars
  <2>3. f.proc = Top.proc /\ InnerOK(f) /\ g.proc = NoProc /\ InnerOK(g)
    BY <1>1 DEF IsFrame, InnerOK, Idling, StartFrame, Frame
  <2> HIDE DEF f, r, g
  <2>4. Call(f, g)
    BY <2>2 DEF start, g
  <2>5. view' = view /\ Inner'
    BY <1>1, <2>3, <2>4, PushAside
  <2>6. freed = {} /\ freed' = freed \ {r}
    BY <2>2 DEF start, ChannelInv, Nested, Unused
  <2>7. Nested'
    BY <2>2, <2>5, <2>6, KeepUnused DEF Nested
  <2>8. /\ alt' \in [Records -> [guards : Procs \cup {NoProc}, index : Int, count : Int]]
        /\ active' \in [Procs -> SUBSET Nat]
        /\ \A q \in Procs : q # r => state'[q] = state[q] /\ alt'[q] = alt[q] /\ active'[q] = active[q]
        /\ state'[r] = "initial" /\ alt'[r].guards = NoProc /\ active'[r] = {}
    BY <2>1, <2>2, StartSets
  <2>9. Types'
    BY <2>2, <2>8 DEF ChannelInv, CrossInv, Types
  <2>10. view[r] = Off /\ state[r] \in {"unstarted", "initial"}
    <3>1. ViewOK
      BY Views DEF ChannelInv
    <3>2. Frames = {1} /\ stack[1].proc = NoProc
      <4>1. Len(stack) \in Frames /\ Top = stack[Len(stack)] /\ Frames = 1 .. Len(stack)
        BY Stacked DEF ChannelInv, UrgencyInv
      <4>2. Len(stack) = 1
        BY <1>1, <4>1, Stacked DEF ChannelInv, UrgencyInv
      <4>3. QED BY <1>1, <4>1, <4>2
    <3>3. AllNew
      BY <1>1 DEF ChannelInv, UrgencyInv, Quiet, Booting
    <3>4. QED BY <1>1, <2>1, <3>1, <3>2, <3>3 DEF ViewOK, AllNew
  <2>11. \A q \in Procs : q # r => Still(q)
    BY <2>5, <2>8 DEF Still
  <2>12. chan' = chan /\ got' = got /\ sent' = sent
    BY <2>2
  <2>13. QED BY <2>5, <2>7, <2>8, <2>9, <2>10, <2>11, <2>12, SetUp
<1>3. CASE MainRun
  <2> DEFINE f == [Top EXCEPT !.pc = "returned"]
             g == ScheduleFrame(PRI_MIN - 1)
  <2>1. f.proc = Top.proc /\ InnerOK(f) /\ g.proc = NoProc /\ InnerOK(g)
    BY <1>1 DEF IsFrame, InnerOK, Idling, ScheduleFrame, Frame
  <2>2. Call(f, g) /\ UNCHANGED <<state, freed, alt, active, chan, ichan, connected, got, sent, timerQ>>
    BY <1>3 DEF MainRun, procVars, altVars, ioVars, timeVars
  <2> HIDE DEF f, g
  <2>3. view' = view /\ Inner'
    BY <1>1, <2>1, <2>2, PushAside
  <2>4. QED BY <2>2, <2>3, Elsewhere
<1>4. QED BY <1>2, <1>3 DEF MainStep

\* No process waits for an interrupt, which is counted.
LEMMA UserProceeds ==
  ASSUME Synchronous, ChannelInv, UrgencyInv', HandleUser
  PROVE  Proceeds
<1> DEFINE u == Top.src
           f == [Top EXCEPT !.pc = "exit"]
<1>1. /\ Top.pc = "user" /\ IsFrame(Top) /\ Top.prev = NoProc /\ Top.proc = NoProc /\ NoProc \notin Procs
  BY Bystander DEF HandleUser, HandlerPcs
<1>2. /\ timerQ = << >> /\ ichan \in [Intrs -> [waiting : {NoProc}, count : Int]]
      /\ connected \subseteq Intrs /\ freed = {}
  BY DEF ChannelInv, Nested, Unused
<1>3. u \in connected => ichan[u].waiting \notin Records
  BY <1>2, RecordAssumption DEF Records
<1>4. /\ ichan' = IF u \in connected THEN [ichan EXCEPT ![u].count = @ + 1] ELSE ichan
      /\ Goto(f)
      /\ UNCHANGED <<state, freed, alt, active, chan, connected, got, sent, timerQ>>
  BY <1>3 DEF HandleUser, altVars, timeVars
<1>5. f.proc = Top.proc /\ f.prev = NoProc /\ InnerOK(f)
  BY <1>1 DEF IsFrame, InnerOK, Idling
<1> HIDE DEF f
<1>6. view' = view /\ Inner'
  BY <1>1, <1>4, <1>5, GotoAside
<1>7. ichan' \in [Intrs -> [waiting : {NoProc}, count : Int]]
  <2> DEFINE v == [ichan[u] EXCEPT !.count = @ + 1]
  <2>1. CASE u \in connected
    <3>1. v \in [waiting : {NoProc}, count : Int] /\ ichan' = [ichan EXCEPT ![u] = v]
      BY <1>2, <1>4, <2>1
    <3> HIDE DEF v
    <3>2. QED BY <1>2, <3>1
  <2>2. CASE u \notin connected
    BY <1>2, <1>4, <2>2
  <2>3. QED BY <2>1, <2>2
<1>8. Nested'
  BY <1>2, <1>4, <1>6, <1>7 DEF Nested, Unused
<1>9. QED BY <1>4, <1>6, <1>8, Undisturbed

LEMMA HandlerProceeds ==
  ASSUME Synchronous, ChannelInv, UrgencyInv', HandlerStep
  PROVE  Proceeds
<1>1. CASE HandleUser
  BY <1>1, UserProceeds
<1>2. CASE HandleTimeout
  <2> DEFINE f == [Top EXCEPT !.pc = "due", !.time = Now]
  <2>1. At("timeout") /\ f.proc = Top.proc /\ f.prev = NoProc /\ f.pc \notin Idling
    BY <1>2, Bystander DEF HandleTimeout, HandlerPcs, IsFrame, Idling
  <2>2. Goto(f) /\ UNCHANGED <<state, freed, alt, active, chan, ichan, connected, got, sent, timerQ>>
    BY <1>2 DEF HandleTimeout, procVars, altVars, ioVars, timeVars
  <2> HIDE DEF f
  <2>3. "timeout" \in HandlerPcs
    BY DEF HandlerPcs
  <2>4. QED BY <2>1, <2>2, <2>3, Continues
<1>3. CASE TimeoutDue
  BY <1>3 DEF TimeoutDue, Due, ChannelInv, Nested, Unused
<1>4. CASE TimeoutRearm
  <2> DEFINE f == [Top EXCEPT !.pc = "exit"]
  <2>1. At("due") /\ f.proc = Top.proc /\ f.prev = NoProc /\ f.pc \notin Idling
    BY <1>4, Bystander DEF TimeoutRearm, HandlerPcs, IsFrame, Idling
  <2>2. Goto(f) /\ UNCHANGED <<state, freed, alt, active, chan, ichan, connected, got, sent, timerQ>>
    BY <1>4 DEF TimeoutRearm, procVars, altVars, ioVars
  <2> HIDE DEF f
  <2>3. "due" \in HandlerPcs
    BY DEF HandlerPcs
  <2>4. QED BY <2>1, <2>2, <2>3, Continues
<1>5. CASE HandlerReturn
  <2>1. UNCHANGED <<state, freed, alt, active, chan, ichan, connected, got, sent, timerQ>>
    BY <1>5 DEF HandlerReturn, altVars, ioVars, timeVars
  <2>2. ASSUME NEW pc \in HandlerPcs, NEW next \in HandlerPcs, At(pc), Goto([Top EXCEPT !.pc = next, !.prev = NoProc])
        PROVE  Proceeds
    <3> DEFINE f == [Top EXCEPT !.pc = next, !.prev = NoProc]
    <3>1. f.proc = Top.proc /\ f.prev = NoProc /\ f.pc \notin Idling
      BY <2>2, Bystander DEF IsFrame, HandlerPcs, Idling
    <3>2. Goto(f)
      BY <2>2
    <3> HIDE DEF f
    <3>3. QED BY <2>1, <2>2, <3>1, <3>2, Continues
  <2>3. QED BY <1>5, <2>2 DEF HandlerReturn, HandlerPcs
<1>6. CASE HandlerExit
  <2> DEFINE f == [Top EXCEPT !.pc = "leave"]
             g == ScheduleFrame(PriOf(current))
  <2>1. At("exit") /\ "exit" \in HandlerPcs
    BY <1>6 DEF HandlerExit, HandlerPcs
  <2>2. IsFrame(Top) /\ Top.prev = NoProc /\ Top.proc = NoProc /\ NoProc \notin Procs
    BY <2>1, Bystander
  <2>3. f.proc = Top.proc /\ f.prev = NoProc /\ f.pc \notin Idling
    BY <2>2 DEF IsFrame, Idling
  <2>4. g.proc = NoProc /\ InnerOK(g)
    BY <2>2 DEF InnerOK, Idling, ScheduleFrame, Frame
  <2>5. /\ Goto(f) \/ Call(f, g)
        /\ UNCHANGED <<state, freed, alt, active, chan, ichan, connected, got, sent, timerQ>>
    BY <1>6 DEF HandlerExit, procVars, altVars, ioVars, timeVars
  <2> HIDE DEF f, g
  <2>6. CASE Goto(f)
    BY <2>1, <2>3, <2>5, <2>6, Continues
  <2>7. CASE Call(f, g)
    <3>1. InnerOK(f)
      BY <2>3 DEF InnerOK
    <3>2. view' = view /\ Inner'
      BY <2>2, <2>3, <2>4, <2>7, <3>1, PushAside
    <3>3. QED BY <2>5, <3>2, Elsewhere
  <2>8. QED BY <2>5, <2>6, <2>7
<1>7. CASE HandlerRestore
  <2>1. At("leave") /\ Return /\ "leave" \in HandlerPcs
    BY <1>7 DEF HandlerRestore, HandlerPcs
  <2>2. Top.fn # "main" /\ Top.proc = NoProc
    BY <2>1, Bystander
  <2>3. view' = view /\ Inner'
    BY <2>1, <2>2, ReturnAside
  <2>4. UNCHANGED <<state, freed, alt, active, chan, ichan, connected, got, sent, timerQ>>
    BY <1>7 DEF HandlerRestore, procVars, altVars, ioVars, timeVars
  <2>5. QED BY <2>3, <2>4, Elsewhere
<1>8. QED BY <1>1, <1>2, <1>3, <1>4, <1>5, <1>6, <1>7 DEF HandlerStep

\* A signal is handled on top of whatever executes.
LEMMA EnvironmentProceeds ==
  ASSUME Synchronous, ChannelInv, UrgencyInv', Environment
  PROVE  Proceeds
<1>1. CASE Clock \/ AlarmFires
  <2>1. stack' = stack /\ UNCHANGED <<state, freed, alt, active, chan, ichan, connected, got, sent, timerQ>>
    BY <1>1 DEF Clock, AlarmFires, procVars, altVars, ioVars, cpuVars
  <2>2. view' = view /\ Inner'
    BY <2>1, SameStack DEF ChannelInv, Nested
  <2>3. QED BY <2>1, <2>2, Elsewhere
<1>2. ASSUME NEW src, Interrupt(src)
      PROVE  Proceeds
  <2> DEFINE f == Top
             g == HandlerFrame(src)
  <2>1. stack' = Append(stack, g) /\ UNCHANGED <<state, freed, alt, active, chan, ichan, connected, got, sent, timerQ>>
    BY <1>2 DEF Interrupt, procVars, altVars, ioVars
  <2>2. g.proc = NoProc /\ InnerOK(g)
    BY DEF HandlerFrame, Frame, InnerOK, Idling
  <2>3. InnerOK(Top)
    BY Stacked DEF ChannelInv, UrgencyInv, Nested, Inner, InnerOK, Idling
  <2> HIDE DEF g
  <2>4. view' = view /\ Inner'
    BY <2>1, <2>2, <2>3, PushAside
  <2>5. QED BY <2>1, <2>4, Elsewhere
<1>3. QED BY <1>1, <1>2 DEF Environment, ElapsedInterrupt, TimeoutInterrupt, UserInterrupt

-----------------------------------------------------------------------------
\* The theorems.

LEMMA InitChannels ==
  ASSUME Synchronous, UrgencyInv, Init
  PROVE  ChannelInv /\ Channels!Init
<1> DEFINE f == Frame("main", "main", 0, None)
<1>1. stack = <<f>> /\ f.proc = NoProc /\ f.prev = NoProc /\ f.pc = "main"
  BY DEF Init, Frame
<1> HIDE DEF f
<1>2. Frames = {1} /\ stack[1] = f /\ NoProc \notin Procs
  BY <1>1, RecordAssumption DEF Frames, Records
<1>3. \A p \in Procs : view[p] = Off
  <2>1. ViewOK
    BY Views
  <2>2. \A p \in Procs : \A n \in Frames : stack[n].proc # p
    BY <1>1, <1>2
  <2>3. QED BY <2>1, <2>2 DEF ViewOK
<1>4. Nested
  <2>1. Inner
    BY <1>1, <1>2 DEF Inner
  <2>2. timerQ = << >> /\ connected = {} /\ freed = {}
    BY DEF Init
  <2>3. ichan \in [Intrs -> [waiting : {NoProc}, count : Int]]
    BY DEF Init
  <2>4. QED BY <2>1, <2>2, <2>3 DEF Nested, Unused
<1>5. /\ \A p \in Procs : state[p] = "unstarted" /\ active[p] = {} /\ alt[p].guards = NoProc
      /\ \A c \in Chans : chan[c].waiting = NoProc /\ sent[c] = 0 /\ got[c] = 0
  BY <1>2, PriOfLevel DEF Init, Records
<1>6. Off.pc = "off"
  BY DEF Off, Frame
<1>7. \A p \in Procs : mode[p] = "outside" /\ reg[p] = {} /\ wake[p] = NoProc /\ owes[p] = NoProc
  BY <1>3, <1>5, <1>6 DEF mode, reg, wake, owes, ModeOf, RegOf, WakeOf, OwesOf
<1>8. LocalInv
  <2> SUFFICES ASSUME NEW p \in Procs
               PROVE  /\ Local(p, view[p], state[p], alt[p], active[p])
                      /\ Chooses(p, view[p], alt[p], active[p], reg[p], open[p])
    BY DEF LocalInv
  <2>1. ModeOf(Off, state[p]) = "outside"
    BY <1>5, <1>6 DEF ModeOf
  <2>2. Local(p, Off, state[p], alt[p], active[p])
    BY <1>5, <1>6, <2>1 DEF Local, StateAt, LoopAt
  <2>3. QED BY <1>3, <1>6, <2>2 DEF Chooses
<1>9. Types
  <2>1. /\ chan = [c \in Chans |-> [waiting |-> NoProc, src |-> NoProc]]
        /\ alt = [p \in Records |-> [guards |-> NoProc, index |-> 0, count |-> 0]]
        /\ active = [p \in Procs |-> {}]
    BY DEF Init
  <2>2. sent = [c \in Chans |-> 0] /\ got = [c \in Chans |-> 0] /\ 0 \in 0 .. MsgMod - 1
    BY ApplicationAssumption DEF Init
  <2>3. chan \in [Chans -> [waiting : Procs \cup {NoProc}, src : Procs \cup {NoProc}]]
    BY <2>1
  <2>4. alt \in [Records -> [guards : Procs \cup {NoProc}, index : Int, count : Int]]
    BY <2>1
  <2>5. QED BY <2>1, <2>2, <2>3, <2>4 DEF Types
<1>10. Cross
  BY <1>5, <1>7 DEF Cross, ReadyInv, OfferInv, ListenInv, WaitingInv, TakenInv, WakesInv
<1>11. \A c \in Chans : Phase[c] = "idle"
  <2> SUFFICES ASSUME NEW c \in Chans
               PROVE  Phase[c] = "idle"
    OBVIOUS
  <2>1. (got[c] - sent[c]) % MsgMod = 0
    <3>1. (0 - 0) % MsgMod = 0
      BY PlusOne, ApplicationAssumption
    <3>2. QED BY <1>5, <3>1
  <2>2. chan[c].waiting # Sender(c)
    BY <1>5, PointToPoint
  <2>3. QED BY <2>1, <2>2 DEF Phase
<1>12. Channels!Init
  BY <1>11 DEF Channels!Init, Phase
<1>13. QED BY <1>4, <1>8, <1>9, <1>10, <1>12 DEF ChannelInv, CrossInv, Cross

LEMMA NextChannels ==
  ASSUME Synchronous, ChannelInv, UrgencyInv', [Next]_vars
  PROVE  ChannelInv' /\ [Channels!Next]_Phase
<1>1. Proceeds
  <2>1. CASE MainStep
    BY <2>1, MainProceeds
  <2>2. CASE StartStep
    BY <2>2, StartProceeds
  <2>3. CASE ScheduleStep
    BY <2>3, SelectProceeds, TakeProceeds, LoadProceeds, FinishProceeds, PartnerProceeds,
       WakeProceeds DEF ScheduleStep
  <2>4. CASE RtcStep
    BY <2>4, EnterProceeds, RestProceeds DEF RtcStep
  <2>5. CASE EnableStep
    BY <2>5, EnableProceeds
  <2>6. CASE DisableStep
    BY <2>6, DisableProceeds
  <2>7. CASE HandlerStep
    BY <2>7, HandlerProceeds
  <2>8. CASE Environment
    BY <2>8, EnvironmentProceeds
  <2>9. CASE UNCHANGED vars
    <3>1. stack' = stack /\ UNCHANGED <<state, freed, alt, active, chan, ichan, connected, got, sent, timerQ>>
      BY <2>9 DEF vars, procVars, altVars, ioVars, timeVars, cpuVars
    <3>2. view' = view /\ Inner'
      BY <3>1, SameStack DEF ChannelInv, Nested
    <3>3. QED BY <3>1, <3>2, Elsewhere
  <2>10. CASE DISABLE \/ SigReturn
    <3>1. stack' = stack /\ UNCHANGED <<state, freed, alt, active, chan, ichan, connected, got, sent, timerQ>>
      BY <2>10 DEF DISABLE, SigReturn, procVars, altVars, ioVars, timeVars, cpuVars
    <3>2. view' = view /\ Inner'
      BY <3>1, SameStack DEF ChannelInv, Nested
    <3>3. QED BY <3>1, <3>2, Elsewhere
  <2>11. QED BY <2>1, <2>2, <2>3, <2>4, <2>5, <2>6, <2>7, <2>8, <2>9, <2>10 DEF Next, CpuStep
<1>2. QED BY <1>1 DEF Proceeds, ChannelInv

\* In a synchronous application the whole invariant holds.
THEOREM ChannelInvariant == Synchronous /\ Spec => []ChannelInv
<1>1. Synchronous => Orderly
  BY DEF Synchronous
<1>2. Orderly /\ Spec => []UrgencyInv
  BY UrgencyInvariant
<1>3. Synchronous /\ UrgencyInv /\ Init => ChannelInv
  BY InitChannels
<1>4. Synchronous /\ ChannelInv /\ UrgencyInv' /\ [Next]_vars => ChannelInv'
  BY NextChannels
<1>5. Synchronous => Synchronous'
  BY DEF Synchronous, Orderly, PriOf
<1> HIDE DEF Synchronous, Orderly, ChannelInv, UrgencyInv
<1>6. QED BY <1>1, <1>2, <1>3, <1>4, <1>5, PTL DEF Spec

\* The channels are synchronous rendezvous (ImplementsRendezvous): a writer
\* offers a message, its reader takes it, and only then does the writer go on
\* (enable_channel_output(), disable_channel_input(), the transfer in
\* disable_alt(), the resumption of the writer in schedule()).
THEOREM ImplementsRendezvousHolds == Synchronous /\ Spec => ImplementsRendezvous
<1>1. Synchronous => Orderly
  BY DEF Synchronous
<1>2. Orderly /\ Spec => []UrgencyInv
  BY UrgencyInvariant
<1>3. Synchronous /\ Spec => []ChannelInv
  BY ChannelInvariant
<1>4. Synchronous /\ UrgencyInv /\ Init => Channels!Init
  BY InitChannels
<1>5. Synchronous /\ ChannelInv /\ UrgencyInv' /\ [Next]_vars => [Channels!Next]_Phase
  BY NextChannels
<1>6. Synchronous => Synchronous'
  BY DEF Synchronous, Orderly, PriOf
<1> HIDE DEF Synchronous, Orderly, ChannelInv, UrgencyInv
<1>7. QED BY <1>1, <1>2, <1>3, <1>4, <1>5, <1>6, PTL DEF Spec, ImplementsRendezvous, Channels!Spec

\* The process about to run its RTC code wakes the writer of the message that it
\* has taken, and nobody else (PartnerIsWriter): the partner that disable_alt()
\* returns is the one that disable_channel_input() found last, and that was for
\* the branch selected.
THEOREM PartnerIsWriterHolds == Synchronous /\ Spec => []PartnerIsWriter
<1>1. Synchronous /\ ChannelInv => PartnerIsWriter
  <2> SUFFICES ASSUME Synchronous, ChannelInv, fault = "none", Top.pc = "partner", Top.flag, Top.partner # NoProc
               PROVE  LET g == GuardOf(Top.proc, alt[Top.proc].index)
                      IN  g.type = "chanin" /\ Top.partner = Sender(g.ch)
    BY DEF PartnerIsWriter
  <2> DEFINE p == Top.proc
  <2>1. p \in Procs
    BY Stacked DEF ChannelInv, UrgencyInv, FrameOK, SchedulePcs
  <2>2. /\ Local(p, Top, state[p], alt[p], active[p])
        /\ Chooses(p, Top, alt[p], active[p], reg[p], open[p])
    BY <2>1, Here
  <2>3. alt[p].guards = p
    BY <2>2 DEF Local, StateAt, ModeOf
  <2>4. Top.partner = IF Guards[p][alt[p].index].type = "chanin"
                      THEN Sender(Guards[p][alt[p].index].ch) ELSE NoProc
    BY <2>2 DEF Chooses
  <2>5. QED BY <2>3, <2>4 DEF GuardOf
<1>2. Synchronous => Synchronous'
  BY DEF Synchronous, Orderly, PriOf
<1>3. QED BY <1>1, <1>2, ChannelInvariant, PTL

\* disable_alt() selects an active branch that is ready (SelectsReady), whatever
\* the order in which it finds them.
THEOREM SelectsReadyHolds == Synchronous /\ Spec => []SelectsReady
<1>1. Synchronous /\ ChannelInv => SelectsReady
  <2> SUFFICES ASSUME Synchronous, ChannelInv, fault = "none", Top.pc = "disable", Top.k < 0
               PROVE  alt[Top.proc].index \in active[Top.proc] /\ GuardReady(Top.proc, alt[Top.proc].index)
    BY DEF SelectsReady
  <2> DEFINE p == Top.proc
  <2>1. p \in Procs
    BY Stacked DEF ChannelInv, UrgencyInv, FrameOK, SchedulePcs
  <2>2. /\ Local(p, Top, state[p], alt[p], active[p])
        /\ Chooses(p, Top, alt[p], active[p], reg[p], open[p])
        /\ reg[p] = RegOf(p, Top, state[p], active[p])
    BY <2>1, Here
  <2>3. Top.k = -1 /\ Top.i \in Branches(p)
    <3>1. Top.k \in -1 .. NrGuards[p] - 1 /\ Top.i \in Branches(p)
      BY <2>2 DEF Local, LoopAt
    <3>2. NrGuards[p] \in 0 .. 255
      BY <2>1, ApplicationAssumption
    <3>3. QED BY <3>1, <3>2
  <2>4. reg[p] = {}
    <3>1. ToVisit(Top.i, -1, p) = {}
      BY <2>1, <2>3, Loops
    <3>2. QED BY <2>2, <2>3, <3>1 DEF RegOf
  <2>5. alt[p].index \in active[p] \cap open[p]
    BY <2>2, <2>4 DEF Chooses
  <2>6. QED BY <2>1, <2>5 DEF open
<1>2. Synchronous => Synchronous'
  BY DEF Synchronous, Orderly, PriOf
<1>3. QED BY <1>1, <1>2, ChannelInvariant, PTL

\* A process waits for no branch that is ready, unless its partner is about to
\* wake it (NoLostWakeup): no wakeup falls between enable_alt() and the wait.
THEOREM NoLostWakeupHolds == Synchronous /\ Spec => []NoLostWakeup
<1>1. Synchronous /\ ChannelInv => NoLostWakeup
  <2> SUFFICES ASSUME Synchronous, ChannelInv, NEW p \in Procs, state[p] = "waiting", ~OnCpu(p), ~WakePending(p),
                      NEW i \in active[p], GuardReady(p, i)
               PROVE  FALSE
    BY DEF NoLostWakeup
  <2>1. ViewOK /\ LocalInv /\ CrossInv /\ p # NoProc
    BY Views, RecordAssumption DEF ChannelInv, Records
  <2>2. view[p] = Off /\ Off.pc = "off"
    BY <2>1 DEF ViewOK, OnCpu, Off, Frame
  <2>3. mode[p] = "waiting" /\ reg[p] = active[p]
    BY <2>2 DEF mode, reg, ModeOf, RegOf
  <2>4. Local(p, view[p], state[p], alt[p], active[p])
    BY <2>1 DEF LocalInv
  <2>5. i \in Branches(p) /\ Guards[p][i].type # "skip"
    BY <2>2, <2>3, <2>4 DEF Local, ModeOf, RegOf
  <2>6. ASSUME NEW q \in Procs, wake[q] = p \/ owes[q] = p
        PROVE  FALSE
    <3>1. view[q].partner = p /\ view[q].pc # "partnerRet"
      BY <2>1, <2>6 DEF wake, owes, WakeOf, OwesOf
    <3>2. \E n \in Frames : stack[n].proc = q
      BY <2>1, <3>1 DEF ViewOK, Off, Frame
    <3>3. QED BY <2>1, <3>1, <3>2 DEF ViewOK, WakePending
  <2>7. CASE \E c \in Chans : Reads(p, i, c)
    <3>1. PICK c \in Chans : Reads(p, i, c)
      BY <2>7
    <3>2. chan[c].waiting = Sender(c) /\ Sender(c) # p
      BY <3>1, PointToPoint DEF GuardReady, Reads
    <3>3. \E q \in Procs : wake[q] = p
      BY <2>1, <2>3, <3>1, <3>2 DEF CrossInv, ListenInv
    <3>4. QED BY <2>6, <3>3
  <2>8. CASE \E c \in Chans : Writes(p, i, c)
    <3>1. PICK c \in Chans : Writes(p, i, c)
      BY <2>8
    <3>2. got[c] # sent[c] /\ Sender(c) = p
      BY <3>1, PointToPoint DEF GuardReady, Writes
    <3>3. \E q \in Procs : owes[q] = p
      BY <2>1, <2>3, <3>2 DEF CrossInv, TakenInv
    <3>4. QED BY <2>6, <3>3
  <2>9. QED BY <2>5, <2>7, <2>8, PointToPoint
<1>2. Synchronous => Synchronous'
  BY DEF Synchronous, Orderly, PriOf
<1>3. QED BY <1>1, <1>2, ChannelInvariant, PTL
=============================================================================
