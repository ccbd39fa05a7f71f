---------------------------- MODULE WakeupProofs ----------------------------
(***************************************************************************)
(* No process gets lost between the event it waits for and its run: in an  *)
(* application that is Wired nobody waits for an interrupt that has come,  *)
(* in one that is Reactive nobody waits at all while a guard is ready, and *)
(* disable_alt() selects a ready one; and the ready queues lose nobody, in *)
(* an application that is Orderly, as long as append() is called the way   *)
(* it expects.                                                             *)
(***************************************************************************)
EXTENDS AltProofs, SequenceTheorems

-----------------------------------------------------------------------------
\* Waiting for interrupts.

\* Guard i of p is fed by interrupt u.
Feeds(u, p, i) == i \in Branches(p) /\ Guards[p][i].type = "interrupt" /\ Guards[p][i].ch = u

\* Guard i of p is no SKIP, and if it is fed by an interrupt, p waits in the
\* interrupt's channel, where nothing is counted.
Silent(p, i, ic) ==
  /\ Guards[p][i].type # "skip"
  /\ \A u \in Intrs : Feeds(u, p, i) => ic[u].waiting = p /\ ic[u].count = 0

Unready == {"enabling", "waiting"}

\* What holds of process p that is not ready yet: its enabled guards are silent,
\* and all of them are enabled before it waits.
Waits(p, a, s, al, on, ic) ==
  /\ s \in Unready => \A i \in on : Engaged(p, i, a, s, al) => Silent(p, i, ic)
  /\ s = "waiting" => \A i \in Branches(p) : Engaged(p, i, a, s, al)
  /\ a.pc = "rtcRest" => \A u \in a.act.connect : \E i \in Branches(p) : Feeds(u, p, i)

WaitInv == \A p \in Procs : Waits(p, view[p], state[p], alt[p], active[p], ichan)

\* An interrupt channel changes only for process p.
OwnChanges(p) == \A u \in Intrs : ichan'[u] = ichan[u] \/ \E i \in Branches(p) : Feeds(u, p, i)

LEMMA SameSilent ==
  ASSUME NEW q, NEW i, Silent(q, i, ichan), \A u \in Intrs : Feeds(u, q, i) => ichan'[u] = ichan[u]
  PROVE  Silent(q, i, ichan')
<1> DEFINE ic == ichan
           id == ichan'
<1>1. Silent(q, i, ic) /\ \A u \in Intrs : Feeds(u, q, i) => id[u] = ic[u]
  OBVIOUS
<1> HIDE DEF ic, id
<1>2. Silent(q, i, id)
  BY <1>1 DEF Silent
<1>3. QED BY <1>2 DEF id

LEMMA OwnSilent ==
  ASSUME Wired, NEW p \in Procs, NEW q \in Procs, q # p, OwnChanges(p), NEW i \in Branches(q), Silent(q, i, ichan)
  PROVE  Silent(q, i, ichan')
<1>1. ASSUME NEW u \in Intrs, Feeds(u, q, i)
      PROVE  ichan'[u] = ichan[u]
  BY <1>1 DEF OwnChanges, Wired, Feeds
<1>2. QED BY <1>1, SameSilent

\* A process that a step does not move waits on, or is made ready.
LEMMA StaysWaiting ==
  ASSUME NEW q \in Procs, Waits(q, view[q], state[q], alt[q], active[q], ichan), Kept(q), view'[q] = view[q],
         active[q] \subseteq Branches(q),
         state'[q] \in Unready => \A i \in active[q] : Silent(q, i, ichan) => Silent(q, i, ichan')
  PROVE  Waits(q, view'[q], state'[q], alt'[q], active'[q], ichan')
<1> DEFINE a == view[q]
           ic == ichan
           id == ichan'
           s == state[q]
           t == state'[q]
<1>1. alt'[q] = alt[q] /\ active'[q] = active[q] /\ (t = s \/ t = "ready")
  BY DEF Kept
<1>2. Waits(q, a, s, alt[q], active[q], ic)
  OBVIOUS
<1>3. t \in Unready => \A i \in active[q] : Silent(q, i, ic) => Silent(q, i, id)
  OBVIOUS
<1> HIDE DEF a, ic, id, s, t
<1>4. Waits(q, a, t, alt[q], active[q], id)
  BY <1>1, <1>2, <1>3 DEF Waits, Unready
<1>5. QED BY <1>1, <1>4 DEF a, t, id

LEMMA AsideWaits ==
  ASSUME AltInv, WaitInv, Aside,
         \A q \in Procs : state'[q] \in Unready => \A i \in active[q] : Silent(q, i, ichan) => Silent(q, i, ichan')
  PROVE  WaitInv'
<1>1. \A q \in Procs : Kept(q) /\ view'[q] = view[q]
  BY DEF Aside
<1>2. \A q \in Procs : active[q] \subseteq Branches(q)
  BY DEF AltInv, Fits, AltFits
<1>3. ASSUME NEW q \in Procs
      PROVE  Waits(q, view'[q], state'[q], alt'[q], active'[q], ichan')
  <2>1. Waits(q, view[q], state[q], alt[q], active[q], ichan)
    BY DEF WaitInv
  <2>2. QED BY <1>1, <1>2, <2>1, StaysWaiting
<1>4. QED BY <1>3, Zenon DEF WaitInv

\* Process p executes.
LEMMA RunsWaits ==
  ASSUME Wired, AltInv, WaitInv, NEW p \in Procs, NEW a, Runs(p, a), OwnChanges(p),
         Waits(p, a, state'[p], alt'[p], active'[p], ichan')
  PROVE  WaitInv'
<1>1. view'[p] = a /\ \A q \in Procs : q # p => Kept(q) /\ view'[q] = view[q]
  BY DEF Runs
<1>2. \A q \in Procs : active[q] \subseteq Branches(q)
  BY DEF AltInv, Fits, AltFits
<1>3. ASSUME NEW q \in Procs
      PROVE  Waits(q, view'[q], state'[q], alt'[q], active'[q], ichan')
  <2>1. CASE q = p
    BY <1>1, <2>1
  <2>2. CASE q # p
    <3>1. Waits(q, view[q], state[q], alt[q], active[q], ichan)
      BY DEF WaitInv
    <3>2. \A i \in active[q] : Silent(q, i, ichan) => Silent(q, i, ichan')
      BY <1>2, <2>2, OwnSilent
    <3>3. QED BY <1>1, <1>2, <2>2, <3>1, <3>2, StaysWaiting
  <2>3. QED BY <2>1, <2>2
<1>4. QED BY <1>3, Zenon DEF WaitInv

\* The same, where p goes on with the same guards.
LEMMA OnWaits ==
  ASSUME Wired, AltInv, WaitInv, NEW p \in Procs, NEW a, Runs(p, a), UNCHANGED <<active, ichan>>, a.pc # "rtcRest",
         \A i \in Branches(p) : Engaged(p, i, view[p], state[p], alt[p]) <=> Engaged(p, i, a, state'[p], alt'[p]),
         state'[p] \in {state[p], "ready"}
  PROVE  WaitInv'
<1>1. OwnChanges(p) /\ active[p] \subseteq Branches(p)
  BY DEF OwnChanges, AltInv, Fits, AltFits
<1> DEFINE b == view[p]
           s == state[p]
           t == state'[p]
           al == alt[p]
           am == alt'[p]
<1>2. Waits(p, b, s, al, active[p], ichan) /\ t \in {s, "ready"}
      /\ \A i \in Branches(p) : Engaged(p, i, b, s, al) <=> Engaged(p, i, a, t, am)
  BY DEF WaitInv
<1> HIDE DEF b, s, t, al, am
<1>3. Waits(p, a, t, am, active[p], ichan)
  BY <1>1, <1>2 DEF Waits, Unready
<1>4. active'[p] = active[p] /\ ichan' = ichan
  OBVIOUS
<1>5. QED BY <1>1, <1>3, <1>4, RunsWaits DEF t, am

\* Or is ready, or quiescent.
LEMMA AwakeWaits ==
  ASSUME Wired, AltInv, WaitInv, NEW p \in Procs, NEW a, Runs(p, a), OwnChanges(p), a.pc # "rtcRest",
         state'[p] \notin Unready
  PROVE  WaitInv'
<1>1. Waits(p, a, state'[p], alt'[p], active'[p], ichan')
  BY DEF Waits, Unready
<1>2. QED BY <1>1, RunsWaits

\* enable_alt() passes guard i: it is not active, or is silent.
LEMMA PassWaits ==
  ASSUME Wired, AltInv, WaitInv, NEW p \in Procs, NEW a, Runs(p, a), OwnChanges(p), UNCHANGED <<state, active>>,
         p = Top.proc, Top.pc \in {"enable", "insert"}, Top.k \in Branches(p), Top.i \in Branches(p),
         a.pc = "enable", a.i = plus1_mod(Top.i, NrGuards[p]), a.k = Top.k + 1,
         Top.i \in active[p] => Silent(p, Top.i, ichan'),
         \A i \in active[p] : i # Top.i /\ Silent(p, i, ichan) => Silent(p, i, ichan')
  PROVE  WaitInv'
<1> DEFINE s == state[p]
           al == alt[p]
           am == alt'[p]
           id == ichan'
           ic == ichan
           b == Top
<1>1. view[p] = b /\ s \in {"enabling", "ready"} /\ active[p] \subseteq Branches(p)
  <2>1. AltFits(p, Top, state[p], alt[p], active[p], timeout[p]) /\ view[p] = Top
    BY Here
  <2>2. QED BY <2>1 DEF AltFits, StateFits
<1>2. Waits(p, b, s, al, active[p], ic)
  BY <1>1 DEF WaitInv
<1>3. /\ b.i \in active[p] => Silent(p, b.i, id)
      /\ \A i \in active[p] : i # b.i /\ Silent(p, i, ic) => Silent(p, i, id)
  OBVIOUS
<1>4. \A i : i \in Visited(a.i, a.k, p) <=> i \in Visited(b.i, b.k, p) \/ i = b.i
  BY Loops
<1>5. b.pc \in {"enable", "insert"} /\ a.pc = "enable"
  OBVIOUS
<1> HIDE DEF s, al, am, id, ic, b
<1>6. \A i \in active[p] : Engaged(p, i, a, s, am) => i = b.i \/ Engaged(p, i, b, s, al)
  BY <1>1, <1>4, <1>5 DEF Engaged
<1>7. Waits(p, a, s, am, active[p], id)
  BY <1>1, <1>2, <1>3, <1>5, <1>6 DEF Waits, Unready
<1>8. Waits(p, a, state'[p], alt'[p], active'[p], ichan')
  BY <1>7 DEF s, am, id
<1>9. QED BY <1>8, RunsWaits

\* enable_alt() leaves its loop at a ready guard.
LEMMA FoundWaits ==
  ASSUME Wired, AltInv, WaitInv, NEW p \in Procs, NEW a, Runs(p, a), UNCHANGED <<state, active, ichan>>,
         p = Top.proc, Top.pc = "enable", a.pc = "enabled", a.i = Top.i, a.k = Top.k, a.flag
  PROVE  WaitInv'
<1>1. view[p] = Top
  BY Here
<1>2. \A i \in Branches(p) : Engaged(p, i, Top, state[p], alt[p]) <=> Engaged(p, i, a, state'[p], alt'[p])
  BY DEF Engaged
<1>3. QED BY <1>1, <1>2, OnWaits

LEMMA EnableFrame ==
  ASSUME AltInv, Top.proc \in Procs, HasAlt(Top.proc, alt[Top.proc]), Top.pc = "enable", NEW w,
         NEW f, f = Top \/ f = [Top EXCEPT !.partner = w]
  PROVE  /\ NextGuard(f).pc = "enable" /\ NextGuard(f).i = plus1_mod(Top.i, NrGuards[Top.proc])
         /\ NextGuard(f).k = Top.k + 1
         /\ Ready(f).pc = "enabled" /\ Ready(f).i = Top.i /\ Ready(f).k = Top.k /\ Ready(f).flag
<1>1. Size(Top.proc) = NrGuards[Top.proc] /\ IsFrame(Top)
  BY Guarded, Here
<1> DEFINE b == Top
           g == [b EXCEPT !.partner = w]
<1>2. /\ NextGuard(b).pc = b.pc /\ NextGuard(b).i = plus1_mod(b.i, Size(b.proc)) /\ NextGuard(b).k = b.k + 1
      /\ NextGuard(g).pc = b.pc /\ NextGuard(g).i = plus1_mod(b.i, Size(b.proc)) /\ NextGuard(g).k = b.k + 1
      /\ Ready(b).pc = "enabled" /\ Ready(b).i = b.i /\ Ready(b).k = b.k /\ Ready(b).flag
      /\ Ready(g).pc = "enabled" /\ Ready(g).i = b.i /\ Ready(g).k = b.k /\ Ready(g).flag
  BY <1>1, LoopFrames
<1>3. f = b \/ f = g
  OBVIOUS
<1> HIDE DEF g
<1>4. QED BY <1>1, <1>2, <1>3

\* The steps of enable_alt() that leave the interrupt channels alone.
LEMMA EnableWaits ==
  ASSUME Wired, AltInv, WaitInv, UrgencyInv', EnableInactive \/ EnableChanIn \/ EnableChanOut \/ EnableSkip
  PROVE  WaitInv'
<1> DEFINE p == Top.proc
<1>1. At("enable") /\ Top.k < Size(p) /\ UNCHANGED <<state, active, ichan>>
  BY DEF EnableInactive, EnableChanIn, EnableChanOut, EnableSkip, Enabling, procVars, altVars, ioVars
<1>2. p \in Procs /\ HasAlt(p, alt[p]) /\ Top.pc = "enable" /\ Top.i \in Branches(p) /\ Top.k \in Branches(p)
  BY <1>1, EnableFacts DEF At
<1>3. CASE EnableInactive
  <2>1. Runs(p, NextGuard(Top)) /\ Top.i \notin active[p]
    BY <1>3, EnableInactiveInv
  <2>2. QED BY <1>1, <1>2, <2>1, EnableFrame, PassWaits DEF OwnChanges
<1>4. CASE EnableSkip
  <2>1. Runs(p, Ready(Top))
    BY <1>4, EnableSkipInv
  <2>2. QED BY <1>1, <1>2, <2>1, EnableFrame, FoundWaits
<1>5. CASE EnableChanIn \/ EnableChanOut
  <2>1. Silent(p, Top.i, ichan') /\ OwnChanges(p)
    <3>1. Guards[p][Top.i].type \in {"chanin", "chanout"}
      <4>1. Enabling("chanin") \/ Enabling("chanout")
        BY <1>5 DEF EnableChanIn, EnableChanOut
      <4>2. QED BY <4>1, EnablingFacts
    <3>2. QED BY <1>1, <3>1 DEF Silent, Feeds, OwnChanges
  <2>2. \E w : LET g == [Top EXCEPT !.partner = w]
               IN  Runs(p, NextGuard(Top)) \/ Runs(p, NextGuard(g)) \/ Runs(p, Ready(g))
    BY <1>5, EnableChanInInv, EnableChanOutInv, Zenon
  <2>3. PICK w : LET g == [Top EXCEPT !.partner = w]
                 IN  Runs(p, NextGuard(Top)) \/ Runs(p, NextGuard(g)) \/ Runs(p, Ready(g))
    BY <2>2
  <2> DEFINE g == [Top EXCEPT !.partner = w]
  <2>4. ASSUME NEW f \in {Top, g}, Runs(p, NextGuard(f))
        PROVE  WaitInv'
    <3>1. NextGuard(f).pc = "enable" /\ NextGuard(f).i = plus1_mod(Top.i, NrGuards[p]) /\ NextGuard(f).k = Top.k + 1
      BY <1>2, EnableFrame
    <3>2. QED BY <1>1, <1>2, <2>1, <2>4, <3>1, PassWaits
  <2>5. ASSUME Runs(p, Ready(g))
        PROVE  WaitInv'
    <3>1. Ready(g).pc = "enabled" /\ Ready(g).i = Top.i /\ Ready(g).k = Top.k /\ Ready(g).flag
      BY <1>2, EnableFrame
    <3>2. QED BY <1>1, <1>2, <2>5, <3>1, FoundWaits
  <2>6. QED BY <2>3, <2>4, <2>5
<1>6. QED BY <1>3, <1>4, <1>5

LEMMA Registers ==
  ASSUME AltInv, NEW u \in Intrs, NEW w, ichan' = [ichan EXCEPT ![u].waiting = w]
  PROVE  /\ ichan'[u].waiting = w /\ ichan'[u].count = ichan[u].count
         /\ \A v \in Intrs : v # u => ichan'[v] = ichan[v]
<1>1. ichan \in [Intrs -> [waiting : Alting \cup {NoProc}, count : Nat]]
  BY DEF AltInv, WaiterTypes
<1>2. QED BY <1>1

\* enable_interrupt_channel() tests the count and registers the process in one
\* section with interrupts disabled.
LEMMA EnableIntrWaits ==
  ASSUME Wired, AltInv, WaitInv, UrgencyInv', EnableIntr
  PROVE  WaitInv'
<1> DEFINE p == Top.proc
           u == Guards[p][Top.i].ch
<1>1. /\ p \in Procs /\ Top.pc = "enable" /\ Top.i \in Branches(p) /\ Top.k \in Branches(p) /\ current = p
      /\ GuardOf(p, Top.i) = Guards[p][Top.i] /\ Guards[p][Top.i].type = "interrupt" /\ HasAlt(p, alt[p]) /\ u \in Intrs
  <2>1. Enabling("interrupt")
    BY DEF EnableIntr
  <2>2. At("enable")
    BY <2>1 DEF Enabling
  <2>3. QED BY <2>1, <2>2, EnablingFacts, EnableFacts, GuardFacts
<1>2. \/ /\ Runs(p, NextGuard(Top)) /\ ichan[u].count = 0
         /\ ichan' = [ichan EXCEPT ![u].waiting = p]
      \/ Runs(p, Ready(Top)) /\ ichan' = ichan
  BY EnableIntrInv, Zenon
<1>3. UNCHANGED <<state, active>>
  BY DEF EnableIntr, procVars, altVars
<1> HIDE DEF u
<1>4. CASE Runs(p, NextGuard(Top)) /\ ichan[u].count = 0 /\ ichan' = [ichan EXCEPT ![u].waiting = p]
  <2>1. /\ ichan'[u].waiting = p /\ ichan'[u].count = 0
        /\ \A v \in Intrs : v # u => ichan'[v] = ichan[v]
    BY <1>1, <1>4, Registers
  <2>2. OwnChanges(p)
    BY <1>1, <2>1 DEF OwnChanges, Feeds, u
  <2>3. Silent(p, Top.i, ichan')
    BY <1>1, <2>1 DEF Silent, Feeds, u
  <2>4. ASSUME NEW i \in active[p], Silent(p, i, ichan)
        PROVE  Silent(p, i, ichan')
    <3> DEFINE id == ichan'
    <3>1. id[u].waiting = p /\ id[u].count = 0 /\ \A v \in Intrs : v # u => id[v] = ichan[v]
      BY <2>1
    <3> HIDE DEF id
    <3>2. Silent(p, i, id)
      BY <2>4, <3>1 DEF Silent
    <3>3. QED BY <3>2 DEF id
  <2>5. NextGuard(Top).pc = "enable" /\ NextGuard(Top).i = plus1_mod(Top.i, NrGuards[p]) /\ NextGuard(Top).k = Top.k + 1
    BY <1>1, EnableFrame
  <2>6. Runs(p, NextGuard(Top))
    BY <1>4
  <2>7. QED BY <1>1, <1>3, <2>2, <2>3, <2>4, <2>5, <2>6, PassWaits
<1>5. CASE Runs(p, Ready(Top)) /\ ichan' = ichan
  <2>1. Ready(Top).pc = "enabled" /\ Ready(Top).i = Top.i /\ Ready(Top).k = Top.k /\ Ready(Top).flag
    BY <1>1, EnableFrame
  <2>2. QED BY <1>1, <1>3, <1>5, <2>1, FoundWaits
<1>6. QED BY <1>2, <1>4, <1>5, Zenon

LEMMA EnableRestWaits ==
  ASSUME Wired, AltInv, WaitInv, UrgencyInv', EnableBegin \/ EnableTimeout \/ EnableInsert \/ EnableEnd
  PROVE  WaitInv'
<1> DEFINE p == Top.proc
<1>1. CASE EnableBegin
  <2>1. p \in Procs /\ Top.pc = "begin" /\ view[p] = Top
    BY <1>1, EnableBeginInv, Here
  <2>2. \/ Aside /\ UNCHANGED <<altVars, ioVars>>
        \/ \E f : /\ Runs(p, f) /\ f.pc = "enable" /\ f.k = 0 /\ f.i \in Branches(p)
                  /\ state' = [state EXCEPT ![p] = "enabling"] /\ UNCHANGED <<altVars, ioVars>>
    BY <1>1, EnableBeginInv
  <2>3. CASE Aside /\ UNCHANGED <<altVars, ioVars>>
    BY <2>3, AsideWaits DEF ioVars
  <2>4. ASSUME NEW f, Runs(p, f), f.pc = "enable", f.k = 0, f.i \in Branches(p),
               state' = [state EXCEPT ![p] = "enabling"], UNCHANGED <<altVars, ioVars>>
        PROVE  WaitInv'
    <3>1. OwnChanges(p)
      BY <2>4 DEF OwnChanges, ioVars
    <3>2. state'[p] = "enabling"
      BY <2>1, <2>4 DEF AltInv, UrgencyInv, NoneEnds, Records
    <3>3. \A i : i \notin Visited(f.i, f.k, p)
      BY <2>1, <2>4, Loops
    <3> DEFINE am == alt'[p]
               s == state'[p]
               id == ichan'
               on == active'[p]
    <3> HIDE DEF am, s, id, on
    <3>4. \A i : ~Engaged(p, i, f, s, am)
      BY <2>4, <3>3 DEF Engaged
    <3>5. Waits(p, f, s, am, on, id)
      <4>1. s = "enabling"
        BY <3>2 DEF s
      <4>2. QED BY <2>4, <3>4, <4>1 DEF Waits
    <3>6. QED BY <2>1, <2>4, <3>1, <3>5, RunsWaits DEF s, am, id, on
  <2>5. QED BY <2>2, <2>3, <2>4
<1>2. CASE EnableTimeout
  <2> DEFINE f == [Top EXCEPT !.pc = "insert"]
             late == Now >= timeout[p].time
  <2>1. UNCHANGED <<state, active, ichan>> /\ Enabling("timeout") /\ At("enable")
    BY <1>2 DEF EnableTimeout, procVars, altVars, ioVars, Enabling
  <2>2. /\ p \in Procs /\ Top.pc = "enable" /\ IsFrame(Top) /\ view[p] = Top /\ HasAlt(p, alt[p])
    BY <2>1, EnableFacts, EnablingFacts, Here
  <2>3. Runs(p, IF late THEN Ready(Top) ELSE f)
    BY <1>2, EnableTimeoutInv
  <2>4. CASE late
    <3>1. Ready(Top).pc = "enabled" /\ Ready(Top).i = Top.i /\ Ready(Top).k = Top.k /\ Ready(Top).flag
      BY <2>2, EnableFrame
    <3>2. QED BY <2>1, <2>2, <2>3, <2>4, <3>1, FoundWaits
  <2>5. CASE ~late
    <3>1. f.pc = "insert" /\ f.i = Top.i /\ f.k = Top.k /\ f.flag = Top.flag
      BY <2>2, InsertFrame
    <3>2. Runs(p, f)
      BY <2>3, <2>5
    <3> HIDE DEF f
    <3>3. \A i \in Branches(p) : Engaged(p, i, Top, state[p], alt[p]) <=> Engaged(p, i, f, state'[p], alt'[p])
      BY <2>2, <3>1 DEF Engaged
    <3>4. QED BY <2>1, <2>2, <3>1, <3>2, <3>3, OnWaits
  <2>6. QED BY <2>4, <2>5
<1>3. CASE EnableInsert
  <2> DEFINE a == NextGuard([Top EXCEPT !.pc = "enable"])
             i == Top.i
             k == Top.k
  <2>1. p \in Procs /\ Top.pc = "insert" /\ Runs(p, a)
    BY <1>3, EnableInsertInv
  <2>2. /\ k \in Branches(p) /\ i \in Branches(p) /\ Guards[p][i].type = "timeout"
        /\ HasAlt(p, alt[p]) /\ IsFrame(Top)
    BY <2>1, Here DEF AltFits, LoopFits
  <2>3. a.pc = "enable" /\ a.i = plus1_mod(i, NrGuards[p]) /\ a.k = k + 1
    <3>1. Size(p) = NrGuards[p]
      BY <2>1, <2>2, Guarded
    <3>2. QED BY <2>2, <3>1 DEF IsFrame, NextGuard
  <2>4. UNCHANGED <<state, active, ichan>>
    BY <1>3 DEF EnableInsert, procVars, altVars, ioVars
  <2> HIDE DEF a
  <2>5. Silent(p, Top.i, ichan') /\ OwnChanges(p)
    BY <2>2, <2>4 DEF Silent, Feeds, OwnChanges
  <2>6. QED BY <2>1, <2>2, <2>3, <2>4, <2>5, PassWaits
<1>4. CASE EnableEnd
  <2> DEFINE a == Rewound(Top)
  <2>1. /\ p \in Procs /\ Runs(p, a) /\ Top.pc = "enable" /\ Top.k = NrGuards[p] /\ Top.i \in Branches(p)
        /\ a.pc = "enabled" /\ view[p] = Top
    BY <1>4, EnableEndInv, Here
  <2>2. UNCHANGED <<state, active, ichan>>
    BY <1>4 DEF EnableEnd, procVars, altVars, ioVars
  <2> HIDE DEF a
  <2>3. state[p] \in {"enabling", "ready"} /\ active[p] \subseteq Branches(p)
    <3>1. AltFits(p, Top, state[p], alt[p], active[p], timeout[p])
      BY <2>1, Here
    <3>2. QED BY <2>1, <3>1 DEF AltFits, StateFits
  <2>4. \A j \in Branches(p) : Engaged(p, j, Top, state[p], alt[p])
    BY <2>1, Loops DEF Engaged
  <2>5. Waits(p, Top, state[p], alt[p], active[p], ichan)
    BY <2>1 DEF WaitInv
  <2>6. Waits(p, a, state'[p], alt'[p], active'[p], ichan')
    <3> DEFINE s == state[p]
               al == alt[p]
               am == alt'[p]
    <3>1. s \in {"enabling", "ready"} /\ (\A j \in Branches(p) : Engaged(p, j, Top, s, al)) /\ Waits(p, Top, s, al, active[p], ichan)
      BY <2>3, <2>4, <2>5
    <3> HIDE DEF s, al, am
    <3>2. Waits(p, a, s, am, active[p], ichan)
      BY <2>1, <2>3, <3>1 DEF Waits, Unready
    <3>3. QED BY <2>2, <3>2 DEF s, am
  <2>7. QED BY <2>1, <2>2, <2>6, RunsWaits DEF OwnChanges
<1>5. QED BY <1>1, <1>2, <1>3, <1>4

\* schedule() decides to wait only if every guard is enabled and nobody has made
\* the process ready meanwhile.
LEMMA EnableDoneWaits ==
  ASSUME Wired, AltInv, WaitInv, UrgencyInv', EnableDone
  PROVE  WaitInv'
<1> DEFINE p == Top.proc
<1>1. /\ p \in Procs /\ Top.pc = "enabled" /\ Top.i \in Branches(p) /\ Top.k \in Branches(p)
      /\ alt' = [alt EXCEPT ![p].index = Top.i, ![p].count = Top.k]
      /\ active' = active /\ ichan' = ichan /\ view[p] = Top
      /\ active[p] \subseteq Branches(p) /\ (~Top.flag => Top.k = NrGuards[p] - 1)
  <2>1. AltFits(p, Top, state[p], alt[p], active[p], timeout[p])
    BY EnableDoneInv, Here
  <2>2. QED BY <2>1, EnableDoneInv, Here DEF ioVars, AltFits, LoopFits
<1>2. PICK f, s :
        /\ Runs(p, f) /\ state' = [state EXCEPT ![p] = s]
        /\ \/ s = "ready" /\ f.pc = "disable"
           \/ s = "waiting" /\ f.pc = "partner" /\ ~f.flag /\ state[p] = "enabling" /\ ~Top.flag
  BY EnableDoneInv
<1>3. alt'[p].index = Top.i /\ alt'[p].count = Top.k /\ state'[p] = s
  <2>1. state \in [Records -> {"unstarted", "initial", "quiescent", "enabling", "waiting", "ready", "done"}]
        /\ alt \in [Records -> [guards : Procs \cup {NoProc}, index : Int, count : Int]] /\ p \in Records
    BY <1>1 DEF AltInv, DataTypes, UrgencyInv, NoneEnds, Records
  <2>2. QED BY <1>1, <1>2, <2>1
<1>4. OwnChanges(p)
  BY <1>1 DEF OwnChanges
<1>5. CASE s = "ready"
  BY <1>1, <1>2, <1>3, <1>4, <1>5, AwakeWaits DEF Unready
<1>6. CASE s # "ready"
  <2>1. s = "waiting" /\ f.pc = "partner" /\ ~f.flag /\ state[p] = "enabling" /\ ~Top.flag
    BY <1>2, <1>6
  <2> DEFINE am == alt'[p]
             al == alt[p]
             q == state[p]
  <2>2. ToVisit(Top.i, Top.k, p) = Branches(p)
    BY <1>1, <2>1, Loops
  <2>3. am.index = Top.i /\ am.count = Top.k /\ q = "enabling" /\ Waits(p, Top, q, al, active[p], ichan)
    BY <1>1, <1>3, <2>1 DEF WaitInv
  <2> HIDE DEF am, al, q
  <2>4. \A i \in Branches(p) : Engaged(p, i, Top, q, al) /\ Engaged(p, i, f, s, am)
    BY <1>1, <2>1, <2>2, <2>3 DEF Engaged
  <2>5. Waits(p, f, s, am, active[p], ichan)
    BY <1>1, <2>1, <2>3, <2>4 DEF Waits, Unready
  <2>6. QED BY <1>1, <1>2, <1>3, <1>4, <2>5, RunsWaits DEF am
<1>7. QED BY <1>5, <1>6

\* disable_alt() works for a process that is ready.
LEMMA DisableWaits ==
  ASSUME Wired, AltInv, WaitInv, UrgencyInv',
         DisableInactive \/ DisableChanIn \/ DisableOutOrSkip \/ DisableTimeout \/ DisableIntr
  PROVE  WaitInv'
<1> DEFINE p == Top.proc
<1>1. At("disable") /\ state' = state
  BY DEF DisableInactive, DisableChanIn, DisableOutOrSkip, DisableTimeout, DisableIntr, Disabling, procVars
<1>2. /\ p \in Procs /\ state'[p] \notin Unready /\ IsFrame(Top) /\ Top.pc = "disable"
  BY <1>1, DisableFacts, Here DEF Unready
<1>3. OwnChanges(p)
  <2>1. CASE DisableInactive \/ DisableChanIn \/ DisableOutOrSkip \/ DisableTimeout
    BY <2>1 DEF OwnChanges, DisableInactive, DisableChanIn, DisableOutOrSkip, DisableTimeout, ioVars
  <2>2. CASE DisableIntr
    <3>1. PICK u \in Intrs : /\ Top.i \in Branches(p) /\ Guards[p][Top.i].type = "interrupt" /\ u = Guards[p][Top.i].ch
                             /\ ichan' = [ichan EXCEPT ![u].waiting = NoProc]
      BY <2>2, DisableIntrInv
    <3>2. ichan' = [ichan EXCEPT ![u].waiting = NoProc]
      BY <3>1
    <3>3. \A v \in Intrs : v # u => ichan'[v] = ichan[v]
      BY <3>2, Registers, Zenon
    <3>4. Feeds(u, p, Top.i)
      BY <3>1 DEF Feeds
    <3>5. QED BY <1>2, <3>3, <3>4 DEF OwnChanges, Feeds
  <2>3. QED BY <2>1, <2>2
<1>4. \E w : LET g == [Top EXCEPT !.partner = w]
             IN  Runs(p, PrevGuard(Top)) \/ Runs(p, PrevGuard(g))
  BY DisableInactiveInv, DisableChanInInv, DisableOutOrSkipInv, DisableTimeoutInv, DisableIntrInv
<1>5. PICK w : LET g == [Top EXCEPT !.partner = w]
               IN  Runs(p, PrevGuard(Top)) \/ Runs(p, PrevGuard(g))
  BY <1>4
<1>6. PrevGuard(Top).pc = "disable" /\ PrevGuard([Top EXCEPT !.partner = w]).pc = "disable"
  BY <1>2, LoopFrames
<1>7. QED BY <1>2, <1>3, <1>5, <1>6, AwakeWaits

LEMMA Clears ==
  ASSUME AltInv, NEW u \in Intrs, ichan' = [ichan EXCEPT ![u].count = 0]
  PROVE  \A v \in Intrs : v # u => ichan'[v] = ichan[v]
<1>1. ichan \in [Intrs -> [waiting : Alting \cup {NoProc}, count : Nat]]
  BY DEF AltInv, WaiterTypes
<1>2. QED BY <1>1

LEMMA TransferWaits ==
  ASSUME Wired, AltInv, WaitInv, UrgencyInv', TransferMessage \/ TransferCount \/ TransferNothing
  PROVE  WaitInv'
<1> DEFINE p == Top.proc
           i == alt[p].index
<1>1. At("disable")
  BY Zenon DEF TransferMessage, TransferCount, TransferNothing, Disabled
<1>2. /\ p \in Procs /\ HasAlt(p, alt[p]) /\ i \in Branches(p) /\ GuardOf(p, i) = Guards[p][i] /\ IsFrame(Top)
  BY <1>1, DisableFacts, Guarded, Here
<1>3. Leaving.pc = "partner"
  BY <1>2 DEF Leaving, IsFrame
<1>4. OwnChanges(p)
  <2>1. CASE TransferMessage
    <3>1. ichan' = ichan
      BY <2>1, Zenon DEF TransferMessage, Crash, ioVars
    <3>2. QED BY <3>1 DEF OwnChanges
  <2>2. CASE TransferNothing
    BY <2>2 DEF TransferNothing, OwnChanges, ioVars
  <2>3. CASE TransferCount
    <3> DEFINE u == Guards[p][i].ch
    <3>1. GuardOf(p, i).type = "interrupt" /\ ichan' = [ichan EXCEPT ![GuardOf(p, i).ch].count = 0]
      BY <2>3 DEF TransferCount
    <3> HIDE DEF i
    <3>2. Guards[p][i].type = "interrupt" /\ u \in Intrs
      BY <1>2, <3>1, GuardFacts
    <3>3. Feeds(u, p, i)
      BY <1>2, <3>2 DEF Feeds
    <3>4. ichan' = [ichan EXCEPT ![u].count = 0]
      BY <1>2, <3>1
    <3> HIDE DEF u
    <3>5. \A v \in Intrs : v # u => ichan'[v] = ichan[v]
      BY <3>2, <3>4, Clears, Zenon
    <3>6. QED BY <1>2, <3>3, <3>5 DEF OwnChanges, Feeds
  <2>4. QED BY <2>1, <2>2, <2>3
<1>5. \/ Aside /\ UNCHANGED ioVars
      \/ Runs(p, Leaving) /\ state' = [state EXCEPT ![p] = "quiescent"]
  BY TransferMessageInv, TransferCountInv, TransferNothingInv
<1>6. CASE Aside /\ UNCHANGED ioVars
  BY <1>6, AsideWaits DEF ioVars
<1>7. CASE Runs(p, Leaving) /\ state' = [state EXCEPT ![p] = "quiescent"]
  <2>1. state'[p] \notin Unready
    BY <1>2, <1>7 DEF Unready, AltInv, UrgencyInv, NoneEnds, Records
  <2>2. QED BY <1>2, <1>3, <1>4, <1>7, <2>1, AwakeWaits
<1>8. QED BY <1>5, <1>6, <1>7

LEMMA PartnerWaits ==
  ASSUME Wired, AltInv, WaitInv, UrgencyInv', NoPartner \/ PartnerReturn \/ WakePartner
  PROVE  WaitInv'
<1> DEFINE p == Top.proc
<1>1. /\ p \in Procs /\ Top.pc \in {"partner", "partnerRet"} /\ view[p] = Top
      /\ UNCHANGED <<active, alt, ichan>>
      /\ StateFits(p, Top, state[p], alt[p])
  BY PartnerEndInv, WakePartnerInv, Here DEF altVars, ioVars, AltFits
<1>2. state'[p] \in {"ready", state[p]}
  <2>1. CASE NoPartner \/ PartnerReturn
    BY <2>1, PartnerEndInv
  <2>2. CASE WakePartner
    <3>1. state' = [state EXCEPT ![Top.partner] = "ready"]
      BY <2>2, WakePartnerInv
    <3>2. state \in [Records -> {"unstarted", "initial", "quiescent", "enabling", "waiting", "ready"}] /\ p \in Records
      BY <1>1 DEF AltInv, UrgencyInv, NoneEnds, Records
    <3>3. QED BY <3>1, <3>2
  <2>3. QED BY <2>1, <2>2
<1>3. \E f : /\ Runs(p, f) /\ f.flag = Top.flag
             /\ \/ f.pc = "partnerRet"
                \/ f.pc = "finish" /\ ~Top.flag
                \/ f.pc = "rtc" /\ Top.flag
  <2>1. CASE NoPartner \/ PartnerReturn
    <3>1. \E f : Runs(p, f) /\ f.pc = (IF Top.flag THEN "rtc" ELSE "finish") /\ f.flag = Top.flag
      BY <2>1, PartnerEndInv
    <3>2. QED BY <3>1
  <2>2. CASE WakePartner
    BY <2>2, WakePartnerInv
  <2>3. QED BY <2>1, <2>2
<1>4. PICK f : /\ Runs(p, f) /\ f.flag = Top.flag
               /\ \/ f.pc = "partnerRet"
                  \/ f.pc = "finish" /\ ~Top.flag
                  \/ f.pc = "rtc" /\ Top.flag
  BY <1>3
<1>5. \A j \in Branches(p) : Engaged(p, j, Top, state[p], alt[p]) <=> Engaged(p, j, f, state'[p], alt'[p])
  <2> DEFINE s == state[p]
             t == state'[p]
             al == alt[p]
  <2>1. t \in {"ready", s} /\ StateFits(p, Top, s, al) /\ alt'[p] = al
    BY <1>1, <1>2
  <2> HIDE DEF s, t, al
  <2>2. \A j \in Branches(p) : Engaged(p, j, Top, s, al) <=> Engaged(p, j, f, t, al)
    BY <1>1, <1>4, <2>1 DEF Engaged, StateFits
  <2>3. QED BY <2>1, <2>2 DEF s, t, al
<1>6. f.pc # "rtcRest"
  BY <1>4
<1>7. QED BY <1>1, <1>2, <1>4, <1>5, <1>6, OnWaits

LEMMA ScheduleWaits ==
  ASSUME Wired, AltInv, WaitInv, UrgencyInv', ScheduleStep
  PROVE  WaitInv'
<1>1. CASE NoPartner \/ PartnerReturn \/ WakePartner
  BY <1>1, PartnerWaits
<1>2. CASE SelectNone \/ SelectNew
  <2>1. Aside /\ ichan' = ichan
    BY <1>2, SelectNoneInv, SelectNewInv DEF ioVars
  <2>2. QED BY <2>1, AsideWaits
<1>3. CASE SelectSame \/ Take \/ Load \/ Finish
  <2>1. UNCHANGED <<state, active, alt, ichan>>
    BY <1>3, SelectSameInv, TakeAltInv, LoadInv, FinishInv DEF altVars, ioVars
  <2>2. \/ Aside
        \/ \E p \in Procs : \E f :
             /\ Runs(p, f) /\ view[p].pc \in {"off", "select", "load", "finish"}
             /\ \/ f.pc \in {"load", "select", "off", "finish"}
                \/ f.pc \in {"rtc", "begin", "disable"} /\ state[p] \in {"initial", "quiescent", "ready"}
    <3>1. CASE SelectSame
      BY <3>1, SelectSameInv, Here
    <3>2. CASE Take
      <4>1. Off.pc = "off"
        BY DEF Off, Frame
      <4>2. QED BY <3>2, <4>1, TakeAltInv
    <3>3. CASE Load
      BY <3>3, LoadInv, Here
    <3>4. CASE Finish
      <4>1. Off.pc = "off"
        BY DEF Off, Frame
      <4>2. QED BY <3>4, <4>1, FinishInv, Here
    <3>5. QED BY <1>3, <3>1, <3>2, <3>3, <3>4
  <2>3. CASE Aside
    BY <2>1, <2>3, AsideWaits
  <2>4. ASSUME NEW p \in Procs, NEW f,
               Runs(p, f), view[p].pc \in {"off", "select", "load", "finish"},
               \/ f.pc \in {"load", "select", "off", "finish"}
               \/ f.pc \in {"rtc", "begin", "disable"} /\ state[p] \in {"initial", "quiescent", "ready"}
        PROVE  WaitInv'
    <3> DEFINE a == view[p]
    <3>1. a.pc \in {"off", "select", "load", "finish"} /\ f.pc # "rtcRest"
      BY <2>4
    <3>2. CASE f.pc \in {"load", "select", "off", "finish"}
      <4> HIDE DEF a
      <4>1. \A j \in Branches(p) : Engaged(p, j, a, state[p], alt[p]) <=> Engaged(p, j, f, state'[p], alt'[p])
        BY <2>1, <3>1, <3>2 DEF Engaged
      <4>2. QED BY <2>1, <2>4, <3>1, <4>1, OnWaits DEF a
    <3>3. CASE state[p] \in {"initial", "quiescent", "ready"}
      BY <2>1, <2>4, <3>1, <3>3, AwakeWaits DEF Unready, OwnChanges
    <3>4. QED BY <2>4, <3>2, <3>3
  <2>5. QED BY <2>2, <2>3, <2>4
<1>4. QED BY <1>1, <1>2, <1>3 DEF ScheduleStep

\* A process that start() begins, and one that a START leaves alone.
LEMMA StartWaits ==
  ASSUME AltInv, NEW q \in Procs, Waits(q, view[q], state[q], alt[q], active[q], ichan), Kept(q) \/ Begins(q),
         view'[q] = view[q], ichan' = ichan
  PROVE  Waits(q, view'[q], state'[q], alt'[q], active'[q], ichan')
<1>1. active[q] \subseteq Branches(q)
  BY DEF AltInv, Fits, AltFits
<1>2. CASE Kept(q)
  BY <1>1, <1>2, StaysWaiting
<1>3. CASE Begins(q)
  <2> DEFINE a == view[q]
  <2>1. Waits(q, a, state[q], alt[q], active[q], ichan) /\ state'[q] = "initial"
    BY <1>3 DEF Begins
  <2> HIDE DEF a
  <2>2. Waits(q, a, state'[q], alt'[q], active'[q], ichan)
    BY <2>1 DEF Waits, Unready
  <2>3. QED BY <2>2 DEF a
<1>4. QED BY <1>2, <1>3

LEMMA RtcWaits ==
  ASSUME Wired, AltInv, WaitInv, UrgencyInv', RtcStep
  PROVE  WaitInv'
<1> DEFINE p == Top.proc
<1>1. CASE RtcEnter
  <2>1. PICK act, f : /\ RunOf(p, act) /\ f.pc = "rtcRest" /\ f.act = act
                      /\ view' = [q \in Procs |-> IF q = p THEN f ELSE view[q]]
    BY <1>1, RtcEnterInv
  <2>2. /\ p \in Procs /\ Top.pc = "rtc" /\ ichan' = ichan /\ state'[p] = state[p]
        /\ StateFits(p, Top, state[p], alt[p])
        /\ \A q \in Procs : Kept(q) \/ Begins(q)
    BY <1>1, RtcEnterInv, Here DEF AltFits
  <2>3. state'[p] \notin Unready
    BY <2>2 DEF StateFits, Unready
  <2>4. \A u \in act.connect : \E i \in Branches(p) : Feeds(u, p, i)
    <3> SUFFICES ASSUME NEW u \in act.connect
                 PROVE  \E i \in Branches(p) : Feeds(u, p, i)
      OBVIOUS
    <3>1. PICK s \in -1 .. NrGuards[p] - 1 : act \in Program[p][s]
      BY <2>1 DEF RunOf
    <3>2. PICK i \in Branches(p) : Guards[p][i] = [type |-> "interrupt", ch |-> u]
      BY <2>2, <3>1 DEF Wired
    <3>3. Feeds(u, p, i)
      BY <3>2 DEF Feeds
    <3>4. QED BY <3>3
  <2>5. Waits(p, f, state'[p], alt'[p], active'[p], ichan')
    BY <2>1, <2>3, <2>4 DEF Waits, Unready
  <2>6. ASSUME NEW q \in Procs
        PROVE  Waits(q, view'[q], state'[q], alt'[q], active'[q], ichan')
    <3>1. CASE q = p
      BY <2>1, <2>5, <3>1
    <3>2. CASE q # p
      <4>1. Waits(q, view[q], state[q], alt[q], active[q], ichan) /\ view'[q] = view[q]
        BY <2>1, <3>2 DEF WaitInv
      <4>2. QED BY <2>2, <4>1, StartWaits
    <3>3. QED BY <3>1, <3>2
  <2>7. QED BY <2>6, Zenon DEF WaitInv
<1>2. CASE RtcRest
  <2>1. /\ p \in Procs /\ Top.pc = "rtcRest" /\ view[p] = Top /\ StateFits(p, Top, state[p], alt[p])
        /\ state'[p] \in {"quiescent", state[p]}
        /\ ichan' = [u \in Intrs |-> IF u \in Top.act.connect THEN [waiting |-> NoProc, count |-> 0] ELSE ichan[u]]
    BY <1>2, RtcRestInv, Here DEF AltFits
  <2>2. PICK f : Runs(p, f) /\ f.pc = "finish"
    BY <1>2, RtcRestInv
  <2>3. state'[p] \notin Unready
    BY <2>1 DEF StateFits, Unready
  <2>4. Waits(p, Top, state[p], alt[p], active[p], ichan)
    BY <2>1 DEF WaitInv
  <2>5. \A u \in Top.act.connect : \E i \in Branches(p) : Feeds(u, p, i)
    BY <2>1, <2>4 DEF Waits
  <2>6. OwnChanges(p)
    BY <2>1, <2>5 DEF OwnChanges
  <2>7. QED BY <2>1, <2>2, <2>3, <2>6, AwakeWaits
<1>3. QED BY <1>1, <1>2 DEF RtcStep

\* user_interrupt_handler() counts the interrupt and wakes who waits for it.
LEMMA HandleUserWaits ==
  ASSUME AltInv, WaitInv, UrgencyInv', HandleUser
  PROVE  WaitInv'
<1> DEFINE u == Top.src
           w == ichan[u].waiting
<1>1. Aside
  BY HandleUserInv
<1>2. CASE u \in connected /\ w \in Records
  <2>1. /\ state' = [state EXCEPT ![w] = "ready"]
        /\ ichan' = [ichan EXCEPT ![u].count = @ + 1]
    BY <1>2, Zenon DEF HandleUser, readyProcessIfNecessary
  <2>2. ASSUME NEW q \in Procs, state'[q] \in Unready, NEW i \in active[q], Silent(q, i, ichan)
        PROVE  Silent(q, i, ichan')
    <3>1. q # w
      BY <1>2, <2>1, <2>2 DEF Unready, AltInv, UrgencyInv, NoneEnds, Records
    <3>2. \A v \in Intrs : Feeds(v, q, i) => v # u
      BY <2>2, <3>1 DEF Silent
    <3>3. \A v \in Intrs : v # u => ichan'[v] = ichan[v]
      BY <2>1 DEF AltInv, WaiterTypes
    <3>4. QED BY <2>2, <3>2, <3>3, SameSilent
  <2>3. QED BY <1>1, <2>2, AsideWaits
<1>3. CASE ~(u \in connected /\ w \in Records)
  <2>1. /\ state' = state
        /\ ichan' = IF u \in connected THEN [ichan EXCEPT ![u].count = @ + 1] ELSE ichan
    BY <1>3, Zenon DEF HandleUser
  <2>2. ASSUME NEW q \in Procs, NEW i \in active[q], Silent(q, i, ichan)
        PROVE  Silent(q, i, ichan')
    <3>1. q \in Records
      BY DEF Records
    <3>2. \A v \in Intrs : Feeds(v, q, i) => ichan'[v] = ichan[v]
      <4>1. CASE u \notin connected
        BY <2>1, <4>1
      <4>2. CASE u \in connected
        <5>1. \A v \in Intrs : Feeds(v, q, i) => v # u
          BY <1>3, <2>2, <3>1, <4>2 DEF Silent
        <5>2. \A v \in Intrs : v # u => ichan'[v] = ichan[v]
          BY <2>1, <4>2 DEF AltInv, WaiterTypes
        <5>3. QED BY <5>1, <5>2
      <4>3. QED BY <4>1, <4>2
    <3>3. QED BY <2>2, <3>2, SameSilent
  <2>3. QED BY <1>1, <2>2, AsideWaits
<1>4. QED BY <1>2, <1>3

LEMMA NextWaits ==
  ASSUME Wired, AltInv, WaitInv, UrgencyInv', [Next]_vars
  PROVE  WaitInv'
<1>1. CASE MainStart
  <2>1. view' = view /\ ichan' = ichan /\ \A q \in Procs : Kept(q) \/ Begins(q)
    BY <1>1, MainStartInv DEF ioVars
  <2>2. ASSUME NEW q \in Procs
        PROVE  Waits(q, view'[q], state'[q], alt'[q], active'[q], ichan')
    <3>1. Waits(q, view[q], state[q], alt[q], active[q], ichan)
      BY DEF WaitInv
    <3>2. QED BY <2>1, <3>1, StartWaits
  <2>3. QED BY <2>2, Zenon DEF WaitInv
<1>2. CASE HandleUser
  BY <1>2, HandleUserWaits
<1>3. CASE ScheduleStep \/ RtcStep
  BY <1>3, ScheduleWaits, RtcWaits
<1>4. CASE EnableStep
  <2>1. CASE EnableInactive \/ EnableChanIn \/ EnableChanOut \/ EnableSkip \/ EnableIntr
    BY <2>1, EnableWaits, EnableIntrWaits
  <2>2. CASE EnableBegin \/ EnableTimeout \/ EnableInsert \/ EnableEnd \/ EnableDone
    BY <2>2, EnableRestWaits, EnableDoneWaits
  <2>3. QED BY <1>4, <2>1, <2>2 DEF EnableStep
<1>5. CASE DisableStep
  BY <1>5, DisableWaits, TransferWaits DEF DisableStep
<1>6. ASSUME Aside, ichan' = ichan
      PROVE  WaitInv'
  BY <1>6, AsideWaits
<1>7. CASE MainRun \/ StartStep
  <2>1. Aside /\ ichan' = ichan
    BY <1>7, MainRunInv, StartStepInv DEF ioVars
  <2>2. QED BY <1>6, <2>1
<1>8. CASE HandleTimeout \/ TimeoutDue \/ TimeoutRearm \/ HandlerReturn \/ HandlerExit \/ HandlerRestore
  <2>1. Aside /\ ichan' = ichan
    BY <1>8, HandleTimeoutInv, TimeoutDueInv, TimeoutRearmInv, HandlerReturnInv, HandlerExitInv, HandlerRestoreInv
       DEF ioVars
  <2>2. QED BY <1>6, <2>1
<1>9. CASE Environment
  <2>1. CASE Clock \/ AlarmFires
    <3>1. Aside /\ ichan' = ichan
      BY <2>1, ClockInv DEF ioVars
    <3>2. QED BY <1>6, <3>1
  <2>2. CASE ElapsedInterrupt \/ TimeoutInterrupt \/ \E u \in Intrs : UserInterrupt(u)
    <3>1. PICK src \in Intrs \cup {"elapsed", "timeout"} : Interrupt(src) /\ (pend' = pend \/ pend' = FALSE)
      BY <2>2 DEF ElapsedInterrupt, TimeoutInterrupt, UserInterrupt
    <3>2. pend' \in BOOLEAN
      BY <3>1 DEF AltInv, DataTypes
    <3>3. Aside /\ ichan' = ichan
      BY <3>1, <3>2, InterruptInv DEF ioVars
    <3>4. QED BY <1>6, <3>3
  <2>3. QED BY <1>9, <2>1, <2>2 DEF Environment
<1>10. CASE DISABLE \/ SigReturn \/ UNCHANGED vars
  <2>1. Aside /\ ichan' = ichan
    BY <1>10, StillInv
  <2>2. QED BY <1>6, <2>1
<1>11. QED BY <1>1, <1>2, <1>3, <1>4, <1>5, <1>7, <1>8, <1>9, <1>10 DEF Next, CpuStep, MainStep, HandlerStep

\* A process that waits has no interrupt guard, nor a SKIP, that is ready.
LEMMA WaitsForInterrupts ==
  ASSUME AltInv, WaitInv
  PROVE  NoLostInterrupt
<1> SUFFICES ASSUME NEW p \in Procs, state[p] = "waiting", NEW i \in active[p],
                    Guards[p][i].type \in {"skip", "interrupt"}
             PROVE  ~GuardReady(p, i)
  BY DEF NoLostInterrupt
<1>1. i \in Branches(p)
  BY DEF AltInv, Fits, AltFits
<1>2. Silent(p, i, ichan)
  <2> DEFINE a == view[p]
             s == state[p]
             al == alt[p]
  <2>1. Waits(p, a, s, al, active[p], ichan) /\ s = "waiting"
    BY DEF WaitInv
  <2> HIDE DEF a, s, al
  <2>2. QED BY <1>1, <2>1 DEF Waits, Unready
<1>3. Guards[p][i].type = "interrupt" /\ ichan[Guards[p][i].ch].count = 0
  BY <1>1, <1>2, GuardFacts DEF Silent, Feeds
<1>4. QED BY <1>3 DEF GuardReady

\* An interrupt that comes while its process is between two sections of
\* enable_alt(), or about to wait, is not lost (NoLostInterrupt), in every
\* application that connects each interrupt to one guard.
THEOREM NoLostInterruptHolds == Wired /\ Spec => []NoLostInterrupt
<1> DEFINE Inv == Wired /\ AltInv /\ WaitInv
<1>1. Wired /\ Init => Inv
  <2> SUFFICES ASSUME Wired, Init
               PROVE  AltInv /\ WaitInv
    OBVIOUS
  <2>1. Orderly
    BY DEF Wired
  <2>2. ASSUME NEW p \in Procs
        PROVE  Waits(p, view[p], state[p], alt[p], active[p], ichan)
    <3> DEFINE a == view[p]
    <3>1. a.pc = "off" /\ state[p] = "unstarted"
      BY <2>1, InitViews, RecordAssumption, PriOfLevel DEF Init, Records
    <3> HIDE DEF a
    <3>2. Waits(p, a, state[p], alt[p], active[p], ichan)
      BY <3>1 DEF Waits, Unready
    <3>3. QED BY <3>2 DEF a
  <2>3. QED BY <2>1, <2>2, InitAlt, Zenon DEF WaitInv
<1>2. Inv /\ [Next]_vars => Inv'
  <2> SUFFICES ASSUME Inv, [Next]_vars
               PROVE  Inv'
    OBVIOUS
  <2>1. UrgencyInv'
    BY NextUrgency DEF AltInv, Wired
  <2>2. AltInv' /\ WaitInv'
    BY <2>1, NextAlt, NextWaits
  <2>3. Wired'
    BY DEF Wired, Orderly, PriOf, Branches
  <2>4. QED BY <2>2, <2>3
<1>3. Inv => NoLostInterrupt
  BY WaitsForInterrupts
<1> HIDE DEF Inv
<1>4. QED BY <1>1, <1>2, <1>3, PTL DEF Spec

LEMMA ReactingWaits ==
  ASSUME Reactive, AltInv, NoLostInterrupt
  PROVE  NoLostWakeup
<1>1. \A p \in Procs : active[p] \subseteq Branches(p)
  <2>1. ASSUME NEW p \in Procs
        PROVE  active[p] \subseteq Branches(p)
    <3>1. AltFits(p, view[p], state[p], alt[p], active[p], timeout[p])
      BY DEF AltInv, Fits
    <3>2. QED BY <3>1 DEF AltFits
  <2>2. QED BY <2>1, Zenon
<1>2. QED BY <1>1 DEF Reactive, NoLostInterrupt, NoLostWakeup

\* No wakeup falls between enable_alt() and the wait (NoLostWakeup), in every
\* application that reacts to interrupts and timeouts.
THEOREM NoLostWakeupReacting == Reactive /\ Spec => []NoLostWakeup
<1>1. Reactive => Wired /\ Orderly
  BY DEF Reactive, Wired
<1>2. Reactive /\ [Next]_vars => Reactive'
  BY DEF Reactive, Wired, Orderly, PriOf, OneTimeout, Branches
<1>3. Reactive /\ AltInv /\ NoLostInterrupt => NoLostWakeup
  BY ReactingWaits
<1>4. QED BY <1>1, <1>2, <1>3, AltInvariant, NoLostInterruptHolds, PTL DEF Spec

-----------------------------------------------------------------------------
\* What disable_alt() finds.

\* Guard i of p, whose Timeout is due, can be selected at time t.
Sounds(p, i, due, t, ic) ==
  \/ Guards[p][i].type = "skip"
  \/ Guards[p][i].type = "timeout" /\ t >= due.time
  \/ \E u \in Intrs : Feeds(u, p, i) /\ ic[u].count > 0

\* An enabled guard of p can be selected.
Heard(p, a, s, al, on, due, t, ic) ==
  \E i \in on : Engaged(p, i, a, s, al) /\ Sounds(p, i, due, t, ic)

\* The time of a guard for a timeout has come, whatever Now() returns.
Overdue(p, on, due, t) == t >= due.time /\ \E i \in on : Guards[p][i].type = "timeout"

\* A process is made ready for a guard that disable_alt() will come to, or has
\* just selected, or for its timeout, and waits in the channels of its enabled
\* guards only.
Answers(p, a, s, al, on, due, t, ic) ==
  /\ s = "ready" /\ a.pc # "disable" => Heard(p, a, s, al, on, due, t, ic)
  /\ a.pc = "enabled" /\ a.flag => a.i \in on /\ Sounds(p, a.i, due, t, ic)
  /\ a.pc = "disable" =>
       \/ Heard(p, a, s, al, on, due, t, ic)
       \/ al.index \in on /\ Sounds(p, al.index, due, t, ic)
       \/ Overdue(p, on, due, t)
  /\ \A u \in Intrs : ic[u].waiting = p => \E i \in on : Feeds(u, p, i) /\ Engaged(p, i, a, s, al)

AnswerInv == \A p \in Procs : Answers(p, view[p], state[p], alt[p], active[p], timeout[p], now, ichan)

\* No activation of schedule() has a partner to wake, and a handler works with
\* a time that has come.
Wakes(f, t) == (f.fn = "schedule" => f.partner = NoProc) /\ (f.pc \in {"due", "dueRet"} => f.time <= t)

Wakers == \A n \in Frames : Wakes(stack[n], now)

-----------------------------------------------------------------------------
\* The activations.

LEMMA LaterWakers ==
  ASSUME Wakers, StackInv, now \in Nat, now' \in Nat, now' >= now, FrameTypes, NEW n \in Frames
  PROVE  Wakes(stack[n], now')
<1> DEFINE f == stack[n]
<1>1. Wakes(f, now) /\ f.time \in Nat
  BY DEF Wakers, FrameTypes, Typed
<1> HIDE DEF f
<1>2. Wakes(f, now')
  BY <1>1 DEF Wakes
<1>3. QED BY <1>2 DEF f

LEMMA GotoWakers ==
  ASSUME Wakers, StackInv, FrameTypes, now \in Nat, now' = now, NEW f, Goto(f), Wakes(f, now)
  PROVE  Wakers'
<1>1. /\ Frames' = Frames /\ \A n \in Frames : stack'[n] = IF n = Len(stack) THEN f ELSE stack[n]
  BY GotoTop
<1>2. \A n \in Frames' : Wakes(stack'[n], now')
  BY <1>1 DEF Wakers
<1>3. QED BY <1>2 DEF Wakers, Wakes

LEMMA PushWakers ==
  ASSUME Wakers, StackInv, now' = now, NEW f, NEW g, Wakes(f, now), Wakes(g, now),
         Call(f, g) \/ (f = Top /\ stack' = Append(stack, g))
  PROVE  Wakers'
<1>1. /\ Len(stack') = Len(stack) + 1
      /\ \A n \in Frames : stack'[n] = IF n = Len(stack) THEN f ELSE stack[n]
      /\ stack'[Len(stack) + 1] = g
  <2>1. StackShape
    BY DEF StackInv
  <2>2. CASE Call(f, g)
    BY <2>1, <2>2, CallSeq
  <2>3. CASE f = Top /\ stack' = Append(stack, g)
    BY <2>1, <2>3, PushSeq, Stacked
  <2>4. QED BY <2>2, <2>3
<1>2. Frames' = 1 .. Len(stack) + 1 /\ Frames = 1 .. Len(stack) /\ Len(stack) \in Nat
  BY <1>1, Stacked DEF Frames
<1>3. \A n \in Frames' : n \in Frames \/ n = Len(stack) + 1
  BY <1>2
<1>4. \A n \in Frames' : Wakes(stack'[n], now')
  BY <1>1, <1>3 DEF Wakers
<1>5. QED BY <1>4 DEF Wakers, Wakes

LEMMA ReturnWakers ==
  ASSUME Wakers, StackInv, now' = now, Return, Top.fn # "main"
  PROVE  Wakers'
<1>1. Len(stack) \in Nat /\ Len(stack) > 1 /\ Frames = 1 .. Len(stack) /\ StackShape
  BY Stacked DEF StackInv
<1>2. Frames' = 1 .. Len(stack) - 1 /\ \A n \in 1 .. Len(stack) - 1 : stack'[n] = stack[n] /\ n \in Frames
  BY <1>1, ReturnSeq DEF Frames
<1>3. \A n \in Frames' : Wakes(stack'[n], now')
  BY <1>2 DEF Wakers
<1>4. QED BY <1>3 DEF Wakers, Wakes

LEMMA SameWakers ==
  ASSUME Wakers, StackInv, FrameTypes, stack' = stack, now \in Nat, now' \in Nat, now' >= now
  PROVE  Wakers'
<1>1. \A n \in Frames : Wakes(stack[n], now')
  BY LaterWakers
<1>2. \A n \in Frames' : Wakes(stack'[n], now')
  BY <1>1 DEF Frames
<1>3. QED BY <1>2 DEF Wakers, Wakes

\* An activation of schedule() with nobody to wake, and how it goes on.
Unpartnered(f) == IsFrame(f) /\ f.fn = "schedule" /\ f.partner = NoProc /\ f.pc \in SchedulePcs

LEMMA QuietFrames ==
  ASSUME NEW f, Unpartnered(f)
  PROVE  /\ \A t : Wakes(f, t)
         /\ Unpartnered(NextGuard(f)) /\ Unpartnered(PrevGuard(f)) /\ Unpartnered(Ready(f)) /\ Unpartnered(Rewound(f)) /\ Unpartnered(AfterPartner(f))
         /\ \A pc \in SchedulePcs : Unpartnered([f EXCEPT !.pc = pc])
         /\ \A x : Unpartnered([f EXCEPT !.proc = x]) /\ Unpartnered([f EXCEPT !.i = x]) /\ Unpartnered([f EXCEPT !.k = x])
                   /\ Unpartnered([f EXCEPT !.flag = x]) /\ Unpartnered([f EXCEPT !.act = x]) /\ Unpartnered([f EXCEPT !.partner = NoProc])
<1>1. \A t : Wakes(f, t)
  BY DEF Unpartnered, Wakes, SchedulePcs
<1>2. /\ "enabled" \in SchedulePcs /\ "rtc" \in SchedulePcs /\ "finish" \in SchedulePcs
  BY DEF SchedulePcs
<1>3. Unpartnered(NextGuard(f)) /\ Unpartnered(PrevGuard(f))
  BY DEF Unpartnered, IsFrame, NextGuard, PrevGuard
<1>4. Unpartnered(Ready(f)) /\ Unpartnered(Rewound(f))
  BY <1>2 DEF Unpartnered, IsFrame, Ready, Rewound
<1>5. Unpartnered(AfterPartner(f))
  BY <1>2 DEF Unpartnered, IsFrame, AfterPartner
<1>6. \A pc \in SchedulePcs : Unpartnered([f EXCEPT !.pc = pc])
  BY DEF Unpartnered, IsFrame
<1>7. \A x : Unpartnered([f EXCEPT !.proc = x]) /\ Unpartnered([f EXCEPT !.i = x]) /\ Unpartnered([f EXCEPT !.k = x])
             /\ Unpartnered([f EXCEPT !.flag = x]) /\ Unpartnered([f EXCEPT !.act = x]) /\ Unpartnered([f EXCEPT !.partner = NoProc])
  BY DEF Unpartnered, IsFrame
<1>8. QED BY <1>1, <1>3, <1>4, <1>5, <1>6, <1>7

LEMMA QuietTop ==
  ASSUME AltInv, Wakers, NEW pc \in SchedulePcs, At(pc)
  PROVE  Unpartnered(Top) /\ Top.pc = pc /\ StackInv /\ FrameTypes /\ now \in Nat
<1>1. StackInv /\ FrameTypes /\ now \in Nat
  BY DEF AltInv, UrgencyInv, DataTypes
<1>2. Top.pc = pc /\ FrameOK(Top) /\ Wakes(Top, now)
  BY <1>1, Stacked DEF At, Wakers
<1>3. QED BY <1>1, <1>2 DEF Unpartnered, FrameOK, Wakes

\* The activation goes on in schedule().
LEMMA QuietGoes ==
  ASSUME AltInv, Wakers, now' = now, NEW f, Unpartnered(f), Goto(f)
  PROVE  Wakers'
BY GotoWakers, QuietFrames DEF AltInv, UrgencyInv, DataTypes

LEMMA EnableWakers ==
  ASSUME Reactive, AltInv, Wakers, EnableStep
  PROVE  Wakers'
<1>1. At("begin") \/ At("enable") \/ At("insert") \/ At("enabled")
  BY DEF EnableStep, EnableBegin, EnableInactive, EnableChanIn, EnableChanOut, EnableSkip,
         EnableTimeout, EnableInsert, EnableIntr, EnableEnd, EnableDone, Enabling
<1>2. now' = now
  BY DEF EnableStep, EnableBegin, EnableInactive, EnableChanIn, EnableChanOut, EnableSkip,
         EnableTimeout, EnableInsert, EnableIntr, EnableEnd, EnableDone, Crash, timeVars
<1>3. /\ "begin" \in SchedulePcs /\ "enable" \in SchedulePcs /\ "insert" \in SchedulePcs /\ "enabled" \in SchedulePcs
      /\ "disable" \in SchedulePcs /\ "partner" \in SchedulePcs
  BY DEF SchedulePcs
<1>4. Unpartnered(Top) /\ StackInv /\ FrameTypes /\ now \in Nat
  BY <1>1, <1>3, QuietTop
<1>5. ~EnableChanIn /\ ~EnableChanOut
  BY EnablingFacts DEF EnableChanIn, EnableChanOut, Reactive
<1>6. CASE EnableInactive \/ EnableSkip \/ EnableTimeout \/ EnableInsert \/ EnableIntr
  <2>1. \/ Goto(NextGuard(Top)) \/ Goto(Ready(Top)) \/ Goto([Top EXCEPT !.pc = "insert"])
        \/ Goto(NextGuard([Top EXCEPT !.pc = "enable"]))
    BY <1>6 DEF EnableInactive, EnableSkip, EnableTimeout, EnableInsert, EnableIntr
  <2>2. Unpartnered([Top EXCEPT !.pc = "insert"]) /\ Unpartnered([Top EXCEPT !.pc = "enable"])
    BY <1>3, <1>4, QuietFrames
  <2>3. QED BY <1>2, <1>4, <2>1, <2>2, QuietFrames, QuietGoes
<1>7. CASE EnableBegin
  <2>1. CASE stack' = stack
    BY <1>2, <1>4, <2>1, SameWakers
  <2>2. CASE stack' # stack
    <3> DEFINE f(i) == [Top EXCEPT !.pc = "enable", !.partner = NoProc, !.k = 0, !.i = i]
    <3>1. \A i : Unpartnered(f(i))
      BY <1>3, <1>4 DEF Unpartnered, IsFrame
    <3>2. Goto(f(IF Owner(Top.proc) \in AltPri THEN 0 ELSE plus1_mod(alt[Top.proc].index, Size(Top.proc))))
      BY <1>7, <2>2 DEF EnableBegin, Crash
    <3> HIDE DEF f
    <3>3. QED BY <1>2, <3>1, <3>2, QuietGoes
  <2>3. QED BY <2>1, <2>2
<1>8. CASE EnableEnd
  <2>1. Goto(Rewound(Top))
    BY <1>8 DEF EnableEnd, Rewound
  <2>2. QED BY <1>2, <1>4, <2>1, QuietFrames, QuietGoes
<1>9. CASE EnableDone
  <2>1. \/ Goto([Top EXCEPT !.pc = "disable", !.partner = NoProc])
        \/ Goto([Top EXCEPT !.pc = "partner", !.flag = FALSE])
    BY <1>9 DEF EnableDone
  <2>2. Unpartnered([Top EXCEPT !.pc = "disable", !.partner = NoProc]) /\ Unpartnered([Top EXCEPT !.pc = "partner", !.flag = FALSE])
    BY <1>3, <1>4 DEF Unpartnered, IsFrame
  <2>3. QED BY <1>2, <2>1, <2>2, QuietGoes
<1>10. QED BY <1>5, <1>6, <1>7, <1>8, <1>9 DEF EnableStep

LEMMA DisableWakers ==
  ASSUME Reactive, AltInv, Wakers, DisableStep
  PROVE  Wakers'
<1>1. At("disable")
  BY Zenon DEF DisableStep, DisableInactive, DisableChanIn, DisableOutOrSkip, DisableTimeout,
               DisableIntr, TransferMessage, TransferCount, TransferNothing, Disabling, Disabled
<1>2. now' = now
  BY Zenon DEF DisableStep, DisableInactive, DisableChanIn, DisableOutOrSkip, DisableTimeout,
               DisableIntr, TransferMessage, TransferCount, TransferNothing, Crash, timeVars
<1>3. "disable" \in SchedulePcs /\ "partner" \in SchedulePcs
  BY DEF SchedulePcs
<1>4. Unpartnered(Top) /\ StackInv /\ FrameTypes /\ now \in Nat
  BY <1>1, <1>3, QuietTop
<1>5. ~DisableChanIn
  BY DisablingFacts DEF DisableChanIn, Reactive
<1>6. Goto(PrevGuard(Top)) \/ Goto(Leaving) \/ stack' = stack
  BY <1>5, Zenon DEF DisableStep, DisableInactive, DisableOutOrSkip, DisableTimeout,
                     DisableIntr, TransferMessage, TransferCount, TransferNothing, Crash
<1>7. Unpartnered(PrevGuard(Top)) /\ Unpartnered(Leaving)
  <2>1. Unpartnered([Top EXCEPT !.pc = "partner", !.flag = TRUE])
    BY <1>3, <1>4 DEF Unpartnered, IsFrame
  <2>2. QED BY <1>4, <2>1, QuietFrames DEF Leaving
<1>8. QED BY <1>2, <1>4, <1>6, <1>7, QuietGoes, SameWakers

LEMMA ScheduleWakers ==
  ASSUME AltInv, Wakers, ScheduleStep
  PROVE  Wakers'
<1>1. \E pc \in SchedulePcs : At(pc)
  BY DEF SchedulePcs, ScheduleStep, SelectSame, SelectNone, SelectNew, Take, Load, Finish, NoPartner, WakePartner, PartnerReturn
<1>2. now' = now
  BY DEF ScheduleStep, SelectSame, SelectNone, SelectNew, Take, Load, Finish, NoPartner, WakePartner, PartnerReturn,
         Crash, timeVars
<1>3. Unpartnered(Top) /\ StackInv /\ FrameTypes /\ now \in Nat
  BY <1>1, QuietTop
<1>4. CASE SelectNone
  BY <1>2, <1>3, <1>4, ReturnWakers DEF SelectNone, Unpartnered
<1>5. CASE SelectSame \/ SelectNew \/ Take
  <2> DEFINE f == [Top EXCEPT !.pc = "load"]
             g(k) == [Top EXCEPT !.pc = "take", !.k = k]
             h(p) == [Top EXCEPT !.pc = "load", !.proc = p, !.k = 0]
  <2>1. Unpartnered(f) /\ \A x : Unpartnered(g(x)) /\ Unpartnered(h(x))
    BY <1>3 DEF Unpartnered, IsFrame, SchedulePcs
  <2>2. Goto(f) \/ stack' = stack \/ Goto(g(highest_ready(rq.mask))) \/ Goto(h(rq.head[Top.k]))
    BY <1>5, Zenon DEF SelectSame, SelectNew, Take, Crash
  <2> HIDE DEF f, g, h
  <2>3. QED BY <1>2, <1>3, <2>1, <2>2, QuietGoes, SameWakers
<1>6. CASE Load
  <2> DEFINE f == [Top EXCEPT !.flag = FALSE]
             g(pc) == [f EXCEPT !.pc = pc]
             h(i, k) == [f EXCEPT !.pc = "disable", !.i = i, !.k = k]
  <2>1. Unpartnered(f)
    BY <1>3, QuietFrames
  <2>2. Goto(g("idle")) \/ Goto(g("rtc")) \/ Goto(g("begin")) \/ Goto(g("finish"))
        \/ Goto(h(alt[Top.proc].index, alt[Top.proc].count))
    BY <1>6 DEF Load
  <2> HIDE DEF f
  <2>3. Unpartnered(g("idle")) /\ Unpartnered(g("rtc")) /\ Unpartnered(g("begin")) /\ Unpartnered(g("finish"))
        /\ \A i, k : Unpartnered(h(i, k))
    BY <2>1 DEF Unpartnered, IsFrame, SchedulePcs
  <2> HIDE DEF g, h
  <2>4. QED BY <1>2, <2>2, <2>3, QuietGoes
<1>7. CASE Finish
  <2> DEFINE f(q) == [Top EXCEPT !.pc = "select", !.proc = q]
  <2>1. \A q : Unpartnered(f(q))
    BY <1>3 DEF Unpartnered, IsFrame, SchedulePcs
  <2>2. \E q \in {Top.proc, NoProc} : Goto(f(q))
    BY <1>7 DEF Finish
  <2> HIDE DEF f
  <2>3. PICK q : Goto(f(q))
    BY <2>2
  <2>4. QED BY <1>2, <2>1, <2>3, QuietGoes
<1>8. CASE NoPartner \/ PartnerReturn
  <2>1. Goto(AfterPartner(Top))
    BY <1>8 DEF NoPartner, PartnerReturn
  <2>2. QED BY <1>2, <1>3, <2>1, QuietFrames, QuietGoes
<1>9. ~WakePartner
  BY <1>3, RecordAssumption DEF WakePartner, Unpartnered
<1>10. QED BY <1>4, <1>5, <1>6, <1>7, <1>8, <1>9 DEF ScheduleStep

\* The activations that are pushed.
LEMMA NewWakers ==
  /\ \A p, t : Wakes(StartFrame(p), t)
  /\ \A b, t : Wakes(ScheduleFrame(b), t)
  /\ \A src, t : Wakes(HandlerFrame(src), t)
<1>1. \A fn, pc, b, src : /\ Frame(fn, pc, b, src).fn = fn /\ Frame(fn, pc, b, src).pc = pc
                          /\ Frame(fn, pc, b, src).partner = NoProc /\ IsFrame(Frame(fn, pc, b, src))
  BY DEF Frame, IsFrame
<1>2. \A b, t : Wakes(ScheduleFrame(b), t)
  BY <1>1 DEF ScheduleFrame, Wakes
<1>3. \A src, t : Wakes(HandlerFrame(src), t)
  BY <1>1 DEF HandlerFrame, Wakes
<1>4. ASSUME NEW p, NEW t
      PROVE  Wakes(StartFrame(p), t)
  <2> DEFINE f == Frame("start", "link", 0, None)
  <2>1. IsFrame(f) /\ f.fn = "start" /\ f.pc = "link"
    BY <1>1
  <2> HIDE DEF f
  <2>2. Wakes([f EXCEPT !.partner = p], t)
    BY <2>1 DEF Wakes, IsFrame
  <2>3. QED BY <2>2 DEF StartFrame, f
<1>5. QED BY <1>2, <1>3, <1>4

LEMMA RtcWakers ==
  ASSUME AltInv, Wakers, RtcStep
  PROVE  Wakers'
<1>1. At("rtc") \/ At("rtcRest")
  BY Zenon DEF RtcStep, RtcEnter, RtcRest
<1>2. "rtc" \in SchedulePcs /\ "rtcRest" \in SchedulePcs /\ "finish" \in SchedulePcs
  BY DEF SchedulePcs
<1>3. Unpartnered(Top) /\ StackInv /\ FrameTypes /\ now \in Nat
  BY <1>1, <1>2, QuietTop
<1>4. now' = now
  BY Zenon DEF RtcStep, RtcEnter, RtcRest
<1>5. CASE RtcRest
  <2>1. Goto([Top EXCEPT !.pc = "finish", !.act = NoAct])
    BY <1>5 DEF RtcRest
  <2>2. Unpartnered([Top EXCEPT !.pc = "finish", !.act = NoAct])
    BY <1>2, <1>3 DEF Unpartnered, IsFrame
  <2>3. QED BY <1>4, <2>1, <2>2, QuietGoes
<1>6. CASE RtcEnter
  <2> DEFINE f(act) == [Top EXCEPT !.pc = "rtcRest", !.act = act]
  <2>1. \A act : Unpartnered(f(act))
    BY <1>2, <1>3 DEF Unpartnered, IsFrame
  <2>2. \E act : \/ Goto(f(act))
                 \/ Call(f(act), StartFrame(act.start))
                 \/ Call(f(act), HandlerFrame(act.send))
    <3>1. PICK act : \/ start(act.start, f(act))
                     \/ Goto(f(act))
                     \/ Call(f(act), HandlerFrame(act.send))
      BY <1>6, Zenon DEF RtcEnter
    <3> HIDE DEF f
    <3>2. QED BY <3>1 DEF start
  <2> HIDE DEF f
  <2>3. PICK act : \/ Goto(f(act))
                   \/ Call(f(act), StartFrame(act.start))
                   \/ Call(f(act), HandlerFrame(act.send))
    BY <2>2
  <2>4. Wakes(f(act), now) /\ Wakes(StartFrame(act.start), now) /\ Wakes(HandlerFrame(act.send), now)
    BY <2>1, NewWakers, QuietFrames
  <2>5. QED BY <1>3, <1>4, <2>3, <2>4, GotoWakers, PushWakers
<1>7. QED BY <1>5, <1>6 DEF RtcStep

LEMMA MainWakers ==
  ASSUME AltInv, Wakers, MainStep \/ StartStep
  PROVE  Wakers'
<1>1. StackInv /\ FrameTypes /\ now \in Nat
  BY DEF AltInv, UrgencyInv, DataTypes
<1>2. now' = now
  BY DEF MainStep, MainStart, MainRun, StartStep, AppendLink, AppendTail, AppendNext, AppendHead, AppendStep, timeVars
<1>3. CASE MainStep
  <2>1. IsFrame(Top) /\ Top.fn = "main" /\ Top.pc = "main"
    BY <1>1, <1>3, AtFacts DEF MainStep, MainStart, MainRun, FrameOK
  <2>2. CASE MainRun
    <3> DEFINE f == [Top EXCEPT !.pc = "returned"]
    <3>1. Wakes(f, now)
      BY <2>1 DEF IsFrame, Wakes
    <3>2. Call(f, ScheduleFrame(PRI_MIN - 1))
      BY <2>2 DEF MainRun
    <3> HIDE DEF f
    <3>3. QED BY <1>1, <1>2, <3>1, <3>2, NewWakers, PushWakers
  <2>3. CASE MainStart
    <3> DEFINE f == [Top EXCEPT !.k = @ + 1]
    <3>1. Wakes(f, now)
      BY <2>1 DEF IsFrame, Wakes
    <3>2. Call(f, StartFrame(MainStarts[Top.k + 1]))
      BY <2>3 DEF MainStart, start
    <3> HIDE DEF f
    <3>3. QED BY <1>1, <1>2, <3>1, <3>2, NewWakers, PushWakers
  <2>4. QED BY <1>3, <2>2, <2>3 DEF MainStep
<1>4. CASE StartStep
  <2>1. Top.pc \in StartPcs
    BY <1>4 DEF StartStep, AppendLink, AppendTail, AppendNext, AppendHead, AppendStep, At, StartPcs
  <2>2. IsFrame(Top) /\ Top.fn = "start"
    BY <1>1, <2>1, Stacked DEF FrameOK
  <2>3. Return \/ \E pc \in StartPcs : Goto([Top EXCEPT !.pc = pc])
    BY <1>4 DEF StartStep, AppendLink, AppendTail, AppendNext, AppendHead, StartPcs
  <2>4. \A pc \in StartPcs : Wakes([Top EXCEPT !.pc = pc], now)
    BY <2>2 DEF IsFrame, Wakes, StartPcs
  <2>5. QED BY <1>1, <1>2, <2>2, <2>3, <2>4, ReturnWakers, GotoWakers
<1>5. QED BY <1>3, <1>4

LEMMA HandlerWakers ==
  ASSUME AltInv, Wakers, HandlerStep
  PROVE  Wakers'
<1>1. StackInv /\ FrameTypes /\ now \in Nat
  BY DEF AltInv, UrgencyInv, DataTypes
<1>2. now' = now
  BY DEF HandlerStep, HandleUser, HandleTimeout, TimeoutDue, TimeoutRearm, HandlerReturn, HandlerExit, HandlerRestore,
         Crash, timeVars
<1>3. Top.pc \in HandlerPcs
  BY DEF HandlerStep, HandleUser, HandleTimeout, TimeoutDue, TimeoutRearm, HandlerReturn, HandlerExit, HandlerRestore,
         At, HandlerPcs
<1>4. IsFrame(Top) /\ Top.fn = "handler" /\ Wakes(Top, now)
  BY <1>1, <1>3, Stacked DEF FrameOK, Wakers
<1> DEFINE g(pc) == [Top EXCEPT !.pc = pc]
<1>5. ASSUME NEW pc, NEW q, pc \notin {"due", "dueRet"} \/ Top.pc \in {"due", "dueRet"},
             readyProcessIfNecessary(q, g(pc))
      PROVE  Wakers'
  <2> DEFINE f == g(pc)
             h == [f EXCEPT !.prev = current]
  <2>1. Wakes(f, now) /\ Wakes(h, now)
    BY <1>4, <1>5 DEF IsFrame, Wakes
  <2>2. Goto(f) \/ Call(h, ScheduleFrame(PriOf(current)))
    BY <1>5 DEF readyProcessIfNecessary
  <2> HIDE DEF f, h
  <2>3. QED BY <1>1, <1>2, <2>1, <2>2, NewWakers, GotoWakers, PushWakers
<1>6. CASE HandleUser
  <2>1. \/ readyProcessIfNecessary(ichan[Top.src].waiting, g("userRet"))
        \/ Goto(g("exit"))
    BY <1>6, Zenon DEF HandleUser
  <2>2. Wakes(g("exit"), now)
    BY <1>4 DEF IsFrame, Wakes
  <2> HIDE DEF g
  <2>3. QED BY <1>1, <1>2, <1>5, <2>1, <2>2, GotoWakers
<1>7. CASE TimeoutDue
  <2>1. readyProcessIfNecessary(timerQ[1].proc, g("dueRet")) \/ stack' = stack
    BY <1>7, Zenon DEF TimeoutDue, Crash
  <2>2. Top.pc = "due"
    BY <1>7 DEF TimeoutDue, At
  <2> HIDE DEF g
  <2>3. QED BY <1>1, <1>2, <1>5, <2>1, <2>2, SameWakers
<1>8. CASE HandleTimeout
  <2>1. Goto([Top EXCEPT !.pc = "due", !.time = Now])
    BY <1>8 DEF HandleTimeout
  <2>2. Wakes([Top EXCEPT !.pc = "due", !.time = Now], now)
    BY <1>1, <1>4, NowOK DEF AltInv, IsFrame, Wakes
  <2>3. QED BY <1>1, <1>2, <2>1, <2>2, GotoWakers
<1>9. CASE TimeoutRearm
  <2>1. Goto(g("exit"))
    BY <1>9 DEF TimeoutRearm
  <2>2. Wakes(g("exit"), now)
    BY <1>4 DEF IsFrame, Wakes
  <2> HIDE DEF g
  <2>3. QED BY <1>1, <1>2, <2>1, <2>2, GotoWakers
<1>10. CASE HandlerReturn
  <2> DEFINE h(pc) == [Top EXCEPT !.pc = pc, !.prev = NoProc]
  <2>1. Goto(h("exit")) \/ (Goto(h("due")) /\ Top.pc = "dueRet")
    BY <1>10 DEF HandlerReturn, At
  <2>2. Wakes(h("exit"), now) /\ (Top.pc = "dueRet" => Wakes(h("due"), now))
    BY <1>4 DEF IsFrame, Wakes
  <2> HIDE DEF h
  <2>3. QED BY <1>1, <1>2, <2>1, <2>2, GotoWakers
<1>11. CASE HandlerExit
  <2>1. Goto(g("leave")) \/ Call(g("leave"), ScheduleFrame(PriOf(current)))
    BY <1>11 DEF HandlerExit
  <2>2. Wakes(g("leave"), now)
    BY <1>4 DEF IsFrame, Wakes
  <2> HIDE DEF g
  <2>3. QED BY <1>1, <1>2, <2>1, <2>2, NewWakers, GotoWakers, PushWakers
<1>12. CASE HandlerRestore
  BY <1>1, <1>2, <1>4, <1>12, ReturnWakers DEF HandlerRestore
<1>13. QED BY <1>6, <1>7, <1>8, <1>9, <1>10, <1>11, <1>12 DEF HandlerStep

LEMMA NextWakers ==
  ASSUME Reactive, AltInv, Wakers, UrgencyInv', [Next]_vars
  PROVE  Wakers'
<1>1. StackInv /\ FrameTypes /\ now \in Nat
  BY DEF AltInv, UrgencyInv, DataTypes
<1>2. CASE CpuStep /\ ~DISABLE /\ ~SigReturn
  BY <1>2, MainWakers, ScheduleWakers, RtcWakers, EnableWakers, DisableWakers, HandlerWakers DEF CpuStep
<1>3. CASE Clock \/ AlarmFires
  <2>1. AltInv' /\ stack' = stack /\ now' >= now
    BY <1>3, ClockInv
  <2>2. now' \in Nat
    BY <2>1 DEF AltInv, DataTypes
  <2>3. QED BY <1>1, <2>1, <2>2, SameWakers
<1>4. CASE ElapsedInterrupt \/ TimeoutInterrupt \/ \E u \in Intrs : UserInterrupt(u)
  <2>1. PICK src : stack' = Append(stack, HandlerFrame(src)) /\ now' = now
    BY <1>4 DEF ElapsedInterrupt, TimeoutInterrupt, UserInterrupt, Interrupt
  <2>2. Wakes(Top, now)
    BY <1>1, Stacked DEF Wakers
  <2>3. QED BY <1>1, <2>1, <2>2, NewWakers, PushWakers
<1>5. CASE DISABLE \/ SigReturn \/ UNCHANGED vars
  <2>1. stack' = stack /\ now' = now
    BY <1>5, StillInv
  <2>2. QED BY <1>1, <2>1, SameWakers
<1>6. QED BY <1>2, <1>3, <1>4, <1>5 DEF Next, Environment, CpuStep
-----------------------------------------------------------------------------
\* A process that a step leaves alone, or makes ready for a guard.

LEMMA StaysAnswering ==
  ASSUME NEW q \in Procs, AltInv, now' \in Nat, now' >= now,
         Answers(q, view[q], state[q], alt[q], active[q], timeout[q], now, ichan),
         view'[q] = view[q], alt'[q] = alt[q], active'[q] = active[q], timeout'[q] = timeout[q],
         \A u \in Intrs : \A i \in Branches(q) : Feeds(u, q, i) /\ ichan[u].count > 0 => ichan'[u].count > 0,
         \A u \in Intrs : ichan'[u].waiting = q => ichan[u].waiting = q,
         \/ state'[q] = state[q]
         \/ state'[q] = "ready" /\ Heard(q, view[q], state[q], alt[q], active[q], timeout[q], now', ichan')
  PROVE  Answers(q, view'[q], state'[q], alt'[q], active'[q], timeout'[q], now', ichan')
<1> DEFINE a == view[q]
           s == state[q]
           t == state'[q]
           al == alt[q]
           on == active[q]
           due == timeout[q]
           ic == ichan
           id == ichan'
           n == now
           m == now'
<1>1. n \in Nat /\ m \in Nat /\ m >= n /\ due.time \in Nat /\ on \subseteq Branches(q)
  <2>1. now \in Nat /\ timeout[q].time \in Nat
    BY DEF AltInv, DataTypes
  <2>2. active[q] \subseteq Branches(q)
    BY DEF AltInv, Fits, AltFits
  <2>3. QED BY <2>1, <2>2
<1>2. /\ Answers(q, a, s, al, on, due, n, ic)
      /\ \A u \in Intrs : \A i \in Branches(q) : Feeds(u, q, i) /\ ic[u].count > 0 => id[u].count > 0
      /\ \A u \in Intrs : id[u].waiting = q => ic[u].waiting = q
      /\ t = s \/ (t = "ready" /\ Heard(q, a, s, al, on, due, m, id))
  OBVIOUS
<1>3. view'[q] = a /\ alt'[q] = al /\ active'[q] = on /\ timeout'[q] = due
  OBVIOUS
<1> HIDE DEF a, s, t, al, on, due, ic, id, n, m
<1>4. \A i \in on : Sounds(q, i, due, n, ic) => Sounds(q, i, due, m, id)
  BY <1>1, <1>2 DEF Sounds
<1>5. \A i \in on : Engaged(q, i, a, s, al) => Engaged(q, i, a, t, al)
  BY <1>2 DEF Engaged
<1>6. Heard(q, a, s, al, on, due, n, ic) \/ Heard(q, a, s, al, on, due, m, id) => Heard(q, a, t, al, on, due, m, id)
  BY <1>4, <1>5 DEF Heard
<1>7. t = "ready" /\ a.pc # "disable" => Heard(q, a, t, al, on, due, m, id)
  BY <1>2, <1>6 DEF Answers
<1>8. a.pc = "enabled" /\ a.flag => a.i \in on /\ Sounds(q, a.i, due, m, id)
  BY <1>2, <1>4 DEF Answers
<1>9. a.pc = "disable" =>
        \/ Heard(q, a, t, al, on, due, m, id)
        \/ al.index \in on /\ Sounds(q, al.index, due, m, id)
        \/ Overdue(q, on, due, m)
  <2>1. Overdue(q, on, due, n) => Overdue(q, on, due, m)
    BY <1>1 DEF Overdue
  <2>2. QED BY <1>2, <1>4, <1>6, <2>1 DEF Answers
<1>10. \A u \in Intrs : id[u].waiting = q => \E i \in on : Feeds(u, q, i) /\ Engaged(q, i, a, t, al)
  BY <1>2, <1>5 DEF Answers
<1>11. Answers(q, a, t, al, on, due, m, id)
  BY <1>7, <1>8, <1>9, <1>10 DEF Answers
<1>12. QED BY <1>3, <1>11 DEF t, m, id

LEMMA AsideAnswers ==
  ASSUME AltInv, AnswerInv, Aside, now' \in Nat, now' >= now,
         \A u \in Intrs : ichan[u].count > 0 => ichan'[u].count > 0,
         \A u \in Intrs : ichan'[u].waiting = ichan[u].waiting,
         \A q \in Procs :
           \/ state'[q] = state[q]
           \/ state'[q] = "ready" /\ Heard(q, view[q], state[q], alt[q], active[q], timeout[q], now', ichan')
  PROVE  AnswerInv'
<1>1. ASSUME NEW q \in Procs
      PROVE  Answers(q, view'[q], state'[q], alt'[q], active'[q], timeout'[q], now', ichan')
  <2>1. /\ view'[q] = view[q] /\ alt'[q] = alt[q] /\ active'[q] = active[q] /\ timeout'[q] = timeout[q]
        /\ Answers(q, view[q], state[q], alt[q], active[q], timeout[q], now, ichan)
    BY DEF Aside, Kept, AnswerInv
  <2>2. QED BY <2>1, StaysAnswering
<1>2. QED BY <1>1, Zenon DEF AnswerInv

\* Process p executes, and registers nobody else in an interrupt channel.
Solo(p, a) ==
  /\ Runs(p, a) /\ OwnChanges(p) /\ now' = now
  /\ \A u \in Intrs : ichan'[u].waiting \in {ichan[u].waiting, p, NoProc}
  /\ \A q \in Procs : q # p => state'[q] = state[q]

LEMMA RunsAnswers ==
  ASSUME Reactive, AltInv, AnswerInv, NEW p \in Procs, NEW a, Solo(p, a),
         Answers(p, a, state'[p], alt'[p], active'[p], timeout'[p], now', ichan')
  PROVE  AnswerInv'
<1>1. ASSUME NEW q \in Procs
      PROVE  Answers(q, view'[q], state'[q], alt'[q], active'[q], timeout'[q], now', ichan')
  <2>1. CASE q = p
    <3>1. view'[p] = a
      BY DEF Solo, Runs
    <3>2. QED BY <2>1, <3>1
  <2>2. CASE q # p
    <3>1. /\ view'[q] = view[q] /\ alt'[q] = alt[q] /\ active'[q] = active[q] /\ timeout'[q] = timeout[q]
          /\ state'[q] = state[q] /\ now' = now
          /\ Answers(q, view[q], state[q], alt[q], active[q], timeout[q], now, ichan)
      BY <2>2 DEF Solo, Runs, Kept, AnswerInv
    <3>2. now \in Nat /\ now >= now
      BY DEF AltInv, DataTypes
    <3>3. \A u \in Intrs : \A i \in Branches(q) : Feeds(u, q, i) => ichan'[u] = ichan[u]
      BY <2>2 DEF Solo, OwnChanges, Reactive, Wired, Feeds
    <3>4. \A u \in Intrs : ichan'[u].waiting = q => ichan[u].waiting = q
      BY <2>2, RecordAssumption DEF Solo, Records
    <3>5. QED BY <3>1, <3>2, <3>3, <3>4, StaysAnswering
  <2>3. QED BY <2>1, <2>2
<1>2. QED BY <1>1, Zenon DEF AnswerInv

\* Nothing changes but what p executes.
LEMMA SoloSteps ==
  ASSUME AltInv, NEW p \in Procs, NEW a, Runs(p, a), ichan' = ichan, now' = now,
         \/ state' = state
         \/ \E s : state' = [state EXCEPT ![p] = s]
  PROVE  Solo(p, a)
<1>1. \A q \in Procs : q # p => state'[q] = state[q]
  BY DEF AltInv, UrgencyInv, NoneEnds, Records
<1>2. QED BY <1>1 DEF Solo, OwnChanges

\* No guard of p that was enabled gets disabled.
LEMMA GrowAnswers ==
  ASSUME Reactive, AltInv, AnswerInv, NEW p \in Procs, NEW a, Solo(p, a), UNCHANGED <<active, timeout>>,
         view[p].pc # "disable", \A u \in Intrs : ichan'[u].count = ichan[u].count,
         \A i \in active[p] : Engaged(p, i, view[p], state[p], alt[p]) => Engaged(p, i, a, state'[p], alt'[p]),
         \A u \in Intrs : ichan'[u].waiting = p =>
           \/ ichan[u].waiting = p
           \/ \E i \in active[p] : Feeds(u, p, i) /\ Engaged(p, i, a, state'[p], alt'[p]),
         a.pc = "enabled" /\ a.flag => a.i \in active[p] /\ Sounds(p, a.i, timeout[p], now, ichan),
         state'[p] = "ready" \/ a.pc = "disable" =>
           \/ state[p] = "ready"
           \/ \E i \in active[p] : Engaged(p, i, a, state'[p], alt'[p]) /\ Sounds(p, i, timeout[p], now, ichan)
  PROVE  AnswerInv'
<1> DEFINE b == view[p]
           s == state[p]
           t == state'[p]
           al == alt[p]
           am == alt'[p]
           on == active[p]
           due == timeout[p]
           ic == ichan
           id == ichan'
<1>1. /\ b.pc # "disable" /\ \A u \in Intrs : id[u].count = ic[u].count
      /\ \A i \in on : Engaged(p, i, b, s, al) => Engaged(p, i, a, t, am)
      /\ \A u \in Intrs : id[u].waiting = p => ic[u].waiting = p \/ \E i \in on : Feeds(u, p, i) /\ Engaged(p, i, a, t, am)
  OBVIOUS
<1>2. /\ a.pc = "enabled" /\ a.flag => a.i \in on /\ Sounds(p, a.i, due, now, ic)
      /\ t = "ready" \/ a.pc = "disable" =>
           s = "ready" \/ \E i \in on : Engaged(p, i, a, t, am) /\ Sounds(p, i, due, now, ic)
  OBVIOUS
<1>3. Answers(p, b, s, al, on, due, now, ic)
  BY DEF AnswerInv
<1>4. now' = now /\ active'[p] = on /\ timeout'[p] = due
  BY DEF Solo
<1> HIDE DEF b, s, t, al, am, on, due, ic, id
<1>5. \A i : Sounds(p, i, due, now, ic) => Sounds(p, i, due, now, id)
  BY <1>1 DEF Sounds
<1>6. Heard(p, b, s, al, on, due, now, ic) => Heard(p, a, t, am, on, due, now, id)
  BY <1>1, <1>5 DEF Heard
<1>7. s = "ready" => Heard(p, b, s, al, on, due, now, ic)
  BY <1>1, <1>3 DEF Answers
<1>8. t = "ready" \/ a.pc = "disable" => Heard(p, a, t, am, on, due, now, id)
  <2>1. (\E i \in on : Engaged(p, i, a, t, am) /\ Sounds(p, i, due, now, ic)) => Heard(p, a, t, am, on, due, now, id)
    BY <1>5 DEF Heard
  <2>2. QED BY <1>2, <1>6, <1>7, <2>1
<1>9. \A u \in Intrs : id[u].waiting = p => \E i \in on : Feeds(u, p, i) /\ Engaged(p, i, a, t, am)
  BY <1>1, <1>3 DEF Answers
<1>10. Answers(p, a, t, am, on, due, now, id)
  BY <1>2, <1>5, <1>8, <1>9 DEF Answers
<1>11. QED BY <1>4, <1>10, RunsAnswers DEF t, am, id

\* No guard of p was enabled, and p is not ready.
LEMMA ResetAnswers ==
  ASSUME Reactive, AltInv, AnswerInv, NEW p \in Procs, NEW a, Solo(p, a),
         \A i \in active[p] : ~Engaged(p, i, view[p], state[p], alt[p]),
         \A u \in Intrs : ichan'[u].waiting \in {ichan[u].waiting, NoProc},
         state'[p] # "ready" \/ (state'[p] = state[p] /\ view[p].pc # "disable"),
         a.pc \notin {"enabled", "disable"}
  PROVE  AnswerInv'
<1> DEFINE b == view[p]
           s == state[p]
           t == state'[p]
           id == ichan'
<1>1. Answers(p, b, s, alt[p], active[p], timeout[p], now, ichan)
  BY DEF AnswerInv
<1>2. (\A i \in active[p] : ~Engaged(p, i, b, s, alt[p])) /\ (t # "ready" \/ (t = s /\ b.pc # "disable"))
      /\ \A u \in Intrs : id[u].waiting \in {ichan[u].waiting, NoProc}
  OBVIOUS
<1>3. p # NoProc
  BY RecordAssumption DEF Records
<1> HIDE DEF b, s, t, id
<1>4. t # "ready"
  BY <1>1, <1>2 DEF Answers, Heard
<1>5. \A u \in Intrs : id[u].waiting # p
  BY <1>1, <1>2, <1>3 DEF Answers
<1> DEFINE am == alt'[p]
           on == active'[p]
           due == timeout'[p]
           m == now'
<1> HIDE DEF am, on, due, m
<1>6. Answers(p, a, t, am, on, due, m, id)
  BY <1>4, <1>5 DEF Answers
<1>7. QED BY <1>6, RunsAnswers DEF t, id, am, on, due, m
-----------------------------------------------------------------------------
\* enable_alt().

LEMMA PassAnswers ==
  ASSUME Reactive, AltInv, AnswerInv, NEW p \in Procs, NEW a, Solo(p, a), UNCHANGED <<state, active, timeout>>,
         p = Top.proc, Top.pc \in {"enable", "insert"}, Top.k \in Branches(p), Top.i \in Branches(p),
         a.pc = "enable", a.i = plus1_mod(Top.i, NrGuards[p]), a.k = Top.k + 1,
         \A u \in Intrs : ichan'[u].count = ichan[u].count,
         \A u \in Intrs : ichan'[u].waiting = p => ichan[u].waiting = p \/ (Top.i \in active[p] /\ Feeds(u, p, Top.i))
  PROVE  AnswerInv'
<1> DEFINE s == state[p]
           al == alt[p]
           am == alt'[p]
           id == ichan'
           b == Top
<1>1. view[p] = b /\ b.pc # "disable" /\ a.pc # "disable" /\ a.pc # "enabled" /\ state'[p] = s /\ p \in Procs
  BY Here
<1>2. \A i : i \in Visited(a.i, a.k, p) <=> i \in Visited(b.i, b.k, p) \/ i = b.i
  BY Loops
<1>3. b.pc \in {"enable", "insert"} /\ a.pc = "enable"
  OBVIOUS
<1>4. \A u \in Intrs : id[u].waiting = p => ichan[u].waiting = p \/ (b.i \in active[p] /\ Feeds(u, p, b.i))
  OBVIOUS
<1> HIDE DEF s, al, am, id, b
<1>5. \A i : Engaged(p, i, b, s, al) => Engaged(p, i, a, s, am)
  BY <1>2, <1>3 DEF Engaged
<1>6. Engaged(p, b.i, a, s, am)
  BY <1>2, <1>3 DEF Engaged
<1>7. \A u \in Intrs : id[u].waiting = p =>
        ichan[u].waiting = p \/ \E i \in active[p] : Feeds(u, p, i) /\ Engaged(p, i, a, s, am)
  BY <1>4, <1>6
<1>8. \A i : Engaged(p, i, view[p], state[p], alt[p]) => Engaged(p, i, a, state'[p], alt'[p])
  BY <1>1, <1>5 DEF s, al, am
<1>9. \A u \in Intrs : ichan'[u].waiting = p =>
        ichan[u].waiting = p \/ \E i \in active[p] : Feeds(u, p, i) /\ Engaged(p, i, a, state'[p], alt'[p])
  BY <1>1, <1>7 DEF id, am
<1>10. view[p].pc # "disable" /\ (state'[p] = "ready" \/ a.pc = "disable" => state[p] = "ready")
  BY <1>1 DEF s
<1>11. QED BY <1>1, <1>8, <1>9, <1>10, GrowAnswers

LEMMA FoundAnswers ==
  ASSUME Reactive, AltInv, AnswerInv, NEW p \in Procs, NEW a, Runs(p, a), UNCHANGED <<state, active, timeout, ichan, now>>,
         p = Top.proc, Top.pc = "enable", a.pc = "enabled", a.i = Top.i, a.k = Top.k, a.flag,
         Top.i \in active[p], Sounds(p, Top.i, timeout[p], now, ichan)
  PROVE  AnswerInv'
<1>1. Solo(p, a)
  BY SoloSteps
<1> DEFINE s == state[p]
           al == alt[p]
           am == alt'[p]
           b == Top
<1>2. view[p] = b /\ b.pc = "enable" /\ a.i = b.i /\ a.k = b.k /\ state'[p] = s
  BY Here
<1> HIDE DEF s, al, am, b
<1>3. \A i : Engaged(p, i, b, s, al) => Engaged(p, i, a, s, am)
  BY <1>2 DEF Engaged
<1>4. \A i : Engaged(p, i, view[p], state[p], alt[p]) => Engaged(p, i, a, state'[p], alt'[p])
  BY <1>2, <1>3 DEF s, al, am
<1>5. view[p].pc # "disable"
  BY <1>2
<1>6. QED BY <1>1, <1>4, <1>5, GrowAnswers

LEMMA EnableAnswers ==
  ASSUME Reactive, AltInv, AnswerInv, UrgencyInv', EnableInactive \/ EnableSkip \/ EnableTimeout
  PROVE  AnswerInv'
<1> DEFINE p == Top.proc
<1>1. At("enable") /\ Top.k < Size(p) /\ UNCHANGED <<state, active, timeout, ichan, now>>
  BY DEF EnableInactive, EnableSkip, EnableTimeout, Enabling, procVars, altVars, ioVars, timeVars
<1>2. /\ p \in Procs /\ HasAlt(p, alt[p]) /\ Top.pc = "enable" /\ Top.i \in Branches(p) /\ Top.k \in Branches(p)
      /\ IsFrame(Top) /\ view[p] = Top
  BY <1>1, EnableFacts, Here DEF At
<1>3. NextGuard(Top).pc = "enable" /\ NextGuard(Top).i = plus1_mod(Top.i, NrGuards[p]) /\ NextGuard(Top).k = Top.k + 1
  BY <1>2, EnableFrame
<1>4. Ready(Top).pc = "enabled" /\ Ready(Top).i = Top.i /\ Ready(Top).k = Top.k /\ Ready(Top).flag
  BY <1>2, EnableFrame
<1>5. CASE EnableInactive
  <2>1. Runs(p, NextGuard(Top))
    BY <1>5, EnableInactiveInv
  <2>2. Solo(p, NextGuard(Top))
    BY <1>1, <1>2, <2>1, SoloSteps
  <2>3. QED BY <1>1, <1>2, <1>3, <2>2, PassAnswers
<1>6. CASE EnableSkip
  <2>1. Runs(p, Ready(Top)) /\ Top.i \in active[p] /\ Guards[p][Top.i].type = "skip"
    BY <1>6, EnableSkipInv, EnablingFacts DEF EnableSkip
  <2>2. Sounds(p, Top.i, timeout[p], now, ichan)
    BY <2>1 DEF Sounds
  <2>3. QED BY <1>1, <1>2, <1>4, <2>1, <2>2, FoundAnswers
<1>7. CASE EnableTimeout
  <2> DEFINE f == [Top EXCEPT !.pc = "insert"]
             late == Now >= timeout[p].time
  <2>1. Runs(p, IF late THEN Ready(Top) ELSE f) /\ Top.i \in active[p] /\ Guards[p][Top.i].type = "timeout"
    BY <1>7, EnableTimeoutInv, EnablingFacts DEF EnableTimeout
  <2>2. CASE late
    <3>1. Sounds(p, Top.i, timeout[p], now, ichan)
      <4>1. now \in Nat /\ Now \in Nat /\ Now <= now /\ timeout[p].time \in Nat
        BY <1>2, NowOK DEF AltInv, DataTypes
      <4>2. QED BY <2>1, <2>2, <4>1 DEF Sounds
    <3>2. QED BY <1>1, <1>2, <1>4, <2>1, <2>2, <3>1, FoundAnswers
  <2>3. CASE ~late
    <3>1. f.pc = "insert" /\ f.i = Top.i /\ f.k = Top.k /\ f.flag = Top.flag
      BY <1>2, InsertFrame
    <3>2. Runs(p, f)
      BY <2>1, <2>3
    <3> HIDE DEF f
    <3>3. Solo(p, f)
      BY <1>1, <1>2, <3>2, SoloSteps
    <3> DEFINE s == state[p]
               al == alt[p]
               am == alt'[p]
               b == Top
    <3>4. b.pc = "enable" /\ f.i = b.i /\ f.k = b.k /\ f.pc = "insert"
      BY <1>2, <3>1
    <3> HIDE DEF s, al, am, b
    <3>5. \A i : Engaged(p, i, b, s, al) => Engaged(p, i, f, s, am)
      BY <3>4 DEF Engaged
    <3>6. \A i : Engaged(p, i, view[p], state[p], alt[p]) => Engaged(p, i, f, state'[p], alt'[p])
      BY <1>1, <1>2, <3>5 DEF s, al, am, b
    <3>7. view[p].pc # "disable" /\ state'[p] = state[p]
      BY <1>1, <1>2
    <3>8. QED BY <1>1, <1>2, <3>1, <3>3, <3>6, <3>7, GrowAnswers
  <2>4. QED BY <2>2, <2>3
<1>8. QED BY <1>5, <1>6, <1>7

LEMMA EnableIntrAnswers ==
  ASSUME Reactive, AltInv, AnswerInv, UrgencyInv', EnableIntr
  PROVE  AnswerInv'
<1> DEFINE p == Top.proc
           u == Guards[p][Top.i].ch
<1>1. /\ p \in Procs /\ Top.pc = "enable" /\ Top.i \in Branches(p) /\ Top.i \in active[p] /\ Top.k \in Branches(p)
      /\ Guards[p][Top.i].type = "interrupt" /\ HasAlt(p, alt[p]) /\ u \in Intrs
  <2>1. Enabling("interrupt")
    BY DEF EnableIntr
  <2>2. At("enable")
    BY <2>1 DEF Enabling
  <2>3. QED BY <2>1, <2>2, EnablingFacts, EnableFacts, GuardFacts
<1>2. \/ /\ Runs(p, NextGuard(Top)) /\ ichan[u].count = 0
         /\ ichan' = [ichan EXCEPT ![u].waiting = p]
      \/ Runs(p, Ready(Top)) /\ ichan[u].count # 0 /\ ichan' = ichan
  BY EnableIntrInv, Zenon
<1>3. UNCHANGED <<state, active, timeout, now>>
  BY DEF EnableIntr, procVars, altVars, timeVars
<1>4. Feeds(u, p, Top.i)
  BY <1>1 DEF Feeds
<1> HIDE DEF u
<1>5. CASE Runs(p, NextGuard(Top)) /\ ichan' = [ichan EXCEPT ![u].waiting = p]
  <2>1. /\ ichan'[u].waiting = p /\ ichan'[u].count = ichan[u].count
        /\ \A v \in Intrs : v # u => ichan'[v] = ichan[v]
    BY <1>1, <1>5, Registers
  <2>2. OwnChanges(p)
    BY <1>1, <1>4, <2>1 DEF OwnChanges
  <2>3. NextGuard(Top).pc = "enable" /\ NextGuard(Top).i = plus1_mod(Top.i, NrGuards[p]) /\ NextGuard(Top).k = Top.k + 1
    BY <1>1, EnableFrame
  <2>4. /\ \A v \in Intrs : ichan'[v].count = ichan[v].count
        /\ \A v \in Intrs : ichan'[v].waiting \in {ichan[v].waiting, p, NoProc}
        /\ \A v \in Intrs : ichan'[v].waiting = p => ichan[v].waiting = p \/ (Top.i \in active[p] /\ Feeds(v, p, Top.i))
    BY <1>1, <1>4, <2>1
  <2>5. Solo(p, NextGuard(Top))
    BY <1>3, <1>5, <2>2, <2>4 DEF Solo
  <2>6. QED BY <1>1, <1>3, <2>3, <2>4, <2>5, PassAnswers
<1>6. CASE Runs(p, Ready(Top)) /\ ichan[u].count # 0 /\ ichan' = ichan
  <2>1. Ready(Top).pc = "enabled" /\ Ready(Top).i = Top.i /\ Ready(Top).k = Top.k /\ Ready(Top).flag
    BY <1>1, EnableFrame
  <2>2. ichan[u].count > 0
    BY <1>1, <1>6 DEF AltInv, WaiterTypes
  <2>3. Sounds(p, Top.i, timeout[p], now, ichan)
    BY <1>1, <1>4, <2>2 DEF Sounds
  <2>4. QED BY <1>1, <1>3, <1>6, <2>1, <2>3, FoundAnswers
<1>7. QED BY <1>2, <1>5, <1>6, Zenon
LEMMA EnableRestAnswers ==
  ASSUME Reactive, AltInv, QueueInv, AnswerInv, UrgencyInv', EnableBegin \/ EnableInsert \/ EnableEnd
  PROVE  AnswerInv'
<1> DEFINE p == Top.proc
<1>1. CASE EnableBegin
  <2>1. p \in Procs /\ Top.pc = "begin" /\ view[p] = Top
    BY <1>1, EnableBeginInv, Here
  <2>2. \/ Aside /\ state' = state /\ UNCHANGED <<altVars, ioVars, timeVars>>
        \/ \E f : /\ Runs(p, f) /\ f.pc = "enable" /\ state' = [state EXCEPT ![p] = "enabling"]
                  /\ UNCHANGED <<altVars, ioVars, timeVars>>
    BY <1>1, EnableBeginInv
  <2>3. CASE Aside /\ state' = state /\ UNCHANGED <<altVars, ioVars, timeVars>>
    <3>1. now' = now /\ ichan' = ichan /\ now \in Nat
      BY <2>3 DEF ioVars, timeVars, AltInv, DataTypes
    <3>2. now' \in Nat /\ now' >= now
      BY <3>1
    <3>3. QED BY <2>3, <3>1, <3>2, AsideAnswers
  <2>4. ASSUME NEW f, Runs(p, f), f.pc = "enable", state' = [state EXCEPT ![p] = "enabling"],
               UNCHANGED <<altVars, ioVars, timeVars>>
        PROVE  AnswerInv'
    <3>1. Solo(p, f)
      BY <2>1, <2>4, SoloSteps DEF ioVars, timeVars
    <3>2. state'[p] = "enabling" /\ ichan' = ichan
      BY <2>1, <2>4 DEF AltInv, UrgencyInv, NoneEnds, Records, ioVars
    <3>3. \A i : ~Engaged(p, i, view[p], state[p], alt[p])
      <4> DEFINE s == state[p]
                 al == alt[p]
                 b == view[p]
      <4>1. b.pc = "begin"
        BY <2>1
      <4> HIDE DEF s, al, b
      <4>2. \A i : ~Engaged(p, i, b, s, al)
        BY <4>1 DEF Engaged
      <4>3. QED BY <4>2 DEF s, al, b
    <3>4. QED BY <2>1, <2>4, <3>1, <3>2, <3>3, ResetAnswers
  <2>5. QED BY <2>2, <2>3, <2>4
<1>2. CASE EnableInsert
  <2> DEFINE a == NextGuard([Top EXCEPT !.pc = "enable"])
             i == Top.i
             k == Top.k
  <2>1. p \in Procs /\ Top.pc = "insert" /\ Runs(p, a)
    BY <1>2, EnableInsertInv
  <2>2. k \in Branches(p) /\ i \in Branches(p) /\ HasAlt(p, alt[p]) /\ IsFrame(Top)
    BY <2>1, Here DEF AltFits, LoopFits
  <2>3. a.pc = "enable" /\ a.i = plus1_mod(i, NrGuards[p]) /\ a.k = k + 1
    <3>1. Size(p) = NrGuards[p]
      BY <2>1, <2>2, Guarded
    <3>2. QED BY <2>2, <3>1 DEF IsFrame, NextGuard
  <2>4. UNCHANGED <<state, active, timeout, ichan, now>>
    BY <1>2 DEF EnableInsert, procVars, altVars, ioVars
  <2> HIDE DEF a
  <2>5. Solo(p, a)
    BY <2>1, <2>4, SoloSteps
  <2>6. QED BY <2>1, <2>2, <2>3, <2>4, <2>5, PassAnswers
<1>3. CASE EnableEnd
  <2> DEFINE a == Rewound(Top)
  <2>1. /\ p \in Procs /\ Runs(p, a) /\ Top.pc = "enable" /\ Top.k = NrGuards[p] /\ Top.i \in Branches(p)
        /\ a.pc = "enabled" /\ a.k = NrGuards[p] - 1 /\ a.i \in Branches(p) /\ a.flag = Top.flag /\ view[p] = Top
    BY <1>3, EnableEndInv, Here
  <2>2. UNCHANGED <<state, active, timeout, ichan, now>>
    BY <1>3 DEF EnableEnd, procVars, altVars, ioVars, timeVars
  <2> HIDE DEF a
  <2>3. Solo(p, a)
    BY <2>1, <2>2, SoloSteps
  <2>4. ~a.flag
    BY <2>1 DEF QueueInv, Searching
  <2>5. active[p] \subseteq Branches(p)
    BY <2>1 DEF AltInv, Fits, AltFits
  <2>6. \A i \in active[p] : Engaged(p, i, a, state'[p], alt'[p])
    <3> DEFINE s == state'[p]
               am == alt'[p]
    <3> HIDE DEF s, am
    <3>1. \A i \in active[p] : Engaged(p, i, a, s, am)
      BY <2>1, <2>4, <2>5, Loops DEF Engaged
    <3>2. QED BY <3>1 DEF s, am
  <2>7. view[p].pc # "disable" /\ a.pc # "disable" /\ state'[p] = state[p]
    BY <2>1, <2>2
  <2>8. QED BY <2>1, <2>2, <2>3, <2>4, <2>6, <2>7, GrowAnswers
<1>4. QED BY <1>1, <1>2, <1>3

\* schedule() goes on to disable_alt() for a guard that was found, or that made
\* the process ready meanwhile.
LEMMA EnableDoneAnswers ==
  ASSUME Reactive, AltInv, AnswerInv, UrgencyInv', EnableDone
  PROVE  AnswerInv'
<1> DEFINE p == Top.proc
<1>1. /\ p \in Procs /\ Top.pc = "enabled" /\ Top.i \in Branches(p) /\ Top.k \in Branches(p)
      /\ alt' = [alt EXCEPT ![p].index = Top.i, ![p].count = Top.k]
      /\ UNCHANGED <<active, timeout, ichan, now>> /\ view[p] = Top
      /\ active[p] \subseteq Branches(p) /\ (~Top.flag => Top.k = NrGuards[p] - 1)
  <2>1. AltFits(p, Top, state[p], alt[p], active[p], timeout[p])
    BY EnableDoneInv, Here
  <2>2. QED BY <2>1, EnableDoneInv, Here DEF ioVars, timeVars, AltFits, LoopFits
<1>2. PICK f, s :
        /\ Runs(p, f) /\ state' = [state EXCEPT ![p] = s] /\ f.i = Top.i /\ f.k = Top.k
        /\ \/ s = "ready" /\ f.pc = "disable" /\ (state[p] = "ready" \/ Top.flag)
           \/ s = "waiting" /\ f.pc = "partner" /\ ~f.flag /\ ~Top.flag
  BY EnableDoneInv
<1>3. alt'[p].index = Top.i /\ alt'[p].count = Top.k /\ state'[p] = s
  <2>1. state \in [Records -> {"unstarted", "initial", "quiescent", "enabling", "waiting", "ready", "done"}]
        /\ alt \in [Records -> [guards : Procs \cup {NoProc}, index : Int, count : Int]] /\ p \in Records
    BY <1>1 DEF AltInv, DataTypes, UrgencyInv, NoneEnds, Records
  <2>2. QED BY <1>1, <1>2, <2>1
<1>4. Solo(p, f)
  BY <1>1, <1>2, SoloSteps
<1> DEFINE am == alt'[p]
           al == alt[p]
           q == state[p]
           b == Top
           on == active[p]
           due == timeout[p]
<1>5. /\ p \in Procs /\ b.pc = "enabled" /\ b.i \in Branches(p) /\ b.k \in Branches(p) /\ on \subseteq Branches(p)
      /\ (~b.flag => b.k = NrGuards[p] - 1) /\ am.index = b.i /\ am.count = b.k /\ f.i = b.i /\ f.k = b.k
      /\ \/ s = "ready" /\ f.pc = "disable" /\ (q = "ready" \/ b.flag)
         \/ s = "waiting" /\ f.pc = "partner" /\ ~f.flag /\ ~b.flag
      /\ Answers(p, b, q, al, on, due, now, ichan)
  BY <1>1, <1>2, <1>3 DEF AnswerInv
<1> HIDE DEF am, al, q, b, on, due
<1>6. ToVisit(b.i, b.k, p) = Visited(b.i, b.k, p) \cup {b.i} /\ (~b.flag => ToVisit(b.i, b.k, p) = Branches(p))
  BY <1>5, Loops
<1>7. \A i \in on : Engaged(p, i, b, q, al) => Engaged(p, i, f, s, am)
  BY <1>5, <1>6 DEF Engaged
<1>8. b.flag => b.i \in on /\ Engaged(p, b.i, f, s, am) /\ Sounds(p, b.i, due, now, ichan)
  BY <1>5, <1>6 DEF Answers, Engaged
<1>9. s = "ready" \/ f.pc = "disable" =>
        q = "ready" \/ \E i \in on : Engaged(p, i, f, s, am) /\ Sounds(p, i, due, now, ichan)
  BY <1>5, <1>8
<1>10. f.pc # "enabled"
  BY <1>2
<1>11. \A i \in active[p] : Engaged(p, i, view[p], state[p], alt[p]) => Engaged(p, i, f, state'[p], alt'[p])
  BY <1>1, <1>3, <1>7 DEF on, q, al, am, b
<1>12. state'[p] = "ready" \/ f.pc = "disable" =>
         state[p] = "ready" \/ \E i \in active[p] : Engaged(p, i, f, state'[p], alt'[p]) /\ Sounds(p, i, timeout[p], now, ichan)
  BY <1>3, <1>9 DEF on, q, am, due
<1>13. view[p].pc # "disable"
  BY <1>1
<1>14. QED BY <1>1, <1>4, <1>10, <1>11, <1>12, <1>13, GrowAnswers

-----------------------------------------------------------------------------
\* disable_alt().

\* It comes to a guard, which it selects if it is ready.
LEMMA VisitAnswers ==
  ASSUME Reactive, AltInv, AnswerInv, NEW p \in Procs, NEW a, Solo(p, a), UNCHANGED <<state, active, timeout>>,
         p = Top.proc, Top.pc = "disable", Top.k \in Branches(p), Top.i \in Branches(p),
         a.pc = "disable", a.i = minus1_mod(Top.i, NrGuards[p]), a.k = Top.k - 1,
         \A u \in Intrs : ichan'[u].count = ichan[u].count,
         \A u \in Intrs : ichan'[u].waiting = p => ichan[u].waiting = p /\ ~(Top.i \in active[p] /\ Feeds(u, p, Top.i)),
         IF Top.i \in active[p] /\ Sounds(p, Top.i, timeout[p], now, ichan)
         THEN alt'[p].index = Top.i \/ Overdue(p, active[p], timeout[p], now)
         ELSE alt'[p] = alt[p]
  PROVE  AnswerInv'
<1> DEFINE s == state[p]
           al == alt[p]
           am == alt'[p]
           on == active[p]
           due == timeout[p]
           ic == ichan
           id == ichan'
           b == Top
<1>1. Answers(p, b, s, al, on, due, now, ic)
  BY Here DEF AnswerInv
<1>2. \A i : i \in ToVisit(a.i, a.k, p) <=> i \in ToVisit(b.i, b.k, p) /\ i # b.i
  BY Loops
<1>3. /\ b.pc = "disable" /\ a.pc = "disable"
      /\ \A u \in Intrs : id[u].count = ic[u].count
      /\ \A u \in Intrs : id[u].waiting = p => ic[u].waiting = p /\ ~(b.i \in on /\ Feeds(u, p, b.i))
      /\ IF b.i \in on /\ Sounds(p, b.i, due, now, ic)
         THEN am.index = b.i \/ Overdue(p, on, due, now) ELSE am = al
  OBVIOUS
<1>4. now' = now /\ active'[p] = on /\ timeout'[p] = due /\ state'[p] = s
  BY DEF Solo
<1> HIDE DEF s, al, am, on, due, ic, id, b
<1>5. \A i : Sounds(p, i, due, now, ic) => Sounds(p, i, due, now, id)
  BY <1>3 DEF Sounds
<1>6. \A i : Engaged(p, i, b, s, al) /\ i # b.i => Engaged(p, i, a, s, am)
  BY <1>2, <1>3 DEF Engaged
<1>7. \/ Heard(p, a, s, am, on, due, now, id)
      \/ am.index \in on /\ Sounds(p, am.index, due, now, id)
      \/ Overdue(p, on, due, now)
  <2>1. CASE b.i \in on /\ Sounds(p, b.i, due, now, ic)
    BY <1>3, <1>5, <2>1
  <2>2. CASE ~(b.i \in on /\ Sounds(p, b.i, due, now, ic))
    <3>1. am = al
      BY <1>3, <2>2
    <3>2. \/ Heard(p, b, s, al, on, due, now, ic)
          \/ al.index \in on /\ Sounds(p, al.index, due, now, ic)
          \/ Overdue(p, on, due, now)
      BY <1>1, <1>3 DEF Answers
    <3>3. CASE Heard(p, b, s, al, on, due, now, ic)
      <4>1. PICK i \in on : Engaged(p, i, b, s, al) /\ Sounds(p, i, due, now, ic)
        BY <3>3 DEF Heard
      <4>2. i # b.i
        BY <2>2, <4>1
      <4>3. Engaged(p, i, a, s, am) /\ Sounds(p, i, due, now, id)
        BY <1>5, <1>6, <4>1, <4>2
      <4>4. QED BY <4>3 DEF Heard
    <3>4. QED BY <1>5, <3>1, <3>2, <3>3
  <2>3. QED BY <2>1, <2>2
<1>8. \A u \in Intrs : id[u].waiting = p => \E i \in on : Feeds(u, p, i) /\ Engaged(p, i, a, s, am)
  BY <1>1, <1>3, <1>6 DEF Answers
<1>9. Answers(p, a, s, am, on, due, now, id)
  BY <1>3, <1>7, <1>8 DEF Answers
<1>10. QED BY <1>4, <1>9, RunsAnswers DEF s, am, id

LEMMA Chooses ==
  ASSUME AltInv, NEW p \in Procs, NEW i, alt' = [alt EXCEPT ![p].index = i]
  PROVE  alt'[p].index = i
<1>1. alt \in [Records -> [guards : Procs \cup {NoProc}, index : Int, count : Int]] /\ p \in Records
  BY DEF AltInv, DataTypes, Records
<1>2. QED BY <1>1

LEMMA DisableAnswers ==
  ASSUME Reactive, AltInv, AnswerInv, UrgencyInv',
         DisableInactive \/ DisableOutOrSkip \/ DisableTimeout \/ DisableIntr
  PROVE  AnswerInv'
<1> DEFINE p == Top.proc
           a == PrevGuard(Top)
           i == Top.i
           due == timeout[p]
<1>1. /\ Runs(p, a) /\ p \in Procs /\ Top.pc = "disable" /\ Top.k \in Branches(p) /\ i \in Branches(p)
      /\ HasAlt(p, alt[p]) /\ IsFrame(Top)
  <2>1. /\ Runs(p, a) /\ p \in Procs /\ Top.pc = "disable" /\ Top.k \in Branches(p) /\ i \in Branches(p)
    BY DisableInactiveInv, DisableOutOrSkipInv, DisableTimeoutInv, DisableIntrInv
  <2>2. AltFits(p, Top, state[p], alt[p], active[p], timeout[p]) /\ IsFrame(Top)
    BY <2>1, Here
  <2>3. QED BY <2>1, <2>2 DEF AltFits, LoopFits
<1>2. a.pc = "disable" /\ a.i = minus1_mod(i, NrGuards[p]) /\ a.k = Top.k - 1
  <2>1. Size(p) = NrGuards[p]
    BY <1>1, Guarded
  <2>2. QED BY <1>1, <2>1 DEF IsFrame, PrevGuard
<1>3. UNCHANGED <<state, active, timeout, now>>
  BY DEF DisableInactive, DisableOutOrSkip, DisableTimeout, DisableIntr, procVars, altVars, timeVars
<1> HIDE DEF a
<1>4. CASE DisableInactive
  <2>1. i \notin active[p] /\ alt' = alt /\ ichan' = ichan
    BY <1>4, DisableInactiveInv DEF DisableInactive, altVars, ioVars
  <2>2. Solo(p, a)
    BY <1>1, <1>3, <2>1, SoloSteps
  <2>3. QED BY <1>1, <1>2, <1>3, <2>1, <2>2, VisitAnswers
<1>5. CASE DisableOutOrSkip
  <2>1. /\ i \in active[p] /\ Guards[p][i].type \in {"chanout", "skip"}
        /\ alt' = [alt EXCEPT ![p].index = i] /\ ichan' = ichan
    BY <1>5, DisableOutOrSkipInv DEF DisableOutOrSkip, SelectIf, ioVars
  <2>2. Guards[p][i].type = "skip"
    BY <1>1, <2>1 DEF Reactive
  <2>3. Sounds(p, i, due, now, ichan) /\ \A u \in Intrs : ~Feeds(u, p, i)
    BY <2>2 DEF Sounds, Feeds
  <2>4. Solo(p, a)
    BY <1>1, <1>3, <2>1, SoloSteps
  <2>5. alt'[p].index = i
    BY <1>1, <2>1, Chooses
  <2>6. QED BY <1>1, <1>2, <1>3, <2>1, <2>3, <2>4, <2>5, VisitAnswers
<1>6. CASE DisableTimeout
  <2>1. /\ i \in active[p] /\ Guards[p][i].type = "timeout" /\ ichan' = ichan
        /\ alt' = IF Now >= timeout[p].time THEN [alt EXCEPT ![p].index = i] ELSE alt
    BY <1>6, DisableTimeoutInv DEF DisableTimeout, ioVars
  <2>2. /\ Sounds(p, i, due, now, ichan) <=> now >= timeout[p].time
        /\ \A u \in Intrs : ~Feeds(u, p, i)
    BY <2>1 DEF Sounds, Feeds
  <2>3. Solo(p, a)
    BY <1>1, <1>3, <2>1, SoloSteps
  <2>4. IF Now >= timeout[p].time THEN alt'[p].index = i ELSE alt'[p] = alt[p]
    BY <1>1, <2>1, Chooses
  <2>5. now \in Nat /\ Now \in Nat /\ Now <= now /\ timeout[p].time \in Nat
    BY <1>1, NowOK DEF AltInv, DataTypes
  <2>6. now >= timeout[p].time => Overdue(p, active[p], timeout[p], now)
    BY <2>1 DEF Overdue
  <2>7. IF i \in active[p] /\ Sounds(p, i, timeout[p], now, ichan)
        THEN alt'[p].index = i \/ Overdue(p, active[p], timeout[p], now) ELSE alt'[p] = alt[p]
    BY <2>1, <2>2, <2>4, <2>5, <2>6
  <2>8. QED BY <1>1, <1>2, <1>3, <2>1, <2>2, <2>3, <2>7, VisitAnswers
<1>7. CASE DisableIntr
  <2> DEFINE u == Guards[p][i].ch
  <2>1. /\ i \in active[p] /\ u \in Intrs /\ Guards[p][i].type = "interrupt"
        /\ ichan' = [ichan EXCEPT ![u].waiting = NoProc]
        /\ alt' = IF ichan[u].count > 0 THEN [alt EXCEPT ![p].index = i] ELSE alt
    BY <1>7, DisableIntrInv
  <2>2. /\ Sounds(p, i, due, now, ichan) <=> ichan[u].count > 0
        /\ Feeds(u, p, i)
    BY <1>1, <2>1 DEF Sounds, Feeds
  <2> HIDE DEF u
  <2>3. /\ ichan'[u].waiting = NoProc /\ ichan'[u].count = ichan[u].count
        /\ \A v \in Intrs : v # u => ichan'[v] = ichan[v]
    BY <2>1, Registers
  <2>4. /\ \A v \in Intrs : ichan'[v].count = ichan[v].count
        /\ \A v \in Intrs : ichan'[v].waiting \in {ichan[v].waiting, p, NoProc}
    BY <2>1, <2>3
  <2>5. \A v \in Intrs : ichan'[v].waiting = p => ichan[v].waiting = p /\ ~(i \in active[p] /\ Feeds(v, p, i))
    <3>1. \A v \in Intrs : Feeds(v, p, i) => v = u
      BY <2>1 DEF Feeds, u
    <3>2. p # NoProc
      BY <1>1, RecordAssumption DEF Records
    <3>3. QED BY <2>1, <2>3, <3>1, <3>2
  <2>6. OwnChanges(p)
    BY <1>1, <2>1, <2>2, <2>3 DEF OwnChanges
  <2>7. Solo(p, a)
    BY <1>1, <1>3, <2>4, <2>6 DEF Solo
  <2>8. IF ichan[u].count > 0 THEN alt'[p].index = i ELSE alt'[p] = alt[p]
    BY <1>1, <2>1, Chooses
  <2>9. QED BY <1>1, <1>2, <1>3, <2>1, <2>2, <2>4, <2>5, <2>7, <2>8, VisitAnswers
<1>8. QED BY <1>4, <1>5, <1>6, <1>7
\* The end of disable_alt(): no guard is enabled any more.
LEMMA TransferAnswers ==
  ASSUME Reactive, AltInv, AnswerInv, UrgencyInv', TransferMessage \/ TransferCount \/ TransferNothing
  PROVE  AnswerInv'
<1> DEFINE p == Top.proc
           i == alt[p].index
<1>1. At("disable")
  BY Zenon DEF TransferMessage, TransferCount, TransferNothing, Disabled
<1>2. /\ p \in Procs /\ HasAlt(p, alt[p]) /\ i \in Branches(p) /\ GuardOf(p, i) = Guards[p][i] /\ IsFrame(Top)
      /\ Top.pc = "disable" /\ view[p] = Top /\ Top.i \in Branches(p)
  BY <1>1, DisableFacts, Guarded, Here
<1>3. ~TransferMessage
  <2>1. GuardOf(p, i).type # "chanin"
    BY <1>2 DEF Reactive
  <2>2. TransferMessage => GuardOf(p, i).type = "chanin"
    BY Zenon DEF TransferMessage
  <2>3. QED BY <2>1, <2>2
<1>4. Leaving.pc = "partner" /\ Top.k = -1 /\ Runs(p, Leaving) /\ state' = [state EXCEPT ![p] = "quiescent"] /\ now' = now
  <2>1. Leaving.pc = "partner"
    BY <1>2 DEF Leaving, IsFrame
  <2>2. QED BY <1>3, <2>1, TransferCountInv, TransferNothingInv DEF timeVars
<1>5. OwnChanges(p) /\ \A u \in Intrs : ichan'[u].waiting = ichan[u].waiting
  <2>1. CASE TransferNothing
    <3>1. ichan' = ichan
      BY <2>1 DEF TransferNothing, ioVars
    <3>2. QED BY <3>1 DEF OwnChanges
  <2>2. CASE TransferCount
    <3> DEFINE u == Guards[p][i].ch
    <3>1. GuardOf(p, i).type = "interrupt" /\ ichan' = [ichan EXCEPT ![GuardOf(p, i).ch].count = 0]
      BY <2>2 DEF TransferCount
    <3> HIDE DEF i
    <3>2. Guards[p][i].type = "interrupt" /\ u \in Intrs
      BY <1>2, <3>1, GuardFacts
    <3>3. Feeds(u, p, i)
      BY <1>2, <3>2 DEF Feeds
    <3>4. ichan' = [ichan EXCEPT ![u].count = 0]
      BY <1>2, <3>1
    <3> HIDE DEF u
    <3>5. (\A v \in Intrs : v # u => ichan'[v] = ichan[v]) /\ ichan'[u].waiting = ichan[u].waiting
      <4>1. ichan \in [Intrs -> [waiting : Alting \cup {NoProc}, count : Nat]]
        BY DEF AltInv, WaiterTypes
      <4>2. QED BY <3>2, <3>4, <4>1
    <3>6. OwnChanges(p)
      BY <1>2, <3>3, <3>5 DEF OwnChanges, Feeds
    <3>7. QED BY <3>5, <3>6
  <2>3. QED BY <1>3, <2>1, <2>2
<1>6. Solo(p, Leaving)
  <2>1. \A q \in Procs : q # p => state'[q] = state[q]
    BY <1>4 DEF AltInv, UrgencyInv, NoneEnds, Records
  <2>2. QED BY <1>4, <1>5, <2>1 DEF Solo
<1>7. state'[p] = "quiescent"
  BY <1>2, <1>4 DEF AltInv, UrgencyInv, NoneEnds, Records
<1>8. \A j : ~Engaged(p, j, view[p], state[p], alt[p])
  <2> DEFINE b == Top
             s == state[p]
             al == alt[p]
  <2>1. b.pc = "disable" /\ ToVisit(b.i, b.k, p) = {}
    BY <1>2, <1>4, Loops
  <2>2. view[p] = b
    BY <1>2
  <2> HIDE DEF b, s, al
  <2>3. \A j : ~Engaged(p, j, b, s, al)
    BY <2>1 DEF Engaged
  <2>4. QED BY <2>2, <2>3 DEF s, al
<1>9. QED BY <1>2, <1>4, <1>5, <1>6, <1>7, <1>8, ResetAnswers

-----------------------------------------------------------------------------
\* schedule().

LEMMA PartnerAnswers ==
  ASSUME Reactive, AltInv, AnswerInv, UrgencyInv', NoPartner \/ PartnerReturn
  PROVE  AnswerInv'
<1> DEFINE p == Top.proc
           s == state[p]
           al == alt[p]
           b == Top
<1>1. /\ p \in Procs /\ b.pc \in {"partner", "partnerRet"} /\ view[p] = b
      /\ UNCHANGED <<state, active, alt, timeout, ichan, now>>
  BY PartnerEndInv, Here DEF altVars, ioVars, timeVars
<1>2. PICK f : Runs(p, f) /\ f.pc = (IF Top.flag THEN "rtc" ELSE "finish") /\ f.flag = Top.flag
  BY PartnerEndInv
<1>3. Solo(p, f)
  BY <1>1, <1>2, SoloSteps
<1>4. f.pc = (IF b.flag THEN "rtc" ELSE "finish")
  BY <1>2
<1>5. f.pc # "disable" /\ f.pc # "enabled" /\ view[p].pc # "disable"
  BY <1>1, <1>2
<1> HIDE DEF s, al, b
<1>6. \A i : Engaged(p, i, b, s, al) => Engaged(p, i, f, s, al)
  BY <1>1, <1>4 DEF Engaged
<1>7. \A i : Engaged(p, i, view[p], state[p], alt[p]) => Engaged(p, i, f, state'[p], alt'[p])
  BY <1>1, <1>6 DEF s, al
<1>8. QED BY <1>1, <1>3, <1>5, <1>7, GrowAnswers

\* schedule() takes a process, gives up the CPU, or continues with disable_alt().
LEMMA GoAnswers ==
  ASSUME Reactive, AltInv, AnswerInv, NEW p \in Procs, NEW f, Runs(p, f),
         UNCHANGED <<state, active, alt, timeout, ichan, now>>,
         view[p].pc \in {"off", "select", "load", "finish"},
         \/ f.pc \in {"off", "select", "load", "finish"}
         \/ f.pc = "disable" /\ state[p] = "ready" /\ f.i = alt[p].index /\ f.k = alt[p].count
         \/ f.pc \in {"rtc", "begin"} /\ state[p] \in {"initial", "quiescent"}
  PROVE  AnswerInv'
<1>1. Solo(p, f)
  BY SoloSteps
<1> DEFINE s == state[p]
           al == alt[p]
           b == view[p]
<1>2. /\ b.pc \in {"off", "select", "load", "finish"}
      /\ \/ f.pc \in {"off", "select", "load", "finish"}
         \/ f.pc = "disable" /\ s = "ready" /\ f.i = al.index /\ f.k = al.count
         \/ f.pc \in {"rtc", "begin"} /\ s \in {"initial", "quiescent"}
  OBVIOUS
<1> HIDE DEF s, al, b
<1>3. \A i : Engaged(p, i, b, s, al) => Engaged(p, i, f, s, al)
  BY <1>2 DEF Engaged
<1>4. \A i : Engaged(p, i, view[p], state[p], alt[p]) => Engaged(p, i, f, state'[p], alt'[p])
  BY <1>3 DEF s, al, b
<1>5. view[p].pc # "disable" /\ f.pc # "enabled" /\ (f.pc = "disable" => state[p] = "ready")
  BY <1>2 DEF s, b
<1>6. QED BY <1>1, <1>4, <1>5, GrowAnswers

LEMMA StillAnswers ==
  ASSUME AltInv, AnswerInv, Aside, UNCHANGED <<state, ichan>>, now' \in Nat, now' >= now
  PROVE  AnswerInv'
BY AsideAnswers

LEMMA ScheduleAnswers ==
  ASSUME Reactive, AltInv, Wakers, AnswerInv, UrgencyInv', ScheduleStep
  PROVE  AnswerInv'
<1>1. ~WakePartner
  <2>1. CASE WakePartner
    <3>1. At("partner") /\ Top.partner \in Records
      BY <2>1 DEF WakePartner
    <3>2. Unpartnered(Top)
      BY <3>1, QuietTop DEF SchedulePcs
    <3>3. QED BY <3>1, <3>2, RecordAssumption DEF Unpartnered
  <2>2. QED BY <2>1
<1>2. CASE NoPartner \/ PartnerReturn
  BY <1>2, PartnerAnswers
<1>3. now \in Nat /\ now >= now
  BY DEF AltInv, DataTypes
<1>4. CASE SelectNone \/ SelectNew
  <2>1. Aside /\ UNCHANGED <<state, ichan, now>>
    BY <1>4, SelectNoneInv, SelectNewInv DEF ioVars, timeVars
  <2>2. QED BY <1>3, <2>1, StillAnswers
<1>5. CASE SelectSame \/ Take \/ Load \/ Finish
  <2>1. UNCHANGED <<state, active, alt, timeout, ichan, now>>
    BY <1>5, SelectSameInv, TakeAltInv, LoadInv, FinishInv DEF altVars, ioVars, timeVars
  <2>2. Off.pc = "off"
    BY DEF Off, Frame
  <2>3. \/ Aside
        \/ \E p \in Procs : \E f :
             /\ Runs(p, f) /\ view[p].pc \in {"off", "select", "load", "finish"}
             /\ \/ f.pc \in {"off", "select", "load", "finish"}
                \/ f.pc = "disable" /\ state[p] = "ready" /\ f.i = alt[p].index /\ f.k = alt[p].count
                \/ f.pc \in {"rtc", "begin"} /\ state[p] \in {"initial", "quiescent"}
    <3>1. CASE SelectSame
      BY <3>1, SelectSameInv, Here
    <3>2. CASE Take
      BY <2>2, <3>2, TakeAltInv
    <3>3. CASE Load
      BY <3>3, LoadInv, Here
    <3>4. CASE Finish
      BY <2>2, <3>4, FinishInv, Here
    <3>5. QED BY <1>5, <3>1, <3>2, <3>3, <3>4
  <2>4. CASE Aside
    BY <1>3, <2>1, <2>4, StillAnswers
  <2>5. QED BY <2>1, <2>3, <2>4, GoAnswers
<1>6. QED BY <1>1, <1>2, <1>4, <1>5 DEF ScheduleStep

-----------------------------------------------------------------------------
\* The RTC code.

\* A process that start() begins waits nowhere.
LEMMA BeginAnswers ==
  ASSUME AltInv, AnswerInv, NEW q \in Procs, Begins(q), view'[q] = view[q], ichan' = ichan
  PROVE  Answers(q, view'[q], state'[q], alt'[q], active'[q], timeout'[q], now', ichan')
<1> DEFINE a == view[q]
           s == state'[q]
<1>1. StateFits(q, a, state[q], alt[q]) /\ state[q] \in {"unstarted", "initial"} /\ s = "initial"
  BY DEF Begins, AltInv, Fits, AltFits
<1>2. \A u \in Intrs : ichan[u].waiting # q
  <2>1. q \notin Alting /\ q # NoProc
    BY <1>1, RecordAssumption DEF StateFits, Alting, HasAlt, Records
  <2>2. \A u \in Intrs : ichan[u].waiting \in Alting \cup {NoProc}
    BY DEF AltInv, WaiterTypes
  <2>3. QED BY <2>1, <2>2
<1> HIDE DEF a, s
<1>3. a.pc \notin {"disable", "enabled"}
  BY <1>1 DEF StateFits
<1> DEFINE al == alt'[q]
           on == active'[q]
           due == timeout'[q]
           n == now'
<1> HIDE DEF al, on, due, n
<1>4. Answers(q, a, s, al, on, due, n, ichan)
  BY <1>1, <1>2, <1>3 DEF Answers
<1>5. QED BY <1>4 DEF a, s, al, on, due, n

LEMMA StartAnswers ==
  ASSUME AltInv, AnswerInv, NEW q \in Procs, Kept(q) \/ Begins(q), view'[q] = view[q],
         ichan' = ichan, now' = now, state'[q] \in {state[q], "initial"}
  PROVE  Answers(q, view'[q], state'[q], alt'[q], active'[q], timeout'[q], now', ichan')
<1>1. CASE Begins(q)
  BY <1>1, BeginAnswers
<1>2. CASE Kept(q)
  <2>1. state'[q] = state[q] /\ alt'[q] = alt[q] /\ active'[q] = active[q] /\ timeout'[q] = timeout[q]
    BY <1>2 DEF Kept
  <2>2. now \in Nat /\ now >= now /\ Answers(q, view[q], state[q], alt[q], active[q], timeout[q], now, ichan)
    BY DEF AltInv, DataTypes, AnswerInv
  <2>3. QED BY <2>1, <2>2, StaysAnswering
<1>3. QED BY <1>1, <1>2

LEMMA StartedState ==
  ASSUME AltInv, MainStart \/ RtcEnter
  PROVE  \A q \in Procs : state'[q] \in {state[q], "initial"}
<1>1. state' = state \/ \E p : state' = [state EXCEPT ![p] = "initial"]
  <2>1. CASE MainStart
    BY <2>1, Zenon DEF MainStart, start
  <2>2. CASE RtcEnter
    <3> DEFINE f(act) == [Top EXCEPT !.pc = "rtcRest", !.act = act]
    <3>1. \E act : start(act.start, f(act)) \/ state' = state
      BY <2>2, Zenon DEF RtcEnter
    <3> HIDE DEF f
    <3>2. QED BY <3>1, Zenon DEF start
  <2>3. QED BY <2>1, <2>2
<1>2. QED BY <1>1 DEF AltInv, UrgencyInv, NoneEnds, Records

LEMMA RtcEnterAnswers ==
  ASSUME Reactive, AltInv, AnswerInv, UrgencyInv', RtcEnter
  PROVE  AnswerInv'
<1> DEFINE p == Top.proc
<1>1. /\ p \in Procs /\ Top.pc = "rtc" /\ view[p] = Top /\ ichan' = ichan /\ now' = now
      /\ \A q \in Procs : Kept(q) \/ Begins(q)
      /\ Kept(p) /\ state'[p] = state[p]
      /\ \A q \in Procs : state'[q] \in {state[q], "initial"}
  BY RtcEnterInv, StartedState, Here
<1>2. PICK f : f.pc = "rtcRest" /\ view' = [q \in Procs |-> IF q = p THEN f ELSE view[q]]
  BY RtcEnterInv
<1>3. ASSUME NEW q \in Procs
      PROVE  Answers(q, view'[q], state'[q], alt'[q], active'[q], timeout'[q], now', ichan')
  <2>1. CASE q # p
    BY <1>1, <1>2, <2>1, StartAnswers
  <2>2. CASE q = p
    <3> DEFINE b == view[p]
               s == state[p]
               al == alt[p]
               on == active[p]
               due == timeout[p]
    <3>1. /\ b.pc = "rtc" /\ Answers(p, b, s, al, on, due, now, ichan)
          /\ alt'[p] = al /\ active'[p] = on /\ timeout'[p] = due /\ state'[p] = s /\ view'[p] = f
      BY <1>1, <1>2 DEF AnswerInv, Kept
    <3> HIDE DEF b, s, al, on, due
    <3>2. \A i : ~Engaged(p, i, b, s, al)
      BY <3>1 DEF Engaged
    <3>3. s # "ready" /\ \A u \in Intrs : ichan[u].waiting # p
      BY <3>1, <3>2 DEF Answers, Heard
    <3>4. Answers(p, f, s, al, on, due, now, ichan)
      BY <1>2, <3>3 DEF Answers
    <3>5. QED BY <1>1, <2>2, <3>1, <3>4
  <2>3. QED BY <2>1, <2>2
<1>4. QED BY <1>3, Zenon DEF AnswerInv

LEMMA RtcRestAnswers ==
  ASSUME Reactive, AltInv, WaitInv, AnswerInv, UrgencyInv', RtcRest
  PROVE  AnswerInv'
<1> DEFINE p == Top.proc
<1>1. /\ p \in Procs /\ Top.pc = "rtcRest" /\ view[p] = Top /\ now' = now /\ current = p
      /\ state'[p] \in {"quiescent", state[p]}
      /\ ichan' = [u \in Intrs |-> IF u \in Top.act.connect THEN [waiting |-> NoProc, count |-> 0] ELSE ichan[u]]
  BY RtcRestInv, Here
<1>2. PICK f : Runs(p, f) /\ f.pc = "finish"
  BY RtcRestInv
<1>3. \A u \in Top.act.connect : \E i \in Branches(p) : Feeds(u, p, i)
  <2>1. Waits(p, Top, state[p], alt[p], active[p], ichan)
    BY <1>1 DEF WaitInv
  <2>2. QED BY <1>1, <2>1 DEF Waits
<1>4. OwnChanges(p) /\ \A u \in Intrs : ichan'[u].waiting \in {ichan[u].waiting, NoProc}
  BY <1>1, <1>3 DEF OwnChanges
<1>5. \A q \in Procs : q # p => state'[q] = state[q]
  <2>1. state \in [Records -> {"unstarted", "initial", "quiescent", "enabling", "waiting", "ready"}]
    BY DEF AltInv, UrgencyInv, NoneEnds
  <2>2. \/ state' = state \/ state' = [state EXCEPT ![current] = "done"]
        \/ state' = [state EXCEPT ![p] = "quiescent"]
        \/ state' = [[state EXCEPT ![current] = "done"] EXCEPT ![p] = "quiescent"]
    BY DEF RtcRest
  <2>3. QED BY <1>1, <2>1, <2>2 DEF Records
<1>6. Solo(p, f)
  BY <1>1, <1>2, <1>4, <1>5 DEF Solo
<1>7. \A i : ~Engaged(p, i, view[p], state[p], alt[p])
  <2> DEFINE b == view[p]
             s == state[p]
             al == alt[p]
  <2>1. b.pc = "rtcRest"
    BY <1>1
  <2> HIDE DEF b, s, al
  <2>2. \A i : ~Engaged(p, i, b, s, al)
    BY <2>1 DEF Engaged
  <2>3. QED BY <2>2 DEF b, s, al
<1>8. state'[p] # "ready" \/ (state'[p] = state[p] /\ view[p].pc # "disable")
  BY <1>1
<1>9. QED BY <1>1, <1>2, <1>4, <1>6, <1>7, <1>8, ResetAnswers
-----------------------------------------------------------------------------
\* The handlers.

\* user_interrupt_handler() counts the interrupt for which it wakes a process.
LEMMA HandleUserAnswers ==
  ASSUME AltInv, AnswerInv, UrgencyInv', HandleUser
  PROVE  AnswerInv'
<1> DEFINE u == Top.src
           w == ichan[u].waiting
<1>1. Aside /\ now' = now /\ now \in Nat /\ now >= now
  BY HandleUserInv DEF HandleUser, timeVars, AltInv, DataTypes
<1>2. ichan \in [Intrs -> [waiting : Alting \cup {NoProc}, count : Nat]]
      /\ state \in [Records -> {"unstarted", "initial", "quiescent", "enabling", "waiting", "ready"}]
  BY DEF AltInv, WaiterTypes, UrgencyInv, NoneEnds
<1>3. ichan' = IF u \in connected THEN [ichan EXCEPT ![u].count = @ + 1] ELSE ichan
  BY Zenon DEF HandleUser
<1>4. /\ \A v \in Intrs : ichan[v].count > 0 => ichan'[v].count > 0
      /\ \A v \in Intrs : ichan'[v].waiting = ichan[v].waiting
  BY <1>2, <1>3
<1>5. CASE u \in connected /\ w \in Records
  <2>1. state' = [state EXCEPT ![w] = "ready"] /\ ichan' = [ichan EXCEPT ![u].count = @ + 1]
    BY <1>3, <1>5, Zenon DEF HandleUser, readyProcessIfNecessary
  <2>2. u \in Intrs
    BY <1>5 DEF AltInv, DataTypes
  <2>3. ichan'[u].count > 0 /\ state'[w] = "ready" /\ \A q \in Procs : q # w => state'[q] = state[q]
    BY <1>2, <1>5, <2>1, <2>2 DEF Records
  <2>4. ASSUME NEW q \in Procs, q = w
        PROVE  Heard(q, view[q], state[q], alt[q], active[q], timeout[q], now', ichan')
    <3>1. Answers(q, view[q], state[q], alt[q], active[q], timeout[q], now, ichan)
      BY DEF AnswerInv
    <3> DEFINE a == view[q]
               s == state[q]
               al == alt[q]
               on == active[q]
               due == timeout[q]
               id == ichan'
               n == now'
    <3>2. Answers(q, a, s, al, on, due, now, ichan) /\ id[u].count > 0
      BY <2>3, <3>1
    <3> HIDE DEF a, s, al, on, due, id, n
    <3>3. PICK i \in on : Feeds(u, q, i) /\ Engaged(q, i, a, s, al)
      BY <2>2, <2>4, <3>2 DEF Answers
    <3>4. Sounds(q, i, due, n, id)
      BY <2>2, <3>2, <3>3 DEF Sounds
    <3>5. Heard(q, a, s, al, on, due, n, id)
      BY <3>3, <3>4 DEF Heard
    <3>6. QED BY <3>5 DEF a, s, al, on, due, id, n
  <2>5. \A q \in Procs :
          \/ state'[q] = state[q]
          \/ state'[q] = "ready" /\ Heard(q, view[q], state[q], alt[q], active[q], timeout[q], now', ichan')
    BY <2>3, <2>4
  <2>6. QED BY <1>1, <1>4, <2>5, AsideAnswers
<1>6. CASE ~(u \in connected /\ w \in Records)
  <2>1. state' = state
    BY <1>6, Zenon DEF HandleUser
  <2>2. QED BY <1>1, <1>4, <2>1, AsideAnswers
<1>7. QED BY <1>5, <1>6

\* handle_timeout_interrupt() wakes a process whose time has come.
LEMMA TimeoutDueAnswers ==
  ASSUME AltInv, QueueInv, Wakers, AnswerInv, UrgencyInv', TimeoutDue
  PROVE  AnswerInv'
<1>1. Aside /\ now' = now /\ ichan' = ichan /\ now \in Nat /\ now >= now
  <2>1. now \in Nat /\ now >= now
    BY DEF AltInv, DataTypes
  <2>2. QED BY <2>1, TimeoutDueInv DEF ioVars
<1>2. CASE state' = state
  BY <1>1, <1>2, StillAnswers
<1>3. CASE /\ timerQ # << >> /\ timerQ[1].proc \in Alting /\ timerQ' = Tail(timerQ)
           /\ state' = [state EXCEPT ![timerQ[1].proc] = "ready"]
  <2> DEFINE w == timerQ[1].proc
  <2>1. w \in Procs /\ state'[w] = "ready" /\ \A q \in Procs : q # w => state'[q] = state[q]
    BY <1>3 DEF Alting, AltInv, UrgencyInv, NoneEnds, Records
  <2>2. timerQ[1] = timeout[w] /\ Timed(w, view[w], state[w], alt[w], active[w])
    <3>1. timerQ \in Seq([time : Nat, proc : Alting])
      BY DEF AltInv, WaiterTypes
    <3>2. 1 \in 1 .. Len(timerQ)
      BY <1>3, <3>1
    <3>3. QED BY <3>2 DEF QueueInv, Entries
  <2>3. now >= timeout[w].time
    <3>1. Top.pc = "due" /\ timerQ[1].time <= Top.time
      BY DEF TimeoutDue, Due, At
    <3>2. Wakes(Top, now) /\ Top.time \in Nat
      <4>1. Len(stack) \in Frames
        BY Stacked DEF AltInv, UrgencyInv
      <4>2. QED BY <4>1 DEF Wakers, AltInv, FrameTypes, Typed, Top
    <3>3. Top.time <= now
      BY <3>1, <3>2 DEF Wakes
    <3>4. timeout[w].time \in Nat
      BY <2>1 DEF AltInv, DataTypes
    <3> DEFINE t == timeout[w].time
               r == Top.time
    <3>5. t \in Nat /\ r \in Nat /\ now \in Nat /\ t <= r /\ r <= now
      BY <1>1, <2>2, <3>1, <3>2, <3>3, <3>4
    <3> HIDE DEF t, r
    <3>6. now >= t
      BY <3>5
    <3>7. QED BY <3>6 DEF t
  <2>4. Heard(w, view[w], state[w], alt[w], active[w], timeout[w], now', ichan')
    <3>1. PICK i \in Branches(w) : i \in active[w] /\ Guards[w][i].type = "timeout" /\ Engaged(w, i, view[w], state[w], alt[w])
      BY <2>2 DEF Timed
    <3>2. Sounds(w, i, timeout[w], now', ichan')
      BY <1>1, <2>3, <3>1 DEF Sounds
    <3>3. QED BY <3>1, <3>2 DEF Heard
  <2>5. \A q \in Procs :
          \/ state'[q] = state[q]
          \/ state'[q] = "ready" /\ Heard(q, view[q], state[q], alt[q], active[q], timeout[q], now', ichan')
    BY <2>1, <2>4
  <2>6. QED BY <1>1, <2>5, AsideAnswers
<1>4. QED BY <1>2, <1>3, TimeoutDueInv

LEMMA NextAnswers ==
  ASSUME Reactive, AltInv, WaitInv, QueueInv, Wakers, AnswerInv, UrgencyInv', [Next]_vars
  PROVE  AnswerInv'
<1>1. CASE MainStart
  <2>1. view' = view /\ ichan' = ichan /\ now' = now /\ \A q \in Procs : Kept(q) \/ Begins(q)
    BY <1>1, MainStartInv DEF ioVars
  <2>2. ASSUME NEW q \in Procs
        PROVE  Answers(q, view'[q], state'[q], alt'[q], active'[q], timeout'[q], now', ichan')
    <3>1. state'[q] \in {state[q], "initial"}
      BY <1>1, StartedState
    <3>2. QED BY <2>1, <3>1, StartAnswers
  <2>3. QED BY <2>2, Zenon DEF AnswerInv
<1>2. CASE HandleUser \/ TimeoutDue
  BY <1>2, HandleUserAnswers, TimeoutDueAnswers
<1>3. CASE ScheduleStep
  BY <1>3, ScheduleAnswers
<1>4. CASE RtcStep
  BY <1>4, RtcEnterAnswers, RtcRestAnswers DEF RtcStep
<1>5. CASE EnableStep
  <2>1. ~EnableChanIn /\ ~EnableChanOut
    BY EnablingFacts DEF EnableChanIn, EnableChanOut, Reactive
  <2>2. QED BY <1>5, <2>1, EnableAnswers, EnableIntrAnswers, EnableRestAnswers, EnableDoneAnswers DEF EnableStep
<1>6. CASE DisableStep
  <2>1. ~DisableChanIn
    BY DisablingFacts DEF DisableChanIn, Reactive
  <2>2. QED BY <1>6, <2>1, DisableAnswers, TransferAnswers DEF DisableStep
<1>7. now \in Nat /\ now >= now
  BY DEF AltInv, DataTypes
<1>8. ASSUME Aside, UNCHANGED <<state, ichan, now>>
      PROVE  AnswerInv'
  BY <1>7, <1>8, StillAnswers
<1>9. CASE MainRun \/ StartStep
  <2>1. Aside /\ UNCHANGED <<state, ichan, now>>
    BY <1>9, MainRunInv, StartStepInv DEF ioVars, timeVars
  <2>2. QED BY <1>8, <2>1
<1>10. CASE HandleTimeout \/ TimeoutRearm \/ HandlerReturn \/ HandlerExit \/ HandlerRestore
  <2>1. Aside /\ UNCHANGED <<state, ichan, now>>
    <3>1. CASE TimeoutRearm
      BY <3>1, TimeoutRearmInv DEF TimeoutRearm, procVars, ioVars
    <3>2. CASE HandleTimeout \/ HandlerReturn \/ HandlerExit \/ HandlerRestore
      BY <3>2, HandleTimeoutInv, HandlerReturnInv, HandlerExitInv, HandlerRestoreInv DEF ioVars, timeVars
    <3>3. QED BY <1>10, <3>1, <3>2
  <2>2. QED BY <1>8, <2>1
<1>11. CASE Environment
  <2>1. CASE Clock \/ AlarmFires
    <3>1. AltInv' /\ Aside /\ state' = state /\ ichan' = ichan /\ now' >= now
      BY <2>1, ClockInv DEF ioVars
    <3>2. now' \in Nat
      BY <3>1 DEF AltInv, DataTypes
    <3>3. QED BY <3>1, <3>2, StillAnswers
  <2>2. CASE ElapsedInterrupt \/ TimeoutInterrupt \/ \E u \in Intrs : UserInterrupt(u)
    <3>1. PICK src \in Intrs \cup {"elapsed", "timeout"} : Interrupt(src) /\ (pend' = pend \/ pend' = FALSE)
      BY <2>2 DEF ElapsedInterrupt, TimeoutInterrupt, UserInterrupt
    <3>2. pend' \in BOOLEAN
      BY <3>1 DEF AltInv, DataTypes
    <3>3. Aside /\ UNCHANGED <<state, ichan, now>>
      BY <3>1, <3>2, InterruptInv DEF ioVars
    <3>4. QED BY <1>8, <3>3
  <2>3. QED BY <1>11, <2>1, <2>2 DEF Environment
<1>12. CASE DISABLE \/ SigReturn \/ UNCHANGED vars
  <2>1. Aside /\ UNCHANGED <<state, ichan, now>>
    BY <1>12, StillInv
  <2>2. QED BY <1>8, <2>1
<1>13. QED BY <1>1, <1>2, <1>3, <1>4, <1>5, <1>6, <1>9, <1>10, <1>11, <1>12 DEF Next, CpuStep, MainStep, HandlerStep

LEMMA AnsweringSelects ==
  ASSUME Reactive, AltInv, AnswerInv
  PROVE  SelectsReadyOrDue
<1> SUFFICES ASSUME fault = "none", Top.pc = "disable", Top.k < 0
             PROVE  \/ alt[Top.proc].index \in active[Top.proc] /\ GuardReady(Top.proc, alt[Top.proc].index)
                    \/ \E j \in active[Top.proc] : Guards[Top.proc][j].type = "timeout" /\ GuardReady(Top.proc, j)
  BY DEF SelectsReadyOrDue
<1> DEFINE p == Top.proc
           i == alt[p].index
<1>1. p \in Procs /\ Top.i \in Branches(p) /\ Top.k = -1 /\ view[p] = Top
  <2>1. UrgencyInv /\ p \in Procs
    BY Stacked DEF AltInv, UrgencyInv, FrameOK, SchedulePcs
  <2>2. view[p] = Top /\ AltFits(p, Top, state[p], alt[p], active[p], timeout[p])
    BY <2>1, Here
  <2>3. Top.i \in Branches(p) /\ Top.k \in -1 .. NrGuards[p] - 1 /\ NrGuards[p] \in 0 .. 255
    BY <2>1, <2>2, ApplicationAssumption DEF AltFits, LoopFits
  <2>4. QED BY <2>1, <2>2, <2>3
<1>2. (i \in active[p] /\ Sounds(p, i, timeout[p], now, ichan)) \/ Overdue(p, active[p], timeout[p], now)
  <2> DEFINE b == Top
             s == state[p]
             al == alt[p]
             on == active[p]
             due == timeout[p]
  <2>1. /\ b.pc = "disable" /\ ToVisit(b.i, b.k, p) = {}
        /\ Answers(p, b, s, al, on, due, now, ichan)
    BY <1>1, Loops DEF AnswerInv
  <2> HIDE DEF b, s, al, on, due
  <2>2. \A j : ~Engaged(p, j, b, s, al)
    BY <2>1 DEF Engaged
  <2>3. (al.index \in on /\ Sounds(p, al.index, due, now, ichan)) \/ Overdue(p, on, due, now)
    BY <2>1, <2>2 DEF Answers, Heard
  <2>4. QED BY <2>3 DEF al, on, due
<1> HIDE DEF i
<1>3. Sounds(p, i, timeout[p], now, ichan) => GuardReady(p, i)
  BY DEF Sounds, Feeds, GuardReady
<1>4. Overdue(p, active[p], timeout[p], now) =>
        \E j \in active[p] : Guards[p][j].type = "timeout" /\ GuardReady(p, j)
  BY DEF Overdue, GuardReady
<1>5. QED BY <1>2, <1>3, <1>4 DEF i

\* The inductive invariant: disable_alt() is always called for a guard that is
\* ready, or was at the reading of the clock that woke the process.
LEMMA AnswerInvariant == Reactive /\ Spec => [](Reactive /\ AltInv /\ AnswerInv)
<1> DEFINE Inv == Reactive /\ AltInv /\ WaitInv /\ QueueInv /\ Wakers /\ AnswerInv
<1>1. Reactive /\ Init => Inv
  <2> SUFFICES ASSUME Reactive, Init
               PROVE  AltInv /\ WaitInv /\ QueueInv /\ Wakers /\ AnswerInv
    OBVIOUS
  <2>1. Orderly
    BY DEF Reactive, Wired
  <2>2. ASSUME NEW p \in Procs
        PROVE  view[p].pc = "off"
    BY <2>1, InitViews
  <2>3. ASSUME NEW p \in Procs
        PROVE  /\ Waits(p, view[p], state[p], alt[p], active[p], ichan)
               /\ Answers(p, view[p], state[p], alt[p], active[p], timeout[p], now, ichan)
    <3> DEFINE a == view[p]
               s == state[p]
               ic == ichan
    <3>1. a.pc = "off"
      BY <2>2
    <3>2. s = "unstarted" /\ \A u \in Intrs : ic[u].waiting # p
      BY RecordAssumption DEF Init, Records
    <3> HIDE DEF a, s, ic
    <3>3. Waits(p, a, s, alt[p], active[p], ic)
      BY <3>1, <3>2 DEF Waits, Unready
    <3>4. Answers(p, a, s, alt[p], active[p], timeout[p], now, ic)
      BY <3>1, <3>2 DEF Answers
    <3>5. QED BY <3>3, <3>4 DEF a, s, ic
  <2>4. QueueInv
    <3>1. timerQ = << >>
      BY DEF Init
    <3>2. \A p \in Procs : Searching(view[p])
      <4> SUFFICES ASSUME NEW p \in Procs
                   PROVE  Searching(view[p])
        BY Zenon
      <4> DEFINE a == view[p]
      <4>1. a.pc = "off"
        BY <2>2
      <4> HIDE DEF a
      <4>2. Searching(a)
        BY <4>1 DEF Searching
      <4>3. QED BY <4>2 DEF a
    <3>3. QED BY <3>1, <3>2 DEF QueueInv, Entries, Ordered
  <2>5. Wakers
    BY DEF Init, Wakers, Frames, Frame, Wakes
  <2>6. QED BY <2>1, <2>3, <2>4, <2>5, InitAlt, Zenon DEF WaitInv, AnswerInv
<1>2. Inv /\ [Next]_vars => Inv'
  <2> SUFFICES ASSUME Inv, [Next]_vars
               PROVE  Inv'
    OBVIOUS
  <2>1. UrgencyInv' /\ Wired /\ OneTimeout
    BY NextUrgency DEF AltInv, Wired, Reactive
  <2>2. AltInv' /\ WaitInv' /\ QueueInv'
    BY <2>1, NextAlt, NextWaits, NextQueue
  <2>3. Wakers' /\ AnswerInv'
    BY <2>1, NextWakers, NextAnswers
  <2>4. Reactive'
    BY DEF Reactive, Wired, Orderly, PriOf, OneTimeout, Branches
  <2>5. QED BY <2>2, <2>3, <2>4
<1>3. Inv => Reactive /\ AltInv /\ AnswerInv
  OBVIOUS
<1> HIDE DEF Inv
<1>4. QED BY <1>1, <1>2, <1>3, PTL DEF Spec

\* disable_alt() selects an active branch that is ready, whatever wakes the
\* process and at whichever point of enable_alt(), unless the time of its timeout
\* has come (SelectsReadyOrDue): in every application that reacts to interrupts
\* and timeouts, although Now() goes back by the ticks that are pending or lost.
THEOREM SelectsReadyReacting == Reactive /\ Spec => []SelectsReadyOrDue
BY AnswerInvariant, AnsweringSelects, PTL

-----------------------------------------------------------------------------
\* One list of a structure r of ready queues: the records of s from the head
\* of level l on, the last linked to e, and t the tail.

Rear(s) == IF s = << >> THEN NoProc ELSE s[Len(s)]
Members(s) == {s[i] : i \in 1 .. Len(s)}

Chain(r, s, l, e, t) ==
  /\ r.head[l] = IF s = << >> THEN NoProc ELSE s[1]
  /\ r.tail[l] = t
  /\ \A i \in 1 .. Len(s) : r.next[s[i]] = IF i = Len(s) THEN e ELSE s[i + 1]

\* Processes of priority l, each once.
Line(s, l) ==
  /\ s \in Seq(Procs)
  /\ \A i \in 1 .. Len(s) : PriOf(s[i]) = l
  /\ \A i, j \in 1 .. Len(s) : s[i] = s[j] => i = j

LEMMA LineFacts ==
  ASSUME NEW s, NEW l, Line(s, l)
  PROVE  /\ Len(s) \in Nat /\ \A i \in 1 .. Len(s) : s[i] \in Procs /\ s[i] # NoProc /\ s[i] \in Records
         /\ Members(s) \subseteq Procs
         /\ s = << >> <=> Len(s) = 0
<1>1. Len(s) \in Nat /\ (\A i \in 1 .. Len(s) : s[i] \in Procs) /\ (s = << >> <=> Len(s) = 0)
  <2>1. s \in Seq(Procs)
    BY DEF Line
  <2>2. QED BY <2>1, ElementIn, EmptySeq
<1>2. QED BY <1>1, PriOfLevel DEF Members, Records

LEMMA LineMembers ==
  ASSUME NEW s, NEW l, Line(s, l), NEW p \in Members(s)
  PROVE  p \in Procs /\ PriOf(p) = l
<1>1. Members(s) \subseteq Procs
  BY LineFacts
<1>2. PriOf(p) = l
  BY DEF Line, Members
<1>3. QED BY <1>1, <1>2

\* append() of a process that is not in the list.
LEMMA ChainGrows ==
  ASSUME NEW r \in QueueType, NEW s, NEW p \in Procs, Line(s, PriOf(p)), p \notin Members(s),
         Chain(r, s, PriOf(p), NoProc, Rear(s))
  PROVE  /\ Line(Append(s, p), PriOf(p)) /\ Members(Append(s, p)) = Members(s) \cup {p}
         /\ Chain(append(r, p), Append(s, p), PriOf(p), NoProc, p) /\ Rear(Append(s, p)) = p
<1> DEFINE l == PriOf(p)
           u == Append(s, p)
           q == append(r, p)
<1>1. /\ s \in Seq(Procs) /\ Len(s) \in Nat /\ (s = << >> <=> Len(s) = 0)
      /\ \A i \in 1 .. Len(s) : s[i] \in Procs /\ s[i] # NoProc /\ s[i] \in Records /\ s[i] # p
  BY LineFacts DEF Line, Members
<1>2. u \in Seq(Procs) /\ Len(u) = Len(s) + 1 /\ u # << >>
      /\ \A i \in 1 .. Len(u) : u[i] = IF i = Len(u) THEN p ELSE s[i]
  <2>1. /\ u \in Seq(Procs) /\ Len(u) = Len(s) + 1
        /\ \A i \in 1 .. Len(s) : u[i] = s[i]
        /\ u[Len(s) + 1] = p
    BY <1>1, AppendProperties
  <2> HIDE DEF u
  <2>2. QED BY <1>1, <2>1, EmptySeq
<1>3. /\ l \in Levels /\ p \in Records /\ p # NoProc
  BY PriOfLevel DEF Records
<1>4. /\ q.head = [r.head EXCEPT ![l] = IF @ = NoProc THEN p ELSE @]
      /\ q.tail = [r.tail EXCEPT ![l] = p]
      /\ r.tail[l] = NoProc => q.next = [r.next EXCEPT ![p] = NoProc]
      /\ r.tail[l] # NoProc => q.next = [[r.next EXCEPT ![r.tail[l]] = p] EXCEPT ![p] = NoProc]
  BY <1>3 DEF append, QueueType
<1>5. /\ r.head \in [Levels -> Records \cup {NoProc}] /\ r.tail \in [Levels -> Records \cup {NoProc}]
      /\ r.next \in [Records -> Records \cup {NoProc}]
  BY DEF QueueType
<1>6. /\ r.head[l] = IF s = << >> THEN NoProc ELSE s[1]
      /\ r.tail[l] = IF s = << >> THEN NoProc ELSE s[Len(s)]
      /\ \A i \in 1 .. Len(s) : r.next[s[i]] = IF i = Len(s) THEN NoProc ELSE s[i + 1]
  BY DEF Chain, Rear
<1>7. Line(u, l)
  <2>1. \A i \in 1 .. Len(u) : PriOf(u[i]) = l
    BY <1>1, <1>2 DEF Line
  <2>2. \A i, j \in 1 .. Len(u) : u[i] = u[j] => i = j
    BY <1>1, <1>2 DEF Line
  <2>3. QED BY <1>2, <2>1, <2>2 DEF Line
<1>8. Members(u) = Members(s) \cup {p}
  BY <1>1, <1>2 DEF Members
<1> HIDE DEF l, u, q
<1>9. q.head[l] = u[1] /\ q.tail[l] = p
  BY <1>1, <1>2, <1>3, <1>4, <1>5, <1>6
<1>10. \A i \in 1 .. Len(u) : q.next[u[i]] = IF i = Len(u) THEN NoProc ELSE u[i + 1]
  <2>1. CASE s = << >>
    BY <1>1, <1>2, <1>3, <1>4, <1>5, <1>6, <2>1
  <2>2. CASE s # << >>
    <3>1. Len(s) \in 1 .. Len(s) /\ r.tail[l] = s[Len(s)] /\ s[Len(s)] # NoProc
      BY <1>1, <1>6, <2>2
    <3>2. \A x \in Records : q.next[x] = IF x = p THEN NoProc ELSE IF x = s[Len(s)] THEN p ELSE r.next[x]
      BY <1>3, <1>4, <1>5, <3>1
    <3>3. q.next[u[Len(u)]] = NoProc
      BY <1>2, <1>3, <3>2
    <3>4. \A i \in 1 .. Len(s) : q.next[s[i]] = IF i = Len(s) THEN p ELSE s[i + 1]
      <4>1. \A i \in 1 .. Len(s) : s[i] = s[Len(s)] => i = Len(s)
        BY <3>1 DEF Line
      <4>2. QED BY <1>1, <1>6, <3>2, <4>1
    <3>5. QED BY <1>1, <1>2, <3>3, <3>4
  <2>3. QED BY <2>1, <2>2
<1>11. Chain(q, u, l, NoProc, p) /\ Rear(u) = p
  <2>1. Len(u) \in 1 .. Len(u)
    BY <1>1, <1>2
  <2>2. QED BY <1>2, <1>9, <1>10, <2>1 DEF Chain, Rear
<1>12. QED BY <1>7, <1>8, <1>11 DEF l, u, q

\* append() of a process that is alone in the list changes nothing.
LEMMA ChainAgain ==
  ASSUME NEW r \in QueueType, NEW s, NEW p \in Procs, Line(s, PriOf(p)), Members(s) = {p},
         Chain(r, s, PriOf(p), NoProc, Rear(s))
  PROVE  Chain(append(r, p), s, PriOf(p), NoProc, p) /\ Rear(s) = p
<1> DEFINE l == PriOf(p)
           q == append(r, p)
<1>1. /\ Len(s) \in Nat /\ (s = << >> <=> Len(s) = 0)
      /\ \A i \in 1 .. Len(s) : s[i] = p
  BY LineFacts DEF Members
<1>2. Len(s) = 1 /\ s[1] = p /\ s # << >>
  <2>1. Len(s) >= 1
    BY <1>1 DEF Members
  <2>2. \A i, j \in 1 .. Len(s) : i = j
    BY <1>1 DEF Line
  <2>3. 1 \in 1 .. Len(s) /\ Len(s) \in 1 .. Len(s)
    BY <1>1, <2>1
  <2>4. 1 = Len(s)
    BY <2>2, <2>3, Zenon
  <2>5. QED BY <1>1, <2>3, <2>4
<1>3. /\ l \in Levels /\ p \in Records /\ p # NoProc
  BY PriOfLevel DEF Records
<1>4. r.head[l] = p /\ r.tail[l] = p
  BY <1>2 DEF Chain, Rear
<1>5. /\ q.head = r.head
      /\ q.tail = [r.tail EXCEPT ![l] = p]
      /\ q.next = [[r.next EXCEPT ![p] = p] EXCEPT ![p] = NoProc]
  BY <1>3, <1>4 DEF append, QueueType
<1>6. q.head[l] = p /\ q.tail[l] = p /\ q.next[p] = NoProc
  BY <1>3, <1>4, <1>5 DEF QueueType
<1> HIDE DEF q
<1>7. QED BY <1>2, <1>6 DEF Chain, Rear, q

\* take() of the first process of the list.
LEMMA ChainShrinks ==
  ASSUME NEW r \in QueueType, NEW s, NEW l \in Levels, Line(s, l), s # << >>, Chain(r, s, l, NoProc, Rear(s))
  PROVE  /\ Line(Tail(s), l) /\ Members(Tail(s)) = Members(s) \ {s[1]} /\ r.head[l] = s[1] /\ s[1] \in Procs
         /\ Chain(take(r, l), Tail(s), l, NoProc, Rear(Tail(s)))
<1> DEFINE u == Tail(s)
           q == take(r, l)
           h == r.head[l]
           rest == r.next[h]
<1>1. /\ s \in Seq(Procs) /\ Len(s) \in Nat /\ Len(s) >= 1
      /\ \A i \in 1 .. Len(s) : s[i] \in Procs /\ s[i] # NoProc /\ s[i] \in Records
  <2>1. s \in Seq(Procs)
    BY DEF Line
  <2>2. QED BY <2>1, LineFacts
<1>2. /\ u \in Seq(Procs) /\ Len(u) = Len(s) - 1
      /\ \A i \in 1 .. Len(u) : u[i] = s[i + 1]
      /\ u = << >> <=> Len(s) = 1
  <2>1. /\ u \in Seq(Procs) /\ Len(u) = Len(s) - 1
        /\ \A i \in 1 .. Len(u) : u[i] = s[i + 1]
    BY <1>1
  <2> HIDE DEF u
  <2>2. QED BY <1>1, <2>1, EmptySeq
<1>3. /\ h = s[1] /\ h \in Records /\ h # NoProc /\ r.tail[l] = s[Len(s)]
      /\ \A i \in 1 .. Len(s) : r.next[s[i]] = IF i = Len(s) THEN NoProc ELSE s[i + 1]
  BY <1>1 DEF Chain, Rear
<1>4. rest = IF u = << >> THEN NoProc ELSE u[1]
  <2>1. 1 \in 1 .. Len(s) /\ rest = IF 1 = Len(s) THEN NoProc ELSE s[2]
    <3>1. 1 \in 1 .. Len(s)
      BY <1>1
    <3>2. r.next[s[1]] = IF 1 = Len(s) THEN NoProc ELSE s[1 + 1]
      BY <1>3, <3>1
    <3>3. QED BY <1>3, <3>1, <3>2
  <2> HIDE DEF u, rest
  <2>2. Len(s) # 1 => 1 \in 1 .. Len(u) /\ u[1] = s[2]
    BY <1>1, <1>2
  <2>3. QED BY <1>2, <2>1, <2>2
<1>5. /\ q.head = [r.head EXCEPT ![l] = rest]
      /\ q.tail = [r.tail EXCEPT ![l] = IF rest = NoProc THEN NoProc ELSE @]
      /\ q.next = r.next
  BY <1>3 DEF take, QueueType
<1>6. r.head \in [Levels -> Records \cup {NoProc}] /\ r.tail \in [Levels -> Records \cup {NoProc}]
  BY DEF QueueType
<1> HIDE DEF u, q, h, rest
<1>7. Line(u, l)
  <2>1. \A i \in 1 .. Len(u) : PriOf(u[i]) = l
    BY <1>1, <1>2 DEF Line
  <2>2. \A i, j \in 1 .. Len(u) : u[i] = u[j] => i = j
    <3>1. \A i, j \in 1 .. Len(s) : s[i] = s[j] => i = j
      BY DEF Line
    <3>2. QED BY <1>1, <1>2, <3>1
  <2>3. QED BY <1>2, <2>1, <2>2 DEF Line
<1>8. Members(u) = Members(s) \ {s[1]}
  <2>1. \A i \in 1 .. Len(s) : s[i] = s[1] => i = 1
    BY <1>1 DEF Line
  <2>2. ASSUME NEW x \in Members(u) PROVE x \in Members(s) /\ x # s[1]
    <3>1. PICK i \in 1 .. Len(u) : x = u[i]
      BY DEF Members
    <3>2. i + 1 \in 1 .. Len(s) /\ x = s[i + 1] /\ i + 1 # 1
      BY <1>1, <1>2, <3>1
    <3>3. QED BY <2>1, <3>2 DEF Members
  <2>3. ASSUME NEW x \in Members(s), x # s[1] PROVE x \in Members(u)
    <3>1. PICK i \in 1 .. Len(s) : x = s[i]
      BY DEF Members
    <3>2. i - 1 \in 1 .. Len(u) /\ u[i - 1] = x
      BY <1>1, <1>2, <2>3, <3>1
    <3>3. QED BY <3>2 DEF Members
  <2>4. QED BY <2>2, <2>3
<1>9. q.head[l] = rest
  BY <1>5, <1>6
<1>10. q.tail[l] = Rear(u)
  <2>1. CASE u = << >>
    BY <1>4, <1>5, <1>6, <2>1 DEF Rear
  <2>2. CASE u # << >>
    <3>1. 1 \in 1 .. Len(u) /\ Len(u) \in 1 .. Len(u) /\ u[1] # NoProc /\ u[Len(u)] = s[Len(s)]
      BY <1>1, <1>2, <2>2
    <3>2. rest # NoProc
      BY <1>4, <2>2, <3>1
    <3>3. q.tail[l] = r.tail[l]
      BY <1>5, <1>6, <3>2
    <3>4. QED BY <1>3, <2>2, <3>1, <3>3 DEF Rear
  <2>3. QED BY <2>1, <2>2
<1>11. \A i \in 1 .. Len(u) : q.next[u[i]] = IF i = Len(u) THEN NoProc ELSE u[i + 1]
  BY <1>1, <1>2, <1>3, <1>5
<1>12. QED BY <1>1, <1>3, <1>4, <1>7, <1>8, <1>9, <1>10, <1>11 DEF Chain, u, q, h

\* The list of a level depends on the level's descriptor and its links only.
LEMMA ChainStays ==
  ASSUME NEW r, NEW q, NEW s, NEW l, NEW e, NEW t, Chain(r, s, l, e, t),
         q.head[l] = r.head[l], q.tail[l] = r.tail[l],
         \A x \in Members(s) : q.next[x] = r.next[x]
  PROVE  Chain(q, s, l, e, t)
<1>1. \A i \in 1 .. Len(s) : q.next[s[i]] = r.next[s[i]]
  BY DEF Members
<1>2. QED BY <1>1 DEF Chain

\* The records of a list are found from its head.
LEMMA ChainListed ==
  ASSUME NEW s, NEW l, NEW e, NEW t, Line(s, l), Chain(rq, s, l, e, t)
  PROVE  Members(s) \subseteq Listed(l)
<1> DEFINE Closed(S) == /\ \A q \in S : rq.next[q] # NoProc => rq.next[q] \in S
                        /\ rq.head[l] # NoProc => rq.head[l] \in S
<1>1. /\ Len(s) \in Nat
      /\ \A i \in 1 .. Len(s) : s[i] \in Procs /\ s[i] # NoProc /\ s[i] \in Records
  BY LineFacts
<1>2. SUFFICES ASSUME NEW S \in SUBSET Records, Closed(S) PROVE Members(s) \subseteq S
  <2>1. Members(s) \subseteq Records
    BY <1>1 DEF Members
  <2>2. QED BY <1>2, <2>1 DEF Listed
<1> DEFINE T == {i \in 1 .. Len(s) : s[i] \notin S}
<1>3. ASSUME T # {} PROVE FALSE
  <2>1. T \subseteq Nat
    OBVIOUS
  <2> HIDE DEF T
  <2>2. PICK i \in T : \A j \in T : i <= j
    BY <1>3, <2>1, Least
  <2>3. i \in 1 .. Len(s) /\ s[i] \notin S
    BY <2>2 DEF T
  <2>4. CASE i = 1
    <3>1. rq.head[l] = s[1] /\ s[1] # NoProc
      BY <1>1, <2>3, <2>4, LineFacts DEF Chain
    <3>2. QED BY <1>2, <2>3, <2>4, <3>1
  <2>5. CASE i # 1
    <3>1. i - 1 \in 1 .. Len(s) /\ i - 1 # Len(s) /\ (i - 1) + 1 = i /\ ~(i <= i - 1)
      BY <1>1, <2>3, <2>5
    <3>2. rq.next[s[i - 1]] = s[i] /\ s[i] # NoProc
      BY <1>1, <2>3, <3>1 DEF Chain
    <3>3. s[i - 1] \in S
      BY <2>2, <3>1 DEF T
    <3>4. QED BY <1>2, <2>3, <3>2, <3>3
  <2>6. QED BY <2>4, <2>5
<1>4. QED BY <1>3 DEF Members

-----------------------------------------------------------------------------
\* The invariant.

\* The activations of start(), and those that append to level l.
Startings  == [n \in {m \in Frames : stack[m].fn = "start"} |-> stack[n]]
Joining(l) == {n \in DOMAIN Startings : PriOf(Startings[n].partner) = l}

\* Where p is: an ALT is enabled on the CPU, a new process is not there yet.
Placed(p) ==
  /\ state[p] = "enabling" => OnCpu(p)
  /\ state[p] = "unstarted" => ~OnCpu(p) /\ ~Starting(p)
  /\ Starting(p) => state[p] = "initial" /\ ~OnCpu(p)

StartsApart == \A m, n \in DOMAIN Startings : Startings[m].partner = Startings[n].partner => m = n

\* main() has not started the rest of its processes.
NotYetStarted ==
  stack[1].pc = "main" =>
    \A j \in 1 .. Len(MainStarts) : j > stack[1].k => state[MainStarts[j]] = "unstarted"

\* The list of level l is s, up to the assignments that a start() has made.
Joined(s, l) ==
  /\ Joining(l) = {} => Chain(rq, s, l, NoProc, Rear(s))
  /\ \A n \in Joining(l) :
       LET f == Startings[n]
       IN  /\ rq.next[f.partner] = NoProc
           /\ Chain(rq, s, l, IF f.pc = "link" THEN NoProc ELSE f.partner,
                    IF f.pc \in {"link", "tail"} THEN Rear(s) ELSE f.partner)

\* Nobody is missing from s, and what is in it has been appended.
Complete(s, l) ==
  /\ \A p \in Members(s) : state[p] # "unstarted" /\ ~Starting(p)
  /\ \A p \in Procs :
       PriOf(p) = l /\ state[p] \in {"initial", "ready"} /\ ~OnCpu(p) /\ ~Starting(p) => p \in Members(s)

Queued(l) == \E s : Line(s, l) /\ Joined(s, l) /\ Complete(s, l)

ListsInv ==
  /\ \A p \in Procs : Placed(p)
  /\ StartsApart /\ NotYetStarted
  /\ \A l \in 1 .. PRI_MAX : Queued(l)

LEMMA SameStartings ==
  ASSUME Startings' = Startings
  PROVE  /\ \A l : Joining(l)' = Joining(l)
         /\ \A p : Starting(p)' <=> Starting(p)
<1>1. \A l : Joining(l)' = Joining(l)
  BY DEF Joining
<1>2. \A p : Starting(p) <=> \E n \in DOMAIN Startings : Startings[n].partner = p
  BY DEF Starting, Startings
<1>3. \A p : Starting(p)' <=> \E n \in DOMAIN Startings' : Startings'[n].partner = p
  BY DEF Starting, Startings
<1>4. QED BY <1>1, <1>2, <1>3, Zenon

\* p keeps its place, or is on the CPU and leaves it only to wait.
Steady(p) ==
  \/ state'[p] = state[p] /\ (OnCpu(p)' <=> OnCpu(p))
  \/ /\ OnCpu(p) /\ state'[p] # "unstarted"
     /\ OnCpu(p)' \/ state'[p] \notin {"initial", "ready", "enabling"}

LEMMA SteadyPlaced ==
  ASSUME NEW p \in Procs, Placed(p), Steady(p), Starting(p)' <=> Starting(p)
  PROVE  Placed(p)'
BY DEF Placed, Steady

LEMMA SteadyComplete ==
  ASSUME NEW s, NEW l, Line(s, l), Complete(s, l),
         \A p \in Procs : PriOf(p) = l => Placed(p) /\ Steady(p) /\ (Starting(p)' <=> Starting(p))
  PROVE  Complete(s, l)'
<1>1. \A p \in Members(s) : p \in Procs /\ PriOf(p) = l
  BY LineFacts DEF Line, Members
<1>2. ASSUME NEW p \in Members(s) PROVE state'[p] # "unstarted" /\ ~Starting(p)'
  <2>1. p \in Procs /\ PriOf(p) = l /\ state[p] # "unstarted" /\ ~Starting(p)
    BY <1>1 DEF Complete
  <2>2. QED BY <2>1 DEF Steady
<1>3. ASSUME NEW p \in Procs, PriOf(p) = l, state'[p] \in {"initial", "ready"}, ~OnCpu(p)', ~Starting(p)'
      PROVE  p \in Members(s)
  <2>1. state[p] \in {"initial", "ready"} /\ ~OnCpu(p) /\ ~Starting(p)
    BY <1>3 DEF Steady
  <2>2. QED BY <1>3, <2>1 DEF Complete
<1>4. QED BY <1>2, <1>3 DEF Complete

LEMMA ListsStay ==
  ASSUME ListsInv, rq' = rq, Startings' = Startings, \A p \in Procs : Steady(p), NotYetStarted'
  PROVE  ListsInv'
<1>1. /\ \A l : Joining(l)' = Joining(l)
      /\ \A p \in Procs : Starting(p)' <=> Starting(p)
  BY SameStartings
<1>2. \A p \in Procs : Placed(p)'
  BY <1>1, SteadyPlaced DEF ListsInv
<1>3. StartsApart'
  BY DEF ListsInv, StartsApart
<1>4. ASSUME NEW l \in 1 .. PRI_MAX PROVE Queued(l)'
  <2>1. PICK s : Line(s, l) /\ Joined(s, l) /\ Complete(s, l)
    BY DEF ListsInv, Queued
  <2>2. Joined(s, l)'
    BY <1>1, <2>1 DEF Joined
  <2>3. Complete(s, l)'
    BY <1>1, <2>1, SteadyComplete DEF ListsInv
  <2>4. Line(s, l)'
    BY <2>1 DEF Line
  <2>5. QED BY <2>2, <2>3, <2>4 DEF Queued
<1>5. QED BY <1>2, <1>3, <1>4 DEF ListsInv

\* Nobody is lost.
LEMMA ListsLoseNobody ==
  ASSUME ListsInv
  PROVE  NoLostProcess
<1> SUFFICES ASSUME NEW p \in Procs, state[p] \in {"initial", "ready"}, ~OnCpu(p), ~Starting(p)
             PROVE  p \in Listed(PriOf(p))
  BY DEF NoLostProcess
<1>1. PriOf(p) \in 1 .. PRI_MAX
  BY RecordAssumption DEF PriOf
<1>2. PICK s : Line(s, PriOf(p)) /\ Joined(s, PriOf(p)) /\ Complete(s, PriOf(p))
  BY <1>1 DEF ListsInv, Queued
<1>3. p \in Members(s)
  BY <1>2 DEF Complete
<1>4. \E e, t : Chain(rq, s, PriOf(p), e, t)
  BY <1>2 DEF Joined
<1>5. QED BY <1>2, <1>3, <1>4, ChainListed

-----------------------------------------------------------------------------
\* Steps that leave the lists alone.

LEMMA GotoPlaces ==
  ASSUME StackInv, NEW f, Goto(f), Top.fn # "start", f.fn # "start"
  PROVE  /\ Startings' = Startings
         /\ f.proc = Top.proc => \A p : OnCpu(p)' <=> OnCpu(p)
         /\ Top.fn # "main" => stack'[1] = stack[1]
<1>1. /\ Frames' = Frames /\ Len(stack) \in Frames /\ Top = stack[Len(stack)]
      /\ \A n \in Frames : stack'[n] = IF n = Len(stack) THEN f ELSE stack[n]
  BY GotoTop, Stacked
<1>2. {m \in Frames' : stack'[m].fn = "start"} = {m \in Frames : stack[m].fn = "start"}
  BY <1>1
<1>3. \A m \in {k \in Frames : stack[k].fn = "start"} : stack'[m] = stack[m]
  BY <1>1
<1>4. Startings' = Startings
  BY <1>2, <1>3 DEF Startings
<1>5. ASSUME f.proc = Top.proc PROVE \A p : OnCpu(p)' <=> OnCpu(p)
  <2>1. \A n \in Frames : stack'[n].proc = stack[n].proc
    BY <1>1, <1>5
  <2>2. QED BY <1>1, <2>1 DEF OnCpu
<1>6. Top.fn # "main" => stack'[1] = stack[1]
  BY <1>1, Stacked
<1>7. QED BY <1>4, <1>5, <1>6

LEMMA PushPlaces ==
  ASSUME StackInv, NEW f, NEW g, Len(stack') = Len(stack) + 1,
         \A n \in Frames : stack'[n] = IF n = Len(stack) THEN f ELSE stack[n],
         stack'[Len(stack) + 1] = g, f.proc = Top.proc, g.proc = NoProc, g.fn # "start",
         f = Top \/ (Top.fn # "start" /\ f.fn # "start")
  PROVE  /\ Startings' = Startings
         /\ \A p \in Procs : OnCpu(p)' <=> OnCpu(p)
         /\ Top.fn # "main" \/ f = Top => stack'[1] = stack[1]
<1>1. /\ Len(stack) \in Nat /\ Frames = 1 .. Len(stack) /\ Len(stack) \in Frames /\ Top = stack[Len(stack)]
      /\ Frames' = 1 .. Len(stack) + 1 /\ NoProc \notin Procs /\ 1 \in Frames
  BY Stacked, PriOfLevel DEF Frames, Records
<1>2. {m \in Frames' : stack'[m].fn = "start"} = {m \in Frames : stack[m].fn = "start"}
  <2>1. \A m \in Frames : stack'[m].fn = "start" <=> stack[m].fn = "start"
    BY <1>1
  <2>2. \A m \in Frames' : m \in Frames \/ m = Len(stack) + 1
    BY <1>1
  <2>3. \A m \in Frames : m \in Frames'
    BY <1>1
  <2>4. QED BY <2>1, <2>2, <2>3
<1>3. \A m \in {k \in Frames : stack[k].fn = "start"} : stack'[m] = stack[m]
  BY <1>1
<1>4. Startings' = Startings
  BY <1>2, <1>3 DEF Startings
<1>5. ASSUME NEW p \in Procs PROVE OnCpu(p)' <=> OnCpu(p)
  <2>1. \A n \in Frames : n \in Frames' /\ stack'[n].proc = stack[n].proc
    BY <1>1
  <2>2. \A n \in Frames' : stack'[n].proc = p => n \in Frames
    BY <1>1
  <2>3. QED BY <2>1, <2>2 DEF OnCpu
<1>6. Top.fn # "main" \/ f = Top => stack'[1] = stack[1]
  BY <1>1, Stacked
<1>7. QED BY <1>4, <1>5, <1>6

LEMMA ReturnPlaces ==
  ASSUME StackInv, Return, Top.fn \notin {"main", "start"}, Top.proc = NoProc
  PROVE  /\ Startings' = Startings
         /\ \A p \in Procs : OnCpu(p)' <=> OnCpu(p)
         /\ stack'[1] = stack[1]
<1>1. /\ Len(stack) \in Nat /\ Len(stack) > 1 /\ Frames = 1 .. Len(stack) /\ Top = stack[Len(stack)]
      /\ NoProc \notin Procs
  BY Stacked, PriOfLevel DEF Records
<1>2. /\ Len(stack') = Len(stack) - 1 /\ Frames' = 1 .. Len(stack) - 1
      /\ \A n \in Frames' : stack'[n] = stack[n] /\ n \in Frames
  BY <1>1, ReturnSeq DEF StackInv, Frames
<1>3. \A n \in Frames : n \in Frames' \/ n = Len(stack)
  BY <1>1, <1>2
<1>4. {m \in Frames' : stack'[m].fn = "start"} = {m \in Frames : stack[m].fn = "start"}
  BY <1>1, <1>2, <1>3
<1>5. \A m \in {k \in Frames' : stack'[k].fn = "start"} : stack'[m] = stack[m]
  BY <1>2
<1>6. Startings' = Startings
  BY <1>4, <1>5 DEF Startings
<1>7. ASSUME NEW p \in Procs PROVE OnCpu(p)' <=> OnCpu(p)
  BY <1>1, <1>2, <1>3 DEF OnCpu
<1>8. stack'[1] = stack[1]
  BY <1>1, <1>2
<1>9. QED BY <1>6, <1>7, <1>8

\* While main() starts its processes only main() and start() execute.
LEMMA MainAlone ==
  ASSUME UrgencyInv, stack[1].pc = "main"
  PROVE  Booting /\ Top.fn \in {"main", "start"}
<1>1. /\ Len(stack) \in Nat /\ Len(stack) >= 1 /\ Frames = 1 .. Len(stack) /\ Top = stack[Len(stack)]
      /\ stack[1].fn = "main" /\ (\A n \in Frames : stack[n].fn = "main" => n = 1)
      /\ FrameOK(stack[1]) /\ 1 \in Frames
  BY Stacked DEF UrgencyInv
<1> DEFINE m == Len(stack)
<1> HIDE DEF m
<1>2. CASE Len(stack) = 1
  BY <1>1, <1>2 DEF Booting
<1>3. CASE Len(stack) > 1
  <2>1. 2 \in Frames /\ 2 - 1 = 1
    BY <1>1, <1>3
  <2>2. OnTopOf(stack[2], stack[1]) /\ KindOK(stack[2])
    BY <1>3, <2>1 DEF UrgencyInv, LinkInv, Linkage
  <2>3. stack[1].prev = NoProc
    BY <1>1 DEF FrameOK, ReturnPcs
  <2>4. stack[2].fn = "start"
    BY <1>1, <2>1, <2>2, <2>3 DEF OnTopOf, KindOK
  <2>5. Len(stack) = 2
    <3>1. ~(Len(stack) > 2)
      BY <2>4, Zenon DEF UrgencyInv, Quiet
    <3>2. m \in Nat /\ m > 1 /\ ~(m > 2)
      BY <1>1, <1>3, <3>1, Zenon DEF m
    <3>3. m = 2
      BY <3>2
    <3>4. QED BY <3>3 DEF m
  <2>6. QED BY <1>1, <2>4, <2>5 DEF Booting
<1>4. Len(stack) = 1 \/ Len(stack) > 1
  <2>1. m \in Nat /\ m >= 1
    BY <1>1, Zenon DEF m
  <2>2. m = 1 \/ m > 1
    BY <2>1
  <2>3. QED BY <2>2 DEF m
<1>5. QED BY <1>2, <1>3, <1>4, Zenon

LEMMA StillNotStarted ==
  ASSUME UrgencyInv, NotYetStarted, stack'[1] = stack[1],
         state' = state \/ Top.fn \notin {"main", "start"}
  PROVE  NotYetStarted'
BY MainAlone DEF NotYetStarted

\* The top activation moves, and may change the state of its process.
LEMMA MovesLists ==
  ASSUME UrgencyInv, ListsInv, rq' = rq, NEW f, Goto(f), f.fn = Top.fn, Top.fn \notin {"main", "start"},
         f.proc = Top.proc,
         \/ state' = state
         \/ Top.proc \in Procs /\ \E x : x # "unstarted" /\ state' = [state EXCEPT ![Top.proc] = x]
  PROVE  ListsInv'
<1>1. /\ Startings' = Startings /\ (\A p : OnCpu(p)' <=> OnCpu(p)) /\ stack'[1] = stack[1]
  BY GotoPlaces DEF UrgencyInv
<1>2. NotYetStarted'
  BY <1>1, StillNotStarted DEF ListsInv
<1>3. ASSUME NEW p \in Procs PROVE Steady(p)
  <2>1. CASE state' = state
    BY <1>1, <2>1 DEF Steady
  <2>2. ASSUME Top.proc \in Procs, NEW x, x # "unstarted", state' = [state EXCEPT ![Top.proc] = x]
        PROVE  Steady(p)
    <3>1. p \in Records /\ DOMAIN state = Records
      BY DEF Records, UrgencyInv, NoneEnds
    <3>2. OnCpu(Top.proc)
      BY Stacked DEF UrgencyInv, OnCpu
    <3>3. QED BY <1>1, <2>2, <3>1, <3>2 DEF Steady
  <2>3. QED BY <2>1, <2>2
<1>4. QED BY <1>1, <1>2, <1>3, ListsStay

LEMMA PushesLists ==
  ASSUME UrgencyInv, ListsInv, rq' = rq, state' = state, NEW f, NEW g, Len(stack') = Len(stack) + 1,
         \A n \in Frames : stack'[n] = IF n = Len(stack) THEN f ELSE stack[n],
         stack'[Len(stack) + 1] = g, f.proc = Top.proc, g.proc = NoProc, g.fn # "start",
         f = Top \/ (Top.fn \notin {"main", "start"} /\ f.fn # "start")
  PROVE  ListsInv'
<1>1. /\ Startings' = Startings /\ (\A p \in Procs : OnCpu(p)' <=> OnCpu(p)) /\ stack'[1] = stack[1]
  BY PushPlaces DEF UrgencyInv
<1>2. NotYetStarted'
  BY <1>1, StillNotStarted DEF ListsInv
<1>3. QED BY <1>1, <1>2, ListsStay DEF Steady

LEMMA ReturnsLists ==
  ASSUME UrgencyInv, ListsInv, rq' = rq, state' = state, Return, Top.fn \notin {"main", "start"}, Top.proc = NoProc
  PROVE  ListsInv'
<1>1. /\ Startings' = Startings /\ (\A p \in Procs : OnCpu(p)' <=> OnCpu(p)) /\ stack'[1] = stack[1]
  BY ReturnPlaces DEF UrgencyInv
<1>2. NotYetStarted'
  BY <1>1, StillNotStarted DEF ListsInv
<1>3. QED BY <1>1, <1>2, ListsStay DEF Steady

LEMMA QuietLists ==
  ASSUME ListsInv, UNCHANGED <<rq, state, stack>>
  PROVE  ListsInv'
<1>1. Startings' = Startings /\ (\A p : OnCpu(p)' <=> OnCpu(p)) /\ NotYetStarted'
  BY DEF Startings, OnCpu, Frames, ListsInv, NotYetStarted
<1>2. QED BY <1>1, ListsStay DEF Steady

LEMMA AltLists ==
  ASSUME AltInv, ListsInv, EnableStep \/ DisableStep
  PROVE  ListsInv'
<1>1. rq' = rq /\ Top.pc \in QuietPcs /\ Top.proc \in Procs /\ (Moves \/ stack' = stack)
  BY EnableMoves, DisableMoves, Zenon DEF AltInv, UrgencyInv
<1>2. Top.fn = "schedule" /\ UrgencyInv /\ AltFits(Top.proc, Top, state[Top.proc], alt[Top.proc], active[Top.proc], timeout[Top.proc])
  BY <1>1, Here, Zenon DEF AltInv
<1>3. \E f : Goto(f) /\ f.fn = Top.fn /\ f.proc = Top.proc
  <2>1. CASE Moves
    BY <2>1, Zenon DEF Moves, Same
  <2>2. CASE stack' = stack
    <3>1. Goto(Top)
      BY <2>2, <1>2 DEF Goto, Top, UrgencyInv, StackInv, StackShape
    <3>2. QED BY <3>1, Zenon
  <2>3. QED BY <1>1, <2>1, <2>2
<1>4. state' = state \/ \E x : x # "unstarted" /\ state' = [state EXCEPT ![Top.proc] = x]
  <2>1. CASE EnableBegin
    BY <2>1, Zenon DEF EnableBegin, Crash, procVars
  <2>2. CASE EnableInactive \/ EnableChanIn \/ EnableChanOut \/ EnableSkip
    BY <2>2, Zenon DEF EnableInactive, EnableChanIn, EnableChanOut, EnableSkip, procVars
  <2>3. CASE EnableTimeout \/ EnableInsert \/ EnableIntr \/ EnableEnd
    BY <2>3, Zenon DEF EnableTimeout, EnableInsert, EnableIntr, EnableEnd, procVars
  <2>4. CASE EnableDone
    <3>1. state[Top.proc] # "unstarted"
      BY <1>2, <2>4 DEF EnableDone, At, AltFits, StateFits
    <3>2. \E x : /\ x = IF state[Top.proc] # "enabling" THEN state[Top.proc]
                        ELSE IF Top.flag THEN "ready" ELSE "waiting"
                 /\ state' = [state EXCEPT ![Top.proc] = x]
      BY <2>4, Zenon DEF EnableDone
    <3>3. QED BY <3>1, <3>2
  <2>5. CASE DisableInactive \/ DisableChanIn \/ DisableOutOrSkip \/ DisableTimeout \/ DisableIntr
    BY <2>5, Zenon DEF DisableInactive, DisableChanIn, DisableOutOrSkip, DisableTimeout, DisableIntr, procVars
  <2>6. CASE TransferMessage \/ TransferCount \/ TransferNothing
    <3>1. state' = state \/ state' = [state EXCEPT ![Top.proc] = "quiescent"]
      BY <2>6, Zenon DEF TransferMessage, TransferCount, TransferNothing, Crash, procVars
    <3>2. QED BY <3>1
  <2>7. QED BY <2>1, <2>2, <2>3, <2>4, <2>5, <2>6 DEF EnableStep, DisableStep
<1>5. QED BY <1>1, <1>2, <1>3, <1>4, MovesLists

\* schedule() between processes, or about to run one.
LEMMA SelectLists ==
  ASSUME AltInv, ListsInv, SelectSame \/ SelectNew
  PROVE  ListsInv'
<1>1. UrgencyInv /\ StackInv
  BY DEF AltInv, UrgencyInv
<1>2. At("select") /\ rq' = rq /\ state' = state
  BY DEF SelectSame, SelectNew, procVars
<1>3. Top.fn = "schedule" /\ IsFrame(Top)
  <2>1. FrameOK(Top) /\ Top.pc = "select"
    BY <1>1, <1>2, AtFacts
  <2>2. QED BY <2>1 DEF FrameOK, SchedulePcs
<1>4. \E f : Goto(f) /\ f.fn = Top.fn /\ f.proc = Top.proc
  <2>1. \/ Goto([Top EXCEPT !.pc = "load"])
        \/ Goto([Top EXCEPT !.pc = "take", !.k = highest_ready(rq.mask)])
    BY Zenon DEF SelectSame, SelectNew
  <2>2. /\ [Top EXCEPT !.pc = "load"].fn = Top.fn /\ [Top EXCEPT !.pc = "load"].proc = Top.proc
        /\ [Top EXCEPT !.pc = "take", !.k = highest_ready(rq.mask)].fn = Top.fn
        /\ [Top EXCEPT !.pc = "take", !.k = highest_ready(rq.mask)].proc = Top.proc
    BY <1>3 DEF IsFrame
  <2>3. QED BY <2>1, <2>2, Zenon
<1>5. QED BY <1>1, <1>2, <1>3, <1>4, MovesLists

LEMMA SelectNoneLists ==
  ASSUME AltInv, ListsInv, SelectNone
  PROVE  ListsInv'
<1>1. UrgencyInv /\ StackInv
  BY DEF AltInv, UrgencyInv
<1>2. At("select") /\ rq' = rq /\ state' = state /\ Return /\ Top.proc = NoProc
  BY DEF SelectNone, procVars
<1>3. Top.fn = "schedule"
  <2>1. FrameOK(Top) /\ Top.pc = "select"
    BY <1>1, <1>2, AtFacts
  <2>2. QED BY <2>1 DEF FrameOK, SchedulePcs
<1>4. QED BY <1>1, <1>2, <1>3, ReturnsLists

LEMMA LoadLists ==
  ASSUME AltInv, ListsInv, Load
  PROVE  ListsInv'
<1>1. UrgencyInv /\ StackInv
  BY DEF AltInv, UrgencyInv
<1>2. At("load") /\ rq' = rq /\ state' = state
  BY DEF Load, procVars
<1>3. Top.fn = "schedule"
  <2>1. FrameOK(Top) /\ Top.pc = "load"
    BY <1>1, <1>2, AtFacts
  <2>2. QED BY <2>1 DEF FrameOK, SchedulePcs
<1>4. \E f : Goto(f) /\ f.fn = Top.fn /\ f.proc = Top.proc
  BY <1>1, LoadMoves, Zenon DEF Loaded
<1>5. QED BY <1>1, <1>2, <1>3, <1>4, MovesLists

LEMMA PartnerEndLists ==
  ASSUME AltInv, ListsInv, NoPartner \/ PartnerReturn
  PROVE  ListsInv'
<1>1. UrgencyInv /\ StackInv
  BY DEF AltInv, UrgencyInv
<1>2. /\ At("partner") \/ At("partnerRet")
      /\ rq' = rq /\ state' = state /\ Goto(AfterPartner(Top))
  BY DEF NoPartner, PartnerReturn, procVars
<1>3. Top.fn = "schedule" /\ IsFrame(Top)
  <2>1. FrameOK(Top) /\ Top.pc \in {"partner", "partnerRet"}
    BY <1>1, <1>2, AtFacts
  <2>2. QED BY <2>1 DEF FrameOK, SchedulePcs
<1>4. AfterPartner(Top).fn = Top.fn /\ AfterPartner(Top).proc = Top.proc
  BY <1>3 DEF AfterPartner, IsFrame
<1>5. QED BY <1>1, <1>2, <1>3, <1>4, MovesLists

\* The RTC code ends: its process stays on the CPU, and is new no more.
LEMMA RtcRestLists ==
  ASSUME AltInv, ListsInv, RtcRest
  PROVE  ListsInv'
<1> DEFINE f == [Top EXCEPT !.pc = "finish", !.act = NoAct]
<1>1. UrgencyInv /\ StackInv
  BY DEF AltInv, UrgencyInv
<1>2. At("rtcRest") /\ rq' = rq /\ Goto(f)
  BY DEF RtcRest
<1>3. Top.pc = "rtcRest" /\ Top.proc \in Procs
  BY <1>1, <1>2, AtFacts DEF ProcPcs, SchedulePcs
<1>4. Top.fn = "schedule" /\ IsFrame(Top)
  BY <1>3, Here
<1>5. ~Top.act.term
  <2>1. KindOK(Top)
    BY <1>1, Stacked DEF UrgencyInv, LinkInv, Linkage
  <2>2. QED BY <1>3, <2>1 DEF KindOK, StartPcs, HandlerPcs
<1>6. state' = state \/ \E x : x # "unstarted" /\ state' = [state EXCEPT ![Top.proc] = x]
  <2>1. state' = IF Top.flag THEN state ELSE [state EXCEPT ![Top.proc] = "quiescent"]
    BY <1>5 DEF RtcRest
  <2>2. QED BY <2>1
<1>7. f.fn = Top.fn /\ f.proc = Top.proc
  BY <1>4 DEF IsFrame
<1> HIDE DEF f
<1>8. QED BY <1>1, <1>2, <1>3, <1>4, <1>6, <1>7, MovesLists

\* run(): main() has started all its processes.
LEMMA MainRunLists ==
  ASSUME AltInv, ListsInv, MainRun
  PROVE  ListsInv'
<1> DEFINE f == [Top EXCEPT !.pc = "returned"]
           g == ScheduleFrame(PRI_MIN - 1)
<1>1. /\ At("main") /\ Call(f, g) /\ rq' = rq /\ state' = state
  BY DEF MainRun, procVars
<1>2. UrgencyInv /\ StackInv /\ StackShape
  BY DEF AltInv, UrgencyInv, StackInv
<1>3. IsFrame(Top) /\ Top.fn = "main"
  BY <1>1, <1>2, AtFacts DEF FrameOK
<1>4. f.fn = "main" /\ f.proc = Top.proc /\ f.pc = "returned" /\ g.proc = NoProc /\ g.fn = "schedule"
  BY <1>3 DEF IsFrame, ScheduleFrame, Frame
<1> HIDE DEF f, g
<1>5. /\ Len(stack') = Len(stack) + 1
      /\ \A n \in Frames : stack'[n] = IF n = Len(stack) THEN f ELSE stack[n]
      /\ stack'[Len(stack) + 1] = g
  BY <1>1, <1>2, CallSeq
<1>6. Startings' = Startings /\ \A p \in Procs : OnCpu(p)' <=> OnCpu(p)
  BY <1>2, <1>3, <1>4, <1>5, PushPlaces
<1>7. NotYetStarted'
  <2>1. Len(stack) = 1 /\ 1 \in Frames
    BY <1>2, <1>3, Stacked
  <2>2. stack'[1].pc = "returned"
    BY <1>4, <1>5, <2>1
  <2>3. QED BY <2>2 DEF NotYetStarted
<1>8. QED BY <1>1, <1>6, <1>7, ListsStay DEF Steady

\* The steps of a handler that wake nobody.
LEMMA HandlerGoes ==
  ASSUME AltInv, ListsInv, Top.pc \in HandlerPcs, rq' = rq, state' = state, NEW f, Goto(f), f.fn = "handler", f.proc = NoProc
  PROVE  ListsInv'
<1>1. Top.fn = "handler" /\ Top.proc = NoProc /\ UrgencyInv
  BY HandlerFacts DEF AltInv
<1>2. QED BY <1>1, MovesLists

LEMMA HandlerLists ==
  ASSUME AltInv, ListsInv, HandleTimeout \/ TimeoutRearm \/ HandlerReturn \/ HandlerExit \/ HandlerRestore
  PROVE  ListsInv'
<1>1. Top.pc \in HandlerPcs /\ rq' = rq /\ state' = state
  BY DEF HandleTimeout, TimeoutRearm, HandlerReturn, HandlerExit, HandlerRestore, At, HandlerPcs, procVars
<1>2. IsFrame(Top) /\ Top.fn = "handler" /\ Top.proc = NoProc /\ UrgencyInv /\ StackShape
  BY <1>1, HandlerFacts DEF AltInv, UrgencyInv, StackInv
<1>3. /\ \A pc : [Top EXCEPT !.pc = pc].fn = "handler" /\ [Top EXCEPT !.pc = pc].proc = NoProc
      /\ \A pc, t : [Top EXCEPT !.pc = pc, !.time = t].fn = "handler" /\ [Top EXCEPT !.pc = pc, !.time = t].proc = NoProc
      /\ \A pc : [Top EXCEPT !.pc = pc, !.prev = NoProc].fn = "handler" /\ [Top EXCEPT !.pc = pc, !.prev = NoProc].proc = NoProc
  BY <1>2 DEF IsFrame
<1>4. CASE HandleTimeout
  <2>1. Goto([Top EXCEPT !.pc = "due", !.time = Now])
    BY <1>4, Zenon DEF HandleTimeout
  <2>2. QED BY <1>1, <1>3, <2>1, HandlerGoes
<1>5. CASE TimeoutRearm
  <2>1. Goto([Top EXCEPT !.pc = "exit"])
    BY <1>5, Zenon DEF TimeoutRearm
  <2>2. QED BY <1>1, <1>3, <2>1, HandlerGoes
<1>6. CASE HandlerReturn
  <2>1. \E pc : Goto([Top EXCEPT !.pc = pc, !.prev = NoProc])
    BY <1>6, Zenon DEF HandlerReturn
  <2>2. QED BY <1>1, <1>3, <2>1, HandlerGoes
<1>7. CASE HandlerExit
  <2> DEFINE f == [Top EXCEPT !.pc = "leave"]
             g == ScheduleFrame(PriOf(current))
  <2>1. Call(f, g) \/ Goto(f)
    BY <1>7 DEF HandlerExit
  <2>2. f.fn = "handler" /\ f.proc = NoProc /\ g.proc = NoProc /\ g.fn = "schedule"
    BY <1>3 DEF ScheduleFrame, Frame
  <2> HIDE DEF f, g
  <2>3. CASE Goto(f)
    BY <1>1, <2>2, <2>3, HandlerGoes
  <2>4. CASE Call(f, g)
    <3>1. /\ Len(stack') = Len(stack) + 1
          /\ \A n \in Frames : stack'[n] = IF n = Len(stack) THEN f ELSE stack[n]
          /\ stack'[Len(stack) + 1] = g
      BY <1>2, <2>4, CallSeq
    <3>2. f.proc = Top.proc /\ f.fn # "start" /\ Top.fn \notin {"main", "start"} /\ g.fn # "start"
      BY <1>2, <2>2
    <3>3. QED BY <1>1, <1>2, <2>2, <3>1, <3>2, PushesLists
  <2>5. QED BY <2>1, <2>3, <2>4
<1>8. CASE HandlerRestore
  <2>1. Return
    BY <1>8 DEF HandlerRestore
  <2>2. QED BY <1>1, <1>2, <2>1, ReturnsLists
<1>9. QED BY <1>4, <1>5, <1>6, <1>7, <1>8

LEMMA EnvironmentLists ==
  ASSUME AltInv, ListsInv, Environment
  PROVE  ListsInv'
<1>1. CASE \E src : Interrupt(src)
  <2>1. PICK src : Interrupt(src)
    BY <1>1
  <2> DEFINE g == HandlerFrame(src)
  <2>2. stack' = Append(stack, g) /\ rq' = rq /\ state' = state
    BY <2>1 DEF Interrupt, procVars
  <2>3. UrgencyInv /\ StackInv /\ StackShape
    BY DEF AltInv, UrgencyInv, StackInv
  <2>4. g.proc = NoProc /\ g.fn = "handler"
    BY DEF HandlerFrame, Frame
  <2> HIDE DEF g
  <2>5. /\ Len(stack') = Len(stack) + 1 /\ stack'[Len(stack) + 1] = g
        /\ \A n \in Frames : stack'[n] = IF n = Len(stack) THEN Top ELSE stack[n]
    BY <2>2, <2>3, PushSeq, Stacked
  <2>6. QED BY <2>2, <2>3, <2>4, <2>5, PushesLists
<1>2. CASE Clock \/ AlarmFires
  <2>1. UNCHANGED <<rq, state, stack>>
    BY <1>2 DEF Clock, AlarmFires, procVars, cpuVars
  <2>2. QED BY <2>1, QuietLists
<1>3. QED
  BY <1>1, <1>2, Zenon DEF Environment, ElapsedInterrupt, TimeoutInterrupt, UserInterrupt

\* A process that gives up the CPU is waiting, and on no list.
LEMMA FinishLists ==
  ASSUME AltInv, ListsInv, Finish
  PROVE  ListsInv'
<1> DEFINE p == Top.proc
           f == [Top EXCEPT !.pc = "select", !.proc = IF state[p] = "waiting" THEN NoProc ELSE p]
<1>1. UrgencyInv /\ StackInv
  BY DEF AltInv, UrgencyInv
<1>2. At("finish") /\ Top.pc = "finish" /\ p \in Procs
  <2>1. At("finish")
    BY DEF Finish
  <2>2. QED BY <1>1, <2>1, AtFacts DEF ProcPcs, SchedulePcs
<1>3. Top.fn = "schedule" /\ IsFrame(Top) /\ state[p] # "done"
  <2>1. Top.fn = "schedule" /\ IsFrame(Top)
    BY <1>2, Here
  <2>2. state[p] # "done"
    BY <1>1, <1>2 DEF UrgencyInv, NoneEnds, Records
  <2>3. QED BY <2>1, <2>2
<1>4. Goto(f) /\ rq' = rq /\ state' = state
  BY <1>3 DEF Finish
<1>5. f.fn = "schedule" /\ f.proc = IF state[p] = "waiting" THEN NoProc ELSE p
  BY <1>3 DEF IsFrame
<1> HIDE DEF f
<1>6. CASE state[p] # "waiting"
  BY <1>1, <1>3, <1>4, <1>5, <1>6, MovesLists
<1>7. CASE state[p] = "waiting"
  <2>1. Startings' = Startings /\ stack'[1] = stack[1]
    BY <1>1, <1>3, <1>4, <1>5, GotoPlaces
  <2>2. /\ Frames' = Frames /\ Len(stack) \in Frames /\ Top = stack[Len(stack)]
        /\ \A n \in Frames : stack'[n] = IF n = Len(stack) THEN f ELSE stack[n]
    BY <1>1, <1>4, GotoTop, Stacked
  <2>3. ASSUME NEW q \in Procs PROVE Steady(q)
    <3>1. CASE q = p
      <4>1. OnCpu(q)
        BY <2>2, <3>1 DEF OnCpu
      <4>2. QED BY <1>4, <1>7, <3>1, <4>1 DEF Steady
    <3>2. CASE q # p
      <4>1. q # NoProc
        BY PriOfLevel
      <4>2. OnCpu(q)' <=> OnCpu(q)
        BY <1>5, <1>7, <2>2, <3>2, <4>1 DEF OnCpu
      <4>3. QED BY <1>4, <4>2 DEF Steady
    <3>3. QED BY <3>1, <3>2
  <2>4. NotYetStarted'
    BY <1>1, <1>4, <2>1, StillNotStarted DEF ListsInv
  <2>5. QED BY <1>4, <2>1, <2>3, <2>4, ListsStay
<1>8. QED BY <1>6, <1>7

-----------------------------------------------------------------------------
\* Steps that change one list.

\* An activation of start() names a process.
LEMMA JoiningFacts ==
  ASSUME UrgencyInv, NEW n \in DOMAIN Startings
  PROVE  /\ n \in Frames /\ n > 1 /\ Startings[n] = stack[n] /\ stack[n].fn = "start"
         /\ stack[n].partner \in Procs /\ stack[n].pc \in StartPcs /\ n - 1 \in Frames
         /\ OnTopOf(stack[n], stack[n - 1])
<1>1. n \in Frames /\ Startings[n] = stack[n] /\ stack[n].fn = "start"
  BY DEF Startings
<1>2. /\ n > 1 /\ n - 1 \in Frames
  <2>1. n # 1 /\ n \in Nat /\ Frames \subseteq Nat /\ n >= 1
    BY <1>1, Stacked DEF UrgencyInv
  <2>2. n > 1
    BY <2>1
  <2>3. QED BY <1>1, <2>2, Stacked DEF UrgencyInv
<1>3. KindOK(stack[n]) /\ OnTopOf(stack[n], stack[n - 1])
  BY <1>1, <1>2 DEF UrgencyInv, LinkInv, Linkage
<1>4. stack[n].pc \in StartPcs
  BY <1>1, <1>3 DEF KindOK
<1>5. stack[n].partner \in Procs
  BY <1>1, <1>4, Stacked DEF UrgencyInv, FrameOK
<1>6. QED BY <1>1, <1>2, <1>3, <1>4, <1>5

\* What is on a level whose descriptor and links stay.
LEMMA OtherLevel ==
  ASSUME UrgencyInv, NEW l, Queued(l), rq'.head[l] = rq.head[l], rq'.tail[l] = rq.tail[l],
         \A x \in Procs : PriOf(x) = l => rq'.next[x] = rq.next[x],
         Joining(l)' = Joining(l), \A n \in Joining(l) : Startings'[n] = Startings[n],
         \A p \in Procs : PriOf(p) = l => Placed(p) /\ Steady(p) /\ (Starting(p)' <=> Starting(p))
  PROVE  Queued(l)'
<1>1. PICK s : Line(s, l) /\ Joined(s, l) /\ Complete(s, l)
  BY DEF Queued
<1>2. \A x \in Members(s) : x \in Procs /\ PriOf(x) = l
  BY <1>1, LineFacts DEF Line, Members
<1>3. \A x \in Members(s) : rq'.next[x] = rq.next[x]
  BY <1>2
<1>4. \A e, t : Chain(rq, s, l, e, t) => Chain(rq', s, l, e, t)
  BY <1>3, ChainStays
<1>5. Joined(s, l)'
  <2>1. ASSUME Joining(l)' = {} PROVE Chain(rq', s, l, NoProc, Rear(s))
    BY <1>1, <1>4, <2>1 DEF Joined
  <2>2. ASSUME NEW n \in Joining(l)'
        PROVE  LET f == Startings'[n]
               IN  /\ rq'.next[f.partner] = NoProc
                   /\ Chain(rq', s, l, IF f.pc = "link" THEN NoProc ELSE f.partner,
                            IF f.pc \in {"link", "tail"} THEN Rear(s) ELSE f.partner)
    <3>1. n \in Joining(l) /\ Startings'[n] = Startings[n]
      BY <2>2
    <3>2. Startings[n].partner \in Procs /\ PriOf(Startings[n].partner) = l
      BY <3>1, JoiningFacts DEF Joining
    <3>3. QED BY <1>1, <1>4, <3>1, <3>2 DEF Joined
  <2>3. QED BY <2>1, <2>2 DEF Joined
<1>6. Complete(s, l)'
  BY <1>1, SteadyComplete
<1>7. Line(s, l)'
  BY <1>1 DEF Line
<1>8. QED BY <1>5, <1>6, <1>7 DEF Queued

\* Only processes of a lower priority are being started when one is taken.
LEMMA NoneJoinsTaken ==
  ASSUME UrgencyInv, Top.pc = "take"
  PROVE  Joining(Top.k) = {}
<1>1. /\ Top.fn = "schedule" /\ Top.k > Top.base /\ Top.k \in Int /\ Top.base \in Int
      /\ Top = stack[Len(stack)] /\ Len(stack) \in Frames
  BY Stacked DEF UrgencyInv, FrameOK, SchedulePcs, Levels, PRI_MIN, PRI_MAX
<1>2. SUFFICES ASSUME NEW n \in DOMAIN Startings, PriOf(Startings[n].partner) = Top.k
               PROVE  FALSE
  BY DEF Joining
<1> DEFINE b == stack[n - 1]
<1>3. /\ n \in Frames /\ n > 1 /\ Startings[n] = stack[n] /\ stack[n].fn = "start"
      /\ stack[n].partner \in Procs /\ n - 1 \in Frames /\ OnTopOf(stack[n], b)
  BY JoiningFacts
<1>4. n < Len(stack) /\ n - 1 < Len(stack) /\ Len(stack) \in Nat /\ n \in Nat
  <2>1. n # Len(stack)
    BY <1>1, <1>3
  <2>2. Len(stack) \in Nat /\ Frames = 1 .. Len(stack)
    BY Stacked DEF UrgencyInv
  <2>3. QED BY <1>3, <2>1, <2>2
<1>5. CASE b.pc = "main"
  <2>1. b.fn = "main"
    BY <1>3, <1>5, Stacked DEF UrgencyInv, FrameOK
  <2>2. n - 1 = 1
    BY <1>3, <2>1, Stacked DEF UrgencyInv
  <2>3. n = 2
    BY <1>4, <2>2
  <2>4. Len(stack) > 2 => stack[2].fn # "start"
    BY DEF UrgencyInv, Quiet
  <2>5. QED BY <1>3, <1>4, <2>3, <2>4
<1>6. CASE b.proc \in Starters /\ PriOf(stack[n].partner) <= PriOf(b.proc)
  <2>1. b.proc \in Procs /\ b.proc # NoProc
    BY <1>6, PriOfLevel DEF Starters
  <2>2. PriOf(b.proc) <= Top.base
    BY <1>1, <1>3, <1>4, <2>1 DEF UrgencyInv, StackInv, BaseAbove
  <2>3. PriOf(b.proc) \in Int /\ PriOf(stack[n].partner) \in Int
    BY <1>3, <2>1, PriOfLevel
  <2>4. QED BY <1>1, <1>2, <1>3, <1>6, <2>2, <2>3
<1>7. QED BY <1>3, <1>5, <1>6 DEF OnTopOf

\* take(): the first process of the list goes to the CPU.
LEMMA TakeLists ==
  ASSUME AltInv, ListsInv, Take
  PROVE  ListsInv'
<1>0. PICK k, p : k = Top.k /\ p = rq.head[k]
  OBVIOUS
<1> DEFINE f == [Top EXCEPT !.pc = "load", !.proc = p, !.k = 0]
<1>1. UrgencyInv /\ StackInv /\ QueueLevels
  BY DEF AltInv, UrgencyInv, StackInv
<1>2. At("take") /\ Top.pc = "take"
  BY DEF Take, At
<1>3. IsFrame(Top) /\ Top.fn = "schedule" /\ Top.proc = NoProc /\ k \in Levels
  BY <1>0, <1>1, <1>2, AtFacts, Stacked
     DEF UrgencyInv, FrameOK, SchedulePcs, LinkInv, Linkage, KindOK, StartPcs, HandlerPcs
<1>4. CASE p = NoProc
  <2>1. UNCHANGED <<rq, state, stack>>
    BY <1>0, <1>4 DEF Take, Crash, procVars
  <2>2. QED BY <2>1, QuietLists
<1>5. CASE p # NoProc
  <2>1. Goto(f) /\ rq' = take(rq, k) /\ state' = state
    BY <1>0, <1>5 DEF Take
  <2>2. p \in Records /\ PriOf(p) = k
    BY <1>0, <1>1, <1>3, <1>5, <2>1, TakeLevels
  <2>3. f.fn = "schedule" /\ f.proc = p
    BY <1>3 DEF IsFrame
  <2>4. rq \in QueueType
    BY <1>1 DEF QueueLevels
  <2>5. rq'.next = rq.next /\ \A l \in Levels : l # k => rq'.head[l] = rq.head[l] /\ rq'.tail[l] = rq.tail[l]
    BY <1>0, <1>3, <1>5, <2>1, <2>4 DEF take, QueueType
  <2> HIDE DEF f
  <2>6. Startings' = Startings /\ stack'[1] = stack[1]
    BY <1>1, <1>3, <2>1, <2>3, GotoPlaces
  <2>7. /\ \A l : Joining(l)' = Joining(l)
        /\ \A q \in Procs : Starting(q)' <=> Starting(q)
    BY <2>6, SameStartings
  <2>8. OnCpu(p)' /\ \A q \in Procs : q # p => (OnCpu(q)' <=> OnCpu(q))
    <3>1. /\ Frames' = Frames /\ Len(stack) \in Frames /\ Top = stack[Len(stack)]
          /\ \A n \in Frames : stack'[n] = IF n = Len(stack) THEN f ELSE stack[n]
      BY <1>1, <2>1, GotoTop, Stacked
    <3>2. OnCpu(p)'
      BY <2>3, <3>1 DEF OnCpu
    <3>3. NoProc \notin Procs
      BY PriOfLevel
    <3>4. ASSUME NEW q \in Procs, q # p PROVE OnCpu(q)' <=> OnCpu(q)
      BY <1>3, <2>3, <3>1, <3>3, <3>4 DEF OnCpu
    <3>5. QED BY <3>2, <3>4
  <2>9. \A q \in Procs : q # p => Steady(q)
    BY <2>1, <2>8 DEF Steady
  <2>10. ASSUME NEW l \in 1 .. PRI_MAX, l # k PROVE Queued(l)'
    <3>1. rq'.head[l] = rq.head[l] /\ rq'.tail[l] = rq.tail[l] /\ rq'.next = rq.next
      BY <2>5, <2>10 DEF Levels, PRI_MIN, PRI_MAX
    <3>2. \A q \in Procs : PriOf(q) = l => Placed(q) /\ Steady(q) /\ (Starting(q)' <=> Starting(q))
      BY <2>2, <2>7, <2>9, <2>10 DEF ListsInv
    <3>3. Queued(l)
      BY DEF ListsInv
    <3>4. QED BY <1>1, <2>6, <2>7, <3>1, <3>2, <3>3, OtherLevel
  <2>11. CASE k \in 1 .. PRI_MAX
    <3>1. PICK s : Line(s, k) /\ Joined(s, k) /\ Complete(s, k)
      BY <2>11 DEF ListsInv, Queued
    <3>2. Joining(k) = {} /\ Chain(rq, s, k, NoProc, Rear(s))
      BY <1>0, <1>1, <1>2, <3>1, NoneJoinsTaken DEF Joined
    <3>3. s # << >>
      BY <1>0, <1>5, <3>2 DEF Chain
    <3>4. /\ Line(Tail(s), k) /\ Members(Tail(s)) = Members(s) \ {p} /\ p \in Procs
          /\ Chain(rq', Tail(s), k, NoProc, Rear(Tail(s)))
      <4>1. /\ Line(Tail(s), k) /\ Members(Tail(s)) = Members(s) \ {s[1]} /\ rq.head[k] = s[1] /\ s[1] \in Procs
            /\ Chain(take(rq, k), Tail(s), k, NoProc, Rear(Tail(s)))
        BY <1>3, <2>4, <3>1, <3>2, <3>3, ChainShrinks
      <4>2. QED BY <1>0, <2>1, <4>1
    <3>5. p \in Members(s)
      <4>1. Len(s) \in Nat /\ Len(s) # 0
        BY <3>1, <3>3, LineFacts
      <4>2. p = s[1]
        BY <1>0, <3>2, <3>3 DEF Chain
      <4>3. QED BY <4>1, <4>2 DEF Members
    <3>6. Placed(p)'
      <4>1. state[p] # "unstarted" /\ ~Starting(p)
        BY <3>1, <3>5 DEF Complete
      <4>2. QED BY <2>1, <2>7, <2>8, <3>4, <4>1 DEF Placed
    <3>7. Complete(Tail(s), k)'
      <4>1. \A q \in Members(Tail(s)) : q \in Procs /\ state'[q] # "unstarted" /\ ~Starting(q)'
        <5>1. \A q \in Members(Tail(s)) : q \in Procs /\ q \in Members(s)
          BY <3>4, LineFacts
        <5>2. QED BY <2>1, <2>7, <3>1, <5>1 DEF Complete
      <4>2. ASSUME NEW q \in Procs, PriOf(q) = k, state'[q] \in {"initial", "ready"}, ~OnCpu(q)', ~Starting(q)'
            PROVE  q \in Members(Tail(s))
        <5>1. q # p
          BY <2>8, <4>2
        <5>2. state[q] \in {"initial", "ready"} /\ ~OnCpu(q) /\ ~Starting(q)
          BY <2>1, <2>7, <2>8, <4>2, <5>1
        <5>3. q \in Members(s)
          BY <3>1, <4>2, <5>2 DEF Complete
        <5>4. QED BY <3>4, <5>1, <5>3
      <4>3. QED BY <4>1, <4>2 DEF Complete
    <3>8. Joined(Tail(s), k)'
      BY <2>7, <3>2, <3>4 DEF Joined
    <3>9. Queued(k)' /\ p \in Procs
      BY <3>4, <3>7, <3>8 DEF Queued, Line
    <3>10. \A q \in Procs : Placed(q)'
      BY <2>7, <2>9, <3>6, SteadyPlaced DEF ListsInv
    <3>11. \A l \in 1 .. PRI_MAX : Queued(l)'
      BY <2>10, <3>9
    <3>12. StartsApart'
      BY <2>6 DEF ListsInv, StartsApart
    <3>13. NotYetStarted'
      BY <1>1, <2>1, <2>6, StillNotStarted DEF ListsInv
    <3>14. QED BY <3>10, <3>11, <3>12, <3>13 DEF ListsInv
  <2>12. CASE k \notin 1 .. PRI_MAX
    <3>1. \A q \in Procs : q # p
      <4>1. \A q \in Procs : PriOf(q) \in 1 .. PRI_MAX
        BY RecordAssumption DEF PriOf
      <4>2. QED BY <2>2, <2>12, <4>1, Zenon
    <3>2. \A q \in Procs : Placed(q)'
      BY <2>7, <2>9, <3>1, SteadyPlaced DEF ListsInv
    <3>3. \A l \in 1 .. PRI_MAX : Queued(l)'
      BY <2>10, <2>12
    <3>4. StartsApart'
      BY <2>6 DEF ListsInv, StartsApart
    <3>5. NotYetStarted'
      BY <1>1, <2>1, <2>6, StillNotStarted DEF ListsInv
    <3>6. QED BY <3>2, <3>3, <3>4, <3>5 DEF ListsInv
  <2>13. QED BY <2>11, <2>12
<1>6. QED BY <1>4, <1>5

\* append() leaves the lists of the other levels alone.
LEMMA AppendOthers ==
  ASSUME QueueLevels, NEW p \in Records, NEW l \in Levels, l # PriOf(p)
  PROVE  /\ append(rq, p).head[l] = rq.head[l] /\ append(rq, p).tail[l] = rq.tail[l]
         /\ \A x \in Procs : PriOf(x) = l => append(rq, p).next[x] = rq.next[x]
<1> DEFINE k == PriOf(p)
           t == rq.tail[k]
           q == append(rq, p)
<1>1. /\ rq \in QueueType /\ k \in Levels
      /\ t # NoProc => PriOf(t) = k
  BY PriOfLevel DEF QueueLevels
<1>2. /\ q.head = [rq.head EXCEPT ![k] = IF @ = NoProc THEN p ELSE @]
      /\ q.tail = [rq.tail EXCEPT ![k] = p]
      /\ q.next = [(IF t = NoProc THEN rq.next ELSE [rq.next EXCEPT ![t] = p]) EXCEPT ![p] = NoProc]
  BY <1>1 DEF append, QueueType
<1>3. /\ rq.head \in [Levels -> Records \cup {NoProc}] /\ rq.tail \in [Levels -> Records \cup {NoProc}]
      /\ rq.next \in [Records -> Records \cup {NoProc}]
  BY <1>1 DEF QueueType
<1> HIDE DEF q, t, k
<1>4. ASSUME NEW x \in Procs, PriOf(x) = l PROVE q.next[x] = rq.next[x]
  <2>1. x \in Records /\ x # p /\ (t # NoProc => x # t)
    BY <1>1, <1>4, PriOfLevel DEF k
  <2>2. QED BY <1>2, <1>3, <2>1
<1>5. q.head[l] = rq.head[l] /\ q.tail[l] = rq.tail[l]
  BY <1>2, <1>3 DEF k
<1>6. QED BY <1>4, <1>5 DEF q

\* readyProcessIfNecessary(): a process that is enabling stays on the CPU, any
\* other is appended.
LEMMA WokenLists ==
  ASSUME AltInv, ListsInv, AppendsProperly, NEW q \in Alting, Readies(q), NEW f, readyProcessIfNecessary(q, f),
         IsFrame(f), f.fn = Top.fn, f.proc = Top.proc, Top.fn \notin {"main", "start"}
  PROVE  ListsInv'
<1>1. UrgencyInv /\ StackInv /\ StackShape /\ QueueLevels
  BY DEF AltInv, UrgencyInv, StackInv
<1>2. Startings' = Startings /\ (\A p \in Procs : OnCpu(p)' <=> OnCpu(p)) /\ stack'[1] = stack[1]
  <2> DEFINE g == [f EXCEPT !.prev = current]
             h == ScheduleFrame(PriOf(current))
  <2>1. Goto(f) \/ Call(g, h)
    BY DEF readyProcessIfNecessary
  <2>2. g.fn = Top.fn /\ g.proc = Top.proc /\ h.fn = "schedule" /\ h.proc = NoProc
    BY DEF IsFrame, ScheduleFrame, Frame
  <2> HIDE DEF g, h
  <2>3. CASE Goto(f)
    BY <1>1, <2>3, GotoPlaces
  <2>4. CASE Call(g, h)
    <3>1. /\ Len(stack') = Len(stack) + 1
          /\ \A n \in Frames : stack'[n] = IF n = Len(stack) THEN g ELSE stack[n]
          /\ stack'[Len(stack) + 1] = h
      BY <1>1, <2>4, CallSeq
    <3>2. h.fn # "start" /\ Top.fn # "start" /\ g.fn # "start" /\ Top.fn # "main"
      BY <2>2
    <3>3. QED BY <1>1, <2>2, <3>1, <3>2, PushPlaces
  <2>5. QED BY <2>1, <2>3, <2>4
<1>3. /\ q \in Procs /\ q \in Records /\ PriOf(q) \in Levels /\ PriOf(q) \in 1 .. PRI_MAX
      /\ state[q] \notin {"unstarted", "initial"}
  <2>1. q \in Procs /\ alt[q].guards # NoProc
    BY PriOfLevel DEF Alting, HasAlt
  <2>2. state[q] \notin {"unstarted", "initial"}
    BY <2>1 DEF AltInv, Fits, AltFits, StateFits
  <2>3. QED BY <2>1, <2>2, PriOfLevel, RecordAssumption DEF PriOf
<1>4. state' = [state EXCEPT ![q] = "ready"] /\ DOMAIN state = Records
  BY <1>1 DEF readyProcessIfNecessary, UrgencyInv, NoneEnds
<1>5. /\ \A l : Joining(l)' = Joining(l)
      /\ \A p \in Procs : Starting(p)' <=> Starting(p)
  BY <1>2, SameStartings
<1>6. /\ state'[q] = "ready" /\ ~Starting(q)
      /\ \A p \in Procs : p # q => Steady(p)
  BY <1>2, <1>3, <1>4, PriOfLevel DEF Steady, ListsInv, Placed
<1>7. NotYetStarted'
  BY <1>1, <1>2, StillNotStarted DEF ListsInv
<1>8. CASE state[q] = "enabling"
  <2>1. OnCpu(q)
    BY <1>3, <1>8 DEF ListsInv, Placed
  <2>2. Steady(q)
    BY <1>2, <1>3, <1>6, <2>1 DEF Steady
  <2>3. rq' = rq
    BY <1>8 DEF readyProcessIfNecessary
  <2>4. QED BY <1>2, <1>6, <1>7, <2>2, <2>3, ListsStay
<1>9. CASE state[q] # "enabling"
  <2>1. PICK l : l = PriOf(q)
    OBVIOUS
  <2>2. rq' = append(rq, q) /\ rq \in QueueType
    BY <1>1, <1>9 DEF readyProcessIfNecessary, QueueLevels
  <2>3. ASSUME NEW m \in 1 .. PRI_MAX, m # l PROVE Queued(m)'
    <3>1. m \in Levels
      BY DEF Levels, PRI_MIN, PRI_MAX
    <3>2. /\ rq'.head[m] = rq.head[m] /\ rq'.tail[m] = rq.tail[m]
          /\ \A x \in Procs : PriOf(x) = m => rq'.next[x] = rq.next[x]
      BY <1>1, <1>3, <2>1, <2>2, <2>3, <3>1, AppendOthers
    <3>3. \A p \in Procs : PriOf(p) = m => Placed(p) /\ Steady(p) /\ (Starting(p)' <=> Starting(p))
      BY <1>5, <1>6, <2>1, <2>3 DEF ListsInv
    <3>4. Queued(m)
      BY DEF ListsInv
    <3>5. QED BY <1>1, <1>2, <1>5, <3>2, <3>3, <3>4, OtherLevel
  <2>4. PICK s : Line(s, l) /\ Joined(s, l) /\ Complete(s, l)
    BY <1>3, <2>1 DEF ListsInv, Queued
  <2>5. \A p \in Procs : Starting(p) => PriOf(p) # l
    <3>1. CASE OwnQueue(q)
      BY <1>6, <2>1, <3>1 DEF OwnQueue
    <3>2. CASE ~OwnQueue(q)
      BY <1>3, <1>9, <2>1, <3>2 DEF AppendsProperly
    <3>3. QED BY <3>1, <3>2
  <2>6. Joining(l) = {}
    <3>1. ASSUME NEW n \in DOMAIN Startings PROVE PriOf(Startings[n].partner) # l
      <4>1. n \in Frames /\ stack[n].fn = "start" /\ stack[n].partner \in Procs /\ Startings[n] = stack[n]
        BY <1>1, JoiningFacts
      <4>2. Starting(stack[n].partner)
        BY <4>1 DEF Starting
      <4>3. QED BY <2>5, <4>1, <4>2
    <3>2. QED BY <3>1 DEF Joining
  <2>7. Chain(rq, s, l, NoProc, Rear(s))
    BY <2>4, <2>6 DEF Joined
  <2>8. \A u : Chain(rq', u, l, NoProc, Rear(u)) => Joined(u, l)'
    BY <1>5, <2>6 DEF Joined
  <2>9. Queued(l)'
    <3>1. CASE q \notin Members(s)
      <4>1. PICK u : u = Append(s, q)
        OBVIOUS
      <4>2. /\ Line(u, l) /\ Members(u) = Members(s) \cup {q}
            /\ Chain(rq', u, l, NoProc, Rear(u))
        BY <1>3, <2>1, <2>2, <2>4, <2>7, <3>1, <4>1, ChainGrows
      <4>3. Complete(u, l)'
        <5>1. \A p \in Members(u) : state'[p] # "unstarted" /\ ~Starting(p)'
          <6>1. \A p \in Members(s) : p \in Procs /\ state[p] # "unstarted" /\ ~Starting(p) /\ p # q
            <7>1. \A p \in Members(s) : p \in Procs
              BY <2>4, LineMembers
            <7>2. QED BY <2>4, <3>1, <7>1, Zenon DEF Complete
          <6>2. QED BY <1>3, <1>4, <1>5, <1>6, <4>2, <6>1
        <5>2. ASSUME NEW p \in Procs, PriOf(p) = l, state'[p] \in {"initial", "ready"}, ~OnCpu(p)', ~Starting(p)'
              PROVE  p \in Members(u)
          <6>1. CASE p = q
            BY <4>2, <6>1
          <6>2. CASE p # q
            <7>1. state[p] \in {"initial", "ready"} /\ ~OnCpu(p) /\ ~Starting(p)
              BY <1>2, <1>4, <1>5, <5>2, <6>2
            <7>2. QED BY <2>4, <4>2, <5>2, <7>1 DEF Complete
          <6>3. QED BY <6>1, <6>2
        <5>3. QED BY <5>1, <5>2 DEF Complete
      <4>4. Joined(u, l)'
        BY <2>8, <4>2
      <4>5. QED BY <4>2, <4>3, <4>4 DEF Queued, Line
    <3>2. CASE q \in Members(s)
      <4>1. Members(s) = {q}
        <5>1. Members(s) \subseteq Listed(l)
          BY <2>4, <2>7, ChainListed
        <5>2. CASE OwnQueue(q)
          <6>1. \A p \in Members(s) : p = q
            BY <2>1, <2>4, <5>2, LineMembers DEF OwnQueue
          <6>2. QED BY <3>2, <6>1
        <5>3. CASE ~OwnQueue(q)
          <6>1. q \in Listed(l)
            BY <3>2, <5>1
          <6>2. Listed(l) = {q}
            BY <1>3, <1>9, <2>1, <5>3, <6>1 DEF AppendsProperly
          <6>3. QED BY <3>2, <5>1, <6>2
        <5>4. QED BY <5>2, <5>3
      <4>2. Chain(rq', s, l, NoProc, Rear(s))
        BY <1>3, <2>1, <2>2, <2>4, <2>7, <3>2, <4>1, ChainAgain
      <4>3. ASSUME NEW p \in Procs, PriOf(p) = l, state'[p] \in {"initial", "ready"}, ~OnCpu(p)', ~Starting(p)'
            PROVE  p \in Members(s)
        <5>1. CASE p = q
          BY <3>2, <5>1
        <5>2. CASE p # q
          <6>1. state[p] \in {"initial", "ready"} /\ ~OnCpu(p) /\ ~Starting(p)
            BY <1>2, <1>4, <1>5, <4>3, <5>2
          <6>2. QED BY <2>4, <4>3, <6>1 DEF Complete
        <5>3. QED BY <5>1, <5>2
      <4>4. Complete(s, l)'
        <5>1. \A p \in Members(s) : state'[p] # "unstarted" /\ ~Starting(p)'
          BY <1>3, <1>5, <1>6, <4>1
        <5>2. QED BY <4>3, <5>1 DEF Complete
      <4>5. Joined(s, l)'
        BY <2>8, <4>2
      <4>6. QED BY <2>4, <4>4, <4>5 DEF Queued, Line
    <3>3. QED BY <3>1, <3>2
  <2>10. \A m \in 1 .. PRI_MAX : Queued(m)'
    BY <2>3, <2>9
  <2>11. \A p \in Procs : Placed(p)'
    <3>1. Placed(q)'
      BY <1>3, <1>5, <1>6 DEF Placed
    <3>2. QED BY <1>5, <1>6, <3>1, SteadyPlaced DEF ListsInv
  <2>12. StartsApart'
    BY <1>2 DEF ListsInv, StartsApart
  <2>13. QED BY <1>7, <2>10, <2>11, <2>12 DEF ListsInv
<1>10. QED BY <1>8, <1>9

LEMMA WakePartnerLists ==
  ASSUME AltInv, ListsInv, AppendsProperly, WakePartner
  PROVE  ListsInv'
<1> DEFINE f == [Top EXCEPT !.pc = "partnerRet"]
<1>1. At("partner") /\ Top.partner \in Records /\ readyProcessIfNecessary(Top.partner, f)
  BY DEF WakePartner
<1>2. Top.proc \in Procs
  BY <1>1, AtFacts DEF AltInv, UrgencyInv, At, ProcPcs, SchedulePcs
<1>3. IsFrame(Top) /\ Top.partner \in Alting /\ Top.fn = "schedule"
  BY <1>1, <1>2, Here, PriOfLevel
<1>4. IsFrame(f) /\ f.fn = "schedule" /\ f.proc = Top.proc
  BY <1>3 DEF IsFrame
<1> HIDE DEF f
<1>5. PICK q : q = Top.partner
  OBVIOUS
<1>6. Readies(q)
  BY <1>1, <1>5 DEF Readies
<1>7. QED BY <1>1, <1>3, <1>4, <1>5, <1>6, WokenLists

LEMMA HandleUserLists ==
  ASSUME AltInv, ListsInv, AppendsProperly, HandleUser
  PROVE  ListsInv'
<1>1. PICK u, q : u = Top.src /\ q = ichan[u].waiting
  OBVIOUS
<1> DEFINE f == [Top EXCEPT !.pc = "userRet"]
           e == [Top EXCEPT !.pc = "exit"]
<1>2. /\ At("user") /\ Top.pc = "user"
      /\ \/ u \in connected /\ q \in Records /\ readyProcessIfNecessary(q, f)
         \/ Goto(e) /\ rq' = rq /\ state' = state
  BY <1>1 DEF HandleUser, At
<1>3. Top.pc \in HandlerPcs /\ IsFrame(Top) /\ Top.fn = "handler" /\ Top.proc = NoProc
  BY <1>2, HandlerFacts DEF HandlerPcs
<1>4. IsFrame(f) /\ f.fn = "handler" /\ f.proc = NoProc /\ e.fn = "handler" /\ e.proc = NoProc
  BY <1>3 DEF IsFrame
<1> HIDE DEF f, e
<1>5. CASE u \in connected /\ q \in Records /\ readyProcessIfNecessary(q, f)
  <2>1. q \in Alting
    <3>1. u \in Intrs
      BY <1>5 DEF AltInv, DataTypes
    <3>2. q \in Alting \cup {NoProc}
      BY <1>1, <3>1 DEF AltInv, WaiterTypes
    <3>3. QED BY <1>5, <3>2, PriOfLevel
  <2>2. Readies(q)
    BY <1>1, <1>2, <1>5 DEF Readies
  <2>3. QED BY <1>3, <1>4, <1>5, <2>1, <2>2, WokenLists
<1>6. CASE Goto(e) /\ rq' = rq /\ state' = state
  BY <1>3, <1>4, <1>6, HandlerGoes
<1>7. QED BY <1>2, <1>5, <1>6

LEMMA TimeoutDueLists ==
  ASSUME AltInv, ListsInv, AppendsProperly, TimeoutDue
  PROVE  ListsInv'
<1>1. PICK q : q = timerQ[1].proc
  OBVIOUS
<1> DEFINE f == [Top EXCEPT !.pc = "dueRet"]
<1>2. At("due") /\ Top.pc = "due" /\ Due /\ timerQ # << >>
  BY DEF TimeoutDue, At, Due
<1>3. CASE Crash("null")
  <2>1. UNCHANGED <<rq, state, stack>>
    BY <1>3 DEF Crash, procVars
  <2>2. QED BY <2>1, QuietLists
<1>4. CASE readyProcessIfNecessary(q, f)
  <2>1. q \in Alting
    <3>1. timerQ \in Seq([time : Nat, proc : Alting])
      BY DEF AltInv, WaiterTypes
    <3>2. timerQ[1] \in [time : Nat, proc : Alting]
      BY <1>2, <3>1, FirstIn
    <3>3. QED BY <1>1, <3>2
  <2>2. Top.pc \in HandlerPcs /\ IsFrame(Top) /\ Top.fn = "handler" /\ Top.proc = NoProc
    BY <1>2, HandlerFacts DEF HandlerPcs
  <2>3. IsFrame(f) /\ f.fn = "handler" /\ f.proc = NoProc
    BY <2>2 DEF IsFrame
  <2>4. Readies(q)
    BY <1>1, <1>2 DEF Readies
  <2> HIDE DEF f
  <2>5. QED BY <1>4, <2>1, <2>2, <2>3, <2>4, WokenLists
<1>5. QED BY <1>1, <1>3, <1>4 DEF TimeoutDue

-----------------------------------------------------------------------------
\* start().

\* The record is new: on no list, and nobody else is being appended to its list.
LEMMA StartedLists ==
  ASSUME AltInv, ListsInv, AppendsProperly', NEW p \in Procs, state[p] = "unstarted", NEW f, start(p, f),
         f.fn = Top.fn, f.proc = Top.proc, Top.fn # "start", NotYetStarted'
  PROVE  ListsInv'
<1>1. UrgencyInv /\ StackInv /\ StackShape /\ rq \in QueueType
  BY DEF AltInv, UrgencyInv, StackInv, QueueLevels
<1>2. PICK g, k, N : g = StartFrame(p) /\ k = PriOf(p) /\ N = Len(stack) + 1
  OBVIOUS
<1>3. g.fn = "start" /\ g.partner = p /\ g.pc = "link" /\ g.proc = NoProc
  BY <1>2, NewTyped, NewFrames
<1>4. /\ Len(stack') = N /\ stack'[N] = g
      /\ \A n \in Frames : stack'[n] = IF n = Len(stack) THEN f ELSE stack[n]
  BY <1>1, <1>2, CallSeq DEF start
<1>5. /\ Len(stack) \in Nat /\ Frames = 1 .. Len(stack) /\ Frames' = 1 .. N /\ Top = stack[Len(stack)]
      /\ N \in Frames' /\ N \notin Frames /\ (\A n \in Frames' : n \in Frames \/ n = N) /\ Frames \subseteq Frames'
  <2>1. Len(stack) \in Nat /\ Frames = 1 .. Len(stack) /\ Top = stack[Len(stack)] /\ Frames' = 1 .. N
    BY <1>1, <1>4, Stacked DEF Frames
  <2>2. QED BY <1>2, <2>1
<1>6. /\ state' = [state EXCEPT ![p] = "initial"] /\ rq' = [rq EXCEPT !.next[p] = NoProc]
      /\ p \in Records /\ k \in 1 .. PRI_MAX /\ DOMAIN state = Records
  BY <1>1, <1>2, PriOfLevel, RecordAssumption DEF start, PriOf, UrgencyInv, NoneEnds
<1>7. /\ ~OnCpu(p) /\ ~Starting(p)
  BY DEF ListsInv, Placed
<1>8. /\ DOMAIN Startings' = DOMAIN Startings \cup {N} /\ N \notin DOMAIN Startings
      /\ Startings'[N] = g /\ \A n \in DOMAIN Startings : Startings'[n] = Startings[n]
  <2>1. DOMAIN Startings = {n \in Frames : stack[n].fn = "start"}
        /\ DOMAIN Startings' = {n \in Frames' : stack'[n].fn = "start"}
    BY DEF Startings
  <2>2. \A n \in Frames : stack'[n].fn = stack[n].fn
    BY <1>4, <1>5
  <2>3. DOMAIN Startings' = DOMAIN Startings \cup {N} /\ N \notin DOMAIN Startings
    BY <1>3, <1>4, <1>5, <2>1, <2>2
  <2>4. \A n \in DOMAIN Startings' : Startings'[n] = stack'[n]
    BY DEF Startings
  <2>5. \A n \in DOMAIN Startings : Startings[n] = stack[n] /\ n \in Frames /\ n # Len(stack)
    BY <1>5, <2>1 DEF Startings
  <2>6. QED BY <1>4, <2>3, <2>4, <2>5
<1>9. \A q \in Procs : OnCpu(q)' <=> OnCpu(q)
  <2>1. \A n \in Frames : stack'[n].proc = stack[n].proc
    BY <1>4, <1>5
  <2>2. \A q \in Procs : stack'[N].proc # q
    BY <1>3, <1>4, PriOfLevel
  <2>3. QED BY <1>5, <2>1, <2>2 DEF OnCpu
<1>10. \A q : Starting(q)' <=> (Starting(q) \/ q = p)
  <2>1. \A q : Starting(q) <=> \E n \in DOMAIN Startings : Startings[n].partner = q
    BY DEF Starting, Startings
  <2>2. \A q : Starting(q)' <=> \E n \in DOMAIN Startings' : Startings'[n].partner = q
    BY DEF Starting, Startings
  <2>3. \A q : (\E n \in DOMAIN Startings' : Startings'[n].partner = q)
             <=> ((\E n \in DOMAIN Startings : Startings[n].partner = q) \/ q = p)
    BY <1>3, <1>8, Zenon
  <2>4. QED BY <2>1, <2>2, <2>3, Zenon
<1>11. \A n \in DOMAIN Startings : Starting(Startings[n].partner) /\ Startings[n].partner \in Procs
  <2>1. \A n \in DOMAIN Startings : n \in Frames /\ Startings[n] = stack[n] /\ stack[n].fn = "start" /\ stack[n].partner \in Procs
    BY <1>1, JoiningFacts
  <2>2. QED BY <2>1 DEF Starting
<1>12. /\ \A l : l # k => Joining(l)' = Joining(l)
       /\ Joining(k)' = {N}
  <2>1. ASSUME NEW l, l # k PROVE Joining(l)' = Joining(l)
    BY <1>2, <1>3, <1>8, <2>1 DEF Joining
  <2>2. ASSUME NEW n \in DOMAIN Startings PROVE PriOf(Startings[n].partner) # k
    <3>1. PICK x : x = Startings[n].partner
      OBVIOUS
    <3>2. x \in Procs /\ Starting(x)
      BY <1>11, <3>1
    <3>3. Starting(x)' /\ Starting(p)' /\ x # p
      BY <1>7, <1>10, <3>2
    <3>4. PriOf(x) # PriOf(p)
      BY <3>2, <3>3 DEF AppendsProperly
    <3>5. QED BY <1>2, <3>1, <3>4
  <2>3. Joining(k)' = {N}
    BY <1>2, <1>3, <1>8, <2>2 DEF Joining
  <2>4. QED BY <2>1, <2>3
<1>13. StartsApart'
  <2>1. \A n \in DOMAIN Startings : Startings[n].partner # p
    BY <1>7, <1>11, Zenon
  <2>2. \A m, n \in DOMAIN Startings : Startings[m].partner = Startings[n].partner => m = n
    BY DEF ListsInv, StartsApart
  <2>3. \A m, n \in DOMAIN Startings' : Startings'[m].partner = Startings'[n].partner => m = n
    BY <1>3, <1>8, <2>1, <2>2, Zenon
  <2>4. QED BY <2>3 DEF StartsApart
<1>14. \A q \in Procs : q # p => Steady(q) /\ (Starting(q)' <=> Starting(q))
  BY <1>6, <1>9, <1>10, PriOfLevel DEF Steady
<1>15. \A q \in Procs : Placed(q)'
  <2>1. Placed(p)'
    BY <1>6, <1>7, <1>9, <1>10 DEF Placed
  <2>2. QED BY <1>14, <2>1, SteadyPlaced DEF ListsInv
<1>16. /\ rq'.head = rq.head /\ rq'.tail = rq.tail /\ rq'.next[p] = NoProc
       /\ \A x \in Records : x # p => rq'.next[x] = rq.next[x]
  BY <1>1, <1>6 DEF QueueType
<1>17. ASSUME NEW l \in 1 .. PRI_MAX, l # k PROVE Queued(l)'
  <2>1. \A x \in Procs : PriOf(x) = l => rq'.next[x] = rq.next[x]
    BY <1>2, <1>16, <1>17, PriOfLevel
  <2>2. Joining(l)' = Joining(l) /\ \A n \in Joining(l) : Startings'[n] = Startings[n]
    <3>1. Joining(l)' = Joining(l)
      BY <1>12, <1>17
    <3>2. Joining(l) \subseteq DOMAIN Startings
      BY DEF Joining
    <3>3. QED BY <1>8, <3>1, <3>2
  <2>3. \A q \in Procs : PriOf(q) = l => Placed(q) /\ Steady(q) /\ (Starting(q)' <=> Starting(q))
    BY <1>2, <1>14, <1>17 DEF ListsInv
  <2>4. Queued(l)
    BY DEF ListsInv
  <2>5. QED BY <1>1, <1>16, <2>1, <2>2, <2>3, <2>4, OtherLevel
<1>18. Queued(k)'
  <2>1. PICK s : Line(s, k) /\ Joined(s, k) /\ Complete(s, k)
    BY <1>6 DEF ListsInv, Queued
  <2>2. \A q \in Members(s) : q \in Procs /\ q \in Records /\ q # p /\ state[q] # "unstarted" /\ ~Starting(q)
    <3>1. \A q \in Members(s) : q \in Procs
      BY <2>1, LineMembers
    <3>2. QED BY <2>1, <3>1, PriOfLevel, Zenon DEF Complete
  <2>3. Joining(k) = {}
    <3>1. Joining(k) \subseteq DOMAIN Startings /\ \A n \in DOMAIN Startings : n \in Joining(k) <=> n \in Joining(k)'
      BY <1>8 DEF Joining
    <3>2. QED BY <1>8, <1>12, <3>1
  <2>4. Chain(rq, s, k, NoProc, Rear(s))
    BY <2>1, <2>3 DEF Joined
  <2>5. Chain(rq', s, k, NoProc, Rear(s))
    BY <1>16, <2>2, <2>4, ChainStays
  <2>6. Joined(s, k)'
    BY <1>3, <1>8, <1>12, <1>16, <2>5 DEF Joined
  <2>7. Complete(s, k)'
    <3>1. \A q \in Members(s) : state'[q] # "unstarted" /\ ~Starting(q)'
      BY <1>6, <1>10, <2>2
    <3>2. ASSUME NEW q \in Procs, PriOf(q) = k, state'[q] \in {"initial", "ready"}, ~OnCpu(q)', ~Starting(q)'
          PROVE  q \in Members(s)
      <4>1. q # p /\ ~Starting(q) /\ ~OnCpu(q)
        BY <1>9, <1>10, <3>2
      <4>2. state[q] \in {"initial", "ready"}
        BY <1>6, <3>2, <4>1
      <4>3. QED BY <2>1, <3>2, <4>1, <4>2 DEF Complete
    <3>3. QED BY <3>1, <3>2 DEF Complete
  <2>8. QED BY <2>1, <2>6, <2>7 DEF Queued, Line
<1>19. QED BY <1>13, <1>15, <1>17, <1>18 DEF ListsInv

LEMMA MainStartLists ==
  ASSUME AltInv, ListsInv, AppendsProperly', StartsOnce, MainStart
  PROVE  ListsInv'
<1>1. UrgencyInv /\ StackInv /\ StackShape
  BY DEF AltInv, UrgencyInv, StackInv
<1>2. PICK k, p : k = Top.k /\ p = MainStarts[k + 1]
  OBVIOUS
<1> DEFINE f == [Top EXCEPT !.k = @ + 1]
<1>3. At("main") /\ k < Len(MainStarts) /\ start(p, f)
  BY <1>2 DEF MainStart
<1>4. Top.pc = "main" /\ Top.fn = "main" /\ IsFrame(Top) /\ k \in Nat
  BY <1>1, <1>2, <1>3, AtFacts DEF FrameOK
<1>5. f.fn = "main" /\ f.proc = Top.proc /\ f.k = k + 1 /\ f.pc = "main"
  BY <1>2, <1>4 DEF IsFrame
<1> HIDE DEF f
<1>6. Len(stack) = 1 /\ stack[1] = Top /\ 1 \in Frames
  BY <1>1, <1>4, Stacked
<1>7. k + 1 \in 1 .. Len(MainStarts) /\ Len(MainStarts) \in Nat /\ p \in Procs
  <2>1. MainStarts \in Seq(Procs)
    BY ApplicationAssumption
  <2>2. k + 1 \in 1 .. Len(MainStarts) /\ Len(MainStarts) \in Nat
    BY <1>3, <1>4, <2>1
  <2>3. QED BY <1>2, <2>1, <2>2, ElementIn
<1>8. \A j \in 1 .. Len(MainStarts) : j > k => state[MainStarts[j]] = "unstarted"
  BY <1>2, <1>4, <1>6 DEF ListsInv, NotYetStarted
<1>9. state[p] = "unstarted"
  <2>1. k + 1 > k
    BY <1>4
  <2>2. QED BY <1>2, <1>7, <1>8, <2>1
<1>10. NotYetStarted'
  <2>1. stack'[1] = f
    <3>1. Call(f, StartFrame(p))
      BY <1>3 DEF start
    <3>2. QED BY <1>1, <1>6, <3>1, CallSeq
  <2>2. ASSUME NEW j \in 1 .. Len(MainStarts), j > k + 1 PROVE state'[MainStarts[j]] = "unstarted"
    <3>1. j > k /\ j # k + 1
      BY <1>4, <2>2
    <3>2. MainStarts[j] # p /\ state[MainStarts[j]] = "unstarted"
      BY <1>2, <1>7, <1>8, <3>1 DEF StartsOnce
    <3>3. state' = [state EXCEPT ![p] = "initial"]
      BY <1>3 DEF start
    <3>4. QED BY <3>2, <3>3
  <2>3. QED BY <1>5, <2>1, <2>2 DEF NotYetStarted
<1>11. f.fn = Top.fn /\ Top.fn # "start"
  BY <1>4, <1>5
<1>12. QED BY <1>3, <1>5, <1>7, <1>9, <1>10, <1>11, StartedLists

LEMMA RtcEnterLists ==
  ASSUME AltInv, ListsInv, AppendsProperly', RtcEnter
  PROVE  ListsInv'
<1>1. UrgencyInv /\ StackInv /\ StackShape
  BY DEF AltInv, UrgencyInv, StackInv
<1>2. Top.proc \in Procs /\ Top.fn = "schedule"
  BY RtcSent
<1>3. IsFrame(Top)
  BY <1>2, Here
<1>4. PICK act, f :
        /\ RunOf(Top.proc, act) /\ f = [Top EXCEPT !.pc = "rtcRest", !.act = act]
        /\ \/ /\ act.start \in Procs /\ state[act.start] = "unstarted" /\ start(act.start, f)
              /\ handlers' = handlers
           \/ /\ Goto(f) /\ UNCHANGED <<state, rq, freed, altVars, timeout, intr, handlers>>
           \/ /\ act.send \in Intrs /\ Call(f, HandlerFrame(act.send)) /\ intr' = FALSE /\ handlers' = handlers + 1
              /\ UNCHANGED <<state, rq, freed, altVars, timeout>>
  BY RtcChoice, Zenon
<1>5. f.fn = Top.fn /\ f.proc = Top.proc
  BY <1>3, <1>4 DEF IsFrame
<1>6. CASE act.start \in Procs /\ state[act.start] = "unstarted" /\ start(act.start, f)
  <2>1. PICK p : p = act.start
    OBVIOUS
  <2>2. p \in Procs /\ state[p] = "unstarted" /\ start(p, f)
    BY <1>6, <2>1
  <2>3. stack'[1] = stack[1]
    <3>1. Call(f, StartFrame(p))
      BY <2>2 DEF start
    <3>2. 1 \in Frames /\ 1 # Len(stack)
      BY <1>1, <1>2, Stacked
    <3>3. QED BY <1>1, <3>1, <3>2, CallSeq
  <2>4. stack[1].pc # "main"
    BY <1>1, <1>2, MainAlone
  <2>5. NotYetStarted'
    BY <2>3, <2>4 DEF NotYetStarted
  <2>6. QED BY <1>2, <1>5, <2>2, <2>5, StartedLists
<1>7. CASE Goto(f) /\ state' = state /\ rq' = rq
  BY <1>1, <1>2, <1>5, <1>7, MovesLists
<1>8. CASE Call(f, HandlerFrame(act.send)) /\ state' = state /\ rq' = rq
  <2>1. PICK g : g = HandlerFrame(act.send)
    OBVIOUS
  <2>2. g.proc = NoProc /\ g.fn = "handler"
    BY <2>1 DEF HandlerFrame, Frame
  <2>3. /\ Len(stack') = Len(stack) + 1
        /\ \A n \in Frames : stack'[n] = IF n = Len(stack) THEN f ELSE stack[n]
        /\ stack'[Len(stack) + 1] = g
    BY <1>1, <1>8, <2>1, CallSeq
  <2>4. Top.fn \notin {"main", "start"} /\ f.fn # "start" /\ g.fn # "start"
    BY <1>2, <1>5, <2>2
  <2>5. QED BY <1>1, <1>5, <1>8, <2>2, <2>3, <2>4, PushesLists
<1>9. QED BY <1>4, <1>6, <1>7, <1>8

\* append() in start() is at work: it is alone on its level.
LEMMA AppendingFacts ==
  ASSUME AltInv, ListsInv, AppendsProperly, Top.pc \in StartPcs
  PROVE  /\ Top.fn = "start" /\ Top.proc = NoProc /\ IsFrame(Top) /\ Len(stack) > 1
         /\ Top.partner \in Procs /\ Len(stack) \in DOMAIN Startings /\ Startings[Len(stack)] = Top
         /\ Joining(PriOf(Top.partner)) = {Len(stack)}
         /\ Starting(Top.partner) /\ state[Top.partner] = "initial" /\ ~OnCpu(Top.partner)
<1>1. UrgencyInv /\ StackInv
  BY DEF AltInv, UrgencyInv
<1>2. /\ Top.fn = "start" /\ Top.proc = NoProc /\ IsFrame(Top) /\ Top.partner \in Procs
      /\ Len(stack) \in Frames /\ Top = stack[Len(stack)]
  BY <1>1, Stacked DEF FrameOK
<1>3. Len(stack) \in DOMAIN Startings /\ Startings[Len(stack)] = Top /\ Starting(Top.partner)
  BY <1>2 DEF Startings, Starting
<1>4. state[Top.partner] = "initial" /\ ~OnCpu(Top.partner)
  BY <1>2, <1>3 DEF ListsInv, Placed
<1>5. Len(stack) > 1
  BY <1>1, <1>3, JoiningFacts
<1>6. ASSUME NEW n \in DOMAIN Startings, PriOf(Startings[n].partner) = PriOf(Top.partner) PROVE n = Len(stack)
  <2>1. n \in Frames /\ Startings[n] = stack[n] /\ stack[n].fn = "start" /\ stack[n].partner \in Procs
    BY <1>1, JoiningFacts
  <2>2. Starting(stack[n].partner)
    BY <2>1 DEF Starting
  <2>3. stack[n].partner = Top.partner
    BY <1>2, <1>3, <1>6, <2>1, <2>2, Zenon DEF AppendsProperly
  <2>4. QED BY <1>3, <2>1, <2>3 DEF ListsInv, StartsApart
<1>7. Joining(PriOf(Top.partner)) = {Len(stack)}
  BY <1>3, <1>6 DEF Joining
<1>8. QED BY <1>2, <1>3, <1>4, <1>5, <1>7

\* The four assignments of append() of p to level k, one at a time.
AppLink(r, k, p) == IF r.tail[k] = NoProc THEN r ELSE [r EXCEPT !.next[r.tail[k]] = p]
AppTail(r, k, p) == [r EXCEPT !.tail[k] = p]
AppNext(r, p) == [r EXCEPT !.next[p] = NoProc]
AppHead(r, k, p) == IF r.head[k] # NoProc THEN r ELSE [r EXCEPT !.head[k] = p, !.mask = @ \cup {k}]

\* The assignments of append(), on the list s of level k.
LEMMA ChainAppends ==
  ASSUME NEW r \in QueueType, NEW q, NEW s, NEW p \in Procs, NEW k, k = PriOf(p), Line(s, k), p \notin Members(s),
         r.next[p] = NoProc
  PROVE  /\ Chain(r, s, k, NoProc, Rear(s)) /\ q = AppLink(r, k, p) =>
              Chain(q, s, k, p, Rear(s)) /\ q.next[p] = NoProc
         /\ Chain(r, s, k, p, Rear(s)) /\ q = AppTail(r, k, p) => Chain(q, s, k, p, p) /\ q.next[p] = NoProc
         /\ Chain(r, s, k, p, p) /\ q = AppNext(r, p) => Chain(q, s, k, p, p) /\ q.next[p] = NoProc
         /\ /\ Chain(r, s, k, p, p)
            /\ q = AppHead(r, k, p)
            => /\ Chain(q, Append(s, p), k, NoProc, p)
               /\ Line(Append(s, p), k) /\ Members(Append(s, p)) = Members(s) \cup {p} /\ Rear(Append(s, p)) = p
<1>1. /\ s \in Seq(Procs) /\ Len(s) \in Nat /\ (s = << >> <=> Len(s) = 0)
      /\ \A i \in 1 .. Len(s) : s[i] \in Procs /\ s[i] # NoProc /\ s[i] \in Records /\ s[i] # p
  BY LineFacts DEF Line, Members
<1>2. k \in Levels /\ p \in Records /\ p # NoProc
  BY PriOfLevel DEF Records
<1>3. /\ r.head \in [Levels -> Records \cup {NoProc}] /\ r.tail \in [Levels -> Records \cup {NoProc}]
      /\ r.next \in [Records -> Records \cup {NoProc}]
  BY DEF QueueType
<1>4. ASSUME Chain(r, s, k, NoProc, Rear(s)),
             q = AppLink(r, k, p)
      PROVE  Chain(q, s, k, p, Rear(s)) /\ q.next[p] = NoProc
  <2>1. r.tail[k] = Rear(s)
    BY <1>4 DEF Chain
  <2>2. CASE s = << >>
    <3>1. r.tail[k] = NoProc /\ Len(s) = 0
      BY <1>1, <2>1, <2>2 DEF Rear
    <3>2. q = r
      BY <1>4, <3>1 DEF AppLink
    <3>3. \A i \in 1 .. Len(s) : FALSE
      BY <3>1
    <3>4. QED BY <1>4, <3>2, <3>3 DEF Chain
  <2>3. CASE s # << >>
    <3>1. Len(s) \in 1 .. Len(s) /\ r.tail[k] = s[Len(s)]
      BY <1>1, <2>1, <2>3 DEF Rear
    <3>2. s[Len(s)] \in Records /\ s[Len(s)] # NoProc /\ s[Len(s)] # p
      BY <1>1, <3>1
    <3>3. q = [r EXCEPT !.next[s[Len(s)]] = p]
      BY <1>4, <3>1, <3>2 DEF AppLink
    <3>4. /\ q.head = r.head /\ q.tail = r.tail
          /\ \A x \in Records : q.next[x] = IF x = s[Len(s)] THEN p ELSE r.next[x]
      BY <1>3, <3>2, <3>3 DEF QueueType
    <3>5. \A i \in 1 .. Len(s) : s[i] = s[Len(s)] => i = Len(s)
      BY <3>1 DEF Line
    <3>6. \A i \in 1 .. Len(s) : q.next[s[i]] = IF i = Len(s) THEN p ELSE s[i + 1]
      BY <1>1, <1>4, <3>4, <3>5 DEF Chain
    <3>7. q.next[p] = NoProc
      BY <1>2, <3>2, <3>4
    <3>8. QED BY <1>4, <3>4, <3>6, <3>7 DEF Chain
  <2>4. QED BY <2>2, <2>3
<1>5. ASSUME Chain(r, s, k, p, Rear(s)), q = AppTail(r, k, p)
      PROVE  Chain(q, s, k, p, p) /\ q.next[p] = NoProc
  <2>1. q.head = r.head /\ q.next = r.next /\ q.tail[k] = p
    BY <1>2, <1>3, <1>5 DEF QueueType, AppTail
  <2>2. QED BY <1>5, <2>1 DEF Chain
<1>6. ASSUME Chain(r, s, k, p, p), q = AppNext(r, p)
      PROVE  Chain(q, s, k, p, p) /\ q.next[p] = NoProc
  <2>1. /\ q.head = r.head /\ q.tail = r.tail /\ q.next[p] = NoProc
        /\ \A x \in Records : x # p => q.next[x] = r.next[x]
    BY <1>2, <1>3, <1>6 DEF QueueType, AppNext
  <2>2. \A x \in Members(s) : q.next[x] = r.next[x]
    BY <1>1, <2>1 DEF Members
  <2>3. QED BY <1>6, <2>1, <2>2, ChainStays
<1>7. ASSUME Chain(r, s, k, p, p),
             q = AppHead(r, k, p)
      PROVE  /\ Chain(q, Append(s, p), k, NoProc, p)
             /\ Line(Append(s, p), k) /\ Members(Append(s, p)) = Members(s) \cup {p} /\ Rear(Append(s, p)) = p
  <2> DEFINE u == Append(s, p)
  <2>1. u \in Seq(Procs) /\ Len(u) = Len(s) + 1 /\ u # << >>
        /\ \A i \in 1 .. Len(u) : u[i] = IF i = Len(u) THEN p ELSE s[i]
    <3>1. /\ u \in Seq(Procs) /\ Len(u) = Len(s) + 1
          /\ \A i \in 1 .. Len(s) : u[i] = s[i]
          /\ u[Len(s) + 1] = p
      BY <1>1, AppendProperties
    <3> HIDE DEF u
    <3>2. QED BY <1>1, <3>1, EmptySeq
  <2>2. Members(u) = Members(s) \cup {p}
    BY <1>1, <2>1 DEF Members
  <2> HIDE DEF u
  <2>3. Line(u, k)
    <3>1. \A i \in 1 .. Len(u) : PriOf(u[i]) = k
      BY <1>1, <2>1 DEF Line
    <3>2. \A i, j \in 1 .. Len(u) : u[i] = u[j] => i = j
      BY <1>1, <2>1 DEF Line
    <3>3. QED BY <2>1, <3>1, <3>2 DEF Line
  <2>4. q.tail = r.tail /\ q.next = r.next /\ q.head[k] = IF r.head[k] # NoProc THEN r.head[k] ELSE p
    BY <1>2, <1>3, <1>7 DEF QueueType, AppHead
  <2>5. q.head[k] = u[1]
    <3>1. CASE s = << >>
      BY <1>1, <1>7, <2>1, <2>4, <3>1 DEF Chain
    <3>2. CASE s # << >>
      <4>1. 1 \in 1 .. Len(s) /\ r.head[k] = s[1] /\ s[1] # NoProc
        BY <1>1, <1>7, <3>2 DEF Chain
      <4>2. u[1] = s[1]
        BY <1>1, <2>1, <4>1
      <4>3. QED BY <2>4, <4>1, <4>2
    <3>3. QED BY <3>1, <3>2
  <2>6. \A i \in 1 .. Len(u) : q.next[u[i]] = IF i = Len(u) THEN NoProc ELSE u[i + 1]
    BY <1>1, <1>7, <2>1, <2>4 DEF Chain
  <2>7. q.tail[k] = p
    BY <1>7, <2>4 DEF Chain
  <2>8. Rear(u) = p
    <3>1. Len(u) \in 1 .. Len(u)
      BY <1>1, <2>1
    <3>2. QED BY <2>1, <3>1 DEF Rear
  <2>9. QED BY <2>1, <2>2, <2>3, <2>5, <2>6, <2>7, <2>8 DEF Chain, u
<1>8. QED BY <1>4, <1>5, <1>6, <1>7

\* The other lists are not touched.
LEMMA AppendKeeps ==
  ASSUME QueueLevels, NEW p \in Procs, NEW k, k = PriOf(p), NEW l \in Levels, l # k,
         \/ rq' = AppLink(rq, k, p)
         \/ rq' = AppTail(rq, k, p)
         \/ rq' = AppNext(rq, p)
         \/ rq' = AppHead(rq, k, p)
  PROVE  /\ rq'.head[l] = rq.head[l] /\ rq'.tail[l] = rq.tail[l]
         /\ \A x \in Procs : PriOf(x) = l => rq'.next[x] = rq.next[x]
<1>1. /\ k \in Levels /\ p \in Records
      /\ rq.head \in [Levels -> Records \cup {NoProc}] /\ rq.tail \in [Levels -> Records \cup {NoProc}]
      /\ rq.next \in [Records -> Records \cup {NoProc}] /\ rq \in QueueType
      /\ rq.tail[k] # NoProc => PriOf(rq.tail[k]) = k
  BY PriOfLevel DEF QueueLevels, QueueType
<1>2. \A x \in Procs : PriOf(x) = l => x \in Records /\ x # p /\ (rq.tail[k] # NoProc => x # rq.tail[k])
  BY <1>1, PriOfLevel
<1>3. CASE rq' = AppLink(rq, k, p)
  BY <1>1, <1>2, <1>3 DEF QueueType, AppLink
<1>4. CASE rq' = AppTail(rq, k, p)
  BY <1>1, <1>4 DEF QueueType, AppTail
<1>5. CASE rq' = AppNext(rq, p)
  BY <1>1, <1>2, <1>5 DEF QueueType, AppNext
<1>6. CASE rq' = AppHead(rq, k, p)
  BY <1>1, <1>6 DEF QueueType, AppHead
<1>7. QED BY <1>3, <1>4, <1>5, <1>6

\* append() makes its next assignment.
LEMMA AppendGoes ==
  ASSUME AltInv, ListsInv, AppendsProperly, Top.pc \in StartPcs, state' = state, NEW f, Goto(f),
         f.fn = "start", f.proc = NoProc, f.partner = Top.partner,
         NEW p, p = Top.partner, NEW k, k = PriOf(p),
         \A l \in 1 .. PRI_MAX : l # k =>
           /\ rq'.head[l] = rq.head[l] /\ rq'.tail[l] = rq.tail[l]
           /\ \A x \in Procs : PriOf(x) = l => rq'.next[x] = rq.next[x],
         NEW s, Line(s, k), Complete(s, k), rq'.next[p] = NoProc,
         Chain(rq', s, k, IF f.pc = "link" THEN NoProc ELSE p, IF f.pc \in {"link", "tail"} THEN Rear(s) ELSE p)
  PROVE  ListsInv'
<1>1. UrgencyInv /\ StackInv
  BY DEF AltInv, UrgencyInv
<1>2. PICK N : N = Len(stack)
  OBVIOUS
<1>3. /\ Top.fn = "start" /\ Top.proc = NoProc /\ N > 1 /\ p \in Procs /\ N \in DOMAIN Startings
      /\ Startings[N] = Top /\ Joining(k) = {N}
  BY <1>2, AppendingFacts
<1>4. /\ Frames' = Frames /\ N \in Frames /\ Top = stack[N] /\ 1 \in Frames
      /\ \A n \in Frames : stack'[n] = IF n = N THEN f ELSE stack[n]
  BY <1>1, <1>2, GotoTop, Stacked
<1>5. /\ DOMAIN Startings' = DOMAIN Startings
      /\ \A n \in DOMAIN Startings : Startings'[n] = IF n = N THEN f ELSE Startings[n]
  <2>1. {n \in Frames' : stack'[n].fn = "start"} = {n \in Frames : stack[n].fn = "start"}
    BY <1>3, <1>4
  <2>2. DOMAIN Startings' = DOMAIN Startings /\ \A n \in DOMAIN Startings : n \in Frames /\ Startings[n] = stack[n]
    BY <2>1 DEF Startings
  <2>3. \A n \in DOMAIN Startings' : Startings'[n] = stack'[n]
    BY DEF Startings
  <2>4. QED BY <1>4, <2>2, <2>3
<1>6. \A n \in DOMAIN Startings : Startings'[n].partner = Startings[n].partner
  BY <1>3, <1>5
<1>7. \A l : Joining(l)' = Joining(l)
  BY <1>5, <1>6 DEF Joining
<1>8. \A q \in Procs : Starting(q)' <=> Starting(q)
  <2>1. \A q : Starting(q) <=> \E n \in DOMAIN Startings : Startings[n].partner = q
    BY DEF Starting, Startings
  <2>2. \A q : Starting(q)' <=> \E n \in DOMAIN Startings' : Startings'[n].partner = q
    BY DEF Starting, Startings
  <2>3. QED BY <1>5, <1>6, <2>1, <2>2, Zenon
<1>9. \A q \in Procs : Steady(q)
  <2>1. \A n \in Frames : stack'[n].proc = stack[n].proc
    BY <1>3, <1>4
  <2>2. \A q \in Procs : OnCpu(q)' <=> OnCpu(q)
    BY <1>4, <2>1 DEF OnCpu
  <2>3. QED BY <2>2 DEF Steady
<1>10. \A q \in Procs : Placed(q)'
  BY <1>8, <1>9, SteadyPlaced DEF ListsInv
<1>11. StartsApart'
  BY <1>5, <1>6 DEF ListsInv, StartsApart
<1>12. NotYetStarted'
  <2>1. stack'[1] = stack[1]
    BY <1>3, <1>4
  <2>2. QED BY <1>1, <2>1, StillNotStarted DEF ListsInv
<1>13. ASSUME NEW l \in 1 .. PRI_MAX, l # k PROVE Queued(l)'
  <2>1. Joining(l)' = Joining(l) /\ \A n \in Joining(l) : Startings'[n] = Startings[n]
    <3>1. \A n \in Joining(l) : n \in DOMAIN Startings /\ n # N
      BY <1>3, <1>13 DEF Joining
    <3>2. QED BY <1>5, <1>7, <3>1
  <2>2. Queued(l) /\ \A q \in Procs : Placed(q)
    BY DEF ListsInv
  <2>3. QED BY <1>1, <1>8, <1>9, <1>13, <2>1, <2>2, OtherLevel
<1>14. Queued(k)'
  <2>1. Joined(s, k)'
    BY <1>3, <1>5, <1>7 DEF Joined
  <2>2. Complete(s, k)'
    BY <1>8, <1>9, SteadyComplete DEF ListsInv
  <2>3. QED BY <2>1, <2>2 DEF Queued, Line
<1>15. QED BY <1>10, <1>11, <1>12, <1>13, <1>14 DEF ListsInv

\* append() is done.
LEMMA AppendReturns ==
  ASSUME AltInv, ListsInv, AppendsProperly, Top.pc \in StartPcs, state' = state, Return,
         NEW p, p = Top.partner, NEW k, k = PriOf(p),
         \A l \in 1 .. PRI_MAX : l # k =>
           /\ rq'.head[l] = rq.head[l] /\ rq'.tail[l] = rq.tail[l]
           /\ \A x \in Procs : PriOf(x) = l => rq'.next[x] = rq.next[x],
         NEW s, Complete(s, k), \A q \in Members(s) : q # p,
         NEW u, Line(u, k), Members(u) = Members(s) \cup {p}, Chain(rq', u, k, NoProc, Rear(u))
  PROVE  ListsInv'
<1>1. UrgencyInv /\ StackInv
  BY DEF AltInv, UrgencyInv
<1>2. PICK N : N = Len(stack)
  OBVIOUS
<1>3. /\ Top.fn = "start" /\ Top.proc = NoProc /\ N > 1 /\ p \in Procs /\ N \in DOMAIN Startings
      /\ Startings[N] = Top /\ Joining(k) = {N} /\ state[p] = "initial" /\ ~OnCpu(p)
  BY <1>2, AppendingFacts
<1>4. /\ N \in Nat /\ N \in Frames /\ Top = stack[N] /\ 1 \in Frames' /\ Frames' = Frames \ {N}
      /\ \A n \in Frames' : stack'[n] = stack[n]
  <2>1. Len(stack') = N - 1 /\ (\A n \in 1 .. N - 1 : stack'[n] = stack[n])
    BY <1>1, <1>2, <1>3, ReturnSeq DEF StackInv
  <2>2. Frames = 1 .. N /\ N \in Nat /\ N \in Frames /\ Top = stack[N] /\ Frames' = 1 .. N - 1
    BY <1>1, <1>2, <2>1, Stacked DEF Frames
  <2>3. QED BY <1>3, <2>1, <2>2
<1>5. /\ DOMAIN Startings' = DOMAIN Startings \ {N}
      /\ \A n \in DOMAIN Startings' : Startings'[n] = Startings[n]
  <2>1. {n \in Frames' : stack'[n].fn = "start"} = {n \in Frames : stack[n].fn = "start"} \ {N}
    <3>1. \A n : n \in Frames' <=> n \in Frames /\ n # N
      BY <1>4
    <3>2. \A n \in Frames' : stack'[n].fn = "start" <=> stack[n].fn = "start"
      BY <1>4
    <3>3. QED BY <3>1, <3>2
  <2>2. DOMAIN Startings' = DOMAIN Startings \ {N} /\ \A n \in DOMAIN Startings : n \in Frames /\ Startings[n] = stack[n]
    BY <2>1 DEF Startings
  <2>3. \A n \in DOMAIN Startings' : Startings'[n] = stack'[n] /\ n \in Frames'
    BY DEF Startings
  <2>4. QED BY <1>4, <2>2, <2>3
<1>6. Joining(k)' = {} /\ \A l : l # k => Joining(l)' = Joining(l)
  <2>1. Startings[N].partner = p
    BY <1>3
  <2>2. QED BY <1>3, <1>5, <2>1 DEF Joining
<1>7. \A q \in Procs : Starting(q)' <=> Starting(q) /\ q # p
  <2>1. \A q : Starting(q) <=> \E n \in DOMAIN Startings : Startings[n].partner = q
    BY DEF Starting, Startings
  <2>2. \A q : Starting(q)' <=> \E n \in DOMAIN Startings' : Startings'[n].partner = q
    BY DEF Starting, Startings
  <2>3. \A n \in DOMAIN Startings : Startings[n].partner = p <=> n = N
    BY <1>3 DEF ListsInv, StartsApart
  <2>4. QED BY <1>5, <2>1, <2>2, <2>3, Zenon
<1>8. \A q \in Procs : OnCpu(q)' <=> OnCpu(q)
  <2>1. \A q \in Procs : stack[N].proc # q
    BY <1>3, <1>4, PriOfLevel
  <2>2. QED BY <1>4, <2>1 DEF OnCpu
<1>9. \A q \in Procs : Steady(q)
  BY <1>8 DEF Steady
<1>10. \A q \in Procs : Placed(q)'
  <2>1. Placed(p)'
    BY <1>3, <1>7, <1>8 DEF Placed
  <2>2. \A q \in Procs : q # p => Placed(q)'
    BY <1>7, <1>9, SteadyPlaced DEF ListsInv
  <2>3. QED BY <2>1, <2>2
<1>11. StartsApart'
  BY <1>5 DEF ListsInv, StartsApart
<1>12. NotYetStarted'
  <2>1. stack'[1] = stack[1]
    BY <1>4
  <2>2. QED BY <1>1, <2>1, StillNotStarted DEF ListsInv
<1>13. ASSUME NEW l \in 1 .. PRI_MAX, l # k PROVE Queued(l)'
  <2>1. Joining(l)' = Joining(l) /\ \A n \in Joining(l) : Startings'[n] = Startings[n]
    <3>1. \A n \in Joining(l)' : n \in DOMAIN Startings'
      BY DEF Joining
    <3>2. QED BY <1>5, <1>6, <1>13, <3>1
  <2>2. Queued(l) /\ \A q \in Procs : Placed(q)
    BY DEF ListsInv
  <2>3. \A q \in Procs : PriOf(q) = l => (Starting(q)' <=> Starting(q))
    BY <1>7, <1>13
  <2>4. QED BY <1>1, <1>9, <1>13, <2>1, <2>2, <2>3, OtherLevel
<1>14. Queued(k)'
  <2>1. Joined(u, k)'
    BY <1>6 DEF Joined
  <2>2. Complete(u, k)'
    <3>1. \A q \in Members(u) : q \in Procs
      BY LineMembers
    <3>2. ASSUME NEW q \in Members(u) PROVE state'[q] # "unstarted" /\ ~Starting(q)'
      <4>1. q \in Procs
        BY <3>1
      <4>2. CASE q = p
        BY <1>3, <1>7, <4>1, <4>2
      <4>3. CASE q # p
        BY <1>7, <4>1, <4>3 DEF Complete
      <4>4. QED BY <4>2, <4>3
    <3>3. ASSUME NEW q \in Procs, PriOf(q) = k, state'[q] \in {"initial", "ready"}, ~OnCpu(q)', ~Starting(q)'
          PROVE  q \in Members(u)
      BY <1>7, <1>8, <3>3 DEF Complete
    <3>4. QED BY <3>2, <3>3 DEF Complete
  <2>3. QED BY <2>1, <2>2 DEF Queued, Line
<1>15. QED BY <1>10, <1>11, <1>12, <1>13, <1>14 DEF ListsInv

LEMMA StartStepLists ==
  ASSUME AltInv, ListsInv, AppendsProperly, StartStep
  PROVE  ListsInv'
<1>1. UrgencyInv /\ StackInv /\ QueueLevels /\ rq \in QueueType
  BY DEF AltInv, UrgencyInv, StackInv, QueueLevels
<1>2. PICK p, k : p = Top.partner /\ k = PriOf(p)
  OBVIOUS
<1>3. Top.pc \in StartPcs /\ state' = state
  BY DEF StartStep, AppendLink, AppendTail, AppendNext, AppendHead, AppendStep, At, StartPcs
<1>4. /\ Top.fn = "start" /\ Top.proc = NoProc /\ IsFrame(Top) /\ p \in Procs /\ Len(stack) \in DOMAIN Startings
      /\ Startings[Len(stack)] = Top /\ Joining(k) = {Len(stack)} /\ Starting(p)
  BY <1>2, <1>3, AppendingFacts
<1>5. k \in 1 .. PRI_MAX
  BY <1>2, <1>4, PriOfLevel, RecordAssumption DEF PriOf
<1>6. PICK s : Line(s, k) /\ Joined(s, k) /\ Complete(s, k)
  BY <1>5 DEF ListsInv, Queued
<1>7. /\ rq.next[p] = NoProc
      /\ Chain(rq, s, k, IF Top.pc = "link" THEN NoProc ELSE p, IF Top.pc \in {"link", "tail"} THEN Rear(s) ELSE p)
  BY <1>2, <1>4, <1>6 DEF Joined
<1>8. p \notin Members(s)
  BY <1>4, <1>6 DEF Complete
<1>9. ASSUME \/ rq' = AppLink(rq, k, p)
             \/ rq' = AppTail(rq, k, p)
             \/ rq' = AppNext(rq, p)
             \/ rq' = AppHead(rq, k, p)
      PROVE  \A l \in 1 .. PRI_MAX : l # k =>
               /\ rq'.head[l] = rq.head[l] /\ rq'.tail[l] = rq.tail[l]
               /\ \A x \in Procs : PriOf(x) = l => rq'.next[x] = rq.next[x]
  <2>1. \A l \in 1 .. PRI_MAX : l \in Levels
    BY DEF Levels, PRI_MIN, PRI_MAX
  <2>2. QED BY <1>1, <1>2, <1>4, <1>9, <2>1, AppendKeeps
<1>10. \A pc : LET f == [Top EXCEPT !.pc = pc]
               IN  f.pc = pc /\ f.fn = "start" /\ f.proc = NoProc /\ f.partner = Top.partner
  BY <1>4 DEF IsFrame
<1>11. CASE AppendLink
  <2>1. PICK f : f = [Top EXCEPT !.pc = "tail"]
    OBVIOUS
  <2>2. /\ Top.pc = "link" /\ Goto(f)
        /\ rq' = AppLink(rq, k, p)
    BY <1>2, <1>11, <2>1 DEF AppendLink, AppendStep, At, Oldest, AppLink
  <2>3. f.pc = "tail" /\ f.fn = "start" /\ f.proc = NoProc /\ f.partner = Top.partner
    BY <1>10, <2>1
  <2>4. Chain(rq, s, k, NoProc, Rear(s))
    BY <1>7, <2>2
  <2>5. Chain(rq', s, k, p, Rear(s)) /\ rq'.next[p] = NoProc
    <3>1. rq \in QueueType /\ p \in Procs /\ k = PriOf(p) /\ Line(s, k) /\ p \notin Members(s) /\ rq.next[p] = NoProc
      BY <1>1, <1>2, <1>4, <1>6, <1>7, <1>8
    <3>2. rq' = AppLink(rq, k, p)
      BY <2>2
    <3>3. QED BY <2>4, <3>1, <3>2, ChainAppends
  <2>6. \A l \in 1 .. PRI_MAX : l # k =>
          /\ rq'.head[l] = rq.head[l] /\ rq'.tail[l] = rq.tail[l]
          /\ \A x \in Procs : PriOf(x) = l => rq'.next[x] = rq.next[x]
    BY <1>9, <2>2
  <2>7. Chain(rq', s, k, IF f.pc = "link" THEN NoProc ELSE p, IF f.pc \in {"link", "tail"} THEN Rear(s) ELSE p)
    BY <2>3, <2>5
  <2>8. QED BY <1>2, <1>3, <1>6, <2>2, <2>3, <2>5, <2>6, <2>7, AppendGoes
<1>12. CASE AppendTail
  <2>1. PICK f : f = [Top EXCEPT !.pc = "next"]
    OBVIOUS
  <2>2. /\ Top.pc = "tail" /\ Goto(f) /\ rq' = AppTail(rq, k, p)
    BY <1>2, <1>12, <2>1 DEF AppendTail, AppendStep, At, AppTail
  <2>3. f.pc = "next" /\ f.fn = "start" /\ f.proc = NoProc /\ f.partner = Top.partner
    BY <1>10, <2>1
  <2>4. Chain(rq, s, k, p, Rear(s))
    BY <1>7, <2>2
  <2>5. Chain(rq', s, k, p, p) /\ rq'.next[p] = NoProc
    <3>1. rq \in QueueType /\ p \in Procs /\ k = PriOf(p) /\ Line(s, k) /\ p \notin Members(s) /\ rq.next[p] = NoProc
      BY <1>1, <1>2, <1>4, <1>6, <1>7, <1>8
    <3>2. rq' = AppTail(rq, k, p)
      BY <2>2
    <3>3. QED BY <2>4, <3>1, <3>2, ChainAppends
  <2>6. \A l \in 1 .. PRI_MAX : l # k =>
          /\ rq'.head[l] = rq.head[l] /\ rq'.tail[l] = rq.tail[l]
          /\ \A x \in Procs : PriOf(x) = l => rq'.next[x] = rq.next[x]
    BY <1>9, <2>2
  <2>7. Chain(rq', s, k, IF f.pc = "link" THEN NoProc ELSE p, IF f.pc \in {"link", "tail"} THEN Rear(s) ELSE p)
    BY <2>3, <2>5
  <2>8. QED BY <1>2, <1>3, <1>6, <2>2, <2>3, <2>5, <2>6, <2>7, AppendGoes
<1>13. CASE AppendNext
  <2>1. PICK f : f = [Top EXCEPT !.pc = "head"]
    OBVIOUS
  <2>2. /\ Top.pc = "next" /\ Goto(f) /\ rq' = AppNext(rq, p)
    BY <1>2, <1>13, <2>1 DEF AppendNext, AppendStep, At, AppNext
  <2>3. f.pc = "head" /\ f.fn = "start" /\ f.proc = NoProc /\ f.partner = Top.partner
    BY <1>10, <2>1
  <2>4. Chain(rq, s, k, p, p)
    BY <1>7, <2>2
  <2>5. Chain(rq', s, k, p, p) /\ rq'.next[p] = NoProc
    <3>1. rq \in QueueType /\ p \in Procs /\ k = PriOf(p) /\ Line(s, k) /\ p \notin Members(s) /\ rq.next[p] = NoProc
      BY <1>1, <1>2, <1>4, <1>6, <1>7, <1>8
    <3>2. rq' = AppNext(rq, p)
      BY <2>2
    <3>3. QED BY <2>4, <3>1, <3>2, ChainAppends
  <2>6. \A l \in 1 .. PRI_MAX : l # k =>
          /\ rq'.head[l] = rq.head[l] /\ rq'.tail[l] = rq.tail[l]
          /\ \A x \in Procs : PriOf(x) = l => rq'.next[x] = rq.next[x]
    BY <1>9, <2>2
  <2>7. Chain(rq', s, k, IF f.pc = "link" THEN NoProc ELSE p, IF f.pc \in {"link", "tail"} THEN Rear(s) ELSE p)
    BY <2>3, <2>5
  <2>8. QED BY <1>2, <1>3, <1>6, <2>2, <2>3, <2>5, <2>6, <2>7, AppendGoes
<1>14. CASE AppendHead
  <2>1. PICK u : u = Append(s, p)
    OBVIOUS
  <2>2. /\ Top.pc = "head" /\ Return
        /\ rq' = AppHead(rq, k, p)
    BY <1>2, <1>14 DEF AppendHead, AppendStep, At, AppHead
  <2>3. Chain(rq, s, k, p, p)
    BY <1>7, <2>2
  <2>4. /\ Chain(rq', u, k, NoProc, p) /\ Line(u, k) /\ Members(u) = Members(s) \cup {p} /\ Rear(u) = p
    <3>1. rq \in QueueType /\ p \in Procs /\ k = PriOf(p) /\ Line(s, k) /\ p \notin Members(s) /\ rq.next[p] = NoProc
      BY <1>1, <1>2, <1>4, <1>6, <1>7, <1>8
    <3>2. rq' = AppHead(rq, k, p)
      BY <2>2
    <3>3. QED BY <2>1, <2>3, <3>1, <3>2, ChainAppends
  <2>5. \A l \in 1 .. PRI_MAX : l # k =>
          /\ rq'.head[l] = rq.head[l] /\ rq'.tail[l] = rq.tail[l]
          /\ \A x \in Procs : PriOf(x) = l => rq'.next[x] = rq.next[x]
    BY <1>9, <2>2
  <2>6. (\A q \in Members(s) : q # p) /\ Chain(rq', u, k, NoProc, Rear(u))
    BY <1>8, <2>4
  <2>7. QED BY <1>2, <1>3, <1>6, <2>2, <2>4, <2>5, <2>6, AppendReturns
<1>15. QED BY <1>11, <1>12, <1>13, <1>14 DEF StartStep

\* In the beginning, the lists are empty.
LEMMA InitLists ==
  ASSUME Init
  PROVE  ListsInv
<1>1. PICK f : f = Frame("main", "main", 0, None)
  OBVIOUS
<1>2. stack = <<f>> /\ f.fn = "main" /\ f.k = 0
  BY <1>1 DEF Init, Frame
<1>3. Frames = {1} /\ stack[1] = f
  BY <1>2 DEF Frames
<1>4. DOMAIN Startings = {}
  BY <1>2, <1>3 DEF Startings
<1>5. ASSUME NEW p \in Procs PROVE state[p] = "unstarted" /\ ~OnCpu(p) /\ ~Starting(p) /\ Placed(p)
  <2>1. p \in Records /\ p # Idle /\ p # NoProc
    BY PriOfLevel DEF Records
  <2>2. state[p] = "unstarted"
    BY <2>1 DEF Init
  <2>3. f.proc = NoProc
    BY <1>1 DEF Frame
  <2>4. ~OnCpu(p)
    BY <1>3, <2>1, <2>3 DEF OnCpu
  <2>5. ~Starting(p)
    BY <1>2, <1>3 DEF Starting
  <2>6. Placed(p)
    BY <2>2, <2>4, <2>5 DEF Placed
  <2>7. QED BY <2>2, <2>4, <2>5, <2>6
<1>6. \A p \in Procs : Placed(p)
  BY <1>5, Zenon
<1>7. StartsApart
  BY <1>4 DEF StartsApart
<1>8. NotYetStarted
  <2>1. \A j \in 1 .. Len(MainStarts) : MainStarts[j] \in Procs
    BY ApplicationAssumption, ElementIn
  <2>2. QED BY <1>5, <2>1 DEF NotYetStarted
<1>9. ASSUME NEW l \in 1 .. PRI_MAX PROVE Queued(l)
  <2>1. PICK s : s = << >>
    OBVIOUS
  <2>2. Len(s) = 0 /\ s \in Seq(Procs)
    BY <2>1
  <2>3. \A i \in 1 .. Len(s) : FALSE
    BY <2>2
  <2>4. Line(s, l) /\ Members(s) = {}
    BY <2>2, <2>3 DEF Line, Members
  <2>5. Chain(rq, s, l, NoProc, Rear(s))
    <3> DEFINE e == EmptyQueues
    <3>1. e \in QueueType /\ \A m \in Levels : e.head[m] = NoProc /\ e.tail[m] = NoProc
      BY DEF EmptyQueues, QueueType
    <3>2. rq = append(e, Idle) /\ PriOf(Idle) = PRI_MIN /\ PRI_MIN \in Levels /\ l \in Levels /\ l # PRI_MIN
      BY DEF Init, PriOf, Levels, PRI_MIN, PRI_MAX
    <3> HIDE DEF e
    <3>3. rq.head[l] = NoProc /\ rq.tail[l] = NoProc
      BY <3>1, <3>2 DEF append, QueueType
    <3>4. QED BY <2>1, <2>3, <3>3 DEF Chain, Rear
  <2>6. Joined(s, l)
    <3>1. Joining(l) = {}
      BY <1>4 DEF Joining
    <3>2. QED BY <2>5, <3>1 DEF Joined
  <2>7. Complete(s, l)
    BY <1>5, <2>4 DEF Complete
  <2>8. QED BY <2>4, <2>6, <2>7 DEF Queued
<1>10. QED BY <1>6, <1>7, <1>8, <1>9 DEF ListsInv

LEMMA NextLists ==
  ASSUME AltInv, ListsInv, AppendsProperly, AppendsProperly', StartsOnce, [Next]_vars
  PROVE  ListsInv'
<1>1. CASE MainStep
  BY <1>1, MainStartLists, MainRunLists DEF MainStep
<1>2. CASE StartStep
  BY <1>2, StartStepLists
<1>3. CASE ScheduleStep
  BY <1>3, SelectLists, SelectNoneLists, TakeLists, LoadLists, FinishLists, PartnerEndLists, WakePartnerLists
     DEF ScheduleStep
<1>4. CASE RtcStep
  BY <1>4, RtcEnterLists, RtcRestLists DEF RtcStep
<1>5. CASE EnableStep \/ DisableStep
  BY <1>5, AltLists
<1>6. CASE HandlerStep
  BY <1>6, HandlerLists, HandleUserLists, TimeoutDueLists DEF HandlerStep
<1>7. CASE Environment
  BY <1>7, EnvironmentLists
<1>8. CASE DISABLE \/ SigReturn \/ UNCHANGED vars
  <2>1. rq' = rq /\ state' = state /\ stack' = stack
    BY <1>8 DEF DISABLE, SigReturn, vars, procVars, cpuVars
  <2>2. Frames' = Frames
    BY <2>1 DEF Frames
  <2>3. Startings' = Startings
    BY <2>1, <2>2 DEF Startings
  <2>4. \A p \in Procs : OnCpu(p)' <=> OnCpu(p)
    BY <2>1, <2>2 DEF OnCpu
  <2>5. \A p \in Procs : Steady(p)
    BY <2>1, <2>4 DEF Steady
  <2>6. NotYetStarted'
    BY <2>1 DEF ListsInv, NotYetStarted
  <2>7. QED BY <2>1, <2>3, <2>5, <2>6, ListsStay
<1>9. QED BY <1>1, <1>2, <1>3, <1>4, <1>5, <1>6, <1>7, <1>8 DEF Next, CpuStep

-----------------------------------------------------------------------------
\* Every process that may run is on the CPU, being started, or in the list of
\* its priority, in every application whose processes call schedule() in the
\* order of their priorities, as long as append() is called properly: its
\* process is not in the list yet, or alone there, and no other append() to the
\* list has been interrupted.
THEOREM NoLostProcessHolds == Orderly /\ StartsOnce /\ Spec /\ []AppendsProperly => []NoLostProcess
<1> DEFINE Inv == Orderly /\ StartsOnce /\ AltInv /\ ListsInv
<1>1. Orderly /\ StartsOnce /\ Init => Inv
  BY InitAlt, InitLists
<1>2. Inv /\ AppendsProperly /\ AppendsProperly' /\ [Next]_vars => Inv'
  <2> SUFFICES ASSUME Inv, AppendsProperly, AppendsProperly', [Next]_vars PROVE Inv'
    OBVIOUS
  <2>1. ListsInv'
    BY NextLists
  <2>2. UrgencyInv'
    BY NextUrgency DEF AltInv
  <2>3. AltInv'
    BY <2>2, NextAlt
  <2>4. Orderly' /\ StartsOnce'
    BY DEF Orderly, PriOf, StartsOnce
  <2>5. QED BY <2>1, <2>3, <2>4
<1>3. Inv => NoLostProcess
  BY ListsLoseNobody
<1> HIDE DEF Inv
<1>4. QED BY <1>1, <1>2, <1>3, PTL DEF Spec

\* Where every process has a priority of its own, nothing more is needed.
THEOREM NoLostProcessAlone ==
  Orderly /\ StartsOnce /\ (\A p \in Procs : OwnQueue(p)) /\ Spec => []NoLostProcess
<1> DEFINE Alone == \A p \in Procs : OwnQueue(p)
<1>1. Alone => AppendsProperly
  BY DEF OwnQueue, AppendsProperly
<1>2. Alone => Alone'
  BY DEF OwnQueue, PriOf
<1> HIDE DEF Alone
<1>3. Alone /\ [][Next]_vars => []AppendsProperly
  BY <1>1, <1>2, PTL
<1>4. QED BY <1>3, NoLostProcessHolds, PTL DEF Spec, Alone
=============================================================================
