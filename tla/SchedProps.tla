----------------------------- MODULE SchedProps -----------------------------
(***************************************************************************)
(* Correctness properties of the kernel modelled in Sched.tla.             *)
(***************************************************************************)
EXTENDS Sched

Frames == 1 .. Len(stack)

\* Process p is being run by some activation of schedule().
OnCpu(p) == \E n \in Frames : stack[n].proc = p

\* Somebody is about to call readyProcessIfNecessary(p).
WakePending(p) == \E n \in Frames : stack[n].partner = p /\ stack[n].pc # "partnerRet"

\* The process with an output guard on channel c, and the one with an input.
Sender(c) == CHOOSE p \in Procs : \E i \in Branches(p) : Guards[p][i] = [type |-> "chanout", ch |-> c]

\* The members of ready queue l: the least set that holds its head, and what
\* each member links to.
Listed(l) ==
  LET Closed(S) == (\A q \in S : rq.next[q] # NoProc => rq.next[q] \in S)
                     /\ (rq.head[l] # NoProc => rq.head[l] \in S)
  IN  {p \in Records : \A S \in SUBSET Records : Closed(S) => p \in S}

\* The single stack of the kernel (schedule(), readyProcessIfNecessary()): an
\* activation of schedule() runs a process of higher priority than every
\* activation below it, so no process is ever entered twice and there is at
\* most one activation with a process per priority level.
StackPriority ==
  \A m, n \in Frames :
    m < n /\ stack[m].proc # NoProc /\ stack[n].proc # NoProc =>
      PriOf(stack[m].proc) < PriOf(stack[n].proc)

\* Processes whose code may start others.
Starters == {p \in Procs : \E s \in -1 .. NrGuards[p] - 1 : \E a \in Program[p][s] : a.start # NoProc}

\* Hence the activations in progress are bounded: preemptions
\* (readyProcessIfNecessary()) and handlers that interrupt handlers or their
\* schedulers (handle_signal()) never pile up beyond main, an activation of
\* schedule() for each priority in use, of start() on top of it, a handler on
\* top of any of these, and the schedule() that the last one calls.  It is no
\* bound of the C stack: handlers that are returning stay below, without any.
ActivationsBounded ==
  Len(stack) <= 2 * Cardinality({PriOf(p) : p \in Records})
                  + Cardinality({PriOf(p) : p \in Starters}) + 3

\* The strengthening of StackPriority that every step preserves.

ReturnPcs   == {"partnerRet", "userRet", "dueRet"}

IsFrame(f) ==
  DOMAIN f = {"fn", "pc", "base", "src", "proc", "partner", "prev", "i", "k",
              "flag", "time", "act"}

\* An activation on its own: it belongs to the function of its pc, it runs a
\* process above its base priority, and `prev' is set during a call only.
FrameOK(f) ==
  /\ IsFrame(f)
  /\ f.base \in Int
  /\ f.pc = "main" => f.fn = "main" /\ f.k \in Nat
  /\ f.pc \in SchedulePcs => f.fn = "schedule"
  /\ f.pc \in StartPcs => f.fn = "start" /\ f.partner \in Procs
  /\ f.pc \in HandlerPcs => f.fn = "handler"
  /\ f.pc \in SchedulePcs \ {"select", "take"} => f.proc \in Records
  /\ f.pc \in SchedulePcs \ {"select", "take", "load", "idle"} => f.proc \in Procs
  /\ f.pc = "take" => f.k \in Levels /\ f.k > f.base
  /\ f.proc \in Records \cup {NoProc}
  /\ f.proc # NoProc => f.fn = "schedule" /\ PriOf(f.proc) > f.base
  /\ f.prev \in Records \cup {NoProc}
  /\ f.prev # NoProc => f.pc \in ReturnPcs

StackShape ==
  /\ stack \in Seq({stack[n] : n \in Frames})
  /\ stack # << >>
  /\ stack[1].fn = "main"
  /\ \A n \in Frames : FrameOK(stack[n]) /\ (stack[n].fn = "main" => n = 1)

\* schedule() was called with a base no lower than what runs below it ...
BaseAbove ==
  \A m, n \in Frames :
    m < n /\ stack[m].proc # NoProc /\ stack[n].fn = "schedule" =>
      PriOf(stack[m].proc) <= stack[n].base

\* ... because `current' is no lower than any of them, nor is a saved one.
CurrentAbove ==
  /\ current \in Records
  /\ \A m \in Frames : stack[m].proc # NoProc => PriOf(stack[m].proc) <= PriOf(current)
  /\ \A m, n \in Frames :
       m <= n /\ stack[m].proc # NoProc /\ stack[n].prev # NoProc =>
         PriOf(stack[m].proc) <= PriOf(stack[n].prev)

\* Each ready queue links processes of its own priority only.
QueueLevels ==
  /\ rq \in QueueType
  /\ \A l \in Levels : rq.head[l] # NoProc => PriOf(rq.head[l]) = l
  /\ \A l \in Levels : rq.tail[l] # NoProc => PriOf(rq.tail[l]) = l
  /\ \A p \in Records : rq.next[p] # NoProc => PriOf(rq.next[p]) = PriOf(p)

StackInv == StackShape /\ BaseAbove /\ CurrentAbove /\ QueueLevels

\* The code of a process executes only while `current' is that process:
\* initial(), selected(), init_alt(), terminate() and the channel operations
\* (sched.c) all take the process from `current'.
CurrentIsRunning ==
  Top.fn = "schedule" /\ Top.proc # NoProc /\ Top.pc # "partnerRet" => current = Top.proc

\* Applications in which no process starts a more urgent one, or ends, and no
\* signal arrives before run() has taken a process.  The code relies on it: it
\* neither restores `current' in handle_signal() nor keeps interrupts disabled
\* in release_mem() and run(), and append() in start() preempts nobody.
Orderly ==
  /\ ~EarlyIntr
  /\ \A p \in Procs : \A s \in -1 .. NrGuards[p] - 1 : \A a \in Program[p][s] :
       ~a.term /\ (a.start = NoProc \/ PriOf(a.start) <= PriOf(p))

\* Orderly applications that only communicate: every guard is of a channel or a
\* SKIP, and channels are point to point (README.md of microcsp), so that each
\* joins one guard of its writer and at most one of a reader that is another
\* process.  procon.c and commstime.c are such applications; the rings would be if
\* their processes did not end.
Synchronous ==
  /\ Orderly
  /\ \A p \in Procs : \A i \in Branches(p) :
       \/ Guards[p][i].type = "skip"
       \/ Guards[p][i].type \in {"chanin", "chanout"} /\ Guards[p][i].ch \in Chans
  /\ \A p, q \in Procs : \A i \in Branches(p), j \in Branches(q) :
       Guards[p][i].type # "skip" /\ Guards[q][j].type # "skip" /\ Guards[p][i].ch = Guards[q][j].ch =>
         IF Guards[p][i].type = Guards[q][j].type THEN p = q /\ i = j ELSE p # q
  /\ \A c \in Chans : \E p \in Procs : \E i \in Branches(p) :
       Guards[p][i] = [type |-> "chanout", ch |-> c]

\* A process has one Timeout (timer.h), so its ALT has at most one guard for it.
OneTimeout ==
  \A p \in Procs : \A i, j \in Branches(p) :
    Guards[p][i].type = "timeout" /\ Guards[p][j].type = "timeout" => i = j

\* Orderly applications in which an interrupt feeds one guard, and only the
\* process with this guard connects it (connect_interrupt_to_channel() forgets
\* who waits in the channel), as in userintr.c.
Wired ==
  /\ Orderly
  /\ \A p, q \in Procs : \A i \in Branches(p), j \in Branches(q) :
       /\ Guards[p][i].type = "interrupt" /\ Guards[q][j].type = "interrupt"
       /\ Guards[p][i].ch = Guards[q][j].ch
       => p = q /\ i = j
  /\ \A p \in Procs : \A s \in -1 .. NrGuards[p] - 1 : \A a \in Program[p][s] :
       \A u \in a.connect : \E i \in Branches(p) : Guards[p][i] = [type |-> "interrupt", ch |-> u]

\* Of these, the applications that only react to interrupts and timeouts: no
\* guard is of a channel (userintr.c is one).
Reactive ==
  /\ Wired /\ OneTimeout
  /\ \A p \in Procs : \A i \in Branches(p) : Guards[p][i].type \in {"skip", "timeout", "interrupt"}

\* start() is still putting p on its queue.
Starting(p) == \E n \in Frames : stack[n].fn = "start" /\ stack[n].partner = p

\* The ready queues lose nobody (append(), take(), start()): a process that is
\* new or ready, and not on the CPU, can be reached from its queue's head.
NoLostProcess ==
  \A p \in Procs :
    state[p] \in {"initial", "ready"} /\ ~OnCpu(p) /\ ~Starting(p) => p \in Listed(PriOf(p))

\* p has its ready queue to itself.
OwnQueue(p) == \A q \in Procs : PriOf(q) = PriOf(p) => q = p

\* main() starts no process twice.
StartsOnce == \A m, n \in 1 .. Len(MainStarts) : MainStarts[m] = MainStarts[n] => m = n

\* readyProcessIfNecessary(q) is called.
Readies(q) ==
  \/ At("partner") /\ Top.partner = q
  \/ At("user") /\ Top.src \in connected /\ ichan[Top.src].waiting = q
  \/ At("due") /\ Due /\ timerQ[1].proc = q

\* What append() relies on, where processes share a queue: the process is not
\* in the queue already, or alone there, and no append() of start() to this
\* queue has been interrupted.
AppendsProperly ==
  /\ \A q \in Procs : Readies(q) /\ state[q] # "enabling" /\ ~OwnQueue(q) =>
       /\ q \in Listed(PriOf(q)) => Listed(PriOf(q)) = {q}
       /\ \A p \in Procs : Starting(p) => PriOf(p) # PriOf(q)
  /\ \A p, q \in Procs : Starting(p) /\ Starting(q) /\ PriOf(p) = PriOf(q) => p = q

\* Guard i of p's ALT could be selected now.
GuardReady(p, i) ==
  LET g == Guards[p][i]
  IN  \/ g.type = "chanin"    /\ chan[g.ch].waiting = Sender(g.ch)
      \/ g.type = "chanout"   /\ got[g.ch] # sent[g.ch]
      \/ g.type = "skip"
      \/ g.type = "timeout"   /\ now >= timeout[p].time
      \/ g.type = "interrupt" /\ ichan[g.ch].count > 0

\* No wakeup falls between enable_alt() and the wait (the point of the state
\* PROC_ENABLING): a process that waits off the CPU has no ready channel or
\* interrupt guard, unless its partner is about to wake it.
NoLostWakeup ==
  \A p \in Procs :
    state[p] = "waiting" /\ ~OnCpu(p) /\ ~WakePending(p) =>
      \A i \in active[p] : Guards[p][i].type # "timeout" => ~GuardReady(p, i)

\* The same for interrupts and SKIPs, without exception, whatever channels the
\* process waits for as well (enable_interrupt_channel(), user_interrupt_handler()).
NoLostInterrupt ==
  \A p \in Procs :
    state[p] = "waiting" =>
      \A i \in active[p] : Guards[p][i].type \in {"skip", "interrupt"} => ~GuardReady(p, i)

\* disable_alt() selects an active branch that is ready.
SelectsReady ==
  fault = "none" /\ Top.pc = "disable" /\ Top.k < 0 =>
    LET s == alt[Top.proc].index
    IN  s \in active[Top.proc] /\ GuardReady(Top.proc, s)

\* Unless the process was woken for a timeout whose time has come, which
\* disable_timeout() did not see because Now() misses the tick that is pending.
SelectsReadyOrDue ==
  fault = "none" /\ Top.pc = "disable" /\ Top.k < 0 =>
    LET p == Top.proc
        s == alt[p].index
    IN  \/ s \in active[p] /\ GuardReady(p, s)
        \/ \E i \in active[p] : Guards[p][i].type = "timeout" /\ GuardReady(p, i)

\* Preemption (readyProcessIfNecessary(), handle_signal()): while the code of
\* a process runs with interrupts enabled, nobody of higher priority is ready.
NoInversion ==
  fault = "none" /\ intr /\ Top.fn = "schedule" /\ Top.proc # NoProc =>
    highest_ready(rq.mask) <= PriOf(Top.proc)

\* An entry of the timeout queue belongs to an ALT in progress, the queue is
\* in time order, and a process has at most one entry (timer.c).
TimerQueueExact ==
  /\ \A n \in 1 .. Len(timerQ) : state[timerQ[n].proc] \in {"enabling", "waiting", "ready"}
  /\ \A m, n \in 1 .. Len(timerQ) :
       m < n => timerQ[m].time <= timerQ[n].time /\ timerQ[m].proc # timerQ[n].proc

\* The processes that are new or ready can be taken: highest_ready() names a
\* level whose queue still has a process when take() is called (schedule()).
HeadToTake ==
  fault = "none" /\ Top.pc = "take" => rq.head[Top.k] # NoProc

\* No process dies of a division by zero in plus1_mod() or minus1_mod().
NoDivisionByZero == fault # "divide"

\* disable_alt() returns a partner only "if the selected branch is an input":
\* a process about to run its RTC code wakes nobody but the writer of the
\* message it has just taken.
PartnerIsWriter ==
  fault = "none" /\ Top.pc = "partner" /\ Top.flag /\ Top.partner # NoProc =>
    LET g == GuardOf(Top.proc, alt[Top.proc].index)
    IN  g.type = "chanin" /\ Top.partner = Sender(g.ch)

\* A process record that was released is on no ready queue, no queue still
\* names it as its tail, to be written through by the next append(), no channel
\* as the process that waits, and nobody is about to wake it (release_mem() at
\* the end of schedule()'s loop).
ReleasedOffQueue ==
  \A p \in freed :
    /\ p \notin Listed(PriOf(p)) /\ rq.tail[PriOf(p)] # p
    /\ \A c \in Chans : chan[c].waiting # p
    /\ ~WakePending(p)

\* The phase of each channel in the rendezvous protocol: `sent' and `got'
\* count the writer's and the reader's completed operations.
Phase ==
  [c \in Chans |->
     LET d == (got[c] - sent[c]) % MsgMod
     IN  CASE d = 0 -> IF chan[c].waiting = Sender(c) THEN "offered" ELSE "idle"
           [] d = 1 -> "taken"
           [] OTHER -> "broken"]

Channels == INSTANCE Rendezvous WITH phase <- Phase

\* Channels are synchronous rendezvous (enable_channel_output(),
\* disable_channel_input(), the transfer in disable_alt(), the resumption of
\* the writer in schedule()).
ImplementsRendezvous == Channels!Spec

-----------------------------------------------------------------------------
\* Liveness.

\* The guard that reads channel c is active.
Listens(c) ==
  \E p \in Procs : \E i \in active[p] \cap Branches(p) : Guards[p][i] = [type |-> "chanin", ch |-> c]

\* The fair ALT (init_alt(), the rotating start of enable_alt()) starves no
\* writer: an offer for which the reader listens again and again is taken,
\* whatever else the reader may listen for.
OfferTaken ==
  \A c \in Chans :
    []<>(Phase[c] = "offered" /\ Listens(c)) => []<>(Phase[c] = "taken")

\* An interrupt that was counted is handed to its process.
InterruptServed == \A u \in Intrs : ichan[u].count > 0 ~> ichan[u].count = 0

\* A process waiting only for a timeout is woken once the clock passes it.
TimeoutServed ==
  \A p \in Procs :
    state[p] = "waiting" /\ (\A i \in active[p] : Guards[p][i].type = "timeout")
      /\ timeout[p].time <= MaxTime
    ~> state[p] # "waiting"
=============================================================================
