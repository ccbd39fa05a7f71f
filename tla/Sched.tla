------------------------------- MODULE Sched -------------------------------
(***************************************************************************)
(* The microcsp kernel: the scheduler, alternation, channels, interrupt    *)
(* channels and timeout guards of sched.c, with the interrupt entry of     *)
(* hardware.c and the timeout interrupt of timer.c.                        *)
(*                                                                         *)
(* There is one CPU.  What it executes is a stack of C activations: main() *)
(* at the bottom, then activations of schedule() and of the signal handler *)
(* on top of each other.  The top frame runs; an interrupt pushes a        *)
(* handler whenever `intr' is TRUE (between ENABLE and DISABLE).  A step   *)
(* is a section in which the code has interrupts disabled, or the code     *)
(* between two such sections.                                              *)
(***************************************************************************)
EXTENDS ReadyQueue, TimerQueue, FiniteSets

CONSTANTS
  Chans,       \* channels
  Intrs,       \* user interrupts, each with the interrupt channel it may feed
  None,        \* no channel, no interrupt
  NrGuards,    \* number of guards in each process's ALT
  Guards,      \* Guards[p][i] : guard i (from 0) of process p's ALT
  AltPri,      \* processes that use init_alt_pri instead of init_alt
  Program,     \* Program[p][s] : what the RTC code of p may do when it runs
               \*   with selected() = s, and with s = -1 for initial()
  MainStarts,  \* the processes main() starts, in order
  EarlyIntr,   \* may a signal arrive before run() has taken a process?
  Tick,        \* units of time in a tick of the elapsed time timer
  MaxTime,     \* bound: the clock stops here; 0 if nobody reads it
  MaxReturning, \* bound: no signal is delivered on top of so many handlers
               \*   that are returning, except a tick of the clock
  MaxCount,    \* bound: interrupts pending in an interrupt channel
  MsgMod       \* bound: messages of a channel are numbered modulo this

\* A guard has a type, and the channel that it is about.
GuardSet ==
  [type : {"chanin", "chanout"}, ch : Chans] \cup [type : {"interrupt"}, ch : Intrs]
    \cup [type : {"skip", "timeout"}, ch : {None}]

Branches(p) == 0 .. NrGuards[p] - 1

\* One run of a process's RTC code, by the kernel calls it makes.
Acts ==
  [alt        : BOOLEAN,                \* init_alt() or init_alt_pri()
   active     : SUBSET (0 .. 255),      \* guards left active (set_active)
   start      : Procs \cup {NoProc},    \* START of another process
   send       : Intrs \cup {None},      \* send_software_interrupt()
   connect    : SUBSET Intrs,           \* connect_interrupt_to_channel()
   disconnect : SUBSET Intrs,
   delay      : Nat,                    \* init_timeout_guard(Now()+delay) if > 0
   term       : BOOLEAN]                \* terminate()

NoAct == [alt |-> FALSE, active |-> {}, start |-> NoProc, send |-> None,
          connect |-> {}, disconnect |-> {}, delay |-> 0, term |-> FALSE]

\* A run of RTC code leaves only guards of its ALT active, and does not both
\* start a process and send an interrupt.
ASSUME ApplicationAssumption ==
  /\ NrGuards \in [Procs -> 0 .. 255]
  /\ None \notin Chans \cup Intrs
  /\ AltPri \subseteq Procs
  /\ MainStarts \in Seq(Procs)
  /\ EarlyIntr \in BOOLEAN
  /\ MaxTime \in Nat /\ MaxCount \in Nat /\ MsgMod \in Nat \ {0, 1}
  /\ Tick \in Nat \ {0} /\ MaxReturning \in Nat \ {0}
  /\ \A p \in Procs : \A i \in Branches(p) : Guards[p][i] \in GuardSet
  /\ \A p \in Procs : \A s \in -1 .. NrGuards[p] - 1 :
       /\ Program[p][s] \subseteq Acts
       /\ \A a \in Program[p][s] : a.active \subseteq Branches(p) /\ (a.start = NoProc \/ a.send = None)

VARIABLES
  rq,         \* the ready queues
  state,      \* scheduling state of each process record
  alt,        \* Alternation record of each process
  active,     \* the active guards of each process
  current,    \* the process the kernel believes is executing
  freed,      \* process records given back with release_mem()
  chan,       \* channels: who waits, and whose buffer `src' points to
  ichan,      \* interrupt channels: who waits, and the interrupt count
  connected,  \* interrupts with an entry in channel_for_interrupt
  sent, got,  \* per channel, outputs and inputs completed, modulo MsgMod
  now,        \* the time that has passed
  currentTime, \* the time counted by handle_elapsed_time_interrupt()
  phase,      \* the time since the elapsed time timer last expired
  tick,       \* its signal is pending
  timeout,    \* the Timeout of each process: expiry time and process
  timerQ,     \* the timeout queue
  alarm,      \* when the timeout timer expires; NoTime when it is not set
  pend,       \* the timeout signal is pending
  intr,       \* interrupts (the RT signals) are enabled
  handlers,   \* activeHandlers
  stack,      \* the activations in progress, outermost first
  returning,  \* handlers that have restored the signal mask but not returned:
              \*   for each, the length of the stack that it returns to
  fault       \* how the program died, or "none"

procVars == <<rq, state, current, freed>>
altVars  == <<alt, active>>
ioVars   == <<chan, ichan, connected, sent, got>>
timeVars == <<now, timeout, timerQ, alarm, pend>>
tickVars == <<currentTime, phase, tick>>
hwVars   == <<tickVars, returning>>
cpuVars  == <<intr, handlers, stack, fault>>
vars     == <<procVars, altVars, ioVars, timeVars, cpuVars, hwVars>>

NoTime == -1

-----------------------------------------------------------------------------
\* Activations.  `flag' is enable_alt()'s `ready' and then schedule()'s
\* `execute'; i and k are the loop variables of enable_alt() and
\* disable_alt(), k also the level chosen by highest_ready(); `time' is the
\* handler's copy of Now().

Frame(fn, pc, base, src) ==
  [fn |-> fn, pc |-> pc, base |-> base, src |-> src,
   proc |-> NoProc, partner |-> NoProc, prev |-> NoProc,
   i |-> 0, k |-> 0, flag |-> FALSE, time |-> 0, act |-> NoAct]

\* Mutant: the loop of schedule() returns only below its base priority.
ScheduleFrame_Lower(base) == Frame("schedule", "select", base - 1, None)

ScheduleFrame(base) == Frame("schedule", "select", base, None)

\* handle_elapsed_time_interrupt() only counts ticks (Timer component).
HandlerFrame(src) ==
  Frame("handler", IF src = "elapsed" THEN "exit"
                   ELSE IF src = "timeout" THEN "timeout" ELSE "user", 0, src)

\* start() of process p, its partner, at the call of append().
StartFrame(p) == [Frame("start", "link", 0, None) EXCEPT !.partner = p]

Top == stack[Len(stack)]

\* run() has taken its first process.  The first tick comes a second after
\* initialize(); with EarlyIntr = FALSE start-up is faster than that.
Booted ==
  \/ Len(stack) > 1 /\ stack[2].proc # NoProc
  \/ \E p \in Procs : state[p] \notin {"unstarted", "initial"}

\* A tick that can be delivered is, before the CPU executes anything else.
TickDue == tick /\ intr /\ (EarlyIntr \/ Booted)

\* The activation on top is one that a handler is about to return to.
Returning == returning # << >> /\ returning[Len(returning)] = Len(stack)

\* The activation on top executes, and stands at pc.
At(pc) == fault = "none" /\ ~TickDue /\ ~Returning /\ Top.pc = pc

Goto(f)    == stack' = [stack EXCEPT ![Len(stack)] = f]
Call(f, g) == stack' = Append([stack EXCEPT ![Len(stack)] = f], g)
Return     == stack' = SubSeq(stack, 1, Len(stack) - 1)

Crash(why) == /\ fault' = why
              /\ UNCHANGED <<procVars, altVars, ioVars, timeVars, intr, handlers, stack, hwVars>>

\* The process whose local variables hold the guards that p's Alternation
\* record points to, and the guard there.
GuardOf(p, i) == Guards[alt[p].guards][i]
IsActive(p, i) == i \in active[alt[p].guards]
Size(p) == IF alt[p].guards = NoProc THEN 0 ELSE NrGuards[alt[p].guards]

plus1_mod(i, m)  == (i + 1) % m
minus1_mod(i, m) == (i - 1 + m) % m

\* What Now() returns where interrupts are disabled, and where they are enabled
\* and no tick is pending (the Clock component has its reads one by one).
Now == currentTime + phase

\* Where an activation of each function stands, between its steps.
MainPcs     == {"main", "returned"}
SchedulePcs == {"select", "take", "load", "idle", "begin", "enable", "insert", "enabled",
                "disable", "partner", "partnerRet", "rtc", "rtcRest", "finish"}
StartPcs    == {"link", "tail", "next", "head"}
HandlerPcs  == {"user", "userRet", "timeout", "due", "dueRet", "exit", "leave"}

TypeOK ==
  /\ rq \in QueueType
  /\ state \in [Records -> {"unstarted", "initial", "quiescent", "enabling",
                            "waiting", "ready", "done"}]
  /\ alt \in [Records -> [guards : Procs \cup {NoProc}, index : Int, count : Int]]
  /\ active \in [Procs -> SUBSET Nat]
  /\ current \in Records
  /\ freed \subseteq Procs
  /\ chan \in [Chans -> [waiting : Records \cup {NoProc}, src : Procs \cup {NoProc}]]
  /\ ichan \in [Intrs -> [waiting : Records \cup {NoProc}, count : Nat]]
  /\ connected \subseteq Intrs
  /\ sent \in [Chans -> 0 .. MsgMod - 1] /\ got \in [Chans -> 0 .. MsgMod - 1]
  /\ now \in Nat /\ alarm \in Int /\ pend \in BOOLEAN
  /\ currentTime \in Nat /\ phase \in Nat /\ tick \in BOOLEAN
  /\ timeout \in [Procs -> [time : Nat, proc : Records \cup {NoProc}]]
  /\ timerQ \in Seq([time : Nat, proc : Records \cup {NoProc}])
  /\ intr \in BOOLEAN /\ handlers \in Nat
  /\ fault \in {"none", "null", "divide", "exit"}
  /\ stack \in Seq([fn : {"main", "schedule", "start", "handler"},
                    pc : MainPcs \cup SchedulePcs \cup StartPcs \cup HandlerPcs,
                    base : Int, src : Intrs \cup {None, "elapsed", "timeout"},
                    proc : Records \cup {NoProc}, partner : Records \cup {NoProc},
                    prev : Records \cup {NoProc}, i : Int, k : Int,
                    flag : BOOLEAN, time : Nat, act : Acts])
  /\ stack # << >>
  /\ returning \in Seq(Nat)

\* After initialize(): the idle process is current and queued, and interrupts
\* are enabled because start_idle() allocated its record with allocate_mem().
Init ==
  /\ rq = append(EmptyQueues, Idle)
  /\ state = [p \in Records |-> IF p = Idle THEN "initial" ELSE "unstarted"]
  /\ alt = [p \in Records |-> [guards |-> NoProc, index |-> 0, count |-> 0]]
  /\ active = [p \in Procs |-> {}]
  /\ current = Idle
  /\ freed = {}
  /\ chan = [c \in Chans |-> [waiting |-> NoProc, src |-> NoProc]]
  /\ ichan = [u \in Intrs |-> [waiting |-> NoProc, count |-> 0]]
  /\ connected = {}
  /\ sent = [c \in Chans |-> 0] /\ got = [c \in Chans |-> 0]
  /\ now = 0
  /\ currentTime = 0 /\ phase = 0 /\ tick = FALSE
  /\ timeout = [p \in Procs |-> [time |-> 0, proc |-> NoProc]]
  /\ timerQ = << >>
  /\ alarm = NoTime
  /\ pend = FALSE
  /\ intr = TRUE
  /\ handlers = 0
  /\ stack = <<Frame("main", "main", 0, None)>>
  /\ returning = << >>
  /\ fault = "none"

-----------------------------------------------------------------------------
\* Mutant: the process is appended, and waits for the running one to give way.
readyProcessIfNecessary_NoPreempt(q, f) ==
  /\ state' = [state EXCEPT ![q] = "ready"]
  /\ Goto(f)
  /\ IF state[q] = "enabling" THEN UNCHANGED rq ELSE rq' = append(rq, q)

\* readyProcessIfNecessary(), called by frame f (its pc already the return
\* point).  Line 852 assigns PROC_WAITING instead of testing for it, so every
\* process that is not enabling is appended, whatever its state.
readyProcessIfNecessary(q, f) ==
  /\ state' = [state EXCEPT ![q] = "ready"]
  /\ \/ /\ state[q] = "enabling"
        /\ Goto(f)
        /\ UNCHANGED rq
     \/ /\ state[q] # "enabling"
        /\ rq' = append(rq, q)
        /\ IF PriOf(q) > PriOf(current)
           THEN Call([f EXCEPT !.prev = current], ScheduleFrame(PriOf(current)))
           ELSE Goto(f)

\* Mutants: `current' is not restored, or is restored when nothing was saved.
Restored_Current == current
Restored_Unconditional == Top.prev

\* Its return: `current' is restored if schedule() was called.
Restored == IF Top.prev = NoProc THEN current ELSE Top.prev

\* The record of p can be allocated: never used, or released.
Startable(p) == p \in Procs /\ (state[p] = "unstarted" \/ p \in freed)

\* start(), called by frame f, up to its call of append(): the record and the
\* process's variables are as new.  allocate_mem() has enabled interrupts.
start(p, f) ==
  /\ Call(f, StartFrame(p))
  /\ state' = [state EXCEPT ![p] = "initial"]
  /\ rq' = [rq EXCEPT !.next[p] = NoProc]
  /\ freed' = freed \ {p}
  /\ alt' = [alt EXCEPT ![p].guards = NoProc, ![p].count = 0]
  /\ active' = [active EXCEPT ![p] = {}]
  /\ timeout' = [timeout EXCEPT ![p] = [time |-> 0, proc |-> NoProc]]
  /\ intr' = TRUE

\* The assignments of append() in start(), which can be interrupted between
\* any two of them.
AppendStep(pc, q) ==
  /\ At(pc)
  /\ rq' = q
  /\ UNCHANGED <<state, current, freed, altVars, ioVars, timeVars, intr, handlers, fault, hwVars>>

Oldest == rq.tail[PriOf(Top.partner)]

\* Mutant: the old tail is not linked to the process appended.
AppendLink_NoLink ==
  /\ AppendStep("link", rq)
  /\ Goto([Top EXCEPT !.pc = "tail"])

AppendLink ==
  /\ AppendStep("link", IF Oldest = NoProc THEN rq ELSE [rq EXCEPT !.next[Oldest] = Top.partner])
  /\ Goto([Top EXCEPT !.pc = "tail"])

AppendTail ==
  /\ AppendStep("tail", [rq EXCEPT !.tail[PriOf(Top.partner)] = Top.partner])
  /\ Goto([Top EXCEPT !.pc = "next"])

AppendNext ==
  /\ AppendStep("next", [rq EXCEPT !.next[Top.partner] = NoProc])
  /\ Goto([Top EXCEPT !.pc = "head"])

AppendHead ==
  /\ LET l == PriOf(Top.partner)
     IN  AppendStep("head", IF rq.head[l] # NoProc THEN rq
                            ELSE [rq EXCEPT !.head[l] = Top.partner, !.mask = @ \cup {l}])
  /\ Return

-----------------------------------------------------------------------------
\* main(): START of each process, then run().

MainStart ==
  /\ At("main")
  /\ Top.k < Len(MainStarts)
  /\ start(MainStarts[Top.k + 1], [Top EXCEPT !.k = @ + 1])
  /\ UNCHANGED <<current, ioVars, now, timerQ, alarm, pend, handlers, fault, hwVars>>

MainRun ==
  /\ At("main")
  /\ Top.k = Len(MainStarts)
  /\ Call([Top EXCEPT !.pc = "returned"], ScheduleFrame(PRI_MIN - 1))
  /\ UNCHANGED <<procVars, altVars, ioVars, timeVars, intr, handlers, fault, hwVars>>

-----------------------------------------------------------------------------
\* schedule(): choosing a process.

SelectSame ==
  /\ At("select")
  /\ Top.proc # NoProc
  /\ Goto([Top EXCEPT !.pc = "load"])
  /\ UNCHANGED <<procVars, altVars, ioVars, timeVars, intr, handlers, fault, hwVars>>

SelectNone ==
  /\ At("select")
  /\ Top.proc = NoProc
  /\ highest_ready(rq.mask) <= Top.base
  /\ Return
  /\ UNCHANGED <<procVars, altVars, ioVars, timeVars, intr, handlers, fault, hwVars>>

SelectNew ==
  /\ At("select")
  /\ Top.proc = NoProc
  /\ highest_ready(rq.mask) > Top.base
  /\ Goto([Top EXCEPT !.pc = "take", !.k = highest_ready(rq.mask)])
  /\ UNCHANGED <<procVars, altVars, ioVars, timeVars, intr, handlers, fault, hwVars>>

\* An empty list at the chosen level would be a NULL dereference.
Take ==
  /\ At("take")
  /\ LET p == rq.head[Top.k]
     IN  IF p = NoProc THEN Crash("null")
         ELSE /\ current' = p
              /\ rq' = take(rq, Top.k)
              /\ Goto([Top EXCEPT !.pc = "load", !.proc = p, !.k = 0])
              /\ UNCHANGED <<state, freed, altVars, ioVars, timeVars, intr, handlers, fault, hwVars>>

\* ENABLE, then the branch on proc->state; a process that is neither new,
\* quiescent nor ready falls through to the end of the loop.
Load ==
  /\ At("load")
  /\ LET p == Top.proc
         f == [Top EXCEPT !.flag = FALSE]
     IN  Goto(CASE p = Idle -> [f EXCEPT !.pc = "idle"]
                [] p # Idle /\ state[p] = "initial" -> [f EXCEPT !.pc = "rtc"]
                [] p # Idle /\ state[p] = "quiescent" -> [f EXCEPT !.pc = "begin"]
                [] p # Idle /\ state[p] = "ready" -> [f EXCEPT !.pc = "disable",
                                                                !.i = alt[p].index,
                                                                !.k = alt[p].count]
                [] OTHER -> [f EXCEPT !.pc = "finish"])
  /\ intr' = TRUE
  /\ UNCHANGED <<procVars, altVars, ioVars, timeVars, handlers, fault, hwVars>>

\* The end of the loop: a finished process gives its record back (the free
\* list is linked through the field that holds `next', and release_mem() ends
\* with ENABLE), a waiting process gives up the CPU, any other keeps it.
Finish ==
  /\ At("finish")
  /\ LET p == Top.proc
     IN  \/ /\ state[p] = "done"
            /\ freed' = freed \cup {p}
            /\ rq' = [rq EXCEPT !.next[p] = IF p \in freed THEN p ELSE NoProc]
            /\ intr' = TRUE
            /\ Goto([Top EXCEPT !.pc = "select", !.proc = NoProc])
         \/ /\ state[p] # "done"
            /\ intr' = FALSE
            /\ Goto([Top EXCEPT !.pc = "select",
                                !.proc = IF state[p] = "waiting" THEN NoProc ELSE p])
            /\ UNCHANGED <<rq, freed>>
  /\ UNCHANGED <<state, current, altVars, ioVars, timeVars, handlers, fault, hwVars>>

-----------------------------------------------------------------------------
\* The RTC code of a process, called for the first time (flag FALSE) or with
\* a branch selected (flag TRUE).  initial(), selected(), init_alt(),
\* init_timeout_guard() and terminate() all work on `current'.

Selected == IF state[current] = "initial" THEN -1 ELSE alt[current].index

\* Up to the call that can be interrupted in the middle of the RTC code: START
\* of another process, or a software interrupt (the signal is unblocked, so
\* kill() delivers it at once).
RtcEnter ==
  /\ At("rtc")
  /\ LET p == Top.proc
         s == Selected
         known == s \in -1 .. NrGuards[p] - 1
     IN  /\ sent' = IF known /\ s >= 0 /\ Guards[p][s].type = "chanout"
                    THEN [sent EXCEPT ![Guards[p][s].ch] = plus1_mod(@, MsgMod)]
                    ELSE sent
         /\ \E act \in IF known THEN Program[p][s] ELSE {[NoAct EXCEPT !.active = active[p]]} :
              LET f == [Top EXCEPT !.pc = "rtcRest", !.act = act]
              IN  \/ /\ Startable(act.start)
                     /\ start(act.start, f)
                     /\ UNCHANGED handlers
                  \/ /\ ~Startable(act.start)
                     /\ IF act.send = None
                        THEN Goto(f) /\ UNCHANGED <<intr, handlers>>
                        ELSE /\ Call(f, HandlerFrame(act.send))
                             /\ intr' = FALSE
                             /\ handlers' = handlers + 1
                     /\ UNCHANGED <<state, rq, freed, altVars, timeout>>
  /\ UNCHANGED <<current, chan, ichan, connected, got, now, timerQ, alarm, pend, fault, hwVars>>

\* The rest of the RTC code.  After the first call schedule() sets the state
\* to quiescent unconditionally.
RtcRest ==
  /\ At("rtcRest")
  /\ LET p == Top.proc
         act == Top.act
     IN  /\ active' = [active EXCEPT ![p] = act.active]
         /\ alt' = IF ~act.alt THEN alt
                   ELSE [alt EXCEPT ![current].guards = p,
                                    ![current].index = IF p \in AltPri THEN @ ELSE NrGuards[p] - 1]
         /\ timeout' = IF act.delay = 0 THEN timeout
                       ELSE [timeout EXCEPT ![p] = [time |-> Now + act.delay, proc |-> current]]
         /\ ichan' = [u \in Intrs |-> IF u \in act.connect
                                      THEN [waiting |-> NoProc, count |-> 0] ELSE ichan[u]]
         /\ connected' = (connected \cup act.connect) \ act.disconnect
         /\ LET ended == IF act.term THEN [state EXCEPT ![current] = "done"] ELSE state
            IN  state' = IF Top.flag THEN ended ELSE [ended EXCEPT ![p] = "quiescent"]
         /\ Goto([Top EXCEPT !.pc = "finish", !.act = NoAct])
  /\ UNCHANGED <<rq, current, freed, chan, sent, got, now, timerQ, alarm, pend, intr, handlers, fault, hwVars>>

-----------------------------------------------------------------------------
\* enable_alt(), called with interrupts enabled.  Each guard is enabled in a
\* section of its own; a ready guard leaves the loop with interrupts disabled.

Owner(p) == alt[p].guards
ActiveGuards(p) == {i \in Branches(Owner(p)) : IsActive(p, i)}
ActiveOutput(p) == \E i \in ActiveGuards(p) : GuardOf(p, i).type = "chanout"

\* The loop's step to the next guard, and its exit on a ready guard.
NextGuard(f) == [f EXCEPT !.k = @ + 1, !.i = plus1_mod(@, Size(f.proc))]
Ready(f)     == [f EXCEPT !.pc = "enabled", !.flag = TRUE]

\* With no guards the `%' of plus1_mod() or minus1_mod() divides by zero.
EnableBegin ==
  /\ At("begin")
  /\ LET p == Top.proc
     IN  IF Size(p) = 0 THEN Crash("divide")
         ELSE IF ActiveOutput(p) /\ Cardinality(ActiveGuards(p)) > 1 THEN Crash("exit")
         ELSE /\ state' = [state EXCEPT ![p] = "enabling"]
              /\ Goto([Top EXCEPT !.pc = "enable", !.partner = NoProc, !.k = 0,
                                  !.i = IF Owner(p) \in AltPri THEN 0
                                        ELSE plus1_mod(alt[p].index, Size(p))])
              /\ UNCHANGED <<rq, current, freed, altVars, ioVars, timeVars,
                             intr, handlers, fault, hwVars>>

\* Guard g, active, is next in the loop of enable_alt().
Enabling(type) ==
  /\ At("enable")
  /\ Top.k < Size(Top.proc)
  /\ IsActive(Top.proc, Top.i)
  /\ GuardOf(Top.proc, Top.i).type = type

EnableInactive ==
  /\ At("enable")
  /\ Top.k < Size(Top.proc)
  /\ ~IsActive(Top.proc, Top.i)
  /\ Goto(NextGuard(Top))
  /\ UNCHANGED <<procVars, altVars, ioVars, timeVars, intr, handlers, fault, hwVars>>

\* enable_channel_input(): wait in an empty channel, or find the outputter.
EnableChanIn ==
  /\ Enabling("chanin")
  /\ LET c == GuardOf(Top.proc, Top.i).ch
         w == chan[c].waiting
     IN  \/ /\ w \in {NoProc, current}
            /\ chan' = [chan EXCEPT ![c].waiting = current]
            /\ Goto(NextGuard(Top))
            /\ intr' = TRUE
         \/ /\ w \notin {NoProc, current}
            /\ Goto(Ready([Top EXCEPT !.partner = w]))
            /\ intr' = FALSE
            /\ UNCHANGED chan
  /\ UNCHANGED <<procVars, altVars, ichan, connected, sent, got, timeVars, handlers, fault, hwVars>>

\* Mutant: the inputter that waits in the channel is forgotten.
EnableChanOut_NoPartner ==
  /\ Enabling("chanout")
  /\ chan' = [chan EXCEPT ![GuardOf(Top.proc, Top.i).ch] =
                          [waiting |-> current, src |-> Owner(Top.proc)]]
  /\ Goto(NextGuard(Top))
  /\ intr' = TRUE
  /\ UNCHANGED <<procVars, altVars, ichan, connected, sent, got, timeVars, handlers, fault, hwVars>>

\* enable_channel_output(): never ready at once, the inputter is the partner.
EnableChanOut ==
  /\ Enabling("chanout")
  /\ LET c == GuardOf(Top.proc, Top.i).ch
     IN  /\ chan' = [chan EXCEPT ![c] = [waiting |-> current, src |-> Owner(Top.proc)]]
         /\ Goto(NextGuard([Top EXCEPT !.partner = chan[c].waiting]))
  /\ intr' = TRUE
  /\ UNCHANGED <<procVars, altVars, ichan, connected, sent, got, timeVars, handlers, fault, hwVars>>

EnableSkip ==
  /\ Enabling("skip")
  /\ Goto(Ready(Top))
  /\ intr' = FALSE
  /\ UNCHANGED <<procVars, altVars, ioVars, timeVars, handlers, fault, hwVars>>

\* enable_timeout() reads the clock; if the time has not come insertInQueue()
\* reads it again, a step later.
EnableTimeout ==
  /\ Enabling("timeout")
  /\ ~intr
  /\ Goto(IF Now >= timeout[Owner(Top.proc)].time THEN Ready(Top)
          ELSE [Top EXCEPT !.pc = "insert"])
  /\ intr' = FALSE
  /\ UNCHANGED <<procVars, altVars, ioVars, timeVars, handlers, fault, hwVars>>

\* set_timer_single() with a time minus a reading of Now(): an interval of zero
\* disarms the timer, and Time is unsigned, so a negative difference is an
\* interval of centuries.
Armed(time, read) == IF time > read THEN now + (time - read) ELSE NoTime

EnableInsert ==
  /\ At("insert")
  /\ LET t == timeout[Owner(Top.proc)]
     IN  /\ timerQ' = insertInQueue(timerQ, t)
         /\ alarm' = IF insertAt(timerQ, t) = 0 THEN Armed(t.time, Now) ELSE alarm
  /\ Goto(NextGuard([Top EXCEPT !.pc = "enable"]))
  /\ intr' = TRUE
  /\ UNCHANGED <<procVars, altVars, ioVars, now, timeout, pend, handlers, fault, hwVars>>

\* Mutant: an interrupt that is already counted is not noticed.
EnableIntr_NoCheck ==
  /\ Enabling("interrupt")
  /\ ichan' = [ichan EXCEPT ![GuardOf(Top.proc, Top.i).ch].waiting = current]
  /\ Goto(NextGuard(Top))
  /\ intr' = FALSE
  /\ UNCHANGED <<procVars, altVars, chan, connected, sent, got, timeVars, handlers, fault, hwVars>>

\* enable_interrupt_channel(); this case of the switch has no ENABLE.
EnableIntr ==
  /\ Enabling("interrupt")
  /\ LET u == GuardOf(Top.proc, Top.i).ch
     IN  IF ichan[u].count = 0
         THEN /\ ichan' = [ichan EXCEPT ![u].waiting = current]
              /\ Goto(NextGuard(Top))
         ELSE /\ Goto(Ready(Top))
              /\ UNCHANGED ichan
  /\ intr' = FALSE
  /\ UNCHANGED <<procVars, altVars, chan, connected, sent, got, timeVars, handlers, fault, hwVars>>

EnableEnd ==
  /\ At("enable")
  /\ Top.k = Size(Top.proc)
  /\ Goto([Top EXCEPT !.pc = "enabled", !.k = @ - 1, !.i = minus1_mod(@, Size(Top.proc))])
  /\ intr' = FALSE
  /\ UNCHANGED <<procVars, altVars, ioVars, timeVars, handlers, fault, hwVars>>

\* Mutant: schedule() overwrites a state that a partner has set to ready.
EnableDone_NoRecheck ==
  /\ At("enabled")
  /\ LET p == Top.proc
         s == IF Top.flag THEN "ready" ELSE "waiting"
     IN  /\ alt' = [alt EXCEPT ![p].index = Top.i, ![p].count = Top.k]
         /\ state' = [state EXCEPT ![p] = s]
         /\ Goto(IF s = "ready" THEN [Top EXCEPT !.pc = "disable", !.partner = NoProc]
                 ELSE [Top EXCEPT !.pc = "partner", !.flag = FALSE])
  /\ intr' = TRUE
  /\ UNCHANGED <<rq, current, freed, active, ioVars, timeVars, handlers, fault, hwVars>>

\* The end of enable_alt() and schedule()'s decision, interrupts disabled.  A
\* partner may have made the process ready while it was enabling.
EnableDone ==
  /\ At("enabled")
  /\ LET p == Top.proc
         s == IF state[p] # "enabling" THEN state[p]
              ELSE IF Top.flag THEN "ready" ELSE "waiting"
     IN  /\ alt' = [alt EXCEPT ![p].index = Top.i, ![p].count = Top.k]
         /\ state' = [state EXCEPT ![p] = s]
         /\ Goto(IF s = "ready" THEN [Top EXCEPT !.pc = "disable", !.partner = NoProc]
                 ELSE [Top EXCEPT !.pc = "partner", !.flag = FALSE])
  /\ intr' = TRUE
  /\ UNCHANGED <<rq, current, freed, active, ioVars, timeVars, handlers, fault, hwVars>>

-----------------------------------------------------------------------------
\* disable_alt(): the guards in the opposite order, the last ready one (the
\* first in enabling order) is selected.

Disabling(type) ==
  /\ At("disable")
  /\ Top.k >= 0
  /\ IsActive(Top.proc, Top.i)
  /\ GuardOf(Top.proc, Top.i).type = type

\* DISABLE in front of a guard for a timeout: from here on a tick stays pending.
\* (In front of other guards it is part of their step.)
DISABLE ==
  /\ Enabling("timeout") \/ Disabling("timeout")
  /\ intr
  /\ intr' = FALSE
  /\ UNCHANGED <<procVars, altVars, ioVars, timeVars, handlers, stack, fault, hwVars>>

PrevGuard(f) == [f EXCEPT !.k = @ - 1, !.i = minus1_mod(@, Size(f.proc))]

\* Mutant: the last guard looked at is selected.
SelectIf_Always(ready) == alt' = [alt EXCEPT ![Top.proc].index = Top.i]

\* alt->index = i, if the guard is ready.
SelectIf(ready) ==
  alt' = IF ready THEN [alt EXCEPT ![Top.proc].index = Top.i] ELSE alt

DisableInactive ==
  /\ At("disable")
  /\ Top.k >= 0
  /\ ~IsActive(Top.proc, Top.i)
  /\ Goto(PrevGuard(Top))
  /\ UNCHANGED <<procVars, altVars, ioVars, timeVars, intr, handlers, fault, hwVars>>

\* Mutant: the partner found first is kept.
DisableChanIn_FirstPartner ==
  /\ Disabling("chanin")
  /\ LET c == GuardOf(Top.proc, Top.i).ch
         w == chan[c].waiting
         ready == w \notin {NoProc, current}
     IN  /\ chan' = [chan EXCEPT ![c].waiting = IF ready THEN w ELSE NoProc]
         /\ SelectIf(ready)
         /\ Goto(PrevGuard([Top EXCEPT !.partner = IF ready /\ @ = NoProc THEN w ELSE @]))
  /\ intr' = TRUE
  /\ UNCHANGED <<procVars, active, ichan, connected, sent, got, timeVars, handlers, fault, hwVars>>

\* disable_channel_input(): the outputter found becomes disable_alt()'s
\* partner, whichever branch is selected in the end.
DisableChanIn ==
  /\ Disabling("chanin")
  /\ LET c == GuardOf(Top.proc, Top.i).ch
         w == chan[c].waiting
         ready == w \notin {NoProc, current}
     IN  /\ chan' = [chan EXCEPT ![c].waiting = IF ready THEN w ELSE NoProc]
         /\ SelectIf(ready)
         /\ Goto(PrevGuard([Top EXCEPT !.partner = IF ready THEN w ELSE @]))
  /\ intr' = TRUE
  /\ UNCHANGED <<procVars, active, ichan, connected, sent, got, timeVars, handlers, fault, hwVars>>

DisableOutOrSkip ==
  /\ Disabling("chanout") \/ Disabling("skip")
  /\ SelectIf(TRUE)
  /\ Goto(PrevGuard(Top))
  /\ UNCHANGED <<procVars, active, ioVars, timeVars, intr, handlers, fault, hwVars>>

\* Mutant: the entry stays in the timeout queue if its time has come.
DisableTimeout_KeepEntry ==
  /\ Disabling("timeout")
  /\ ~intr
  /\ LET t == timeout[Owner(Top.proc)]
     IN  /\ timerQ' = IF Now >= t.time THEN timerQ ELSE removeFromQueue(timerQ, t.time, t.proc)
         /\ SelectIf(Now >= t.time)
  /\ Goto(PrevGuard(Top))
  /\ intr' = TRUE
  /\ UNCHANGED <<procVars, active, ioVars, now, timeout, alarm, pend, handlers, fault, hwVars>>

\* disable_timeout().  While a tick is pending Now() is below what it was for
\* the handler that found the time come.
DisableTimeout ==
  /\ Disabling("timeout")
  /\ ~intr
  /\ LET t == timeout[Owner(Top.proc)]
     IN  /\ timerQ' = removeFromQueue(timerQ, t.time, t.proc)
         /\ SelectIf(Now >= t.time)
  /\ Goto(PrevGuard(Top))
  /\ intr' = TRUE
  /\ UNCHANGED <<procVars, active, ioVars, now, timeout, alarm, pend, handlers, fault, hwVars>>

\* disable_interrupt_channel().
DisableIntr ==
  /\ Disabling("interrupt")
  /\ LET u == GuardOf(Top.proc, Top.i).ch
     IN  /\ ichan' = [ichan EXCEPT ![u].waiting = NoProc]
         /\ SelectIf(ichan[u].count > 0)
  /\ Goto(PrevGuard(Top))
  /\ intr' = TRUE
  /\ UNCHANGED <<procVars, active, chan, connected, sent, got, timeVars, handlers, fault, hwVars>>

\* The end of disable_alt(), for the selected branch, then state := quiescent.
Disabled ==
  /\ At("disable")
  /\ Top.k < 0

Leaving == [Top EXCEPT !.pc = "partner", !.flag = TRUE]

\* Mutant: the channel is not set empty.
TransferMessage_KeepWaiting ==
  /\ Disabled
  /\ LET p == Top.proc
         c == GuardOf(p, alt[p].index).ch
     IN  /\ GuardOf(p, alt[p].index).type = "chanin"
         /\ got' = [got EXCEPT ![c] = plus1_mod(@, MsgMod)]
         /\ state' = [state EXCEPT ![p] = "quiescent"]
  /\ Goto(Leaving)
  /\ UNCHANGED <<rq, current, freed, altVars, chan, ichan, connected, sent, timeVars,
                 intr, handlers, fault, hwVars>>

\* Memcpy() from chan->src, and the channel is set empty.
TransferMessage ==
  /\ Disabled
  /\ LET p == Top.proc
         c == GuardOf(p, alt[p].index).ch
     IN  /\ GuardOf(p, alt[p].index).type = "chanin"
         /\ IF chan[c].src = NoProc THEN Crash("null")
            ELSE /\ chan' = [chan EXCEPT ![c].waiting = NoProc]
                 /\ got' = [got EXCEPT ![c] = plus1_mod(@, MsgMod)]
                 /\ state' = [state EXCEPT ![p] = "quiescent"]
                 /\ Goto(Leaving)
                 /\ UNCHANGED <<rq, current, freed, altVars, ichan, connected, sent,
                                timeVars, intr, handlers, fault, hwVars>>

\* The interrupt count is handed over and cleared.
TransferCount ==
  /\ Disabled
  /\ LET p == Top.proc
         g == GuardOf(p, alt[p].index)
     IN  /\ g.type = "interrupt"
         /\ ichan' = [ichan EXCEPT ![g.ch].count = 0]
         /\ state' = [state EXCEPT ![p] = "quiescent"]
  /\ Goto(Leaving)
  /\ intr' = TRUE
  /\ UNCHANGED <<rq, current, freed, altVars, chan, connected, sent, got,
                 timeVars, handlers, fault, hwVars>>

TransferNothing ==
  /\ Disabled
  /\ LET p == Top.proc
     IN  /\ GuardOf(p, alt[p].index).type \notin {"chanin", "interrupt"}
         /\ state' = [state EXCEPT ![p] = "quiescent"]
  /\ Goto(Leaving)
  /\ UNCHANGED <<rq, current, freed, altVars, ioVars, timeVars, intr, handlers, fault, hwVars>>

-----------------------------------------------------------------------------
\* schedule(): waking the partner, before the RTC code runs or the process
\* gives up the CPU.

AfterPartner(f) ==
  [f EXCEPT !.pc = IF f.flag THEN "rtc" ELSE "finish", !.partner = NoProc, !.prev = NoProc]

NoPartner ==
  /\ At("partner")
  /\ Top.partner = NoProc
  /\ Goto(AfterPartner(Top))
  /\ UNCHANGED <<procVars, altVars, ioVars, timeVars, intr, handlers, fault, hwVars>>

WakePartner ==
  /\ At("partner")
  /\ Top.partner \in Records
  /\ readyProcessIfNecessary(Top.partner, [Top EXCEPT !.pc = "partnerRet"])
  /\ intr' = FALSE
  /\ UNCHANGED <<current, freed, altVars, ioVars, timeVars, handlers, fault, hwVars>>

PartnerReturn ==
  /\ At("partnerRet")
  /\ current' = Restored
  /\ Goto(AfterPartner(Top))
  /\ intr' = TRUE
  /\ UNCHANGED <<rq, state, freed, altVars, ioVars, timeVars, handlers, fault, hwVars>>

-----------------------------------------------------------------------------
\* handle_signal().  It arrives with every signal blocked and its sigprocmask
\* calls only ever block more, so it runs undisturbed until schedule() enables
\* interrupts.  Its last sigprocmask brings back the mask of the interrupted
\* code, which had interrupts enabled: from there on signals can be delivered
\* on top of the frame that has yet to return.

\* Mutant: the handler is installed with an empty mask.
Interrupt_NoMask(src) ==
  /\ fault = "none"
  /\ intr
  /\ EarlyIntr \/ Booted
  /\ stack' = Append(stack, HandlerFrame(src))
  /\ handlers' = handlers + 1
  /\ UNCHANGED <<procVars, altVars, ioVars, now, timeout, timerQ, alarm, intr, fault>>

\* A signal is delivered.
Interrupt(src) ==
  /\ fault = "none"
  /\ intr
  /\ EarlyIntr \/ Booted
  /\ stack' = Append(stack, HandlerFrame(src))
  /\ intr' = FALSE
  /\ handlers' = handlers + 1
  /\ UNCHANGED <<procVars, altVars, ioVars, now, timeout, timerQ, alarm, fault>>

Room == Len(returning) < MaxReturning

\* handle_elapsed_time_interrupt() of a tick, merged with its delivery: nobody
\* reads the clock in between.  If time is not modelled a tick may come at any
\* time.
ElapsedInterrupt ==
  /\ Interrupt("elapsed")
  /\ \/ /\ tick
        /\ currentTime' = currentTime + Tick
        /\ tick' = FALSE
        /\ UNCHANGED phase
     \/ MaxTime = 0 /\ Room /\ UNCHANGED tickVars
  /\ UNCHANGED <<pend, returning>>

\* Of the pending signals the one with the lowest number, the tick, is first.
TimeoutInterrupt ==
  /\ pend /\ ~tick /\ Room
  /\ Interrupt("timeout")
  /\ pend' = FALSE
  /\ UNCHANGED <<tickVars, returning>>

UserInterrupt(u) ==
  /\ ichan[u].count < MaxCount /\ ~tick /\ Room
  /\ Interrupt(u)
  /\ UNCHANGED <<pend, tickVars, returning>>

\* user_interrupt_handler().
HandleUser ==
  /\ At("user")
  /\ LET u == Top.src
         w == ichan[u].waiting
     IN  /\ ichan' = IF u \in connected THEN [ichan EXCEPT ![u].count = @ + 1] ELSE ichan
         /\ IF u \in connected /\ w \in Records
            THEN readyProcessIfNecessary(w, [Top EXCEPT !.pc = "userRet"])
            ELSE Goto([Top EXCEPT !.pc = "exit"]) /\ UNCHANGED <<rq, state>>
  /\ UNCHANGED <<current, freed, altVars, chan, connected, sent, got, timeVars,
                 intr, handlers, fault, hwVars>>

\* handle_timeout_interrupt(): one reading of the clock for the whole loop.
HandleTimeout ==
  /\ At("timeout")
  /\ Goto([Top EXCEPT !.pc = "due", !.time = Now])
  /\ UNCHANGED <<procVars, altVars, ioVars, timeVars, intr, handlers, fault, hwVars>>

\* Mutant: a timeout is due one unit too early.
Due_Early == timerQ # << >> /\ timerQ[1].time <= Top.time + 1

Due == timerQ # << >> /\ timerQ[1].time <= Top.time

\* A timeout that was never initialized points to no process.
TimeoutDue ==
  /\ At("due")
  /\ Due
  /\ IF timerQ[1].proc \notin Records THEN Crash("null")
     ELSE /\ timerQ' = Tail(timerQ)
          /\ readyProcessIfNecessary(timerQ[1].proc, [Top EXCEPT !.pc = "dueRet"])
          /\ UNCHANGED <<current, freed, altVars, ioVars, now, timeout, alarm, pend,
                         intr, handlers, fault, hwVars>>

\* The timer is set from the clock reading made at the start of the handler.
TimeoutRearm ==
  /\ At("due")
  /\ ~Due
  /\ alarm' = IF timerQ = << >> THEN alarm ELSE Armed(timerQ[1].time, Top.time)
  /\ Goto([Top EXCEPT !.pc = "exit"])
  /\ UNCHANGED <<procVars, altVars, ioVars, now, timeout, timerQ, pend,
                 intr, handlers, fault, hwVars>>

\* Back from readyProcessIfNecessary().
HandlerReturn ==
  /\ \/ At("userRet") /\ Goto([Top EXCEPT !.pc = "exit", !.prev = NoProc])
     \/ At("dueRet") /\ Goto([Top EXCEPT !.pc = "due", !.prev = NoProc])
  /\ current' = Restored
  /\ UNCHANGED <<rq, state, freed, altVars, ioVars, timeVars, intr, handlers, fault, hwVars>>

\* All signals are blocked again; the outermost handler calls schedule() with
\* the priority of the interrupted process and does not restore `current'.
HandlerExit ==
  /\ At("exit")
  /\ intr' = FALSE
  /\ handlers' = handlers - 1
  /\ IF handlers = 1
     THEN Call([Top EXCEPT !.pc = "leave"], ScheduleFrame(PriOf(current)))
     ELSE Goto([Top EXCEPT !.pc = "leave"])
  /\ UNCHANGED <<procVars, altVars, ioVars, timeVars, fault, hwVars>>

\* The signal mask of the interrupted code is restored.
HandlerRestore ==
  /\ At("leave")
  /\ Return
  /\ returning' = Append(returning, Len(stack) - 1)
  /\ intr' = TRUE
  /\ UNCHANGED <<procVars, altVars, ioVars, timeVars, tickVars, handlers, fault>>

\* The frame of the handler is given back.
SigReturn ==
  /\ fault = "none"
  /\ Returning /\ ~TickDue
  /\ returning' = SubSeq(returning, 1, Len(returning) - 1)
  /\ UNCHANGED <<procVars, altVars, ioVars, timeVars, tickVars, cpuVars>>

-----------------------------------------------------------------------------
\* The clock and the timeout timer.

\* The timer's next signal is lost while its last one is pending.
Clock ==
  /\ fault = "none"
  /\ now < MaxTime
  /\ now' = now + 1
  /\ \/ phase + 1 < Tick /\ phase' = phase + 1 /\ UNCHANGED tick
     \/ phase + 1 = Tick /\ phase' = 0 /\ tick' = TRUE /\ (EarlyIntr \/ Booted)
  /\ UNCHANGED <<procVars, altVars, ioVars, timeout, timerQ, alarm, pend, currentTime,
                 cpuVars, returning>>

AlarmFires ==
  /\ fault = "none"
  /\ alarm # NoTime /\ alarm <= now
  /\ pend' = TRUE
  /\ alarm' = NoTime
  /\ UNCHANGED <<procVars, altVars, ioVars, now, timeout, timerQ, tickVars, cpuVars, returning>>

-----------------------------------------------------------------------------
MainStep == MainStart \/ MainRun

StartStep == AppendLink \/ AppendTail \/ AppendNext \/ AppendHead

ScheduleStep ==
  \/ SelectSame \/ SelectNone \/ SelectNew \/ Take \/ Load \/ Finish
  \/ NoPartner \/ WakePartner \/ PartnerReturn

RtcStep == RtcEnter \/ RtcRest

EnableStep ==
  \/ EnableBegin \/ EnableInactive \/ EnableChanIn \/ EnableChanOut \/ EnableSkip
  \/ EnableTimeout \/ EnableInsert \/ EnableIntr \/ EnableEnd \/ EnableDone

DisableStep ==
  \/ DisableInactive \/ DisableChanIn \/ DisableOutOrSkip \/ DisableTimeout
  \/ DisableIntr \/ TransferMessage \/ TransferCount \/ TransferNothing

HandlerStep ==
  \/ HandleUser \/ HandleTimeout \/ TimeoutDue \/ TimeoutRearm
  \/ HandlerReturn \/ HandlerExit \/ HandlerRestore

\* One step of whatever the CPU is executing.
CpuStep ==
  \/ MainStep \/ StartStep \/ ScheduleStep \/ RtcStep
  \/ EnableStep \/ DisableStep \/ HandlerStep
  \/ DISABLE \/ SigReturn

Environment ==
  \/ ElapsedInterrupt \/ TimeoutInterrupt
  \/ \E u \in Intrs : UserInterrupt(u)
  \/ Clock \/ AlarmFires

Next == CpuStep \/ Environment

Spec == Init /\ [][Next]_vars

\* A step of the activation that runs p (NoProc: of one between processes)
\* while interrupts are enabled, and the return of the n-th handler.
StepOf(p) == CpuStep /\ ~Returning /\ intr /\ Top.proc = p
ReturnOf(n) == CpuStep /\ Returning /\ Len(returning) = n

\* Time passes, an expired timer raises its signal, a pending signal is
\* delivered, and the CPU executes.  Interrupts arrive at a finite rate: an
\* activation that is interrupted again and again still gets some of its steps
\* done in between, so their fairness is strong.
FairSpec ==
  /\ Spec
  /\ WF_vars(CpuStep)
  /\ \A p \in Records \cup {NoProc} : SF_vars(StepOf(p))
  /\ \A n \in 1 .. MaxReturning : SF_vars(ReturnOf(n))
  /\ WF_vars(Clock) /\ WF_vars(AlarmFires) /\ SF_vars(TimeoutInterrupt)
  /\ WF_vars(tick /\ ElapsedInterrupt)
===========================================================================
