# A verification of microcsp

microcsp (`src/README.md`) is a small kernel in C for processes that communicate over
synchronous channels, in the manner of CSP and occam. Processes have priorities, are preempted,
and run to completion: a process is a function, called again each time one branch of its
alternation (ALT) has been selected. All processes share **one** C stack. The kernel runs over
Linux, where the real-time signals play the interrupts. `sched.c` (processes, channels, ALT,
scheduling), `timer.c` (time and timeouts), `hardware.c` (signals and timers) and `memory.c` are
the program; this directory models them in TLA+, checks the models with TLC on small
applications, and proves theorems about them with TLAPS.

## 1. Inventory

| Part | State | Operations | Modelled |
|---|---|---|---|
| Ready queues (`sched.c:61-186`) | `readyQ[pri].head/tail`, `next` in each record, `priority_mask` | `highest_ready`, `take`, `append` | `ReadyQueue`, `ReadyQueueSpec`, `PriorityFifo`; proved |
| Scheduler (`sched.c:197-233, 708-874, 903-969`) | `current`, `state` of each process, the activations of `schedule()` on the C stack | `start`, `run`, `schedule`, `readyProcessIfNecessary`, `terminate` | `Sched`; proved in part |
| Alternation and channels (`sched.c:235-706`) | the `Alternation` of each record, the guards' `active`, `chan->waiting`, `chan->src` | `init_alt`, `init_alt_pri`, `activate`, `deactivate`, `enable_alt`, `disable_alt`, transfer | `Sched`; refined to `Rendezvous`; proved |
| Interrupt channels (`sched.c:390-415, 468-490, 876-901`) | `waiting` and `count` of each | connect, disconnect, enable, disable, the handler, `send_software_interrupt` | `Sched`; types proved |
| Timeouts (`timer.c:58-203`) | `timerQ`, the time and process of each `Timeout` | `enable_timeout`, `disable_timeout`, the timeout interrupt | `TimerQueue`, `Sched`; the queue proved |
| Elapsed time (`timer.c:28-56, 171-175`, `hardware.c:238-279`) | `currentTime`, the repeating timer | `Now`, the tick's handler, `read_timer` | `Clock`; proved |
| Signals (`hardware.c:60-211, 298-307`) | the signal mask, `currently_blocked`, `activeHandlers` | `handle_signal`, `ENABLE`, `DISABLE`, `send_user_interrupt` | `Signals`; refined to `Interrupts`; proved |
| Memory (`memory.c`) | free lists by size class, the tail | `memory_init`, `find_mem_index`, `allocate_mem`, `release_mem` | `Memory`; refined to `Allocator`; proved |
| Hardware interface (the rest of `hardware.c`, `hardware-empty.c`) | the timers of the system | wrappers of the C library | what they do, in `Signals`, `Clock` and `Sched`; no error exits |
| Examples (`examples/*.c`) | the variables of each process | the processes' functions | `ring.c`, `mtring.c`, `ring3.c`, `commstime.c` in `Examples`, proved; `procon.c`, `userintr.c`, `empty.c` in `MCApps` |
| Atomic operations (`atomic.h`) | none | the signal fence | no: nothing to see in a sequential model |

How they interact. Everything happens on one stack. `run()` calls `schedule(-1)`, which takes
the most urgent process, enables its ALT, and, if a guard is ready, disables it, transfers the
message and calls the process. A process that completes a communication makes its *partner*
ready; if the partner is more urgent, `readyProcessIfNecessary()` calls `schedule()` again, on
top of the caller, with the caller's priority as a base: the nested activation runs whatever is
above that base and returns. A signal does the same from its handler. `current` is a global that
each activation sets when it takes a process and that only `readyProcessIfNecessary()` restores.
Interrupts are disabled around the shared structures and enabled between the guards of an ALT,
so a handler can run between any two guards and find the process in state *enabling*. `start()`
and `schedule()` take and give back process records through `memory.c`, whose two functions end
with `ENABLE` whatever their caller had before.

What is hard, and the property that answers it (section 4):

- An interrupt between `enable_alt()`'s last guard and its decision to wait is a lost wakeup
  unless the state *enabling* is honoured: `NoLostWakeup`, `NoLostInterrupt`, `InterruptServed`.
- A whole scheduler runs inside another's `readyProcessIfNecessary()`: `StackPriority`,
  `StackInv`, `ActivationsBounded`, `CurrentIsRunning`, `NoInversion`.
- One intrusive list per level, a mask and a tail, updated one after the other, also by an
  `append()` of a process that is queued already: `QueueInv`, `ImplementsFifo`, `NoLostProcess`,
  `AppendsProperly`, `HeadToTake`, `ReleasedOffQueue`.
- `partner` is found by one guard and used after all guards were looked at: `PartnerIsWriter`,
  `SelectsReady`, `ImplementsRendezvous`.
- A timeout can expire before, while and after its guard is enabled or disabled, and `Now()` goes
  back when a tick becomes pending behind `DISABLE`: `TimerQueueExact`, `TimeoutServed`,
  `SelectsReadyOrDue`.
- The fair ALT has to be fair: `OfferTaken`.
- A signal can arrive between the last instructions of `handle_signal()`, on top of it, and a
  whole scheduler that enables all signals can run inside a handler; the variables
  `currently_blocked` and `activeHandlers` must survive both: `ImplementsInterrupts`,
  `BlockedOfInnermost`, `HandlersCounted`, `OutermostSchedules`.
- `Now()` adds a register that runs to a variable that a handler changes: `NowExact`,
  `NowBehind`, `TicksAccounted`.
- The link of a free block lies in the block, between blocks that are written, and both functions of
  `memory.c` are called at any depth of preemption: `FreeListsExact`, `NoOverlap`, `NoLeak`,
  `ImplementsAllocator`.
- A network of processes runs in an order that nobody chose and must still count its tokens,
  end, or go on for ever: `TokensKept`, `TokenSum`, `NoErrorExit`, `RingEnds`, `Consecutive`,
  `ConsumeGoesOn`.

## 2. Plan

The modules, in the order of what the system rests on, all written:

1. `ReadyQueue` and its abstract specification `PriorityFifo`; proved.
2. `Sched`: the activations on the stack, the processes, ALT, channels, interrupts and timeouts
   together, because each hazard lies between two of them; `start()` with one step for each
   assignment of `append()`, and records that are used again. `SchedProps`, `MCApps`,
   `Rendezvous`; the order and the bound of the stack, preemption, `current`, every type, the
   timeout queue, that no process and no interrupt is lost, and for synchronous applications the
   rendezvous, proved.
3. `Memory`, refined to `Allocator`; proved.
4. `Signals`, refined to `Interrupts`, which justifies the one flag `intr` of `Sched`; proved.
5. `Clock`, above `Signals`: the tick, and `Now()` read by read; proved.
6. `Examples`, above `Rendezvous`: networks on what the kernel promises of a channel; proved.

Still wanted: `NoLostWakeup` for applications that communicate and take interrupts as well.

## 3. The modules

**`ReadyQueue.tla`** holds the structure `[head, tail, next, mask]` and the operators `take`,
`append` and `highest_ready` with the assignments of the code, in its order. `mask` is the set
of its one-bits, and `highest_ready` is what the cascade of comparisons returns, 0 for an empty
mask. **`ReadyQueueSpec.tla`** uses them as the scheduler's contract says ("interrupts must be
disabled", a process not in a queue). `PriorityFifo.tla` is the abstract specification: a
sequence for each level. A ghost variable, the sequences, links the two.

**`TimerQueue.tla`** is `insertInQueue()` and `removeFromQueue()` on a sequence of `[time,
proc]`.

**`Sched.tla`** is the kernel. `stack` is the C stack: a sequence of activations, each a record
with its function (`main`, `schedule`, `start`, `handler`), its program counter and local variables; only
the top one executes. Each action is the code between two points where an interrupt can arrive
or an activation is pushed or popped.

| Code | Definitions |
|---|---|
| `start()`, `run()` | `start` (in `MainStart`, and in `RtcEnter`), then `AppendLink`, `AppendTail`, `AppendNext`, `AppendHead`; `MainRun` |
| choice of a process in `schedule()` | `SelectSame`, `SelectNone`, `SelectNew`, `Take`, `Load`, `Finish` |
| `enable_alt()` | `EnableBegin`, one action for each type of guard, `EnableEnd`, `EnableDone` |
| `enable_timeout()` | `DISABLE`, `EnableTimeout` (first reading of the clock), `EnableInsert` (second, insertion, timer) |
| `disable_alt()` | one action for each type of guard (`DISABLE` before that of a timeout), `TransferMessage`, `TransferCount`, `TransferNothing` |
| waking the partner | `NoPartner`, `WakePartner`, `PartnerReturn`, `readyProcessIfNecessary`, `Restored` |
| the process's function | `RtcEnter`, `RtcRest`, choosing an element of `Program[p][branch]` |
| `handle_signal()` | `ElapsedInterrupt`, `TimeoutInterrupt`, `UserInterrupt`, `HandlerExit`, `HandlerRestore` (the last `sigprocmask()`), `SigReturn` (the frame is given back) |
| the handlers | `HandleUser`; `HandleTimeout`, `TimeoutDue`, `TimeoutRearm`; `HandlerReturn` |
| time | `Clock` (both timers run, the tick is raised), `Now`, `AlarmFires`, `Armed` |

The application is the constants: processes, priorities, guards, who is started by `main`, and
for each process and branch the set of things its function may do (`Acts`): set an ALT, choose
the active guards, start a process, connect or disconnect, send a software interrupt, terminate.
A crash of the C program (NULL dereference, division by zero) sets `fault`, after which nothing
happens.

What is abstracted: a message is a number modulo `MsgMod` (`sent`, `got`); the set of blocked
signals is the flag `intr`; priorities are small numbers; a negative or zero interval is `NoTime` in `Armed`, as for an unsigned `Time` and
for `timer_settime()`; an entry of the timeout queue is a copy of the `Timeout` it is in the
code; every record is of a size class of its own, so that `start()` of a process that has ended gets
its old record again. `append()` is one step where interrupts are disabled, and four in `start()`,
where they are enabled, because `allocate_mem()` ended with `ENABLE`.

Time has two faces, as in the code. `now` is what passes, and the timeout timer (`alarm`) runs by it.
`currentTime` is what the tick's handler has counted, `phase` what the repeating timer's register
adds to it, and `Now` is their sum. A tick that expires is pending (`tick`) until interrupts are
enabled, and is delivered before anything else executes then (`TickDue`); another that expires
meanwhile is lost. So `Now` is a tick or more below `now` while one is pending or after one was lost,
and it goes back when one becomes pending. Time passes between any two steps; the `DISABLE` in front
of a timeout guard is a step of its own, because a tick between it and the reading of the clock
decides what is read. Each reading is atomic here; its two reads are in `Clock`.

A handler that has restored the signal mask (`HandlerRestore`) has not returned. `returning` lists
these, each with the length of the stack that it returns to, and a signal can be delivered on top of
one. The code below goes on when they have returned (`SigReturn`). `MaxReturning` bounds them in the
runs, and nothing else does; the theorems hold for any value.

`EarlyIntr` says whether a signal may arrive before `run()` has taken its first process. The
tick starts one second after `initialize()`, so in the runs it is `FALSE`. With `TRUE` the first
choice of `schedule()`, which `run()` makes with interrupts enabled although its comment says
otherwise (`sched.c:964`), is not atomic and `HeadToTake` fails. `StackInv` and
`StackPriority` are proved for both.

**`SchedProps.tla`** states the properties. **`Rendezvous.tla`** is what a channel promises:
*idle*, *offered*, *taken*, *idle* again. The refinement mapping `Phase` computes a channel's
phase from `sent`, `got` and `waiting`. **`MCApps.tla`** has the applications. The operators
whose name has a suffix after an underscore (`EnableDone_NoRecheck`) are wrong variants of the
operator before them or after them, as a plausible mistake would make it; each property was seen
to fail with one.

**`Memory.tla`** is `memory.c`. `link[a]` is the word at address `a` as far as it is the link of
a block, and `Overwritten` says which links a write destroys. `calls` is the stack of callers:
`start()` and `schedule()` can be preempted wherever interrupts are enabled, by processes that
start and end others. Each function is cut where it reads a list and writes it, although it
disables interrupts: the mutants that do not are found. The ghosts `live` and `free` remember
what was handed out and what was given back. `TooLarge` is `find_mem_index()` when no class is
large enough: the loop ends at a zero that the table does not have (section 5).
**`Allocator.tla`** is the promise: blocks of fixed classes, handed out to one owner at a time, a
new block only when the class has none to reuse, refused only when there is no room.

**`Signals.tla`** is the part of `hardware.c` that makes interrupts of signals. `frames` are the
activations of `handle_signal()` over `main()`, each with the mask that Linux saved and with
`previously_blocked`. A signal that is not blocked is delivered before the next instruction
(`Runs`), also between `Restore` and `SigReturn`, where the mask of what was interrupted is in
force but the handler has not returned. What the program does between is any of `ENABLE`,
`DISABLE`, and a `schedule()` inside a handler (`Preempt`). **`Interrupts.tla`** is what `Sched`
takes for granted: one flag, cleared by an arrival, set again by a return. The refinement mapping
takes a frame past its last `sigprocmask()` as returned.

**`Clock.tla`** extends `Signals` by the repeating timer (`timer` is its register) and `timer.c`'s
time. `Pass` is the time passing; a timer that expires while its signal is pending raises no second one, as POSIX says of
`timer_create()`, and nobody calls `timer_getoverrun()`: `lostTime` collects these ticks. `Now()`
is `NowCall`, `NowRead`, `NowCompare`, `NowReturn`, and between any two the time may pass and,
if interrupts are enabled, a handler may run.

**`Examples.tla`** has the processes of `ring.c`, `mtring.c`, `ring3.c` and `commstime.c`. They
have one active guard at a time and touch only their own variables, so a process is its active
guard and its token, its function runs with the step of its channel, and the kernel below is
`Rendezvous`, one instance for all channels. `RingGuards` and `CommsGuards` are the connections
made in `main()`. `Element_rtc` is the same in the three rings; the functions `Root_rtc` differ
in how they inject, count and collect (`InjectOne`, `InjectRising`, `InjectEqual`, `Sends`,
`CollectOne`, `CollectAll`).

The proofs (section 6) are in **`ReadyQueueProofs.tla`**, **`SchedProofs.tla`** (the stack, `current`
and preemption), **`AltProofs.tla`** (the ALT and the types in any orderly application, and the
timeout queue) and **`ChannelProofs.tla`** (synchronous applications), which both continue it,
**`WakeupProofs.tla`** (interrupts, and the lists of the kernel, above `AltProofs`),
**`MemoryProofs.tla`**, **`HardwareProofs.tla`** (signals, and the clock above them) and **`ExamplesProofs.tla`**.

## 4. The runs that pass

| Run | Application and bounds | What it shows |
|---|---|---|
| `ready_queue` | `MCReadyQueue`, five records: the idle process, three that share a level, and a more urgent one | lists, tails and mask agree (`QueueInv`); refinement of `PriorityFifo` (`ImplementsFifo`) |
| `procon` | after `examples/procon.c`: one priority; the consumer activates any non-empty set of its guards; a producer may end after each message, and the first may start the second, also again; one handler returning | `TypeOK`; `NoLostProcess` although a ready consumer is appended twice and `start()` is interrupted, because it is alone in its list then (`AppendsProperly`); `PartnerIsWriter` with both offers ready; `ReleasedOffQueue` with records used again; `ImplementsRendezvous`; `OfferTaken` under `FairSpec` |
| `poll` | one interrupt (count up to 2), logger with PRI ALT and skip, the driver more urgent; one handler returning | `StackPriority`, `HeadToTake`, `NoInversion` while the driver is woken by interrupts and by its partner; `SelectsReady`; `NoLostInterrupt` for interrupts that come while the writer outputs what the last one brought; `InterruptServed` under `FairSpec` |
| `timers` | after `examples/userintr.c`: a timeout in both processes, a software interrupt, `Tick` = 2, `MaxTime` = 2, `MaxCount` = 1, two handlers returning | `NoLostWakeup`, `SelectsReadyOrDue`, `StackInv`, `ActivationsBounded`, `TimerQueueExact`, `CurrentIsRunning` |
| `memory` | two classes of 2 and 4 half-words, 9 half-words in all, requests of 1, 2, 3 and 5, two callers | `NoOverlap`, `FreeListsExact`, `NoLeak`; refinement of `Allocator` (`ImplementsAllocator`) |
| `clock` | tick, timeout and one user interrupt, at most three frames, a tick of 2 units, 5 units of time | `HandlersCounted`, `OutermostSchedules`, `BlockedOfInnermost`; refinement of `Interrupts` (`ImplementsInterrupts`); `TicksAccounted`, `NowExact`, `NowBehind` |
| `examples` | rings of 2 to 4 processes, 1 to 3 tokens and cycles, and `commstime.c` with its numbers modulo 3 | `NoErrorExit`, `TokensKept`, `TokenSum`, `Consecutive`; `RingEnds`, `ConsumeGoesOn` under `FairSpec` |

Bounds. Three processes, two of them producers, are the fewest with a choice in an ALT and two
processes in one ready queue; two levels and the idle process are the fewest with preemption on
top of an activation. The tick, the timeout interrupt and the user interrupt of `timers` nest and
arrive in every order, and two unserved interrupts of a channel (`poll`) are the fewest that are
not served at once. With `MaxTime` = 2 and delays of 1 and 2 a timeout can expire at each step
of the enabling of the other, two can expire together, and one is set while the other is due. With `Tick` = 2 the only tick becomes pending at the
time at which the longer delay ends, so that `Now()` falls below what the timeout handler has read;
with `Tick` = 1 it would never have read more. Two handlers returning are the fewest on top of which a
third is delivered; `poll` and `procon`, where liveness is checked, allow one. Where no time is
modelled (`MaxTime` = 0) the tick may come at any time and only interrupts.
`MsgMod` = 3 tells a message that was lost from one that was taken twice; where only equality
matters (`poll`) it is 2. The tick arrives wherever interrupts are enabled, any number of times.

In `memory` a request of 1 shares a class with one of 2, one of 3 has slack, one of 5 has no
class; 9 half-words leave an odd rest that fits no block, so memory runs out with bytes left. Two
callers are enough to preempt between any two steps of either; the theorems have no such bounds.
In `clock` three frames are `main()`, a handler, and a handler on top of it, of which either can
be the less urgent one (through a nested `schedule()`), and 5 units give a third tick while the
first is pending. Rings of four are the smallest with three tokens moving; one token of `ring.c`
and equal or rising values of the others cover `main()`'s parameters.

Deadlock is checked in the runs of the kernel: an idle system still takes the tick, so it means a
crash. In `clock` there is always something to execute. It is not in `memory`, where `error()` ends the program, and in `examples`, where rings
end. Deadlock of `commstime.c` would violate `ConsumeGoesOn`.

`lost_timeout` does not check it either, because its program stops when the time is used up.

Properties that restrict their scope. `NoLostWakeup` leaves timeouts out, because the time passes
between the test and the alarm (`TimeoutServed` is about them). `CurrentIsRunning`, `NoInversion`, `HeadToTake` and `ActivationsBounded` are proved
for *orderly* applications (`Orderly`): no process starts a more urgent one, none ends, and no
signal arrives before `run()` has taken its first process. Each part of that is needed (section 5, below
the table of runs). `TypeOK` is proved for the same applications, and `TimerQueueExact` for those
of them in which a process has one timeout guard (`OneTimeout`), since it has one `Timeout`
(`timer.h`). The rendezvous, `PartnerIsWriter`, `SelectsReady` and `NoLostWakeup` are
proved for *synchronous* applications (`Synchronous`): orderly ones whose guards are all channels
or SKIPs, over point-to-point channels. With an interrupt in an ALT `PartnerIsWriter` fails, and with
interrupts, or with a timeout, so does `SelectsReady` (section 5). `SelectsReadyOrDue` is what is left of it with
timeouts: the branch is ready unless the process was woken for a timeout that is due and that a
pending tick hides. `ActivationsBounded` counts the activations that go on, not the handlers that are
returning: these pile up without bound (section 5), so it is no bound of the C stack. `NoLostInterrupt` is proved for *wired* applications (`Wired`): orderly ones with
any channels and timeouts, in which an interrupt feeds one guard and the process with that guard
connects it, since `connect_interrupt_to_channel()` clears `waiting`; and `NoLostWakeup` and
`SelectsReadyOrDue` also for those of them that only react (`Reactive`): no guard is of a channel. That the hypotheses can be met is
checked for the multiplexer of `unfair_alt` (`MuxIsSynchronous`), for `poll` (`PollIsWired`) and for
`timers` (`TimersIsReactive`), and the programs of `procon.c` and
`commstime.c` meet it; the processes of the rings end, and so do those of the run `procon`, which are
also started again, so that the run goes beyond the theorems. In the runs that pass,
`PartnerIsWriter` and `SelectsReady` are checked for ALTs without an interrupt or timeout guard *before* a channel input (section 5).
`NoLostProcess` is checked where `append()` in `start()` is interrupted by the tick, which
appends nobody (section 5), and proved for orderly applications that keep `AppendsProperly`:
`append()` tests nothing, so it relies on its callers for that. `procon` keeps it, and it is
exactly what `lost_process` breaks. `OfferTaken` says that a writer whose message is offered, and whose
reader listens for it again and again, is served: a reader that always returns to the same
guards, as that of `procon.c`. It excludes two situations in which the code is not fair: a more
urgent writer that is always there, so the writers of `procon` have one priority; and an ALT that
outputs between two choices (section 5). The same holds for `InterruptServed`, whose process in
`poll` alternates between one interrupt and an output and so has only one input to start at.

Fairness. `FairSpec` of the kernel: the CPU always executes something, which is weak fairness of
`CpuStep`. Signals arrive at a finite rate (the tick is once a second), so code that runs with
interrupts enabled gets on between them; the model has no rate, and without an assumption a tick
could arrive for ever between two instructions. Hence strong fairness of the steps of each
process with interrupts enabled, and of `schedule()` between processes in the same state. The
clock advances, an armed timer fires, and a pending signal is delivered when it is not blocked
for ever. Strong fairness of the return of each handler (`ReturnOf`) is the same assumption: a signal
on top of a handler that is returning cannot come every time. Nothing is assumed of user interrupts, nor of the order in which processes are chosen.
`FairSpec` of `Examples` is weak fairness of each process: all are of priority 1 and each ready
queue is first come first served, so a process that can go on is run; with one writer and one
reader for each channel, a step that is possible stays possible.

## 5. Where the code departs from its own words

Each is a run that TLC finds violated, with the statement in the code that it contradicts.

| Run | Property | Cause |
|---|---|---|
| `lost_process` | `NoLostProcess` | `sched.c:852` assigns (`=`) where it should compare: a process already in its queue is appended again, and what was behind it is cut off |
| `lost_message` | `PartnerIsWriter` | `disable_alt()` returns the writer of a channel whose branch was not selected, and `schedule()` wakes it |
| `lost_timeout` | `TimeoutServed` | the clock is read twice; if the timeout expires between, the interval is zero and disarms the timer |
| `unfair_alt` | `OfferTaken` | a fair ALT starts after the branch selected last; a process that outputs between two choices selected its output last, so it starts at the same input for ever, and another producer starves although "fair selection" is promised (`sched.c:302`) |
| `stale_clock` | `SelectsReady` | `disable_timeout()` reads the clock again (`timer.c:166`); with a tick pending `Now()` is below what the handler read when it made the process ready, the timeout is removed but not selected, and the ALT ends with the guard that `enable_alt()` looked at last, against "selecting a ready branch" (`sched.c:617`) |

Five more configurations show smaller disagreements, or causes like those above; TLC finds the
property violated with each.

| Configuration | Property | Cause |
|---|---|---|
| `StaleReader.cfg` (`MCApps`) | `SelectsReady` | the *reader* that `enable_alt()` finds at an output guard is woken at `sched.c:804-810`, after interrupts were enabled; a more urgent process may have served it in between, and it may wait for another channel. (A writer found while enabling is never used: `disable_alt()` replaces it.) |
| `LostChoice.cfg` (`MCApps`) | `HeadToTake` | `release_mem()` ends with `ENABLE` (`memory.c:104`), so after a process has ended `schedule()` makes its next choice with interrupts enabled, against "INTERRUPTS MUST BE DISABLED" (`sched.c:90`, `148`); a tick between the two steps of the choice empties the level chosen if the process had started a more urgent one |
| `LostStart.cfg` (`MCApps`) | `NoLostProcess` | `start()` calls `append()` with interrupts enabled (`sched.c:232`), against "INTERRUPTS MUST BE DISABLED" (`sched.c:166`); a handler that appends a process of the same priority between two assignments loses one of the two |
| `EmptyExample.cfg` (`MCApps`) | `NoDivisionByZero` | `sched.c:752` overwrites the state that `terminate()` set in the first run of a process, so it goes on to an ALT of no guards |
| `Ring3Laps.cfg` (`MCExamples`) | `TimesAroundRing` | `ring3.c:180` counts single outputs of up to 64 tokens, where `ring3.c:14` and `86` say "# of times around the ring"; `mtring.c:159`, with the same comments, multiplies by `NTOKENS` |

Others were met and have no configuration.

- `hardware.c:132`: the outermost handler calls `schedule()` and does not restore `current`, as
  `readyProcessIfNecessary()` does at `sched.c:868`, against "currently executing process"
  (`sched.c:58`). That is harmless only while nobody above the interrupted process can be ready
  there. A process that was interrupted after it started a more urgent one goes on with `current`
  pointing to that one; and if a process ends inside a handler, `release_mem()` lets a second
  interrupt in, which can queue a process without running it, so that the handler runs it last.
  `CurrentIsRunning` fails for both kinds of program.
- `hardware.c:143`: the mask is restored before the handler has returned, so a queued signal is
  delivered on top of it, and so on: nothing bounds the frames that are returning, nor the C stack,
  if signals come faster than frames are given back. Each one is about to return, and leaves the
  variables as it found them (`BlockedOfInnermost`).
- `examples/userintr.c:56`: `init_alt()` is told that the array of one guard has two. The second is
  whatever follows in memory (`timeout`), and is active or not by chance. `timers` has one guard.
- `sched.c:964`: the first choice of `schedule()`, see `EarlyIntr` in section 3.
- `timer.c:46`: called with interrupts disabled, as it is everywhere in `timer.c`, `Now()` does
  not see the pending tick and may return a time a whole tick earlier than the call before
  (`NowBehind` bounds by how much). A timeout is never early; it can be late, or, as `stale_clock`
  shows, be lost to another branch.
- `timer.c:40`: "Number of ticks", but each tick adds `Tick`; `Now()` relies on that.
- `hardware.c:128`: "'currently_blocked' contains no signals" at the call of `schedule()`: it
  still holds those of the handler that is ending (`BlockedOfInnermost`). Nothing depends on it.
- `memory.c:45`: the loop of `find_mem_index()` looks for a zero after the last class, which the
  table of `NALLOC` entries does not have; a request above 192 bytes reads past it.
- `sched.c:593-596`: `enable_alt()` lacks the `ENABLE` after an interrupt guard, which only
  prolongs the disabled section and is modelled as it is.

## 6. What is proved

All theorems hold for every value of the constants that the named assumptions allow, no bound on
processes, priorities (within the levels of the mask), guards, interrupts, programs or time.

- `QueueInvariant` and `QueueImplementsFifo` (`ReadyQueueProofs`). `QueueInv` says: the list
  from `head[l]` is the abstract sequence of level `l`, ends at `tail[l]`, sequences of
  different levels are disjoint, and bit `l` of the mask is set exactly when the sequence is not
  empty. It is inductive. `take` and `append` each change one list and leave the others alone by
  disjointness, which is why this part is needed; the refinement then follows action by action.
- `StackInvariant`, `StackPriorityHolds` (`SchedProofs`). `StackPriority` (an activation runs a
  more urgent process than every one below it) is not inductive: the base with which an
  activation was called, and `current`, from which the base is taken, have to be bounded too.
  `StackInv` adds them: `StackShape` (an activation runs a process above its own base),
  `BaseAbove` (a base is not below anything underneath), `CurrentAbove` (`current`, and every
  saved `prev`, is not below what runs), `QueueLevels` (the queue of a level holds processes of
  that level, so `take` yields what `highest_ready` promised). The proof reduces every action to
  one of five kinds of step (the top activation goes on, calls, is pushed by an interrupt,
  returns, or takes a process), with one lemma for each kind and one for each action.
- `FreeListsExactHolds`, `NoOverlapHolds`, `NoLeakHolds`, `MemoryImplementsAllocator`
  (`MemoryProofs`), for any classes and lengths (`MemoryAssumption`), any memory, requests, and
  callers on top of each other. None of the three invariants is inductive. A block in use is only
  safe if every *block*, in use, listed, or half-way through `release_mem()`, is apart from every
  other with its full class length, since it will be handed out with another request; a list is
  only intact if no write of a live block reaches a listed one, and if at most the caller on top
  is inside one of the two functions (that is what `DISABLE` is for: all others are idle). The
  inductive invariant `MemInv` says this, and what the caller inside has read from the list. One
  lemma for each action, then the views of `Allocator`, and each action maps to a step of it
  (`AllocateListed` to `Reuse`, `AllocateTail` to `New`, `OutOfMemory` to `Refuse`,
  `ReleaseEnter` to `GiveBack`) or to a stutter.
- `HandlersCountedHolds`, `OutermostSchedulesHolds`, `BlockedOfInnermostHolds`,
  `SignalsImplementInterrupts` (`HardwareProofs`), for any sources and any depth of frames.
  `BlockedOfInnermost` is not inductive: the value that an activation puts back must be that of
  the activation below it, which is a fact about its `previously_blocked`, not about the variable.
  The invariant `SigInv` adds it (`PrevOfInnermost`), and the masks: all signals are blocked or
  none, unless a handler is about to return (`MaskShape`), and none were where a signal was
  delivered (`SavedShape`). `OutermostSchedules` rests on `HandlersCounted`: the handler that
  decrements the counter to zero has no other below it. In the refinement a delivery is an
  arrival, the last `sigprocmask()` of a handler its return, and the return itself a stutter.

`StackPriority` holds in spite of `current` not being restored (section 5): `current` is then
too high, which makes bases too high, never too low.

- `CurrentIsRunningHolds`, `NoInversionHolds`, `HeadToTakeHolds`, `ActivationsBoundedHolds`
  (`SchedProofs`), for orderly applications with any number of processes, priorities, interrupts
  and guards. None is inductive. The invariant `UrgencyInv` adds to `StackInv`: what an activation
  may be on top of another (`Linkage`: a `schedule()` that chooses above a handler is the last
  one, a handler is never above a choice or another handler); what `current` is owed to
  (`CurrentOwed`: the innermost process, and each saved `prev` the process that was innermost
  then); where interrupts are disabled (`Quiet`); that the bits of the mask are set exactly for
  the lists that are not empty (`MaskInv`); and that nobody is more urgent than `current`, or
  than the `prev` about to be `current` again, unless `schedule()` is about to choose (`Urgency`).
  `NoInversion` and `CurrentIsRunning` depend on each other: a partner is compared with `current`,
  so what is appended without preemption is only known to be less urgent if `current` is the
  process that goes on. `HeadToTake` follows from `MaskInv` and from interrupts being disabled
  between the two steps of the choice. For `ActivationsBounded` each activation in progress is charged to a
  priority: one of `schedule()` to that of its process, which `StackPriority` makes injective, a
  handler to what it interrupted, and one of `start()` to the priority of the process that starts.
  Handlers that are returning are on no frame of the model's `stack` and are charged to nobody.
  `TimeInv` says that `Now` is never ahead of `now`, and a tick below it while one is pending.
- `AltInvariant`, `TypeOKHolds` (`AltProofs`), for orderly applications with any guards: channels
  between any processes, interrupts connected by anybody, timeouts, SKIPs. That a variable keeps its
  type is not local here. `plus1_mod` and `minus1_mod` stay inside the array of guards only if the
  process has one, so a process in state *enabling*, *waiting* or *ready* must have called
  `init_alt()`; hence nobody without an ALT may ever be a partner, be named by a channel or an
  interrupt, or own an entry of the timeout queue; and `readyProcessIfNecessary()` overwrites the
  state of whomever it is given, in the middle of whatever that process does. `Fits` says for each
  process which of its states and loop counters go with the point its activation is at, whatever
  other activations do to it. The activation of a process is seen as a value of a function
  (`view`), because only the innermost one executes. One lemma for each action.
- `TimerQueueExactHolds` (`AltProofs`): `QueueInv` adds when a process may have an entry at all.
  It has one only after the guard was enabled and before it was disabled (`Timed`), so the loop
  counters of `enable_alt()` and `disable_alt()` decide whether `insertInQueue()` may be called:
  with one `Timeout` for each process the guard is met once in each loop, and it was disabled
  before the next ALT begins. The rest are facts about `insertInQueue()` and `removeFromQueue()` on
  sequences of any length: an ordered queue stays ordered, and no entry appears twice.
- `NoLostInterruptHolds`, `NoLostWakeupReacting` (`WakeupProofs`): in a wired application no process
  waits while a SKIP or an interrupt guard of it is ready, and in a reactive one no process waits while
  any guard but a timeout is. `WaitInv` says it while the process still enables: each guard that it has
  looked at so far is silent (`Silent`), that is, no SKIP, and its interrupt channel names the process
  and has counted nothing; so an interrupt finds whom to make ready however far `enable_alt()` is, and
  `readyProcessIfNecessary()` leaves a state from which the process cannot go to wait. Whoever waits
  has enabled all its guards. That nobody else touches the channel is `Wired`, and which point of which
  loop the process is at comes from `AltInv`.
- `SelectsReadyReacting` (`WakeupProofs`): in a reactive application the branch that `disable_alt()`
  selects is active and ready, or a timeout of the process is due (`SelectsReadyOrDue`). The loop does
  not look for the guard that woke the process, but for any that is ready, with interrupts enabled
  between two guards; it takes the process out of the channels and the timeout queue as it goes, and
  the count of the selected channel after the loop. `AnswerInv` says that a process is ready only if
  a timeout of it is due, or some guard it has enabled, and not disabled yet, can be selected
  (`Heard`), or the one already selected can. It also says that a process waits in the channels of
  guards it has enabled only, so a late interrupt cannot make it ready for one that was disabled.
  Counts only grow until the process takes them, and by `Wired` nobody else resets them. `Now` goes
  back, so the proof uses only that the true time does not, and that no reading is ahead of it
  (`TimeInv`): the time that the handler read has come (`Wakers`) and stays past, although handlers come
  in between and `disable_timeout()` may not see it. That the handler wakes only processes whose
  guard is enabled is the `QueueInv` of `TimerQueueExact`.
- `NoLostProcessHolds`, `NoLostProcessAlone` (`WakeupProofs`): a process that may run is on the CPU,
  being started, or in the list of its priority (`Listed`: the least set with the head and what its
  members link to). The hypotheses are `Orderly`, that `main()` starts nobody twice (`StartsOnce`), and
  `[]AppendsProperly`: `append()` is not given a process that is in the list already, unless alone
  there, nor called while another activation is inside `append()` to the same list. The code does not
  check that and breaks it (section 5), so the theorem says how far the defects of `sched.c:852` and `sched.c:232`
  reach: nothing else loses a process. `AppendsProperly` only restricts lists that processes share,
  hence `NoLostProcessAlone`: with a priority for each process nobody is lost, whatever wakes it how
  often. The invariant `ListsInv` gives each level a sequence of processes, each once, that the links
  follow from head to tail (`Chain`) *up to the assignments that an interrupted `start()` has made*
  (`Joined`), and in which nobody is missing (`Complete`). With it go who may be on the CPU or in
  `start()` in which state (`Placed`), and that no two activations start the same process
  (`StartsApart`, `NotYetStarted`), from which `append()` finds its process not in the list.
- `ImplementsRendezvousHolds`, `PartnerIsWriterHolds`, `SelectsReadyHolds`, `NoLostWakeupHolds`
  (`ChannelProofs`), for synchronous applications with any number of processes, priorities, guards
  and channels, fair and PRI, under any preemption. The proof has two layers. The lower one is about
  the stack (`Nested`): only the innermost process executes, every other is off the CPU or waits for
  `readyProcessIfNecessary()` to return, so a process has one activation (`view`). The upper one
  (`LocalInv`, `CrossInv`) sees of that activation only whether it enables, waits, is ready, chooses
  or has chosen (`mode`), the active guards enabled so far (`reg`), and whom it has still to wake, as
  a writer (`wake`) or as a reader (`owes`). None of the properties is inductive, because a process
  is not woken in the step that makes its branch ready. A reader that a writer overtook in
  `chan->waiting` is no longer to be found there, but is owed a wakeup or has had it (`ListenInv`,
  `WakesInv`); a message taken leaves the channel empty while its writer still waits, and the reader
  that owes it the wakeup has not run yet (`TakenInv`); all others are in `waiting` where they belong,
  and nobody else is (`OfferInv`, `WaitingInv`); and a process made ready keeps a branch to select
  until it has selected one (`ReadyInv`), which is `SelectsReady`, since only its own partner could
  take the branch away. In the refinement the enabling of an output is `Offer`, the transfer `Take`,
  the writer's return to its function `Release`, and everything else leaves the channels alone.
- `ClockTypesHold`, `TicksAccountedHolds`, `NowExactHolds`, `NowBehindHolds` (`HardwareProofs`), for
  any length of a tick, any sources and any nesting, and the clock's steps as steps of `Signals`
  (`ClockImplementsSignals`). `NowExact` compares a result with the times between the call and the
  return, in which handlers have come and gone, and a tick that is lost takes the time back. So
  the invariant does not say that the time at the call is past, but that it stays past whatever
  becomes of the tick on its way (`Past`). Two facts about the stack are needed: nothing is above
  a handler of the tick (`TickOnTop`), and the activation that is inside `Now()` finds interrupts
  enabled again if it called with interrupts enabled (`CallFrame`, from
  `SavedShape`).
- `ExamplesTypesHold`, `NoErrorExitHolds`, `TokensKeptHolds`, `TokenSumHolds`, `ConsecutiveHolds`
  (`ExamplesProofs`), for rings of any size with any number of tokens (fewer than processes) and
  cycles, and numbers of any modulus. `TokensKept` and `NoErrorExit` need each other: a token
  cannot return to Root while it injects because Root itself waits to output then, and it counts
  in each of its states how many tokens are on their way (`RingTokens`). `TokenSum` is the sum for the
  sends that the code makes, in `ring3.c` `cycles` of them in all (section 5); each token on
  its way counts with what it will be worth when it reaches Root, one more for each element ahead of it
  (`Worth`): an element leaves that as it is, Root adds the size of the ring when it sends it on, and
  what it has collected is missing in the sum (`RingSum`). The sum over the processes of a ring of any
  size is stated by the sums of its beginnings (`Sums`), so a step that changes one term needs no
  induction, and that a sum with one term left is that term follows from the least counterexample. For `Consecutive` the
  invariant `CommsNumbers` says that one of Prefix, Delta and Succ has the number that goes round,
  and which of Delta's two outputs Consume has seen.

Only model-checked: liveness (temporal proofs under fairness are out of the prover's reach);
`AppendsProperly`, which depends on the application; `ReleasedOffQueue`, which is about processes
that end; `PartnerIsWriter` and the rendezvous in applications with interrupts or timeouts, or whose
processes end; and `NoLostWakeup` and `SelectsReady` where channels go together with interrupts or
timeouts, or processes end.

## 7. Not modelled

`printf`, `memcpy`, and the error exits of `sigaction`, `sigprocmask`, `timer_create` and
`timer_settime`. `malloc()` of the whole memory, which succeeds. The signal fence (`atomic.h`):
the steps of the models are sequentially consistent. Overflow of an interrupt count
(`sched.c:882`; `MaxCount` bounds it in the runs), of the tick count, and of the tokens of the examples. Alignment: a class of 58 or
70 bytes puts the records after it at odd word boundaries, which the hardware that runs the
program accepts. The examples that are variants of the modelled ones, or measure speed; `Now()`
and `printf` in the modelled ones. `hardware-empty.c` is a skeleton for a port.
