------------------------------ MODULE Signals ------------------------------
(***************************************************************************)
(* Interrupts as hardware.c builds them from the real-time signals of      *)
(* Linux.  A signal's number is its interrupt source; the lower the number *)
(* the more urgent.  A signal that is not blocked is delivered before the  *)
(* next instruction of the program.  Each activation of handle_signal() is *)
(* a frame on top of what it interrupted; frame 1 is main().               *)
(***************************************************************************)
EXTENDS Integers, Sequences, FiniteSets

CONSTANTS
  NINTR_SOURCES,  \* the number of interrupt sources
  MaxDepth        \* bound: frames on top of each other

INTR_ELAPSED == 0   \* the tick of the clock

all_signals == 0 .. NINTR_SOURCES - 1

ASSUME SignalsAssumption == NINTR_SOURCES \in Nat \ {0} /\ MaxDepth \in Nat

VARIABLES
  mask,               \* the signals that Linux blocks
  pending,            \* signals raised and not delivered
  currently_blocked,  \* the variable of hardware.c
  activeHandlers,     \* the variable of hardware.c
  frames              \* main() and the activations of handle_signal()

sigVars == <<mask, pending, currently_blocked, activeHandlers, frames>>

\* `saved' is the mask of the interrupted code, `prev' is previously_blocked.
\* A frame executes the kernel and the processes ("code"), the interrupt
\* handler ("handler"), a schedule() called by that ("nested"), the schedule()
\* at its end ("schedule"), or the last instructions ("restore", "return").
Frame(s, pc) == [sig |-> s, saved |-> mask, prev |-> currently_blocked, pc |-> pc]

Top == frames[Len(frames)]
Move(pc) == frames' = [frames EXCEPT ![Len(frames)].pc = pc]

CodePcs == {"code", "nested", "schedule"}

\* The program executes only when no signal waits to be delivered.
Runs(pcs) == Top.pc \in pcs /\ pending \subseteq mask

\* hardware_init() disables interrupts; define_signal_handlers() sets
\* currently_blocked to the signals that are none of the interrupts.
Init ==
  /\ mask = all_signals
  /\ pending = {}
  /\ currently_blocked = {}
  /\ activeHandlers = 0
  /\ frames = <<[sig |-> INTR_ELAPSED, saved |-> {}, prev |-> {}, pc |-> "code"]>>

\* greater_than_or_equal_to().
greater_than_or_equal_to(s) == {x \in all_signals : x >= s}

enable_interrupts ==
  /\ Runs(CodePcs)
  /\ mask' = mask \ all_signals
  /\ UNCHANGED <<pending, currently_blocked, activeHandlers, frames>>

disable_interrupts ==
  /\ Runs(CodePcs)
  /\ mask' = mask \cup all_signals
  /\ UNCHANGED <<pending, currently_blocked, activeHandlers, frames>>

\* A timer expires or kill() is called.  Linux keeps one pending signal for a
\* timer; a second one that kill() has queued is raised here once the first is
\* delivered.
Raise(s) ==
  /\ pending' = pending \cup {s}
  /\ UNCHANGED <<mask, currently_blocked, activeHandlers, frames>>

Deliverable == pending \ mask

\* Mutant: the handlers are installed without sa_mask.
Deliver_NoMask(s) ==
  /\ s \in Deliverable /\ \A x \in Deliverable : s <= x
  /\ Len(frames) < MaxDepth
  /\ frames' = Append(frames, Frame(s, "handler"))
  /\ pending' = pending \ {s}
  /\ activeHandlers' = activeHandlers + 1
  /\ currently_blocked' = greater_than_or_equal_to(s)
  /\ mask' = mask \cup {s} \cup greater_than_or_equal_to(s)

\* Mutant: the handler is not counted.
Deliver_NoCount(s) ==
  /\ s \in Deliverable /\ \A x \in Deliverable : s <= x
  /\ Len(frames) < MaxDepth
  /\ frames' = Append(frames, Frame(s, "handler"))
  /\ pending' = pending \ {s}
  /\ currently_blocked' = greater_than_or_equal_to(s)
  /\ mask' = all_signals \cup greater_than_or_equal_to(s)
  /\ UNCHANGED activeHandlers

\* handle_signal() up to the call of the interrupt handler.  It arrives with
\* all signals blocked (sa_mask, in define_signal_handler()), so that blocking
\* more of them changes nothing and nothing arrives in between.
Deliver(s) ==
  /\ s \in Deliverable /\ \A x \in Deliverable : s <= x
  /\ Len(frames) < MaxDepth
  /\ frames' = Append(frames, Frame(s, "handler"))
  /\ pending' = pending \ {s}
  /\ activeHandlers' = activeHandlers + 1
  /\ currently_blocked' = greater_than_or_equal_to(s)
  /\ mask' = all_signals \cup greater_than_or_equal_to(s)

\* The handler of a timeout or a user interrupt readies a process, for which
\* readyProcessIfNecessary() calls schedule(); and back, with interrupts as
\* schedule() left them.  The tick's handler only counts.
Preempt ==
  /\ Runs({"handler"})
  /\ Top.sig # INTR_ELAPSED
  /\ Move("nested")
  /\ UNCHANGED <<mask, pending, currently_blocked, activeHandlers>>

PreemptReturn ==
  /\ Runs({"nested"})
  /\ Move("handler")
  /\ UNCHANGED <<mask, pending, currently_blocked, activeHandlers>>

\* Mutant: every handler calls schedule().
HandlerEnd_Always ==
  /\ Runs({"handler"})
  /\ mask' = mask \cup all_signals
  /\ activeHandlers' = activeHandlers - 1
  /\ Move("schedule")
  /\ UNCHANGED <<pending, currently_blocked>>

\* Mutant: a handler that returns to a handler is not counted down.
HandlerEnd_Outermost ==
  /\ Runs({"handler"})
  /\ mask' = mask \cup all_signals
  /\ activeHandlers' = IF Len(frames) = 2 THEN activeHandlers - 1 ELSE activeHandlers
  /\ Move(IF activeHandlers = 1 THEN "schedule" ELSE "restore")
  /\ UNCHANGED <<pending, currently_blocked>>

\* The handler has returned: all signals are blocked, and the last handler
\* calls schedule().
HandlerEnd ==
  /\ Runs({"handler"})
  /\ mask' = mask \cup all_signals
  /\ activeHandlers' = activeHandlers - 1
  /\ Move(IF activeHandlers = 1 THEN "schedule" ELSE "restore")
  /\ UNCHANGED <<pending, currently_blocked>>

ScheduleReturn ==
  /\ Runs({"schedule"})
  /\ Move("restore")
  /\ UNCHANGED <<mask, pending, currently_blocked, activeHandlers>>

\* Mutant: currently_blocked is installed without being restored.
Restore_Current ==
  /\ Runs({"restore"})
  /\ mask' = currently_blocked
  /\ Move("return")
  /\ UNCHANGED <<pending, currently_blocked, activeHandlers>>

\* The signals blocked before are blocked, and no others.
Restore ==
  /\ Runs({"restore"})
  /\ currently_blocked' = Top.prev
  /\ mask' = Top.prev
  /\ Move("return")
  /\ UNCHANGED <<pending, activeHandlers>>

\* The return from a signal handler restores the mask of what it interrupted;
\* a signal can be delivered before that, on top of the frame.
SigReturn ==
  /\ Runs({"return"})
  /\ mask' = Top.saved
  /\ frames' = SubSeq(frames, 1, Len(frames) - 1)
  /\ UNCHANGED <<pending, currently_blocked, activeHandlers>>

\* What the program does but for the end of a handler.
Execute ==
  \/ enable_interrupts \/ disable_interrupts
  \/ Preempt \/ PreemptReturn \/ ScheduleReturn \/ Restore \/ SigReturn

Next == Execute \/ HandlerEnd \/ \E s \in all_signals : Deliver(s) \/ Raise(s)

Spec == Init /\ [][Next]_sigVars

-----------------------------------------------------------------------------
SigTypeOK ==
  /\ mask \subseteq all_signals /\ pending \subseteq all_signals
  /\ currently_blocked \subseteq all_signals
  /\ activeHandlers \in Nat
  /\ frames \in Seq([sig : all_signals, saved : SUBSET all_signals,
                     prev : SUBSET all_signals,
                     pc : CodePcs \cup {"handler", "restore", "return"}])
  /\ frames # << >>

FramesWith(pcs) == {n \in 1 .. Len(frames) : frames[n].pc \in pcs}

\* activeHandlers (handle_signal()) is the number of handlers in progress,
\* those preempted by a process included.
HandlersCounted == activeHandlers = Cardinality(FramesWith({"handler", "nested"}))

\* "If no handlers are active, schedule processes": the schedule() at the end of
\* handle_signal() never runs on top of a handler that is still in progress.
OutermostSchedules ==
  \A m \in FramesWith({"handler", "nested"}), n \in FramesWith({"schedule"}) : n < m

\* currently_blocked belongs to the innermost activation that has not restored
\* it: the signals as urgent as its own and less; and none in the program.
\* (The comment before the call of schedule() has it empty there.)
BlockedOfInnermost ==
  LET open == {n \in 2 .. Len(frames) : frames[n].pc # "return"}
  IN  currently_blocked =
        UNION {greater_than_or_equal_to(frames[n].sig) :
                 n \in {m \in open : \A k \in open : k <= m}}

\* What handle_signal() makes of the signal masks is the one flag on which the
\* kernel relies (ENABLE, DISABLE): a frame that returns has returned, and a
\* signal between its last instructions arrives after it.
Machine == INSTANCE Interrupts WITH
  on    <- mask = {} \/ Top.pc = "return",
  depth <- Len(frames) - 1 - Cardinality(FramesWith({"return"}))

ImplementsInterrupts == Machine!Spec
===========================================================================
