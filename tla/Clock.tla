------------------------------- MODULE Clock -------------------------------
(***************************************************************************)
(* Elapsed time: the repeating timer, the count of its ticks and Now(), of *)
(* timer.c, above the signals of hardware.c.  One call of Now() at a time  *)
(* is followed; it can be interrupted after each of its reads.             *)
(***************************************************************************)
EXTENDS Signals

CONSTANTS
  Tick,      \* units of time in a tick
  MaxTime    \* bound: the clock stops here

ASSUME ClockAssumption == Tick \in Nat \ {0, 1} /\ MaxTime \in Nat

VARIABLES
  elapsed,      \* time since the timer was started
  timer,        \* the time that remains until its next tick
  currentTime,  \* the variable of timer.c
  lostTime,     \* time of the ticks that came while one was still pending
  call          \* a call of Now(): frame, next instruction, variables, and ...

\* ... `start', what it should return at least, and `enabled', whether it was
\* made with interrupts enabled.
NoCall == [depth |-> 0, pc |-> "none", c |-> 0, t |-> 0, start |-> 0, enabled |-> FALSE]

clockVars == <<elapsed, timer, currentTime, lostTime, call>>

ClockInit ==
  /\ Init
  /\ elapsed = 0 /\ timer = Tick
  /\ currentTime = 0 /\ lostTime = 0
  /\ call = NoCall

\* Mutant: a timer that has just expired reads zero.
read_timer_Zero == timer % Tick

\* read_timer(): the time that remains; a timer that has just expired has been
\* started again.
read_timer == timer

\* Mutant: ticks are counted, as the comment on currentTime has it.
handle_elapsed_time_interrupt_Count ==
  currentTime' = IF Top.sig = INTR_ELAPSED THEN currentTime + 1 ELSE currentTime

handle_elapsed_time_interrupt ==
  currentTime' = IF Top.sig = INTR_ELAPSED THEN currentTime + Tick ELSE currentTime

\* The frame on top is inside Now().
Reading == call.pc # "none" /\ call.depth = Len(frames)
At(pc) == Reading /\ call.pc = pc /\ Runs(CodePcs)

NowCall ==
  /\ Runs(CodePcs)
  /\ call.pc = "none"
  /\ call' = [depth |-> Len(frames), pc |-> "read", c |-> currentTime, t |-> 0,
              start |-> elapsed - lostTime, enabled |-> mask = {}]
  /\ UNCHANGED <<sigVars, elapsed, timer, currentTime, lostTime>>

NowRead ==
  /\ At("read")
  /\ call' = [call EXCEPT !.t = read_timer, !.pc = "compare"]
  /\ UNCHANGED <<sigVars, elapsed, timer, currentTime, lostTime>>

\* Mutant: the count is not read again.
NowCompare_Once ==
  /\ At("compare")
  /\ call' = [call EXCEPT !.pc = "return"]
  /\ UNCHANGED <<sigVars, elapsed, timer, currentTime, lostTime>>

\* A tick was counted in the meantime: the timer is read again.
NowCompare ==
  /\ At("compare")
  /\ call' = [call EXCEPT !.c = currentTime,
                          !.pc = IF call.c = currentTime THEN "return" ELSE "read"]
  /\ UNCHANGED <<sigVars, elapsed, timer, currentTime, lostTime>>

Result == (Tick - call.t) + call.c

NowReturn ==
  /\ At("return")
  /\ call' = NoCall
  /\ UNCHANGED <<sigVars, elapsed, timer, currentTime, lostTime>>

\* Time passes.  A timer that expires while its signal is pending raises no
\* other: nobody asks for the overrun count.
Pass ==
  /\ elapsed < MaxTime
  /\ elapsed' = elapsed + 1
  /\ timer' = IF timer = 1 THEN Tick ELSE timer - 1
  /\ \/ timer # 1 /\ UNCHANGED <<sigVars, lostTime>>
     \/ timer = 1 /\ INTR_ELAPSED \notin pending
        /\ Raise(INTR_ELAPSED) /\ UNCHANGED lostTime
     \/ timer = 1 /\ INTR_ELAPSED \in pending
        /\ lostTime' = lostTime + Tick /\ UNCHANGED sigVars
  /\ UNCHANGED <<currentTime, call>>

\* Everything else that the program does, and the other signals.
Work ==
  /\ ~Reading
  /\ \/ Execute /\ UNCHANGED currentTime
     \/ HandlerEnd /\ handle_elapsed_time_interrupt
  /\ UNCHANGED <<elapsed, timer, lostTime, call>>

Signal ==
  /\ \/ \E s \in all_signals : Deliver(s)
     \/ \E s \in all_signals \ {INTR_ELAPSED} : Raise(s)
  /\ UNCHANGED clockVars

ClockNext == NowCall \/ NowRead \/ NowCompare \/ NowReturn \/ Pass \/ Work \/ Signal

ClockSpec == ClockInit /\ [][ClockNext]_<<sigVars, clockVars>>

-----------------------------------------------------------------------------
ClockTypeOK ==
  /\ SigTypeOK
  /\ elapsed \in Nat /\ timer \in 1 .. Tick /\ currentTime \in Nat /\ lostTime \in Nat
  /\ call \in [depth : Nat, pc : {"none", "read", "compare", "return"},
               c : Nat, t : 0 .. Tick, start : Int, enabled : BOOLEAN]

\* Ticks on their way: raised, or delivered and not yet counted.
Uncounted ==
  Cardinality(pending \cap {INTR_ELAPSED})
    + Cardinality({n \in FramesWith({"handler"}) : frames[n].sig = INTR_ELAPSED})

\* Every tick of the timer (timer_init(), handle_elapsed_time_interrupt()) is
\* counted once or on its way, but for those that came while one was pending.
TicksAccounted ==
  elapsed - (Tick - timer) = currentTime + lostTime + Tick * Uncounted

\* Now() with interrupts enabled is exact, ticks lost apart: it returns a time
\* between its call and its return, wherever it is interrupted.  This is what
\* its loop is for.
NowExact ==
  At("return") /\ call.enabled =>
    call.start <= Result /\ Result <= elapsed - lostTime

\* Now() with interrupts disabled, as timer.c calls it everywhere, is never
\* ahead, so that no timeout is early.  It misses the tick that is pending, and
\* one more if that is pending for a whole tick.
NowBehind ==
  At("return") =>
    call.start < Result + 2 * Tick /\ Result <= elapsed - lostTime
=============================================================================
