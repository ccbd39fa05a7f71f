------------------------------ MODULE MCApps ------------------------------
(***************************************************************************)
(* Small application programs for the kernel, after src/src/examples.      *)
(* Processes, channels and interrupts are strings.                         *)
(***************************************************************************)
EXTENDS SchedProps, TLC

\* Guards, and a 0-based array of them.
In(ch)     == [type |-> "chanin", ch |-> ch]
Out(ch)    == [type |-> "chanout", ch |-> ch]
Intr(u)    == [type |-> "interrupt", ch |-> u]
TimeoutG   == [type |-> "timeout", ch |-> None]
SkipG      == [type |-> "skip", ch |-> None]
Array(seq) == [i \in 0 .. Len(seq) - 1 |-> seq[i + 1]]

\* What the RTC code does: on its first run, and with each branch selected.
Does(first, branches) ==
  [s \in -1 .. Len(branches) - 1 |-> {IF s = -1 THEN first ELSE branches[s + 1]}]

Continue(on) == [NoAct EXCEPT !.active = on]
InitAlt(on)  == [NoAct EXCEPT !.alt = TRUE, !.active = on]

-----------------------------------------------------------------------------
\* procon.c: two producers, and a consumer with an ALT; here the consumer may
\* ignore either producer for a while.
ProconProcs == {"p1", "p2", "con"}
ProconChans == {"c1", "c2"}
ProconNrGuards == [p \in ProconProcs |-> IF p = "con" THEN 2 ELSE 1]
ProconGuards == [p \in ProconProcs |->
  Array(CASE p = "p1"  -> <<Out("c1")>>
          [] p = "p2"  -> <<Out("c2")>>
          [] p = "con" -> <<In("c1"), In("c2")>>)]
ProconProgram == [p \in ProconProcs |->
  IF p = "con" THEN Does(InitAlt({0, 1}), <<Continue({0, 1}), Continue({0, 1})>>)
  ELSE Does(InitAlt({0}), <<Continue({0})>>)]
ProconProgramPicky == [ProconProgram EXCEPT !["con"] =
  [s \in -1 .. 1 |-> IF s = -1 THEN {InitAlt({0, 1})}
                     ELSE {Continue(on) : on \in {{0}, {1}, {0, 1}}}]]
ProconPri == [p \in ProconProcs |-> 1]

\* The same consumer, and producers that may go on, or terminate, when their
\* message was taken; the first may also start the second, and again when it
\* has ended.
SpawnProgram == [p \in ProconProcs |->
  IF p = "con" THEN ProconProgramPicky[p]
  ELSE [s \in -1 .. 0 |->
          IF s = -1 THEN {InitAlt({0})}
          ELSE {[Continue({0}) EXCEPT !.term = done, !.start = q] :
                  done \in BOOLEAN, q \in IF p = "p1" THEN {"p2", NoProc} ELSE {NoProc}}]]
SpawnStarts == <<"con", "p1">>

-----------------------------------------------------------------------------
\* A driver after userintr.c: it waits for an interrupt, reports to a logger
\* over a channel, and waits again; the logger polls, in a PRI ALT with a skip.
PollProcs == {"drv", "log"}
PollChans == {"rep"}
PollIntrs == {"u0"}
PollNrGuards == [p \in PollProcs |-> 2]
PollGuards == [p \in PollProcs |->
  Array(IF p = "drv" THEN <<Intr("u0"), Out("rep")>> ELSE <<In("rep"), SkipG>>)]
PollProgram == [p \in PollProcs |->
  IF p = "drv"
  THEN Does([InitAlt({0}) EXCEPT !.connect = {"u0"}], <<Continue({1}), Continue({0})>>)
  ELSE Does(InitAlt({0, 1}), <<Continue({0, 1}), Continue({0, 1})>>)]
PollStarts == <<"log", "drv">>
PollPri == [p \in PollProcs |-> IF p = "drv" THEN 2 ELSE 1]
PollAltPri == {"log"}

\* userintr.c: "t" sends a software interrupt at every timeout; "rec" waits
\* for it with a timeout of its own.
TimersProcs == {"rec", "t"}
TimersIntrs == {"u0"}
TimersNrGuards == [p \in TimersProcs |-> IF p = "rec" THEN 2 ELSE 1]
TimersGuards == [p \in TimersProcs |->
  Array(IF p = "rec" THEN <<Intr("u0"), TimeoutG>> ELSE <<TimeoutG>>)]
TimersProgram == [p \in TimersProcs |->
  IF p = "rec"
  THEN Does([InitAlt({0, 1}) EXCEPT !.connect = {"u0"}, !.delay = 1],
            <<[Continue({0, 1}) EXCEPT !.delay = 1], [Continue({0, 1}) EXCEPT !.delay = 1]>>)
  ELSE Does([InitAlt({0}) EXCEPT !.delay = 2],
            <<[Continue({0}) EXCEPT !.delay = 2, !.send = "u0"]>>)]
TimersStarts == <<"rec", "t">>
TimersPri == [p \in TimersProcs |-> IF p = "rec" THEN 1 ELSE 2]

-----------------------------------------------------------------------------
\* The programs of the runs that show a disagreement.

\* An interrupt wakes "p", another wakes "x", both of the priority of "y",
\* which is running.
DoubleProcs == {"p", "x", "y"}
DoubleIntrs == {"u0", "u1"}
DoubleNrGuards == [q \in DoubleProcs |-> 1]
DoubleGuards == [q \in DoubleProcs |->
  Array(CASE q = "p" -> <<Intr("u0")>> [] q = "x" -> <<Intr("u1")>> [] q = "y" -> <<SkipG>>)]
DoubleProgram == [q \in DoubleProcs |->
  Does([InitAlt({0}) EXCEPT !.connect = CASE q = "p" -> {"u0"} [] q = "x" -> {"u1"} [] q = "y" -> {}],
       <<Continue({0})>>)]
DoubleStarts == <<"p", "x", "y">>
DoublePri == [q \in DoubleProcs |-> 1]

\* A reader that waits for an interrupt and a message in one ALT, the
\* interrupt first.
MixedProcs == {"wr", "rd"}
MixedChans == {"m"}
MixedIntrs == {"u0"}
MixedNrGuards == [q \in MixedProcs |-> IF q = "rd" THEN 2 ELSE 1]
MixedGuards == [q \in MixedProcs |->
  Array(IF q = "rd" THEN <<Intr("u0"), In("m")>> ELSE <<Out("m")>>)]
MixedProgram == [q \in MixedProcs |->
  IF q = "rd"
  THEN Does([InitAlt({0, 1}) EXCEPT !.connect = {"u0"}], <<Continue({0, 1}), Continue({0, 1})>>)
  ELSE Does(InitAlt({0}), <<Continue({0})>>)]
MixedStarts == <<"rd", "wr">>
MixedPri == [q \in MixedProcs |-> 1]

\* empty.c: a process terminates on its first run.
EmptyProcs == {"proc1"}
EmptyNrGuards == [q \in EmptyProcs |-> 0]
EmptyGuards == [q \in EmptyProcs |-> Array(<< >>)]
EmptyProgram == [q \in EmptyProcs |-> Does([NoAct EXCEPT !.term = TRUE], << >>)]
EmptyStarts == <<"proc1">>
EmptyPri == [q \in EmptyProcs |-> 1]

\* A multiplexer: it passes on the messages of two producers, so that its ALT
\* alternates between both inputs and the output.
MuxProcs == {"p1", "p2", "mux", "con"}
MuxChans == {"c1", "c2", "c3"}
MuxNrGuards == [q \in MuxProcs |-> IF q = "mux" THEN 3 ELSE 1]
MuxGuards == [q \in MuxProcs |->
  Array(CASE q = "p1"  -> <<Out("c1")>>
          [] q = "p2"  -> <<Out("c2")>>
          [] q = "mux" -> <<In("c1"), In("c2"), Out("c3")>>
          [] q = "con" -> <<In("c3")>>)]
MuxProgram == [q \in MuxProcs |->
  IF q = "mux" THEN Does(InitAlt({0, 1}), <<Continue({2}), Continue({2}), Continue({0, 1})>>)
  ELSE Does(InitAlt({0}), <<Continue({0})>>)]
MuxStarts == <<"p1", "p2", "mux", "con">>
MuxPri == [q \in MuxProcs |-> 1]

\* It only communicates, so that the theorems about channels are about it, as
\* those about interrupts and timeouts are about the two before.
ASSUME MuxIsSynchronous == Procs = MuxProcs => Synchronous
ASSUME PollIsWired == Procs = PollProcs => Wired
ASSUME TimersIsReactive == Procs = TimersProcs => Reactive

\* One process that waits for one timeout.
SleepProcs == {"t"}
SleepNrGuards == [q \in SleepProcs |-> 1]
SleepGuards == [q \in SleepProcs |-> Array(<<TimeoutG>>)]
SleepProgram == [q \in SleepProcs |->
  Does([InitAlt({0}) EXCEPT !.delay = 1], <<[Continue({0}) EXCEPT !.delay = 100]>>)]
SleepStarts == <<"t">>
SleepPri == [q \in SleepProcs |-> 1]

\* A low-priority writer, a reader that after a message of the driver listens
\* to the driver only, and the driver, urgent, which reports an interrupt.
StaleProcs == {"wr", "rd", "drv"}
StaleChans == {"r1", "r2"}
StaleIntrs == {"u0"}
StaleNrGuards == [q \in StaleProcs |-> IF q = "wr" THEN 1 ELSE 2]
StaleGuards == [q \in StaleProcs |->
  Array(CASE q = "wr"  -> <<Out("r1")>>
          [] q = "rd"  -> <<In("r2"), In("r1")>>
          [] q = "drv" -> <<Intr("u0"), Out("r2")>>)]
StaleProgram == [q \in StaleProcs |->
  CASE q = "wr"  -> Does(InitAlt({0}), <<Continue({0})>>)
    [] q = "rd"  -> Does(InitAlt({0, 1}), <<Continue({0}), Continue({0, 1})>>)
    [] q = "drv" -> Does([InitAlt({0}) EXCEPT !.connect = {"u0"}], <<Continue({1}), Continue({0})>>)]
StaleStarts == <<"rd", "drv", "wr">>
StalePri == [q \in StaleProcs |-> CASE q = "wr" -> 1 [] q = "rd" -> 2 [] q = "drv" -> 3]

\* A process starts a more urgent one and ends, as does that one.
HandoverProcs == {"lo", "hi"}
HandoverNrGuards == [q \in HandoverProcs |-> 1]
HandoverGuards == [q \in HandoverProcs |-> Array(<<SkipG>>)]
HandoverProgram == [q \in HandoverProcs |->
  Does(InitAlt({0}), <<[Continue({0}) EXCEPT !.term = TRUE, !.start = IF q = "lo" THEN "hi" ELSE NoProc]>>)]
HandoverStarts == <<"lo">>
HandoverPri == [q \in HandoverProcs |-> IF q = "lo" THEN 1 ELSE 2]

\* A process starts another, while an interrupt wakes a third one.
ForkProcs == {"s", "q", "w"}
ForkIntrs == {"u0"}
ForkNrGuards == [q \in ForkProcs |-> 1]
ForkGuards == [q \in ForkProcs |-> Array(IF q = "w" THEN <<Intr("u0")>> ELSE <<SkipG>>)]
ForkProgram == [q \in ForkProcs |->
  Does([InitAlt({0}) EXCEPT !.connect = IF q = "w" THEN {"u0"} ELSE {}],
       <<[Continue({0}) EXCEPT !.start = IF q = "s" THEN "q" ELSE NoProc]>>)]
ForkStarts == <<"w", "s">>
ForkPri == [q \in ForkProcs |-> 1]
===========================================================================
