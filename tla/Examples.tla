------------------------------ MODULE Examples ------------------------------
(***************************************************************************)
(* The examples ring.c, mtring.c, ring3.c and commstime.c: networks of     *)
(* processes above the channels that the kernel implements (Rendezvous).   *)
(* A process executes its RTC code when the kernel has completed the one   *)
(* guard that is active; it touches nothing but its own variables, so it   *)
(* runs together with the step of the channel.  Which process runs first   *)
(* is left open.                                                           *)
(***************************************************************************)
EXTENDS Integers, FiniteSets

CONSTANTS
  Networks,  \* networks: program, number of processes, NTOKENS, CYCLES
  IntMod     \* bound: the numbers of commstime.c are counted modulo this

Rings == {"ring", "mtring", "ring3"}

\* A ring whose processes all hold a token cannot move: RING_SIZE is 256,
\* NTOKENS is 64 (ring.c injects one token).
ASSUME ExamplesAssumption ==
  /\ IntMod \in Nat \ {0}
  /\ \A n \in Networks :
       /\ n.program \in Rings \cup {"commstime"}
       /\ n.size \in Nat /\ n.tokens \in 1 .. n.size - 1 /\ n.cycles \in Nat \ {0}
       /\ n.program = "ring" => n.tokens = 1
       /\ n.program = "commstime" => n.size = 4

VARIABLES
  net,      \* the network
  phase,    \* the channels, each in its phase of the rendezvous
  x,        \* the variable each process inputs to and outputs from
  on,       \* the active guard of each process, Ended when it has terminated
  root,     \* the other variables of Root
  printed,  \* what Root has printed, or nothing (-1)
  seen,     \* the last number that Consume has read
  exited    \* error() was called

appVars == <<net, phase, x, on, root, printed, seen, exited>>

Processes == 0 .. net.size - 1
Channels == UNION {0 .. n.size - 1 : n \in Networks}

Kernel == INSTANCE Rendezvous WITH Chans <- Channels

Ended == -1

\* The guards: enum { IN=0, OUT }, and { IN=0, OUT1, OUT2 } in Delta.
In == 0
Out == 1
Out2 == 2

Input(c)  == [type |-> "chanin", ch |-> c]
Output(c) == [type |-> "chanout", ch |-> c]

\* A process that inputs from channel i and outputs to channel o.
Pipe(i, o) == [g \in {In, Out} |-> IF g = In THEN Input(i) ELSE Output(o)]

\* main() of the rings: process 0 is Root; each process reads the channel that
\* the one before it writes.
RingGuards(p) == Pipe((p + net.size - 1) % net.size, p)

\* main() of commstime.c: Prefix, Delta, Succ, Consume; the channels a, b, c, d.
CommsGuards(p) ==
  CASE p = 0 -> Pipe(3, 0)
    [] p = 1 -> [g \in {In, Out, Out2} |-> CASE g = In   -> Input(0)
                                            [] g = Out  -> Output(1)
                                            [] g = Out2 -> Output(2)]
    [] p = 2 -> Pipe(1, 3)
    [] p = 3 -> [g \in {In} |-> Input(2)]

GuardsOf(p) == IF net.program = "commstime" THEN CommsGuards(p) ELSE RingGuards(p)

Active(p) == GuardsOf(p)[on[p]]

Writer(c) == CHOOSE p \in Processes : \E g \in DOMAIN GuardsOf(p) : GuardsOf(p)[g] = Output(c)

\* After the first, initial(), run of every process.  Root outputs a token and
\* the elements input; Prefix outputs a variable that nobody has initialized.
FirstToken == [ring |-> 1, mtring |-> 1, ring3 |-> 10]

Init ==
  /\ net \in Networks
  /\ Kernel!Init
  /\ x \in IF net.program = "commstime"
           THEN {[p \in Processes |-> IF p = 0 THEN v ELSE 0] : v \in 0 .. IntMod - 1}
           ELSE {[p \in Processes |-> IF p = 0 THEN FirstToken[net.program] ELSE 0]}
  /\ on = [p \in Processes |-> IF p = 0 THEN Out ELSE In]
  /\ root = [state |-> "INIT", count |-> 0, sum |-> 0]
  /\ printed = -1 /\ seen = -1
  /\ exited = FALSE

-----------------------------------------------------------------------------
\* The RTC code, after guard s, with value v in the process's variable.

Becomes(p, v, s) == x' = [x EXCEPT ![p] = v] /\ on' = [on EXCEPT ![p] = s]

rootVars == <<root, printed, exited>>

\* Mutants: the zero token is incremented too; it does not end the process; the
\* guards are not exchanged after an input, and the token is dropped.
Element_rtc_All(p, s, v) ==
  /\ \/ s = In /\ Becomes(p, v + 1, Out)
     \/ s = Out /\ Becomes(p, v, IF v = 0 THEN Ended ELSE In)
  /\ UNCHANGED <<rootVars, seen>>

Element_rtc_NoEnd(p, s, v) ==
  /\ \/ s = In /\ Becomes(p, IF v > 0 THEN v + 1 ELSE v, Out)
     \/ s = Out /\ Becomes(p, v, In)
  /\ UNCHANGED <<rootVars, seen>>

Element_rtc_Drop(p, s, v) ==
  /\ \/ s = In /\ Becomes(p, IF v > 0 THEN v + 1 ELSE v, IF v > 1 THEN In ELSE Out)
     \/ s = Out /\ Becomes(p, v, IF v = 0 THEN Ended ELSE In)
  /\ UNCHANGED <<rootVars, seen>>

Element_rtc(p, s, v) ==
  /\ \/ s = In /\ Becomes(p, IF v > 0 THEN v + 1 ELSE v, Out)
     \/ s = Out /\ Becomes(p, v, IF v = 0 THEN Ended ELSE In)
  /\ UNCHANGED <<rootVars, seen>>

\* The initial token has been sent, or has come back.
RootInit(s, v) ==
  /\ root.state = "INIT"
  /\ \/ s = Out /\ Becomes(0, v, In) /\ UNCHANGED root
     \/ s = In /\ Becomes(0, 1, Out)
        /\ root' = [root EXCEPT !.state = "INJECTING", !.count = 0]
  /\ UNCHANGED <<printed, exited>>

\* error() is called if a token is input here.
InjectOne(s, v) ==
  /\ root.state = "INJECTING" /\ net.program = "ring"
  /\ Becomes(0, v, In)
  /\ root' = [root EXCEPT !.state = "CYCLING"]
  /\ exited' = (s = In)
  /\ UNCHANGED printed

InjectRising(s, v) ==
  /\ root.state = "INJECTING" /\ net.program = "mtring"
  /\ \/ /\ root.count + 1 < net.tokens
        /\ Becomes(0, v + 1, Out)
        /\ root' = [root EXCEPT !.count = @ + 1]
     \/ /\ root.count + 1 >= net.tokens
        /\ Becomes(0, v, In)
        /\ root' = [root EXCEPT !.state = "CYCLING", !.count = 0]
  /\ exited' = (s = In)
  /\ UNCHANGED printed

InjectEqual(s, v) ==
  /\ root.state = "INJECTING" /\ net.program = "ring3"
  /\ \/ /\ root.count + 1 # net.tokens
        /\ Becomes(0, v, Out)
        /\ root' = [root EXCEPT !.count = @ + 1]
     \/ /\ root.count + 1 = net.tokens
        /\ Becomes(0, v, In)
        /\ root' = [root EXCEPT !.state = "CYCLING", !.count = 0]
  /\ exited' = (s = In)
  /\ UNCHANGED printed

\* The number of tokens to send while cycling.
Sends == IF net.program = "mtring" THEN net.cycles * net.tokens ELSE net.cycles

\* Mutant: the count is tested before it is incremented.
RootCycling_Late(s, v) ==
  /\ root.state = "CYCLING"
  /\ \/ s = In /\ Becomes(0, v + 1, Out) /\ UNCHANGED root
     \/ s = Out /\ Becomes(0, v, In)
        /\ root' = IF root.count = Sends
                   THEN [state |-> "COLLECTING", count |-> 0, sum |-> 0]
                   ELSE [root EXCEPT !.count = @ + 1]
  /\ UNCHANGED <<printed, exited>>

RootCycling(s, v) ==
  /\ root.state = "CYCLING"
  /\ \/ s = In /\ Becomes(0, v + 1, Out) /\ UNCHANGED root
     \/ s = Out /\ Becomes(0, v, In)
        /\ root' = IF root.count + 1 = Sends
                   THEN [state |-> "COLLECTING", count |-> 0, sum |-> 0]
                   ELSE [root EXCEPT !.count = @ + 1]
  /\ UNCHANGED <<printed, exited>>

CollectOne(s, v) ==
  /\ root.state = "COLLECTING" /\ net.program = "ring"
  /\ Becomes(0, 0, Out)
  /\ root' = [root EXCEPT !.state = "FINAL"]
  /\ printed' = v
  /\ exited' = (s = Out)

CollectAll(s, v) ==
  /\ root.state = "COLLECTING" /\ net.program # "ring"
  /\ LET sum == root.sum + v
     IN  \/ /\ root.count + 1 = net.tokens
            /\ Becomes(0, 0, Out)
            /\ root' = [state |-> "FINAL", count |-> root.count + 1, sum |-> sum]
            /\ printed' = sum
         \/ /\ root.count + 1 # net.tokens
            /\ Becomes(0, v, In)
            /\ root' = [root EXCEPT !.count = @ + 1, !.sum = sum]
            /\ UNCHANGED printed
  /\ exited' = (s = Out)

\* The zero token has been sent, or has come back.
RootFinal(s, v) ==
  /\ root.state = "FINAL"
  /\ \/ s = Out /\ Becomes(0, v, In) /\ UNCHANGED exited
     \/ s = In /\ Becomes(0, v, Ended) /\ exited' = (v # 0)
  /\ UNCHANGED <<root, printed>>

Root_rtc(s, v) ==
  /\ \/ RootInit(s, v)
     \/ InjectOne(s, v) \/ InjectRising(s, v) \/ InjectEqual(s, v)
     \/ RootCycling(s, v) \/ CollectOne(s, v) \/ CollectAll(s, v) \/ RootFinal(s, v)
  /\ UNCHANGED seen

Prefix_rtc(s, v) == Becomes(0, v, 1 - s) /\ UNCHANGED <<rootVars, seen>>

\* Mutants: Delta goes on after the second output; it goes back to its input
\* after the first.
Delta_rtc_NoWrap(s, v) == Becomes(1, v, s + 1) /\ UNCHANGED <<rootVars, seen>>

Delta_rtc_Once(s, v) == Becomes(1, v, 1 - s) /\ UNCHANGED <<rootVars, seen>>

Delta_rtc(s, v) == Becomes(1, v, (s + 1) % 3) /\ UNCHANGED <<rootVars, seen>>

\* Mutant: the number is incremented after the output only.
Succ_rtc_After(s, v) ==
  /\ Becomes(2, IF s = Out THEN (v + 1) % IntMod ELSE v, 1 - s)
  /\ UNCHANGED <<rootVars, seen>>

Succ_rtc(s, v) == Becomes(2, (v + 1) % IntMod, 1 - s) /\ UNCHANGED <<rootVars, seen>>

Consume_rtc(s, v) == Becomes(3, v, s) /\ seen' = v /\ UNCHANGED rootVars

Rtc(p, s, v) ==
  IF net.program \in Rings
  THEN IF p = 0 THEN Root_rtc(s, v) ELSE Element_rtc(p, s, v)
  ELSE CASE p = 0 -> Prefix_rtc(s, v)
         [] p = 1 -> Delta_rtc(s, v)
         [] p = 2 -> Succ_rtc(s, v)
         [] p = 3 -> Consume_rtc(s, v)

-----------------------------------------------------------------------------
\* What the kernel does for the one active guard of a process.

Waits(p, type) == ~exited /\ on[p] # Ended /\ Active(p).type = type

Offer(p) ==
  /\ Waits(p, "chanout")
  /\ Kernel!Offer(Active(p).ch)
  /\ UNCHANGED <<net, x, on, rootVars, seen>>

\* The message is copied from the writer's variable.
Take(p) ==
  /\ Waits(p, "chanin")
  /\ Kernel!Take(Active(p).ch)
  /\ Rtc(p, on[p], x[Writer(Active(p).ch)])
  /\ UNCHANGED net

Release(p) ==
  /\ Waits(p, "chanout")
  /\ Kernel!Release(Active(p).ch)
  /\ Rtc(p, on[p], x[p])
  /\ UNCHANGED net

Step(p) == Offer(p) \/ Take(p) \/ Release(p)

Next == \E p \in Processes : Step(p)

Spec == Init /\ [][Next]_appVars

\* The scheduler runs every process that can go on (no process is of lower
\* priority than another here).
FairSpec == Spec /\ \A p \in Channels : WF_appVars(p \in Processes /\ Step(p))

-----------------------------------------------------------------------------
TypeOK ==
  /\ phase \in [Channels -> Kernel!Phases]
  /\ x \in [Processes -> Nat] /\ on \in [Processes -> {Ended, In, Out, Out2}]
  /\ root \in [state : {"INIT", "INJECTING", "CYCLING", "COLLECTING", "FINAL"},
               count : Nat, sum : Nat]
  /\ printed \in Nat \cup {-1} /\ seen \in Nat \cup {-1} /\ exited \in BOOLEAN

\* The calls of error() in the Roots are never reached: no token arrives while
\* tokens are injected, and the last one back is the zero token.
NoErrorExit == ~exited

\* A process holds the number that it offers, until that has been taken.
Holders == {p \in Processes : on[p] = Out /\ phase[p] # "taken"}

\* The tokens are neither lost nor doubled on the way: while Root cycles, all
\* that it has injected are in flight, whoever is between input and output.
TokensKept ==
  net.program \in Rings /\ root.state = "CYCLING" => Cardinality(Holders) = net.tokens

\* The sum of the tokens that have come back after so many sends while cycling:
\* the tokens injected, one for each token that Root sends on, and one for each
\* element that a token passes.
SumAfter(sends) ==
  LET injected == IF net.program = "mtring" THEN (net.tokens * (net.tokens + 1)) \div 2
                  ELSE net.tokens
  IN  injected + sends + (net.tokens + sends) * (net.size - 1)

\* Root prints the sum of tokens that have gone around the ring `cycles' times,
\* in whatever order the processes run; those of ring3.c have been sent on
\* `cycles' times together, although its comments say otherwise.
TokenSum ==
  printed # -1 =>
    printed = SumAfter(IF net.program = "ring3" THEN net.cycles ELSE net.cycles * net.tokens)

\* CYCLES is the "# of times around the ring" (ring3.c:14), for every token.
TimesAroundRing == printed # -1 => printed = SumAfter(net.cycles * net.tokens)

\* Consume reads consecutive numbers: Delta and Succ neither skip nor repeat.
Consecutive ==
  [][net.program = "commstime" /\ phase[2] = "offered" /\ phase'[2] = "taken" /\ seen # -1
     => seen' = (seen + 1) % IntMod]_appVars

\* A ring comes to an end, Root and elements.
RingEnds ==
  net.program \in Rings => <>(\A p \in Processes : on[p] = Ended)

\* commstime.c goes on for ever, and so does Consume, at its far end.
ConsumeGoesOn == net.program = "commstime" => []<><<seen' # seen>>_appVars
=============================================================================
