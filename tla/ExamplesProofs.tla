--------------------------- MODULE ExamplesProofs ---------------------------
(***************************************************************************)
(* Proofs about the example programs, for networks of any size, number of  *)
(* tokens and number of cycles: no ring loses a token or calls error(),    *)
(* and Consume reads consecutive numbers.                                  *)
(***************************************************************************)
EXTENDS Examples, FiniteSetTheorems, WellFoundedInduction, TLAPS

Ring == net.program \in Rings

RootType == [state : {"INIT", "INJECTING", "CYCLING", "COLLECTING", "FINAL"}, count : Nat, sum : Nat]

\* Whoever does not wait to output has no message in its channel.
RingShape ==
  \A p \in Processes : on[p] \in {Ended, In, Out} /\ (on[p] # Out => phase[p] = "idle")

\* How many tokens are on their way in each state of Root, and what Root waits
\* for; the last one is the zero token.
RingTokens ==
  /\ root.state = "INIT" => on[0] # Ended /\ Cardinality(Holders) = 1
  /\ root.state = "INJECTING" =>
       on[0] = Out /\ root.count < net.tokens /\ Cardinality(Holders) = root.count + 1
  /\ root.state = "CYCLING" => on[0] # Ended /\ Cardinality(Holders) = net.tokens
  /\ root.state = "COLLECTING" =>
       on[0] = In /\ root.count < net.tokens /\ Cardinality(Holders) = net.tokens - root.count
  /\ root.state = "FINAL" => \A p \in Holders : x[p] = 0

\* Who has the number that goes round: Prefix, Delta or Succ, until the next one
\* has taken it.
AtPrefix == on[0] = Out /\ phase[0] # "taken"
AtDelta  == on[1] = Out /\ phase[1] # "taken"
AtSucc   == on[2] = Out /\ phase[3] # "taken"

\* Consume has read the number in Delta's variable.
Read == on[1] = In \/ (on[1] = Out2 /\ phase[2] = "taken")

CommsShape ==
  /\ on[0] \in {In, Out} /\ on[1] \in {In, Out, Out2} /\ on[2] \in {In, Out} /\ on[3] = In
  /\ phase[0] # "idle" => on[0] = Out
  /\ phase[1] # "idle" => on[1] = Out
  /\ phase[2] # "idle" => on[1] = Out2
  /\ phase[3] # "idle" => on[2] = Out

\* One number goes round, and from Succ on it is the successor of the one that
\* Delta has had; Consume is one behind until it has read that.
CommsNumbers ==
  /\ AtPrefix \/ AtDelta \/ AtSucc
  /\ ~(AtPrefix /\ AtDelta) /\ ~(AtPrefix /\ AtSucc) /\ ~(AtDelta /\ AtSucc)
  /\ seen # -1 \/ on[1] # In => /\ AtPrefix => x[0] = (x[1] + 1) % IntMod
                                /\ AtSucc => x[2] = (x[1] + 1) % IntMod
  /\ on[1] = Out2 /\ phase[2] = "taken" => seen # -1
  /\ seen # -1 => x[1] = IF Read THEN seen ELSE (seen + 1) % IntMod

ExamplesInv ==
  /\ TypeOK /\ net \in Networks /\ ~exited
  /\ Ring => RingShape /\ RingTokens
  /\ ~Ring => CommsShape /\ CommsNumbers

-----------------------------------------------------------------------------
LEMMA NetworkFacts ==
  ASSUME net \in Networks
  PROVE  /\ net.size \in Nat /\ net.size >= 2 /\ net.tokens \in Nat /\ net.tokens >= 1
         /\ net.cycles \in Nat
         /\ net.program \in Rings \cup {"commstime"}
         /\ net.program = "ring" => net.tokens = 1
         /\ ~Ring => net.size = 4
         /\ 0 \in Processes /\ Processes \subseteq Channels /\ Processes \subseteq Nat
         /\ IsFiniteSet(Processes)
<1>1. /\ net.size \in Nat /\ net.tokens \in 1 .. net.size - 1 /\ net.cycles \in Nat
      /\ net.program \in Rings \cup {"commstime"}
      /\ net.program = "ring" => net.tokens = 1
      /\ net.program = "commstime" => net.size = 4
  BY ExamplesAssumption
<1>2. /\ net.size >= 2 /\ net.tokens \in Nat /\ net.tokens >= 1
      /\ 0 \in Processes /\ Processes \subseteq Nat
  BY <1>1 DEF Processes
<1>3. Processes \subseteq Channels
  BY DEF Processes, Channels
<1>4. IsFiniteSet(Processes)
  <2>1. 0 \in Int /\ net.size - 1 \in Int
    BY <1>1
  <2>2. IsFiniteSet(0 .. net.size - 1)
    BY ONLY <2>1, FS_Interval
  <2>3. QED BY <2>2 DEF Processes
<1>5. QED BY <1>1, <1>2, <1>3, <1>4 DEF Ring

\* In a ring process p outputs to channel p, and nobody else does.
LEMMA RingActive ==
  ASSUME net \in Networks, Ring, NEW p \in Processes, on[p] \in {In, Out}
  PROVE  /\ on[p] = In => Active(p).type = "chanin" /\ Active(p).ch \in Processes
                        /\ Active(p).ch = (p + net.size - 1) % net.size
         /\ on[p] = Out => Active(p).type = "chanout" /\ Active(p).ch = p
<1>1. GuardsOf(p) = RingGuards(p)
  BY DEF GuardsOf, Ring, Rings
<1>2. /\ RingGuards(p)[In] = Input((p + net.size - 1) % net.size)
      /\ RingGuards(p)[Out] = Output(p)
  BY DEF RingGuards, In, Out, Pipe
<1>3. (p + net.size - 1) % net.size \in Processes
  <2>1. p + net.size - 1 \in Int /\ net.size \in Nat /\ net.size > 0
    BY NetworkFacts
  <2>2. (p + net.size - 1) % net.size \in 0 .. net.size - 1
    BY <2>1
  <2>3. QED BY <2>2 DEF Processes
<1>4. QED BY <1>1, <1>2, <1>3 DEF Active, Input, Output

LEMMA RingWriter ==
  ASSUME net \in Networks, Ring, NEW c \in Processes
  PROVE  Writer(c) = c
<1>1. \A p \in Processes : /\ GuardsOf(p) = RingGuards(p)
                           /\ DOMAIN RingGuards(p) = {In, Out}
                           /\ RingGuards(p)[In] # Output(c)
                           /\ RingGuards(p)[Out] = Output(p)
  BY DEF GuardsOf, Ring, Rings, RingGuards, In, Out, Input, Output, Pipe
<1>2. \A p \in Processes : Output(p) = Output(c) <=> p = c
  BY DEF Output
<1>3. \A p \in Processes : (\E g \in DOMAIN GuardsOf(p) : GuardsOf(p)[g] = Output(c)) <=> p = c
  BY <1>1, <1>2
<1>4. QED BY <1>3 DEF Writer

-----------------------------------------------------------------------------
\* Rings: what the three steps of a process do to the tokens on their way.

\* The root's token is offered: it is on its way as before.
LEMMA RingOffer ==
  ASSUME ExamplesInv, Ring, NEW p \in Processes, Offer(p)
  PROVE  RingShape' /\ Holders' = Holders
<1>1. /\ net \in Networks /\ RingShape /\ p \in Channels /\ net' = net /\ on' = on
      /\ phase \in [Channels -> Kernel!Phases]
  BY NetworkFacts DEF ExamplesInv, Ring, Offer, TypeOK
<1>2. on[p] \in {In, Out} /\ Active(p).type = "chanout"
  BY <1>1 DEF RingShape, Offer, Waits
<1>3. on[p] = Out /\ Active(p).ch = p
  BY <1>1, <1>2, RingActive
<1>4. phase[p] = "idle" /\ phase' = [phase EXCEPT ![p] = "offered"]
  BY <1>3 DEF Offer, Kernel!Offer
<1>5. RingShape'
  BY <1>1, <1>3, <1>4, NetworkFacts DEF RingShape, Processes
<1>6. Holders' = Holders
  BY <1>1, <1>3, <1>4, NetworkFacts DEF Holders, Processes
<1>7. QED BY <1>5, <1>6

\* What the code of process p finds when it has input: a token that its writer
\* held until now, while p had none.
LEMMA RingTake ==
  ASSUME ExamplesInv, Ring, NEW p \in Processes, Take(p)
  PROVE  /\ on[p] = In /\ p \notin Holders /\ net' = net
         /\ \E c \in Holders : /\ phase' = [phase EXCEPT ![c] = "taken"]
                               /\ Rtc(p, In, x[c])
                               /\ c = (p + net.size - 1) % net.size
<1>1. net \in Networks /\ RingShape /\ net' = net
  BY DEF ExamplesInv, Ring, Take
<1>2. on[p] \in {In, Out} /\ Active(p).type = "chanin"
  BY <1>1 DEF RingShape, Take, Waits
<1> DEFINE c == Active(p).ch
<1>3. on[p] = In /\ c \in Processes /\ c = (p + net.size - 1) % net.size
  BY <1>1, <1>2, RingActive
<1>4. phase[c] = "offered" /\ phase' = [phase EXCEPT ![c] = "taken"] /\ Rtc(p, In, x[c])
  BY <1>1, <1>3, RingWriter DEF Take, Kernel!Take
<1>5. c \in Holders /\ p \notin Holders
  BY <1>1, <1>3, <1>4 DEF RingShape, Holders, In, Out
<1> HIDE DEF c
<1>6. QED BY <1>1, <1>3, <1>4, <1>5

\* ... and when its output is complete: its token is already the reader's.
LEMMA RingRelease ==
  ASSUME ExamplesInv, Ring, NEW p \in Processes, Release(p)
  PROVE  /\ on[p] = Out /\ p \notin Holders /\ net' = net
         /\ phase' = [phase EXCEPT ![p] = "idle"]
         /\ Rtc(p, Out, x[p])
<1>1. net \in Networks /\ RingShape /\ net' = net
  BY DEF ExamplesInv, Ring, Release
<1>2. on[p] \in {In, Out} /\ Active(p).type = "chanout"
  BY <1>1 DEF RingShape, Release, Waits
<1>3. on[p] = Out /\ Active(p).ch = p
  BY <1>1, <1>2, RingActive
<1>4. phase[p] = "taken" /\ phase' = [phase EXCEPT ![p] = "idle"] /\ Rtc(p, Out, x[p])
  BY <1>3 DEF Release, Kernel!Release
<1>5. p \notin Holders
  BY <1>4 DEF Holders
<1>6. QED BY <1>1, <1>3, <1>4, <1>5

\* A token is taken, from c to p, and p goes on with guard s.
LEMMA TokenTaken ==
  ASSUME net \in Networks, RingShape, phase \in [Channels -> Kernel!Phases],
         x \in [Processes -> Nat], on \in [Processes -> {Ended, In, Out, Out2}],
         NEW p \in Processes, NEW c \in Holders, on[p] = In, net' = net,
         phase' = [phase EXCEPT ![c] = "taken"],
         on' = [on EXCEPT ![p] = on'[p]], on'[p] \in {Ended, In, Out}
  PROVE  /\ RingShape'
         /\ on'[p] = Out => /\ Holders' = (Holders \ {c}) \cup {p}
                            /\ Cardinality(Holders') = Cardinality(Holders)
         /\ on'[p] # Out => /\ Holders' = Holders \ {c}
                            /\ Cardinality(Holders') = Cardinality(Holders) - 1
<1>1. /\ Processes' = Processes /\ Processes \subseteq Channels /\ 0 \in Processes
      /\ IsFiniteSet(Processes) /\ IsFiniteSet(Holders)
      /\ c \in Processes /\ on[c] = Out /\ c # p /\ p \notin Holders
  BY NetworkFacts, FS_Subset DEF Processes, Holders, In, Out
<1>2. /\ \A q \in Processes : q # p => on'[q] = on[q]
      /\ \A q \in Processes : phase'[q] = IF q = c THEN "taken" ELSE phase[q]
  BY <1>1
<1>3. phase[p] = "idle"
  BY DEF RingShape, In, Out
<1>4. RingShape'
  BY <1>1, <1>2, <1>3 DEF RingShape
<1>5. on'[p] = Out => Holders' = (Holders \ {c}) \cup {p}
  BY <1>1, <1>2, <1>3 DEF Holders
<1>6. on'[p] # Out => Holders' = Holders \ {c}
  BY <1>1, <1>2, <1>3 DEF Holders
<1>7. /\ IsFiniteSet(Holders \ {c}) /\ Cardinality(Holders \ {c}) = Cardinality(Holders) - 1
      /\ Cardinality(Holders) \in Nat
  BY <1>1, FS_RemoveElement, FS_CardinalityType
<1>8. Cardinality((Holders \ {c}) \cup {p}) = Cardinality(Holders)
  <2>1. p \notin Holders \ {c}
    BY <1>1
  <2>2. Cardinality((Holders \ {c}) \cup {p}) = Cardinality(Holders \ {c}) + 1
    BY <1>7, <2>1, FS_AddElement
  <2>3. QED BY <1>7, <2>2
<1>9. QED BY <1>1, <1>2, <1>4, <1>5, <1>6, <1>7, <1>8

\* p has been released and goes on with guard s.
LEMMA TokenReleased ==
  ASSUME net \in Networks, RingShape, phase \in [Channels -> Kernel!Phases],
         x \in [Processes -> Nat], on \in [Processes -> {Ended, In, Out, Out2}],
         NEW p \in Processes, p \notin Holders, on[p] = Out, net' = net,
         phase' = [phase EXCEPT ![p] = "idle"],
         on' = [on EXCEPT ![p] = on'[p]], on'[p] \in {Ended, In, Out}
  PROVE  /\ RingShape'
         /\ on'[p] = Out => /\ Holders' = Holders \cup {p}
                            /\ Cardinality(Holders') = Cardinality(Holders) + 1
         /\ on'[p] # Out => Holders' = Holders
<1>1. /\ Processes' = Processes /\ Processes \subseteq Channels /\ 0 \in Processes
      /\ IsFiniteSet(Processes) /\ IsFiniteSet(Holders)
  BY NetworkFacts, FS_Subset DEF Processes, Holders
<1>2. /\ \A q \in Processes : q # p => on'[q] = on[q]
      /\ \A q \in Processes : phase'[q] = IF q = p THEN "idle" ELSE phase[q]
  BY <1>1
<1>3. RingShape'
  BY <1>1, <1>2 DEF RingShape
<1>4. on'[p] = Out => Holders' = Holders \cup {p}
  BY <1>1, <1>2 DEF Holders
<1>5. on'[p] # Out => Holders' = Holders
  BY <1>1, <1>2 DEF Holders
<1>6. Cardinality(Holders \cup {p}) = Cardinality(Holders) + 1
  BY <1>1, FS_AddElement
<1>7. QED BY <1>1, <1>2, <1>3, <1>4, <1>5, <1>6

\* An element passes a token on, incremented unless it is the zero token.
LEMMA ElementTakes ==
  ASSUME ExamplesInv, Ring, NEW p \in Processes, p # 0, Take(p)
  PROVE  RingShape' /\ RingTokens' /\ ~exited' /\ TypeOK'
<1>1. on[p] = In /\ net' = net
  BY RingTake
<1>2. PICK c \in Holders : phase' = [phase EXCEPT ![c] = "taken"] /\ Rtc(p, In, x[c])
  BY RingTake
<1>3. Element_rtc(p, In, x[c])
  BY <1>2 DEF Rtc, Ring
<1> DEFINE v == IF x[c] > 0 THEN x[c] + 1 ELSE x[c]
<1>4. Becomes(p, v, Out) /\ UNCHANGED <<rootVars, seen>>
  BY <1>3 DEF Element_rtc, In, Out
<1>5. /\ TypeOK /\ RingTokens /\ RingShape /\ ~exited /\ net \in Networks
      /\ phase \in [Channels -> Kernel!Phases] /\ x \in [Processes -> Nat]
      /\ on \in [Processes -> {Ended, In, Out, Out2}]
      /\ c \in Processes /\ v \in Nat
  BY DEF ExamplesInv, TypeOK, Holders
<1> HIDE DEF v
<1>6. /\ RingShape'
      /\ \A q \in Processes : x'[q] = IF q = p THEN v ELSE x[q]
      /\ on'[0] = on[0]
      /\ Holders' = (Holders \ {c}) \cup {p} /\ Cardinality(Holders') = Cardinality(Holders)
  <2>1. /\ on' = [on EXCEPT ![p] = on'[p]] /\ on'[p] = Out
        /\ \A q \in Processes : x'[q] = IF q = p THEN v ELSE x[q]
        /\ on'[0] = on[0] /\ on'[p] \in {Ended, In, Out}
    BY <1>4, <1>5, NetworkFacts DEF Becomes
  <2>2. QED BY <1>1, <1>2, <1>5, <2>1, TokenTaken
<1>7. root.state = "FINAL" => \A q \in Holders' : x'[q] = 0
  <2> SUFFICES ASSUME root.state = "FINAL", NEW q \in Holders'
               PROVE  x'[q] = 0
    OBVIOUS
  <2>1. x[c] = 0
    BY <1>5 DEF RingTokens
  <2>2. v = 0
    BY <2>1 DEF v
  <2>3. CASE q = p
    BY <1>6, <2>2, <2>3
  <2>4. CASE q # p
    BY <1>5, <1>6, <2>4 DEF RingTokens, Holders
  <2>5. QED BY <2>3, <2>4
<1>8. RingTokens'
  BY <1>1, <1>4, <1>5, <1>6, <1>7 DEF RingTokens, rootVars
<1>9. TypeOK'
  BY <1>1, <1>2, <1>4, <1>5 DEF TypeOK, rootVars, Becomes, Processes, Kernel!Phases
<1>10. QED BY <1>4, <1>5, <1>6, <1>8, <1>9 DEF rootVars

\* ... and inputs the next, or ends after the zero token.
LEMMA ElementReleased ==
  ASSUME ExamplesInv, Ring, NEW p \in Processes, p # 0, Release(p)
  PROVE  RingShape' /\ RingTokens' /\ ~exited' /\ TypeOK'
<1>1. /\ on[p] = Out /\ p \notin Holders /\ net' = net
      /\ phase' = [phase EXCEPT ![p] = "idle"] /\ Rtc(p, Out, x[p])
  BY RingRelease
<1>2. Element_rtc(p, Out, x[p])
  BY <1>1 DEF Rtc, Ring
<1> DEFINE s == IF x[p] = 0 THEN Ended ELSE In
<1>3. Becomes(p, x[p], s) /\ UNCHANGED <<rootVars, seen>>
  BY <1>2 DEF Element_rtc, In, Out
<1>4. /\ TypeOK /\ RingTokens /\ RingShape /\ ~exited /\ net \in Networks
      /\ phase \in [Channels -> Kernel!Phases] /\ x \in [Processes -> Nat]
      /\ on \in [Processes -> {Ended, In, Out, Out2}]
      /\ s \in {Ended, In, Out} /\ s # Out
  BY DEF ExamplesInv, TypeOK, Ended, In, Out
<1> HIDE DEF s
<1>5. /\ RingShape' /\ Holders' = Holders
      /\ \A q \in Processes : x'[q] = x[q]
      /\ on'[0] = on[0]
  <2>1. /\ on' = [on EXCEPT ![p] = on'[p]] /\ on'[p] = s
        /\ \A q \in Processes : x'[q] = x[q]
        /\ on'[0] = on[0]
    BY <1>3, <1>4, NetworkFacts DEF Becomes
  <2>2. QED BY <1>1, <1>4, <2>1, TokenReleased
<1>6. RingTokens'
  BY <1>1, <1>3, <1>4, <1>5 DEF RingTokens, rootVars, Holders
<1>7. TypeOK'
  BY <1>1, <1>3, <1>4 DEF TypeOK, rootVars, Becomes, Processes, Kernel!Phases
<1>8. QED BY <1>3, <1>4, <1>5, <1>6, <1>7 DEF rootVars

\* Root inputs: its first token has come back, tokens go round, or are
\* collected; last comes the zero token, because it is the only one left.
LEMMA RootTakes ==
  ASSUME ExamplesInv, Ring, Take(0)
  PROVE  RingShape' /\ RingTokens' /\ ~exited' /\ TypeOK'
<1>0. /\ TypeOK /\ RingTokens /\ RingShape /\ ~exited /\ net \in Networks
      /\ phase \in [Channels -> Kernel!Phases] /\ x \in [Processes -> Nat]
      /\ on \in [Processes -> {Ended, In, Out, Out2}]
      /\ root \in RootType /\ exited \in BOOLEAN
      /\ 0 \in Processes
  BY NetworkFacts DEF ExamplesInv, TypeOK, RootType
<1>1. on[0] = In /\ net' = net /\ Processes' = Processes
  BY <1>0, RingTake DEF Processes
<1>2. PICK c \in Holders : phase' = [phase EXCEPT ![c] = "taken"] /\ Rtc(0, In, x[c])
  BY <1>0, RingTake
<1>3. Root_rtc(In, x[c])
  BY <1>2 DEF Rtc, Ring
<1> DEFINE v == x[c]
<1>4. c \in Processes /\ v \in Nat
  BY <1>0 DEF Holders
<1> HIDE DEF v
<1>5. IsFiniteSet(Holders) /\ Cardinality(Holders) \in Nat
  BY <1>0, NetworkFacts, FS_Subset, FS_CardinalityType DEF Holders
<1>6. ASSUME NEW w \in Nat, NEW s \in {Ended, In, Out}, Becomes(0, w, s)
      PROVE  /\ RingShape' /\ on'[0] = s
             /\ x' \in [Processes -> Nat] /\ on' \in [Processes -> {Ended, In, Out, Out2}]
             /\ phase' \in [Channels -> Kernel!Phases]
             /\ \A q \in Processes : x'[q] = IF q = 0 THEN w ELSE x[q]
             /\ s = Out => /\ Holders' = (Holders \ {c}) \cup {0}
                           /\ Cardinality(Holders') = Cardinality(Holders)
             /\ s # Out => /\ Holders' = Holders \ {c}
                           /\ Cardinality(Holders') = Cardinality(Holders) - 1
  <2>1. /\ on' = [on EXCEPT ![0] = on'[0]] /\ on'[0] = s
        /\ \A q \in Processes : x'[q] = IF q = 0 THEN w ELSE x[q]
    BY <1>0, <1>6 DEF Becomes
  <2>5. /\ RingShape'
        /\ s = Out => /\ Holders' = (Holders \ {c}) \cup {0}
                      /\ Cardinality(Holders') = Cardinality(Holders)
        /\ s # Out => /\ Holders' = Holders \ {c}
                      /\ Cardinality(Holders') = Cardinality(Holders) - 1
    BY <1>0, <1>1, <1>2, <1>6, <2>1, TokenTaken
  <2>2. x' \in [Processes -> Nat] /\ on' \in [Processes -> {Ended, In, Out, Out2}]
    BY <1>0, <1>6 DEF Becomes
  <2>3. phase' \in [Channels -> Kernel!Phases]
    BY <1>0, <1>2 DEF Kernel!Phases
  <2>4. QED BY <2>1, <2>2, <2>3, <2>5
<1>7. /\ seen' = seen /\ seen \in Nat \cup {-1} /\ printed \in Nat \cup {-1}
      /\ net.tokens \in Nat /\ net.tokens >= 1 /\ (net.program = "ring" => net.tokens = 1)
      /\ 0 \in Nat /\ 1 \in Nat /\ v + 1 \in Nat
      /\ In \in {Ended, In, Out} /\ Out \in {Ended, In, Out} /\ Ended \in {Ended, In, Out}
      /\ In # Out /\ Ended # Out /\ In # Ended
  BY <1>0, <1>3, <1>4, NetworkFacts DEF TypeOK, Root_rtc, Ended, In, Out
<1>typed. ASSUME root' \in RootType, printed' \in Nat \cup {-1}, exited' \in BOOLEAN,
              x' \in [Processes -> Nat], on' \in [Processes -> {Ended, In, Out, Out2}],
              phase' \in [Channels -> Kernel!Phases]
       PROVE  TypeOK'
  BY <1>1, <1>7, <1>typed DEF TypeOK, RootType, Kernel!Phases
<1>8. CASE RootInit(In, v)
  <2>1. /\ root.state = "INIT" /\ Becomes(0, 1, Out)
        /\ root' = [root EXCEPT !.state = "INJECTING", !.count = 0]
        /\ printed' = printed /\ exited' = exited
    BY <1>7, <1>8 DEF RootInit
  <2>2. root'.state = "INJECTING" /\ root'.count = 0 /\ root' \in RootType
    BY <1>0, <2>1 DEF RootType
  <2>3. RingTokens'
    BY <1>0, <1>1, <1>6, <1>7, <2>1, <2>2 DEF RingTokens
  <2>4. TypeOK'
    BY <1>0, <1>7, <1>6, <1>typed, <2>1, <2>2
  <2>5. QED BY <1>0, <1>6, <1>7, <2>1, <2>3, <2>4
<1>9. CASE RootCycling(In, v)
  <2>1. /\ root.state = "CYCLING" /\ Becomes(0, v + 1, Out) /\ root' = root
        /\ printed' = printed /\ exited' = exited
    BY <1>7, <1>9 DEF RootCycling
  <2>2. RingTokens'
    BY <1>0, <1>1, <1>6, <1>7, <2>1 DEF RingTokens
  <2>3. TypeOK'
    BY <1>0, <1>7, <1>6, <1>typed, <2>1
  <2>4. QED BY <1>0, <1>6, <1>7, <2>1, <2>2, <2>3
\* The zero token that Root sends takes the place of the last one collected.
<1>10. ASSUME root.state = "COLLECTING", root.count + 1 = net.tokens,
              Becomes(0, 0, Out), root'.state = "FINAL"
       PROVE  RingTokens'
  <2>1. Cardinality(Holders) = 1
    BY <1>0, <1>5, <1>7, <1>10 DEF RingTokens, RootType
  <2>2. Holders = {c}
    BY <1>5, <2>1, FS_Singleton
  <2>3. Holders' = {0}
    BY <1>6, <1>7, <1>10, <2>2
  <2>4. \A q \in Holders' : x'[q] = 0
    BY <1>0, <1>6, <1>7, <1>10, <2>3
  <2>5. QED BY <1>10, <2>4 DEF RingTokens
<1>11. CASE CollectOne(In, v)
  <2>1. /\ root.state = "COLLECTING" /\ net.program = "ring" /\ Becomes(0, 0, Out)
        /\ root' = [root EXCEPT !.state = "FINAL"] /\ printed' = v /\ exited' = FALSE
    BY <1>7, <1>11 DEF CollectOne
  <2>2. root'.state = "FINAL" /\ root.count + 1 = net.tokens /\ root' \in RootType
    BY <1>0, <1>7, <2>1 DEF RingTokens, RootType
  <2>3. RingTokens'
    BY <1>10, <2>1, <2>2
  <2>4. TypeOK'
    BY <1>4, <1>7, <1>6, <1>typed, <2>1, <2>2
  <2>5. QED BY <1>6, <1>7, <2>1, <2>3, <2>4
<1>12. CASE CollectAll(In, v)
  <2>1. /\ root.state = "COLLECTING" /\ exited' = FALSE
        /\ \/ /\ root.count + 1 = net.tokens /\ Becomes(0, 0, Out)
              /\ root' = [state |-> "FINAL", count |-> root.count + 1, sum |-> root.sum + v]
              /\ printed' = root.sum + v
           \/ /\ root.count + 1 # net.tokens /\ Becomes(0, v, In)
              /\ root' = [root EXCEPT !.count = @ + 1, !.sum = root.sum + v]
              /\ printed' = printed
    BY <1>7, <1>12 DEF CollectAll
  <2>2. root.sum + v \in Nat /\ root.count \in Nat
    BY <1>0, <1>4 DEF RootType
  <2>3. CASE root.count + 1 = net.tokens
    <3>4. root' \in RootType /\ root'.state = "FINAL"
      BY <2>1, <2>2, <2>3 DEF RootType
    <3>1. RingTokens'
      BY <1>10, <2>1, <2>3, <3>4
    <3>2. TypeOK'
      BY <1>7, <1>6, <1>typed, <2>1, <2>2, <2>3, <3>4
    <3>3. QED BY <1>6, <1>7, <2>1, <2>3, <3>1, <3>2
  <2>4. CASE root.count + 1 # net.tokens
    <3>1. /\ root'.state = "COLLECTING" /\ root'.count = root.count + 1
          /\ Becomes(0, v, In) /\ printed' = printed
      BY <1>0, <2>1, <2>4 DEF RootType
    <3>2. on'[0] = In /\ Cardinality(Holders') = Cardinality(Holders) - 1
      BY <1>4, <1>6, <1>7, <3>1
    <3>3. RingTokens'
      BY <1>0, <1>1, <1>5, <1>7, <2>1, <2>2, <2>4, <3>1, <3>2 DEF RingTokens
    <3>4. root' \in RootType
      <4>1. root' = [state |-> root.state, count |-> root.count + 1, sum |-> root.sum + v]
        BY <1>0, <2>1, <2>4 DEF RootType
      <4>2. root.count + 1 \in Nat
        BY <2>2
      <4>3. QED BY <2>1, <2>2, <4>1, <4>2 DEF RootType
    <3>5. TypeOK'
      BY <1>4, <1>7, <1>6, <1>typed, <2>1, <3>1, <3>4
    <3>6. QED BY <1>4, <1>6, <1>7, <2>1, <3>1, <3>3, <3>5
  <2>5. QED BY <2>3, <2>4
<1>13. CASE RootFinal(In, v)
  <2>1. /\ root.state = "FINAL" /\ Becomes(0, v, Ended) /\ exited' = (v # 0)
        /\ root' = root /\ printed' = printed
    BY <1>7, <1>13 DEF RootFinal
  <2>2. v = 0
    BY <1>0, <2>1 DEF RingTokens, v
  <2>3. \A q \in Holders' : x'[q] = 0
    BY <1>0, <1>4, <1>6, <1>7, <2>1, <2>2 DEF RingTokens, Holders
  <2>4. RingTokens'
    BY <2>1, <2>3 DEF RingTokens
  <2>5. ~exited' /\ exited' \in BOOLEAN
    BY <2>1, <2>2
  <2>6. TypeOK'
    BY <1>0, <1>4, <1>7, <1>6, <1>typed, <2>1, <2>5
  <2>7. QED BY <1>4, <1>6, <1>7, <2>1, <2>4, <2>5, <2>6
<1>14. ~InjectOne(In, v) /\ ~InjectRising(In, v) /\ ~InjectEqual(In, v)
  BY <1>0, <1>1, <1>7 DEF RingTokens, InjectOne, InjectRising, InjectEqual
<1>15. QED BY <1>3, <1>8, <1>9, <1>11, <1>12, <1>13, <1>14 DEF Root_rtc, v

\* Root's output is complete: the token is out; while it injects it goes on to
\* the next at once.
LEMMA RootReleased ==
  ASSUME ExamplesInv, Ring, Release(0)
  PROVE  RingShape' /\ RingTokens' /\ ~exited' /\ TypeOK'
<1>0. /\ TypeOK /\ RingTokens /\ RingShape /\ ~exited /\ net \in Networks
      /\ phase \in [Channels -> Kernel!Phases] /\ x \in [Processes -> Nat]
      /\ on \in [Processes -> {Ended, In, Out, Out2}]
      /\ root \in RootType /\ exited \in BOOLEAN
      /\ 0 \in Processes
  BY NetworkFacts DEF ExamplesInv, TypeOK, RootType
<1> DEFINE v == x[0]
<1>1. /\ on[0] = Out /\ 0 \notin Holders /\ net' = net /\ Processes' = Processes
      /\ phase' = [phase EXCEPT ![0] = "idle"] /\ Rtc(0, Out, v)
  BY <1>0, RingRelease DEF Processes
<1>2. Root_rtc(Out, v)
  BY <1>1 DEF Rtc, Ring
<1>3. v \in Nat /\ v + 1 \in Nat /\ root.count \in Nat /\ root.sum \in Nat
  BY <1>0 DEF RootType
<1>4. IsFiniteSet(Holders) /\ Cardinality(Holders) \in Nat
  BY <1>0, NetworkFacts, FS_Subset, FS_CardinalityType DEF Holders
<1> HIDE DEF v
<1>5. ASSUME NEW w \in Nat, NEW s \in {Ended, In, Out}, Becomes(0, w, s)
      PROVE  /\ RingShape' /\ on'[0] = s
             /\ x' \in [Processes -> Nat] /\ on' \in [Processes -> {Ended, In, Out, Out2}]
             /\ phase' \in [Channels -> Kernel!Phases]
             /\ \A q \in Processes : q # 0 => x'[q] = x[q]
             /\ s = Out => Cardinality(Holders') = Cardinality(Holders) + 1
             /\ s # Out => Holders' = Holders
  <2>1. /\ on' = [on EXCEPT ![0] = on'[0]] /\ on'[0] = s
        /\ \A q \in Processes : q # 0 => x'[q] = x[q]
    BY <1>0, <1>5 DEF Becomes
  <2>2. /\ RingShape'
        /\ s = Out => Cardinality(Holders') = Cardinality(Holders) + 1
        /\ s # Out => Holders' = Holders
    BY <1>0, <1>1, <1>5, <2>1, TokenReleased
  <2>3. x' \in [Processes -> Nat] /\ on' \in [Processes -> {Ended, In, Out, Out2}]
    BY <1>0, <1>5 DEF Becomes
  <2>4. phase' \in [Channels -> Kernel!Phases]
    BY <1>0, <1>1 DEF Kernel!Phases
  <2>5. QED BY <2>1, <2>2, <2>3, <2>4
<1>6. /\ seen' = seen /\ seen \in Nat \cup {-1} /\ printed \in Nat \cup {-1}
      /\ net.tokens \in Nat /\ net.tokens >= 1 /\ (net.program = "ring" => net.tokens = 1)
      /\ In \in {Ended, In, Out} /\ Out \in {Ended, In, Out}
      /\ In # Out /\ Ended # Out /\ In # Ended
  BY <1>0, <1>2, NetworkFacts DEF TypeOK, Root_rtc, Ended, In, Out
<1>typed. ASSUME root' \in RootType, printed' \in Nat \cup {-1}, exited' \in BOOLEAN,
                 x' \in [Processes -> Nat], on' \in [Processes -> {Ended, In, Out, Out2}],
                 phase' \in [Channels -> Kernel!Phases]
          PROVE  TypeOK'
  BY <1>1, <1>6, <1>typed DEF TypeOK, RootType, Kernel!Phases
<1>7. CASE RootInit(Out, v)
  <2>1. /\ root.state = "INIT" /\ Becomes(0, v, In) /\ root' = root
        /\ printed' = printed /\ exited' = exited
    BY <1>6, <1>7 DEF RootInit
  <2>2. RingTokens'
    BY <1>0, <1>1, <1>3, <1>5, <1>6, <2>1 DEF RingTokens
  <2>3. QED BY <1>0, <1>3, <1>5, <1>6, <1>typed, <2>1, <2>2
\* The three Roots inject in their own ways: another token, or the last.
<1>8. CASE InjectOne(Out, v) \/ InjectRising(Out, v) \/ InjectEqual(Out, v)
  <2>1. root.state = "INJECTING" /\ exited' = FALSE /\ printed' = printed
    BY <1>6, <1>8 DEF InjectOne, InjectRising, InjectEqual
  <2>2. root.count < net.tokens /\ Cardinality(Holders) = root.count + 1
    BY <2>1, <1>0 DEF RingTokens
  <2>3. \/ /\ root.count + 1 < net.tokens /\ root' = [root EXCEPT !.count = @ + 1]
           /\ Becomes(0, v, Out) \/ Becomes(0, v + 1, Out)
        \/ /\ root.count + 1 = net.tokens /\ root'.state = "CYCLING" /\ root' \in RootType
           /\ Becomes(0, v, In)
    <3>1. CASE InjectOne(Out, v)
      BY <1>0, <1>3, <1>6, <2>2, <3>1 DEF InjectOne, RootType
    <3>2. CASE InjectRising(Out, v)
      <4>1. \/ /\ root.count + 1 < net.tokens /\ Becomes(0, v + 1, Out)
               /\ root' = [root EXCEPT !.count = @ + 1]
            \/ /\ root.count + 1 = net.tokens /\ Becomes(0, v, In)
               /\ root' = [root EXCEPT !.state = "CYCLING", !.count = 0]
        BY <1>3, <1>6, <2>2, <3>2 DEF InjectRising
      <4>2. [root EXCEPT !.state = "CYCLING", !.count = 0] \in RootType
        BY <1>0, <1>3 DEF RootType
      <4>3. [root EXCEPT !.state = "CYCLING", !.count = 0].state = "CYCLING"
        BY <1>0, <1>3 DEF RootType
      <4>4. QED BY <4>1, <4>2, <4>3
    <3>3. CASE InjectEqual(Out, v)
      <4>1. \/ /\ root.count + 1 < net.tokens /\ Becomes(0, v, Out)
               /\ root' = [root EXCEPT !.count = @ + 1]
            \/ /\ root.count + 1 = net.tokens /\ Becomes(0, v, In)
               /\ root' = [root EXCEPT !.state = "CYCLING", !.count = 0]
        BY <1>3, <1>6, <2>2, <3>3 DEF InjectEqual
      <4>2. [root EXCEPT !.state = "CYCLING", !.count = 0] \in RootType
        BY <1>0, <1>3 DEF RootType
      <4>3. [root EXCEPT !.state = "CYCLING", !.count = 0].state = "CYCLING"
        BY <1>0, <1>3 DEF RootType
      <4>4. QED BY <4>1, <4>2, <4>3
    <3>4. QED BY <1>8, <3>1, <3>2, <3>3
  <2>4. CASE root.count + 1 < net.tokens
    <3>1. PICK w \in Nat : Becomes(0, w, Out)
      BY <1>3, <1>6, <2>3, <2>4
    <3>2. root' = [state |-> root.state, count |-> root.count + 1, sum |-> root.sum]
      BY <1>0, <1>6, <2>3, <2>4 DEF RootType
    <3>3. root' \in RootType /\ root'.state = "INJECTING" /\ root'.count = root.count + 1
      BY <1>3, <2>1, <3>2 DEF RootType
    <3>4. on'[0] = Out /\ Cardinality(Holders') = Cardinality(Holders) + 1
      BY <1>5, <1>6, <3>1
    <3>5. RingTokens'
      BY <1>1, <2>2, <2>4, <3>3, <3>4 DEF RingTokens
    <3>6. QED BY <1>5, <1>6, <1>typed, <2>1, <3>1, <3>3, <3>5
  <2>5. CASE root.count + 1 = net.tokens
    <3>1. root'.state = "CYCLING" /\ root' \in RootType /\ Becomes(0, v, In)
      BY <1>3, <1>6, <2>3, <2>5
    <3>2. on'[0] = In /\ Holders' = Holders
      BY <1>3, <1>5, <1>6, <3>1
    <3>3. RingTokens'
      BY <1>1, <1>6, <2>2, <2>5, <3>1, <3>2 DEF RingTokens
    <3>4. QED BY <1>3, <1>5, <1>6, <1>typed, <2>1, <3>1, <3>3
  <2>6. QED BY <1>3, <1>6, <2>2, <2>4, <2>5
<1>9. CASE RootCycling(Out, v)
  <2>1. /\ root.state = "CYCLING" /\ Becomes(0, v, In)
        /\ printed' = printed /\ exited' = exited
        /\ \/ root' = [state |-> "COLLECTING", count |-> 0, sum |-> 0]
           \/ root' = [root EXCEPT !.count = @ + 1]
    BY <1>6, <1>9 DEF RootCycling
  <2>2. /\ root' \in RootType /\ root'.state \in {"CYCLING", "COLLECTING"}
        /\ root'.state = "COLLECTING" => root'.count = 0
    <3>1. CASE root' = [state |-> "COLLECTING", count |-> 0, sum |-> 0]
      BY <3>1 DEF RootType
    <3>2. CASE root' = [root EXCEPT !.count = @ + 1]
      <4>1. root' = [state |-> root.state, count |-> root.count + 1, sum |-> root.sum]
        BY <1>0, <3>2 DEF RootType
      <4>2. QED BY <1>3, <2>1, <4>1 DEF RootType
    <3>3. QED BY <2>1, <3>1, <3>2
  <2>3. on'[0] = In /\ Holders' = Holders
    BY <1>3, <1>5, <1>6, <2>1
  <2>4. RingTokens'
    BY <1>0, <1>1, <1>4, <1>6, <2>1, <2>2, <2>3 DEF RingTokens
  <2>5. QED BY <1>0, <1>3, <1>5, <1>6, <1>typed, <2>1, <2>2, <2>4
<1>10. CASE RootFinal(Out, v)
  <2>1. /\ root.state = "FINAL" /\ Becomes(0, v, In)
        /\ root' = root /\ printed' = printed /\ exited' = exited
    BY <1>6, <1>10 DEF RootFinal
  <2>2. Holders' = Holders /\ \A q \in Processes : q # 0 => x'[q] = x[q]
    BY <1>3, <1>5, <1>6, <2>1
  <2>3. \A q \in Holders' : x'[q] = 0
    BY <1>0, <1>1, <2>1, <2>2 DEF RingTokens, Holders
  <2>4. RingTokens'
    BY <2>1, <2>3 DEF RingTokens
  <2>5. QED BY <1>0, <1>3, <1>5, <1>6, <1>typed, <2>1, <2>4
<1>11. ~CollectOne(Out, v) /\ ~CollectAll(Out, v)
  BY <1>0, <1>1, <1>6 DEF RingTokens, CollectOne, CollectAll
<1>12. QED BY <1>2, <1>7, <1>8, <1>9, <1>10, <1>11 DEF Root_rtc

LEMMA RingStep ==
  ASSUME ExamplesInv, Ring, NEW p \in Processes, Step(p)
  PROVE  ExamplesInv'
<1>1. net' = net /\ net \in Networks /\ Ring'
  BY DEF Step, Offer, Take, Release, ExamplesInv, Ring, Rings
<1>2. CASE Offer(p)
  <2>1. RingShape' /\ Holders' = Holders
    BY <1>2, RingOffer
  <2>2. /\ x' = x /\ on' = on /\ root' = root /\ printed' = printed /\ seen' = seen /\ exited' = exited
        /\ RingTokens /\ TypeOK /\ ~exited
        /\ phase' = [phase EXCEPT ![Active(p).ch] = "offered"]
    BY <1>2 DEF Offer, Kernel!Offer, rootVars, ExamplesInv
  <2>3. RingTokens'
    BY <1>1, <2>1, <2>2 DEF RingTokens, Holders
  <2>4. TypeOK'
    BY <1>1, <2>2 DEF TypeOK, Processes, Kernel!Phases
  <2>5. QED BY <1>1, <2>1, <2>2, <2>3, <2>4 DEF ExamplesInv
<1>3. CASE Take(p)
  BY <1>1, <1>3, ElementTakes, RootTakes DEF ExamplesInv
<1>4. CASE Release(p)
  BY <1>1, <1>4, ElementReleased, RootReleased DEF ExamplesInv
<1>5. QED BY <1>2, <1>3, <1>4 DEF Step

-----------------------------------------------------------------------------
\* commstime.c: the four processes and channels.

LEMMA CommsNetwork ==
  ASSUME net \in Networks, ~Ring
  PROVE  /\ net.program = "commstime" /\ Processes = {0, 1, 2, 3} /\ {0, 1, 2, 3} \subseteq Channels
         /\ GuardsOf(0) = Pipe(3, 0)
         /\ GuardsOf(1) = [g \in {In, Out, Out2} |-> CASE g = In   -> Input(0)
                                                       [] g = Out  -> Output(1)
                                                       [] g = Out2 -> Output(2)]
         /\ GuardsOf(2) = Pipe(1, 3)
         /\ GuardsOf(3) = [g \in {In} |-> Input(2)]
<1>1. net.program = "commstime" /\ net.size = 4
  BY NetworkFacts DEF Ring
<1>2. Processes = {0, 1, 2, 3}
  BY <1>1 DEF Processes
<1>3. {0, 1, 2, 3} \subseteq Channels
  BY <1>2, NetworkFacts
<1>4. \A p : GuardsOf(p) = CommsGuards(p)
  BY <1>1 DEF GuardsOf
<1>5. /\ CommsGuards(0) = Pipe(3, 0) /\ CommsGuards(2) = Pipe(1, 3)
      /\ CommsGuards(3) = [g \in {In} |-> Input(2)]
  BY DEF CommsGuards
<1>6. CommsGuards(1) = [g \in {In, Out, Out2} |-> CASE g = In   -> Input(0)
                                                  [] g = Out  -> Output(1)
                                                  [] g = Out2 -> Output(2)]
  BY DEF CommsGuards
<1>7. QED BY <1>1, <1>2, <1>3, <1>4, <1>5, <1>6

LEMMA CommsActive ==
  ASSUME net \in Networks, ~Ring
  PROVE  /\ on[0] = In => Active(0).type = "chanin" /\ Active(0).ch = 3
         /\ on[0] = Out => Active(0).type = "chanout" /\ Active(0).ch = 0
         /\ on[1] = In => Active(1).type = "chanin" /\ Active(1).ch = 0
         /\ on[1] = Out => Active(1).type = "chanout" /\ Active(1).ch = 1
         /\ on[1] = Out2 => Active(1).type = "chanout" /\ Active(1).ch = 2
         /\ on[2] = In => Active(2).type = "chanin" /\ Active(2).ch = 1
         /\ on[2] = Out => Active(2).type = "chanout" /\ Active(2).ch = 3
         /\ on[3] = In => Active(3).type = "chanin" /\ Active(3).ch = 2
BY CommsNetwork DEF Active, Pipe, Input, Output, In, Out, Out2

LEMMA CommsWriter ==
  ASSUME net \in Networks, ~Ring
  PROVE  Writer(0) = 0 /\ Writer(1) = 1 /\ Writer(2) = 1 /\ Writer(3) = 2
<1> DEFINE Writes(p, c) == \E g \in DOMAIN GuardsOf(p) : GuardsOf(p)[g] = Output(c)
<1>1. \A c, i : Output(c) # Input(i)
  BY DEF Input, Output
<1>2. \A c, d : Output(c) = Output(d) => c = d
  BY DEF Output
<1>3. \A i, o, c : (\E g \in DOMAIN Pipe(i, o) : Pipe(i, o)[g] = Output(c)) <=> c = o
  <2>1. \A i, o : /\ DOMAIN Pipe(i, o) = {In, Out}
                 /\ Pipe(i, o)[In] = Input(i) /\ Pipe(i, o)[Out] = Output(o)
    BY DEF Pipe, In, Out
  <2>2. QED BY <1>1, <1>2, <2>1
<1>4. \A c : (Writes(0, c) <=> c = 0) /\ (Writes(2, c) <=> c = 3)
  BY <1>3, CommsNetwork
<1>5. \A c : Writes(1, c) <=> c \in {1, 2}
  BY <1>1, <1>2, CommsNetwork DEF In, Out, Out2
<1>6. \A c : ~Writes(3, c)
  BY <1>1, CommsNetwork DEF In
<1>7. \A c : Writer(c) = CHOOSE p \in Processes : Writes(p, c)
  BY DEF Writer
<1> HIDE DEF Writes
<1>8. Processes = {0, 1, 2, 3}
  BY CommsNetwork
<1>9. /\ \A p \in Processes : Writes(p, 0) <=> p = 0
      /\ \A p \in Processes : Writes(p, 1) <=> p = 1
      /\ \A p \in Processes : Writes(p, 2) <=> p = 1
      /\ \A p \in Processes : Writes(p, 3) <=> p = 2
  BY <1>4, <1>5, <1>6, <1>8
<1>10. Writer(0) = 0
  BY <1>7, <1>8, <1>9
<1>11. Writer(1) = 1
  BY <1>7, <1>8, <1>9
<1>12. Writer(2) = 1
  BY <1>7, <1>8, <1>9
<1>13. Writer(3) = 2
  BY <1>7, <1>8, <1>9
<1>14. QED BY <1>10, <1>11, <1>12, <1>13

\* What each step of commstime.c does.
CommsOffer(c) ==
  /\ phase[c] = "idle" /\ phase' = [phase EXCEPT ![c] = "offered"]
  /\ \/ c = 0 /\ on[0] = Out
     \/ c = 1 /\ on[1] = Out
     \/ c = 2 /\ on[1] = Out2
     \/ c = 3 /\ on[2] = Out
  /\ x' = x /\ on' = on /\ seen' = seen

PrefixTakes ==
  /\ on[0] = In /\ phase[3] = "offered" /\ phase' = [phase EXCEPT ![3] = "taken"]
  /\ x' = [x EXCEPT ![0] = x[2]] /\ on' = [on EXCEPT ![0] = Out] /\ seen' = seen

DeltaTakes ==
  /\ on[1] = In /\ phase[0] = "offered" /\ phase' = [phase EXCEPT ![0] = "taken"]
  /\ x' = [x EXCEPT ![1] = x[0]] /\ on' = [on EXCEPT ![1] = Out] /\ seen' = seen

SuccTakes ==
  /\ on[2] = In /\ phase[1] = "offered" /\ phase' = [phase EXCEPT ![1] = "taken"]
  /\ x' = [x EXCEPT ![2] = (x[1] + 1) % IntMod] /\ on' = [on EXCEPT ![2] = Out] /\ seen' = seen

ConsumeTakes ==
  /\ phase[2] = "offered" /\ phase' = [phase EXCEPT ![2] = "taken"]
  /\ x' = [x EXCEPT ![3] = x[1]] /\ on' = [on EXCEPT ![3] = In] /\ seen' = x[1]

\* Writer p, released from channel c, goes on with guard s and the number v.
CommsRelease(p, c, s, v) ==
  /\ phase[c] = "taken" /\ phase' = [phase EXCEPT ![c] = "idle"]
  /\ on' = [on EXCEPT ![p] = s] /\ seen' = seen
  /\ x' = [x EXCEPT ![p] = v]

CommsMove ==
  \/ \E c \in {0, 1, 2, 3} : CommsOffer(c)
  \/ PrefixTakes \/ DeltaTakes \/ SuccTakes \/ ConsumeTakes
  \/ on[0] = Out /\ CommsRelease(0, 0, In, x[0])
  \/ on[1] = Out /\ CommsRelease(1, 1, Out2, x[1])
  \/ on[1] = Out2 /\ CommsRelease(1, 2, In, x[1])
  \/ on[2] = Out /\ CommsRelease(2, 3, In, (x[2] + 1) % IntMod)

LEMMA CommsMoves ==
  ASSUME ExamplesInv, ~Ring, NEW p \in Processes, Step(p)
  PROVE  CommsMove /\ net' = net /\ UNCHANGED rootVars
<1>1. /\ net \in Networks /\ CommsShape /\ p \in {0, 1, 2, 3} /\ net.program \notin Rings
  BY CommsNetwork DEF ExamplesInv, Ring
<1>2. /\ on[0] \in {In, Out} /\ on[1] \in {In, Out, Out2} /\ on[2] \in {In, Out} /\ on[3] = In
  BY <1>1 DEF CommsShape
<1>3. /\ 1 - In = Out /\ 1 - Out = In
      /\ (In + 1) % 3 = Out /\ (Out + 1) % 3 = Out2 /\ (Out2 + 1) % 3 = In
  BY DEF In, Out, Out2
<1>4. CASE Offer(p)
  <2>1. /\ Active(p).type = "chanout" /\ x' = x /\ on' = on /\ seen' = seen
        /\ net' = net /\ UNCHANGED rootVars
        /\ phase[Active(p).ch] = "idle" /\ phase' = [phase EXCEPT ![Active(p).ch] = "offered"]
    BY <1>4 DEF Offer, Waits, Kernel!Offer
  <2>2. \/ Active(p).ch = 0 /\ on[0] = Out
        \/ Active(p).ch = 1 /\ on[1] = Out
        \/ Active(p).ch = 2 /\ on[1] = Out2
        \/ Active(p).ch = 3 /\ on[2] = Out
    BY <1>1, <1>2, <2>1, CommsActive
  <2>3. \E c \in {0, 1, 2, 3} : CommsOffer(c)
    BY <2>1, <2>2 DEF CommsOffer
  <2>4. QED BY <2>1, <2>3 DEF CommsMove
<1>5. CASE Take(p)
  <2>1. /\ Active(p).type = "chanin" /\ net' = net
        /\ phase[Active(p).ch] = "offered" /\ phase' = [phase EXCEPT ![Active(p).ch] = "taken"]
        /\ Rtc(p, on[p], x[Writer(Active(p).ch)])
    BY <1>5 DEF Take, Waits, Kernel!Take
  <2>2. CASE p = 0
    <3>1. on[0] = In /\ Active(0).ch = 3 /\ Writer(3) = 2
      BY <1>1, <1>2, <2>1, <2>2, CommsActive, CommsWriter
    <3>2. Rtc(0, In, x[2])
      BY <2>1, <2>2, <3>1
    <3>3. /\ x' = [x EXCEPT ![0] = x[2]] /\ on' = [on EXCEPT ![0] = 1 - In]
          /\ UNCHANGED rootVars /\ seen' = seen
      BY <1>1, <3>2 DEF Rtc, Prefix_rtc, Becomes
    <3>4. PrefixTakes
      BY <2>1, <2>2, <3>1, <3>3, <1>3 DEF PrefixTakes
    <3>5. QED BY <2>1, <3>3, <3>4 DEF CommsMove
  <2>3. CASE p = 1
    <3>1. on[1] = In /\ Active(1).ch = 0 /\ Writer(0) = 0
      BY <1>1, <1>2, <2>1, <2>3, CommsActive, CommsWriter
    <3>2. Rtc(1, In, x[0])
      BY <2>1, <2>3, <3>1
    <3>3. /\ x' = [x EXCEPT ![1] = x[0]] /\ on' = [on EXCEPT ![1] = (In + 1) % 3]
          /\ UNCHANGED rootVars /\ seen' = seen
      BY <1>1, <3>2 DEF Rtc, Delta_rtc, Becomes
    <3>4. DeltaTakes
      BY <2>1, <2>3, <3>1, <3>3, <1>3 DEF DeltaTakes
    <3>5. QED BY <2>1, <3>3, <3>4 DEF CommsMove
  <2>4. CASE p = 2
    <3>1. on[2] = In /\ Active(2).ch = 1 /\ Writer(1) = 1
      BY <1>1, <1>2, <2>1, <2>4, CommsActive, CommsWriter
    <3>2. Rtc(2, In, x[1])
      BY <2>1, <2>4, <3>1
    <3>3. /\ x' = [x EXCEPT ![2] = (x[1] + 1) % IntMod] /\ on' = [on EXCEPT ![2] = 1 - In]
          /\ UNCHANGED rootVars /\ seen' = seen
      BY <1>1, <3>2 DEF Rtc, Succ_rtc, Becomes
    <3>4. SuccTakes
      BY <2>1, <2>4, <3>1, <3>3, <1>3 DEF SuccTakes
    <3>5. QED BY <2>1, <3>3, <3>4 DEF CommsMove
  <2>5. CASE p = 3
    <3>1. Active(3).ch = 2 /\ Writer(2) = 1
      BY <1>1, <1>2, CommsActive, CommsWriter
    <3>2. Rtc(3, In, x[1])
      BY <1>2, <2>1, <2>5, <3>1
    <3>3. /\ x' = [x EXCEPT ![3] = x[1]] /\ on' = [on EXCEPT ![3] = In]
          /\ UNCHANGED rootVars /\ seen' = x[1]
      BY <1>1, <3>2 DEF Rtc, Consume_rtc, Becomes
    <3>4. ConsumeTakes
      BY <2>1, <2>5, <3>1, <3>3 DEF ConsumeTakes
    <3>5. QED BY <2>1, <3>3, <3>4 DEF CommsMove
  <2>6. QED BY <1>1, <2>2, <2>3, <2>4, <2>5
<1>6. CASE Release(p)
  <2>1. /\ Active(p).type = "chanout" /\ net' = net
        /\ phase[Active(p).ch] = "taken" /\ phase' = [phase EXCEPT ![Active(p).ch] = "idle"]
        /\ Rtc(p, on[p], x[p])
    BY <1>6 DEF Release, Waits, Kernel!Release
  <2>2. CASE p = 0
    <3>1. on[0] = Out /\ Active(0).ch = 0
      BY <1>1, <1>2, <2>1, <2>2, CommsActive
    <3>2. Rtc(0, Out, x[0])
      BY <2>1, <2>2, <3>1
    <3>3. /\ x' = [x EXCEPT ![0] = x[0]] /\ on' = [on EXCEPT ![0] = 1 - Out]
          /\ UNCHANGED rootVars /\ seen' = seen
      BY <1>1, <3>2 DEF Rtc, Prefix_rtc, Becomes
    <3>4. CommsRelease(0, 0, In, x[0])
      BY <2>1, <2>2, <3>1, <3>3, <1>3 DEF CommsRelease
    <3>5. QED BY <2>1, <3>1, <3>3, <3>4 DEF CommsMove
  <2>3. CASE p = 1
    <3>1. CASE on[1] = Out
      <4>1. Active(1).ch = 1
        BY <1>1, <3>1, CommsActive
      <4>2. Rtc(1, Out, x[1])
        BY <2>1, <2>3, <3>1
      <4>3. /\ x' = [x EXCEPT ![1] = x[1]] /\ on' = [on EXCEPT ![1] = (Out + 1) % 3]
            /\ UNCHANGED rootVars /\ seen' = seen
        BY <1>1, <4>2 DEF Rtc, Delta_rtc, Becomes
      <4>4. CommsRelease(1, 1, Out2, x[1])
        BY <2>1, <2>3, <4>1, <4>3, <1>3 DEF CommsRelease
      <4>5. QED BY <2>1, <3>1, <4>3, <4>4 DEF CommsMove
    <3>2. CASE on[1] = Out2
      <4>1. Active(1).ch = 2
        BY <1>1, <3>2, CommsActive
      <4>2. Rtc(1, Out2, x[1])
        BY <2>1, <2>3, <3>2
      <4>3. /\ x' = [x EXCEPT ![1] = x[1]] /\ on' = [on EXCEPT ![1] = (Out2 + 1) % 3]
            /\ UNCHANGED rootVars /\ seen' = seen
        BY <1>1, <4>2 DEF Rtc, Delta_rtc, Becomes
      <4>4. CommsRelease(1, 2, In, x[1])
        BY <2>1, <2>3, <4>1, <4>3, <1>3 DEF CommsRelease
      <4>5. QED BY <2>1, <3>2, <4>3, <4>4 DEF CommsMove
    <3>3. QED BY <1>1, <1>2, <2>1, <2>3, <3>1, <3>2, CommsActive
  <2>4. CASE p = 2
    <3>1. on[2] = Out /\ Active(2).ch = 3
      BY <1>1, <1>2, <2>1, <2>4, CommsActive
    <3>2. Rtc(2, Out, x[2])
      BY <2>1, <2>4, <3>1
    <3>3. /\ x' = [x EXCEPT ![2] = (x[2] + 1) % IntMod] /\ on' = [on EXCEPT ![2] = 1 - Out]
          /\ UNCHANGED rootVars /\ seen' = seen
      BY <1>1, <3>2 DEF Rtc, Succ_rtc, Becomes
    <3>4. CommsRelease(2, 3, In, (x[2] + 1) % IntMod)
      BY <2>1, <2>4, <3>1, <3>3, <1>3 DEF CommsRelease
    <3>5. QED BY <2>1, <3>1, <3>3, <3>4 DEF CommsMove
  <2>5. p # 3
    BY <1>1, <1>2, <2>1, CommsActive
  <2>6. QED BY <1>1, <2>2, <2>3, <2>4, <2>5
<1>7. QED BY <1>4, <1>5, <1>6 DEF Step

\* The variables of the four processes, each by itself.
LEMMA CommsPointwise ==
  ASSUME ExamplesInv, ~Ring, CommsMove
  PROVE  /\ {0, 1, 2, 3} \subseteq DOMAIN phase /\ {0, 1, 2, 3} \subseteq DOMAIN x
         /\ {0, 1, 2, 3} \subseteq DOMAIN on
         /\ \A p \in {0, 1, 2, 3} : x[p] \in Nat
         /\ \A v \in Nat : (v + 1) % IntMod \in Nat
<1>1. /\ Processes = {0, 1, 2, 3} /\ {0, 1, 2, 3} \subseteq Channels
  BY CommsNetwork DEF ExamplesInv
<1>2. phase \in [Channels -> Kernel!Phases] /\ x \in [Processes -> Nat]
      /\ on \in [Processes -> {Ended, In, Out, Out2}]
  BY DEF ExamplesInv, TypeOK
<1>3. \A v \in Nat : (v + 1) % IntMod \in Nat
  BY ExamplesAssumption
<1>4. QED BY <1>1, <1>2, <1>3

LEMMA CommsType ==
  ASSUME ExamplesInv, ~Ring, CommsMove, net' = net, UNCHANGED rootVars
  PROVE  TypeOK' /\ ~exited' /\ net' \in Networks /\ ~Ring'
<1>1. /\ {0, 1, 2, 3} \subseteq Processes /\ {0, 1, 2, 3} \subseteq Channels
      /\ TypeOK /\ Processes' = Processes /\ net' \in Networks /\ ~Ring' /\ ~exited'
  BY CommsNetwork DEF ExamplesInv, Processes, rootVars, Ring
<1>2. phase' \in [Channels -> Kernel!Phases]
  BY <1>1 DEF CommsMove, CommsOffer, PrefixTakes, DeltaTakes, SuccTakes, ConsumeTakes,
     CommsRelease, TypeOK, Kernel!Phases
<1>3. on' \in [Processes -> {Ended, In, Out, Out2}]
  BY <1>1 DEF CommsMove, CommsOffer, PrefixTakes, DeltaTakes, SuccTakes, ConsumeTakes,
     CommsRelease, TypeOK
<1>4. x' \in [Processes -> Nat] /\ seen' \in Nat \cup {-1}
  BY <1>1, CommsPointwise DEF CommsMove, CommsOffer, PrefixTakes, DeltaTakes, SuccTakes,
     ConsumeTakes, CommsRelease, TypeOK
<1>5. QED BY <1>1, <1>2, <1>3, <1>4 DEF TypeOK, rootVars

LEMMA CommsNumbersKept ==
  ASSUME ExamplesInv, ~Ring, CommsMove, net' = net, UNCHANGED rootVars
  PROVE  CommsShape' /\ CommsNumbers'
<1>1. CommsShape /\ CommsNumbers
  BY DEF ExamplesInv
<1>2. CASE \E c \in {0, 1, 2, 3} : CommsOffer(c)
  BY <1>1, <1>2, CommsPointwise
     DEF CommsOffer, CommsShape, CommsNumbers, AtPrefix, AtDelta, AtSucc, Read, In, Out, Out2
<1>3. CASE PrefixTakes
  BY <1>1, <1>3, CommsPointwise
     DEF PrefixTakes, CommsShape, CommsNumbers, AtPrefix, AtDelta, AtSucc, Read, In, Out, Out2
<1>4. CASE DeltaTakes
  BY <1>1, <1>4, CommsPointwise
     DEF DeltaTakes, CommsShape, CommsNumbers, AtPrefix, AtDelta, AtSucc, Read, In, Out, Out2
<1>5. CASE SuccTakes
  BY <1>1, <1>5, CommsPointwise
     DEF SuccTakes, CommsShape, CommsNumbers, AtPrefix, AtDelta, AtSucc, Read, In, Out, Out2
<1>6. CASE ConsumeTakes
  BY <1>1, <1>6, CommsPointwise
     DEF ConsumeTakes, CommsShape, CommsNumbers, AtPrefix, AtDelta, AtSucc, Read, In, Out, Out2
<1>7. CASE on[0] = Out /\ CommsRelease(0, 0, In, x[0])
  BY <1>1, <1>7, CommsPointwise
     DEF CommsRelease, CommsShape, CommsNumbers, AtPrefix, AtDelta, AtSucc, Read, In, Out, Out2
<1>8. CASE on[1] = Out /\ CommsRelease(1, 1, Out2, x[1])
  BY <1>1, <1>8, CommsPointwise
     DEF CommsRelease, CommsShape, CommsNumbers, AtPrefix, AtDelta, AtSucc, Read, In, Out, Out2
<1>9. CASE on[1] = Out2 /\ CommsRelease(1, 2, In, x[1])
  BY <1>1, <1>9, CommsPointwise
     DEF CommsRelease, CommsShape, CommsNumbers, AtPrefix, AtDelta, AtSucc, Read, In, Out, Out2
<1>10. CASE on[2] = Out /\ CommsRelease(2, 3, In, (x[2] + 1) % IntMod)
  BY <1>1, <1>10, CommsPointwise
     DEF CommsRelease, CommsShape, CommsNumbers, AtPrefix, AtDelta, AtSucc, Read, In, Out, Out2
<1>11. QED BY <1>2, <1>3, <1>4, <1>5, <1>6, <1>7, <1>8, <1>9, <1>10 DEF CommsMove

LEMMA CommsStep ==
  ASSUME ExamplesInv, ~Ring, NEW p \in Processes, Step(p)
  PROVE  ExamplesInv'
BY CommsMoves, CommsType, CommsNumbersKept DEF ExamplesInv

-----------------------------------------------------------------------------
LEMMA ExamplesStart ==
  ASSUME Init
  PROVE  ExamplesInv
<1>1. /\ net \in Networks /\ 0 \in Processes /\ phase = [c \in Channels |-> "idle"]
      /\ on = [p \in Processes |-> IF p = 0 THEN Out ELSE In]
      /\ root = [state |-> "INIT", count |-> 0, sum |-> 0]
      /\ printed = -1 /\ seen = -1 /\ exited = FALSE /\ Processes \subseteq Channels
      /\ net.program \in Rings \cup {"commstime"}
  BY NetworkFacts DEF Init, Kernel!Init
<1>2. x \in [Processes -> Nat]
  <2>1. CASE net.program = "commstime"
    BY <2>1, <1>1, ExamplesAssumption DEF Init
  <2>2. CASE net.program \in Rings
    <3>1. FirstToken[net.program] \in Nat
      BY <2>2 DEF FirstToken, Rings
    <3>2. x = [p \in Processes |-> IF p = 0 THEN FirstToken[net.program] ELSE 0]
      BY <2>2 DEF Init, Rings
    <3>3. QED BY <3>1, <3>2
  <2>3. QED BY <1>1, <2>1, <2>2
<1>3. TypeOK
  BY <1>1, <1>2 DEF TypeOK, Kernel!Phases
<1>4. ASSUME Ring
      PROVE  RingShape /\ RingTokens
  <2>1. RingShape
    BY <1>1 DEF RingShape
  <2>2. Holders = {0}
    BY <1>1 DEF Holders, In, Out
  <2>3. Cardinality(Holders) = 1
    BY <2>2, FS_Singleton
  <2>4. QED BY <1>1, <2>1, <2>3 DEF RingTokens, Ended, Out
<1>5. ASSUME ~Ring
      PROVE  CommsShape /\ CommsNumbers
  <2>1. /\ on[0] = Out /\ on[1] = In /\ on[2] = In /\ on[3] = In
        /\ \A c \in {0, 1, 2, 3} : phase[c] = "idle"
    BY <1>1, <1>5, CommsNetwork
  <2>2. CommsShape
    BY <2>1 DEF CommsShape
  <2>3. AtPrefix /\ ~AtDelta /\ ~AtSucc /\ ~(seen # -1) /\ ~(on[1] # In) /\ on[1] # Out2
    BY <1>1, <2>1 DEF AtPrefix, AtDelta, AtSucc, In, Out, Out2
  <2>4. QED BY <2>2, <2>3 DEF CommsNumbers
<1>6. QED BY <1>1, <1>3, <1>4, <1>5 DEF ExamplesInv

LEMMA ExamplesStutters ==
  ASSUME ExamplesInv, UNCHANGED appVars
  PROVE  ExamplesInv'
<1>1. /\ net' = net /\ phase' = phase /\ x' = x /\ on' = on /\ root' = root
      /\ printed' = printed /\ seen' = seen /\ exited' = exited
  BY DEF appVars
<1>2. TypeOK' /\ Ring' = Ring
  BY <1>1 DEF ExamplesInv, TypeOK, Processes, Ring
<1>3. RingShape' = RingShape /\ RingTokens' = RingTokens
  BY <1>1 DEF RingShape, RingTokens, Holders, Processes
<1>4. CommsShape' = CommsShape /\ CommsNumbers' = CommsNumbers
  BY <1>1 DEF CommsShape, CommsNumbers, AtPrefix, AtDelta, AtSucc, Read
<1>5. QED BY <1>1, <1>2, <1>3, <1>4 DEF ExamplesInv

\* The tokens of a ring, and the number that goes round in commstime.c, are
\* where the state of the processes says: inductive for every network.
THEOREM ExamplesInvariant == Spec => []ExamplesInv
<1>1. Init => ExamplesInv
  BY ExamplesStart
<1>2. ExamplesInv /\ [Next]_appVars => ExamplesInv'
  <2>1. ASSUME ExamplesInv, NEW p \in Processes, Step(p)
        PROVE  ExamplesInv'
    BY <2>1, RingStep, CommsStep
  <2>2. QED BY <2>1, ExamplesStutters DEF Next
<1>3. QED BY <1>1, <1>2, PTL DEF Spec

\* Types: the variables of the example programs keep their ranges.
THEOREM ExamplesTypesHold == Spec => []TypeOK
<1>1. ExamplesInv => TypeOK
  BY DEF ExamplesInv
<1>2. QED BY <1>1, ExamplesInvariant, PTL

\* No Root reaches its calls of error(), however many processes and tokens the
\* ring has.
THEOREM NoErrorExitHolds == Spec => []NoErrorExit
<1>1. ExamplesInv => NoErrorExit
  BY DEF ExamplesInv, NoErrorExit
<1>2. QED BY <1>1, ExamplesInvariant, PTL

\* While Root cycles, exactly the tokens that it has injected are on their way.
THEOREM TokensKeptHolds == Spec => []TokensKept
<1>1. ExamplesInv => TokensKept
  BY DEF ExamplesInv, TokensKept, RingTokens, Ring
<1>2. QED BY <1>1, ExamplesInvariant, PTL

\* Consume reads consecutive numbers, whoever of the four processes runs first
\* and whichever output Delta waits for.
THEOREM ConsecutiveHolds == Spec => Consecutive
<1> DEFINE Reads == net.program = "commstime" /\ phase[2] = "offered" /\ phase'[2] = "taken" /\ seen # -1
           A == Reads => seen' = (seen + 1) % IntMod
<1>1. ASSUME ExamplesInv, NEW p \in Processes, Step(p), Reads
      PROVE  seen' = (seen + 1) % IntMod
  <2>1. ~Ring /\ CommsShape /\ CommsNumbers
    BY <1>1 DEF ExamplesInv, Ring, Rings
  <2>2. CommsMove /\ {0, 1, 2, 3} \subseteq DOMAIN phase
    BY <1>1, <2>1, CommsMoves, CommsPointwise
  <2>3. ConsumeTakes
    BY <1>1, <2>2 DEF CommsMove, CommsOffer, PrefixTakes, DeltaTakes, SuccTakes, CommsRelease
  <2>4. on[1] = Out2 /\ ~Read
    BY <1>1, <2>1 DEF CommsShape, Read, In, Out2
  <2>5. QED BY <1>1, <2>1, <2>3, <2>4 DEF CommsNumbers, ConsumeTakes
<1>2. ExamplesInv /\ [Next]_appVars => [A]_appVars
  BY <1>1 DEF Next
<1>3. QED BY <1>2, ExamplesInvariant, PTL DEF Spec, Consecutive
-----------------------------------------------------------------------------
\* The sum that Root prints.  s is the sum of w over 0 .. n - 1: f has the
\* sums of its beginnings.
Sums(w, n, s) ==
  \E f \in [0 .. n -> Int] : /\ f[0] = 0 /\ f[n] = s
                             /\ \A i \in 0 .. n - 1 : f[i + 1] = f[i] + w[i]

\* The sum of the tokens when Root has injected m.
Injected(m) == IF net.program = "mtring" THEN (m * (m + 1)) \div 2 ELSE m

\* What a token will be worth when it reaches Root: each element on its way
\* adds one.
Worth == [p \in Processes |-> IF p \in Holders THEN x[p] + (net.size - 1 - p) ELSE 0]

\* All tokens, when they have come round for the first time.
Base == Injected(net.tokens) + net.tokens * (net.size - 1)

\* What the tokens on their way are worth to Root, in each of its states: a
\* token that Root sends on gains the size of the ring; what has been collected
\* is in Root's sum.
RingSum ==
  /\ root.state # "FINAL" => \A p \in Holders : x[p] > 0
  /\ root.state = "INJECTING" =>
       /\ x[0] = IF net.program = "mtring" THEN root.count + 1 ELSE 1
       /\ Sums(Worth, net.size, Injected(root.count + 1) + (root.count + 1) * (net.size - 1))
  /\ root.state = "CYCLING" =>
       Sums(Worth, net.size, Base + net.size * (root.count + (IF on[0] = Out THEN 1 ELSE 0)))
  /\ root.state = "COLLECTING" =>
       /\ Sums(Worth, net.size, Base + net.size * Sends - root.sum)
       /\ root.count = 0 => root.sum = 0

SumInv == ExamplesInv /\ (Ring => RingSum) /\ TokenSum

\* The sends of TokenSum are those that Root counts: ring.c has one token.
LEMMA SendsCounted ==
  ASSUME net \in Networks, Ring
  PROVE  Sends = IF net.program = "ring3" THEN net.cycles ELSE net.cycles * net.tokens
<1>1. net.cycles \in Nat /\ net.program \in Rings /\ (net.program = "ring" => net.tokens = 1)
  BY ExamplesAssumption DEF Ring
<1>2. net.cycles * 1 = net.cycles
  BY <1>1
<1>3. QED BY <1>1, <1>2 DEF Sends, Rings

\* Numbers are well founded: induction is the absence of a least counterexample.
LEMMA LeastOf ==
  ASSUME NEW T, T \subseteq Nat, T # {}
  PROVE  \E n \in T : \A m \in T : n <= m
<1> DEFINE R == OpToRel(<, Nat)
<1>1. IsWellFoundedOn(R, Nat)
  BY NatLessThanWellFounded, Zenon
<1>2. \A m, n \in Nat : m < n => <<m, n>> \in R
  BY DEF OpToRel
<1> HIDE DEF R
<1>3. PICK n \in T : \A m \in T : ~(<<m, n>> \in R)
  BY <1>1, WFMin
<1>4. ASSUME NEW m \in T PROVE n <= m
  <2>1. ~(m < n)
    BY <1>2, <1>3, Zenon
  <2>2. QED BY <2>1
<1>5. QED BY <1>4

\* One term of a sum changes.
LEMMA SumOne ==
  ASSUME NEW n \in Nat, NEW w, NEW v, NEW s \in Int, NEW d \in Int, NEW j \in 0 .. n - 1,
         \A i \in 0 .. n - 1 : w[i] \in Int,
         v[j] = w[j] + d, \A i \in 0 .. n - 1 : i # j => v[i] = w[i],
         Sums(w, n, s)
  PROVE  Sums(v, n, s + d)
<1>1. PICK f \in [0 .. n -> Int] : /\ f[0] = 0 /\ f[n] = s
                                   /\ \A i \in 0 .. n - 1 : f[i + 1] = f[i] + w[i]
  BY DEF Sums
<1> DEFINE g == [i \in 0 .. n |-> IF i > j THEN f[i] + d ELSE f[i]]
<1>2. g \in [0 .. n -> Int] /\ \A i \in 0 .. n : g[i] = IF i > j THEN f[i] + d ELSE f[i]
  BY <1>1
<1> HIDE DEF g
<1>3. g[0] = 0 /\ g[n] = s + d
  BY <1>1, <1>2
<1>4. ASSUME NEW i \in 0 .. n - 1
      PROVE  g[i + 1] = g[i] + v[i]
  <2>1. /\ i \in 0 .. n /\ i + 1 \in 0 .. n
        /\ f[i] \in Int /\ f[i + 1] \in Int /\ w[i] \in Int /\ d \in Int
    BY <1>1
  <2>2. f[i + 1] = f[i] + w[i]
    BY <1>1
  <2>3. /\ g[i] = IF i > j THEN f[i] + d ELSE f[i]
        /\ g[i + 1] = IF i + 1 > j THEN f[i + 1] + d ELSE f[i + 1]
    BY <1>2, <2>1
  <2>4. CASE i = j
    <3>1. g[i] = f[i] /\ g[i + 1] = f[i + 1] + d /\ v[i] = w[i] + d
      BY <2>3, <2>4
    <3>2. (f[i] + w[i]) + d = f[i] + (w[i] + d)
      BY ONLY <2>1
    <3>3. QED BY <2>2, <3>1, <3>2
  <2>5. CASE i # j
    <3>1. v[i] = w[i]
      BY <2>5
    <3>2. CASE i > j
      <4>1. g[i] = f[i] + d /\ g[i + 1] = f[i + 1] + d
        BY <2>3, <3>2
      <4>2. (f[i] + w[i]) + d = (f[i] + d) + w[i]
        BY ONLY <2>1
      <4>3. QED BY <2>2, <3>1, <4>1, <4>2
    <3>3. CASE ~(i > j)
      <4>1. ~(i + 1 > j)
        BY <2>5, <3>3
      <4>2. g[i] = f[i] /\ g[i + 1] = f[i + 1]
        BY <2>3, <3>3, <4>1
      <4>3. QED BY <2>2, <3>1, <4>2
    <3>4. QED BY <3>2, <3>3
  <2>6. QED BY <2>4, <2>5
<1>5. QED BY <1>2, <1>3, <1>4 DEF Sums

\* No term changes.
LEMMA SumSame ==
  ASSUME NEW n \in Nat, NEW w, NEW v, NEW s, \A i \in 0 .. n - 1 : v[i] = w[i], Sums(w, n, s)
  PROVE  Sums(v, n, s)
BY DEF Sums

\* Only one term is not zero: it is the sum.
LEMMA SumSingle ==
  ASSUME NEW n \in Nat, NEW w, NEW j \in 0 .. n - 1, w[j] \in Int,
         \A i \in 0 .. n - 1 : i # j => w[i] = 0
  PROVE  /\ Sums(w, n, w[j])
         /\ \A s : Sums(w, n, s) => s = w[j]
<1> DEFINE g == [i \in 0 .. n |-> IF i > j THEN w[j] ELSE 0]
<1>1. g \in [0 .. n -> Int] /\ \A i \in 0 .. n : g[i] = IF i > j THEN w[j] ELSE 0
  OBVIOUS
<1> HIDE DEF g
<1>2. g[0] = 0 /\ g[n] = w[j]
  BY <1>1
<1>3. ASSUME NEW i \in 0 .. n - 1
      PROVE  /\ i \in 0 .. n /\ i + 1 \in 0 .. n
             /\ g[i] \in Int /\ w[i] \in Int /\ g[i + 1] = g[i] + w[i]
  <2>1. i \in 0 .. n /\ i + 1 \in 0 .. n
    OBVIOUS
  <2>2. CASE i = j
    BY <1>1, <2>1, <2>2
  <2>3. CASE i # j
    BY <1>1, <2>1, <2>3
  <2>4. QED BY <2>1, <2>2, <2>3
<1>4. Sums(w, n, w[j])
  BY <1>1, <1>2, <1>3 DEF Sums
<1>5. ASSUME NEW s, Sums(w, n, s)
      PROVE  s = w[j]
  <2>1. PICK f \in [0 .. n -> Int] : /\ f[0] = 0 /\ f[n] = s
                                     /\ \A i \in 0 .. n - 1 : f[i + 1] = f[i] + w[i]
    BY <1>5 DEF Sums
  <2> DEFINE T == {i \in 0 .. n : f[i] # g[i]}
  <2>2. T = {}
    <3> SUFFICES ASSUME T # {}
                 PROVE  FALSE
      OBVIOUS
    <3>1. T \subseteq Nat
      OBVIOUS
    <3>2. PICK m \in T : \A i \in T : m <= i
      BY <3>1, LeastOf
    <3>3. m \in 0 .. n /\ f[m] # g[m]
      BY <3>2
    <3>4. m # 0
      BY <1>2, <2>1, <3>3
    <3>5. m - 1 \in 0 .. n - 1 /\ m - 1 \in 0 .. n /\ (m - 1) + 1 = m /\ ~(m <= m - 1)
      BY <3>3, <3>4
    <3>6. f[m - 1] = g[m - 1]
      BY <3>2, <3>5
    <3>7. f[(m - 1) + 1] = f[m - 1] + w[m - 1] /\ g[(m - 1) + 1] = g[m - 1] + w[m - 1]
      BY <1>3, <2>1, <3>5
    <3>8. QED BY <3>3, <3>5, <3>6, <3>7
  <2>3. n \in 0 .. n
    OBVIOUS
  <2>4. f[n] = g[n]
    BY <2>2, <2>3
  <2>5. QED BY <1>2, <2>1, <2>4
<1>6. QED BY <1>4, <1>5

-----------------------------------------------------------------------------
\* What a step does to the worth of the tokens.

LEMMA WorthAt ==
  ASSUME ExamplesInv
  PROVE  /\ net.size \in Nat /\ Processes = 0 .. net.size - 1
         /\ \A q \in Processes :
              /\ x[q] \in Nat /\ q \in Int
              /\ q \in Holders => Worth[q] = x[q] + (net.size - 1 - q)
              /\ q \notin Holders => Worth[q] = 0
              /\ Worth[q] \in Int
<1>1. net.size \in Nat /\ Processes = 0 .. net.size - 1
  BY NetworkFacts DEF ExamplesInv, Processes
<1>2. \A q \in Processes : x[q] \in Nat /\ q \in Int
  BY <1>1 DEF ExamplesInv, TypeOK
<1>3. \A q \in Processes : Worth[q] = IF q \in Holders THEN x[q] + (net.size - 1 - q) ELSE 0
  BY DEF Worth
<1>4. \A q \in Processes : x[q] + (net.size - 1 - q) \in Int
  BY <1>1, <1>2
<1>5. QED BY <1>1, <1>2, <1>3, <1>4

\* Nobody's token changes.
LEMMA WorthSame ==
  ASSUME ExamplesInv, net' = net, Holders' = Holders, \A q \in Holders : x'[q] = x[q], NEW s
  PROVE  Sums(Worth, net.size, s) => Sums(Worth', net'.size, s)
<1>1. Processes' = Processes
  BY DEF Processes
<1>2. Worth' = Worth
  BY <1>1 DEF Worth
<1>3. QED BY <1>2

\* p has a token that it did not have before.
LEMMA WorthAdded ==
  ASSUME ExamplesInv, net' = net, NEW p \in Processes, p \notin Holders,
         Holders' = Holders \cup {p}, x'[p] \in Nat,
         \A q \in Processes : q # p => x'[q] = x[q],
         NEW s \in Int, Sums(Worth, net.size, s)
  PROVE  Sums(Worth', net'.size, s + (x'[p] + (net.size - 1 - p)))
<1>1. /\ net.size \in Nat /\ Processes = 0 .. net.size - 1 /\ Processes' = Processes
      /\ Worth[p] = 0 /\ \A q \in Processes : Worth[q] \in Int
      /\ p \in Int
  BY WorthAt DEF Processes
<1> DEFINE d == x'[p] + (net.size - 1 - p)
<1>2. d \in Int
  BY <1>1
<1>3. \A q \in Processes : Worth'[q] = IF q \in Holders' THEN x'[q] + (net.size - 1 - q) ELSE 0
  BY <1>1 DEF Worth
<1>4. Worth'[p] = Worth[p] + d
  BY <1>1, <1>2, <1>3
<1>5. ASSUME NEW q \in Processes, q # p
      PROVE  Worth'[q] = Worth[q]
  BY <1>3, <1>5 DEF Worth
<1> HIDE DEF d
<1>6. Sums(Worth', net.size, s + d)
  BY <1>1, <1>2, <1>4, <1>5, SumOne
<1>7. QED BY <1>6 DEF d

\* c's token has gone to p, and it is worth d more than before.
LEMMA WorthMoved ==
  ASSUME ExamplesInv, net' = net, NEW p \in Processes, p \notin Holders, NEW c \in Holders,
         Holders' = (Holders \ {c}) \cup {p},
         \A q \in Processes : q # p => x'[q] = x[q],
         NEW d \in Int, x'[p] + (net.size - 1 - p) = x[c] + (net.size - 1 - c) + d,
         NEW s \in Int, Sums(Worth, net.size, s)
  PROVE  Sums(Worth', net'.size, s + d)
<1>1. /\ net.size \in Nat /\ Processes = 0 .. net.size - 1 /\ Processes' = Processes
      /\ c \in Processes /\ c # p
      /\ Worth[p] = 0 /\ Worth[c] = x[c] + (net.size - 1 - c)
      /\ \A q \in Processes : Worth[q] \in Int
  BY WorthAt DEF Processes, Holders
<1> DEFINE e == Worth[c]
           u == [q \in Processes |-> IF q = c THEN 0 ELSE Worth[q]]
<1>2. e \in Int /\ 0 - e \in Int /\ e + d \in Int /\ s + (0 - e) \in Int
      /\ e + (0 - e) = 0 /\ (s + (0 - e)) + (e + d) = s + d
  <2>1. e \in Int /\ s \in Int /\ d \in Int
    BY <1>1
  <2> HIDE DEF e
  <2>2. QED BY ONLY <2>1
<1>3. \A q \in Processes : u[q] = IF q = c THEN 0 ELSE Worth[q]
  OBVIOUS
<1>4. \A q \in Processes : Worth'[q] = IF q \in Holders' THEN x'[q] + (net.size - 1 - q) ELSE 0
  BY <1>1 DEF Worth
<1> HIDE DEF u
<1>5. Sums(u, net.size, s + (0 - e))
  <2>1. u[c] = Worth[c] + (0 - e) /\ \A q \in Processes : q # c => u[q] = Worth[q]
    BY <1>1, <1>2, <1>3
  <2>2. QED BY <1>1, <1>2, <2>1, SumOne
<1>6. Worth'[p] = u[p] + (e + d)
  <2>1. u[p] = 0
    BY <1>1, <1>3
  <2>2. Worth'[p] = e + d
    BY <1>1, <1>4
  <2>3. QED BY <1>2, <2>1, <2>2
<1>7. ASSUME NEW q \in Processes, q # p
      PROVE  Worth'[q] = u[q]
  <2>1. CASE q = c
    BY <1>1, <1>3, <1>4, <2>1
  <2>2. CASE q # c
    BY <1>3, <1>4, <1>7, <2>2 DEF Worth
  <2>3. QED BY <2>1, <2>2
<1>8. \A q \in Processes : u[q] \in Int
  BY <1>1, <1>3
<1> HIDE DEF e
<1>9. Sums(Worth', net.size, (s + (0 - e)) + (e + d))
  <2>1. /\ net'.size = net.size /\ p \in 0 .. net.size - 1
        /\ \A i \in 0 .. net.size - 1 : u[i] \in Int
        /\ \A i \in 0 .. net.size - 1 : i # p => Worth'[i] = u[i]
    BY <1>1, <1>7, <1>8
  <2>2. PICK v : v = Worth'
    OBVIOUS
  <2>3. /\ v[p] = u[p] + (e + d)
        /\ \A i \in 0 .. net.size - 1 : i # p => v[i] = u[i]
    BY <1>6, <2>1, <2>2
  <2>4. Sums(v, net.size, (s + (0 - e)) + (e + d))
    <3>1. net.size \in Nat /\ s + (0 - e) \in Int /\ e + d \in Int
      BY <1>1, <1>2
    <3> HIDE DEF Sums
    <3>2. QED BY ONLY <1>5, <2>1, <2>3, <3>1, SumOne, Zenon
  <2>5. QED BY <2>1, <2>2, <2>4
<1>10. QED BY <1>2, <1>9

\* The sum of one token.
LEMMA WorthOfOne ==
  ASSUME ExamplesInv, NEW c \in Processes, Holders = {c}
  PROVE  /\ Sums(Worth, net.size, x[c] + (net.size - 1 - c))
         /\ \A s : Sums(Worth, net.size, s) => s = x[c] + (net.size - 1 - c)
<1>1. /\ net.size \in Nat /\ Processes = 0 .. net.size - 1
      /\ Worth[c] = x[c] + (net.size - 1 - c) /\ Worth[c] \in Int
      /\ \A q \in Processes : q # c => Worth[q] = 0
  BY WorthAt
<1> HIDE DEF Worth
<1>2. QED BY <1>1, SumSingle

\* p has input from c; its code goes on with guard s and the number w.
LEMMA RingTook ==
  ASSUME ExamplesInv, Ring, NEW p \in Processes, Take(p)
  PROVE  \E c \in Holders :
           /\ c = (p + net.size - 1) % net.size /\ Rtc(p, In, x[c])
           /\ \A w \in Nat, s \in {Ended, In, Out} : Becomes(p, w, s) =>
                /\ on'[p] = s /\ x'[p] = w
                /\ \A q \in Processes : q # p => x'[q] = x[q] /\ on'[q] = on[q]
                /\ s = Out => Holders' = (Holders \ {c}) \cup {p}
                /\ s # Out => Holders' = Holders \ {c}
<1>1. /\ RingShape /\ net \in Networks /\ phase \in [Channels -> Kernel!Phases]
      /\ x \in [Processes -> Nat] /\ on \in [Processes -> {Ended, In, Out, Out2}]
      /\ on[p] = In /\ net' = net
  BY RingTake DEF ExamplesInv, TypeOK
<1>2. PICK c \in Holders : /\ phase' = [phase EXCEPT ![c] = "taken"]
                           /\ Rtc(p, In, x[c])
                           /\ c = (p + net.size - 1) % net.size
  BY RingTake
<1>3. ASSUME NEW w \in Nat, NEW s \in {Ended, In, Out}, Becomes(p, w, s)
      PROVE  /\ on'[p] = s /\ x'[p] = w
             /\ \A q \in Processes : q # p => x'[q] = x[q] /\ on'[q] = on[q]
             /\ s = Out => Holders' = (Holders \ {c}) \cup {p}
             /\ s # Out => Holders' = Holders \ {c}
  <2>1. /\ on' = [on EXCEPT ![p] = on'[p]] /\ on'[p] = s /\ x'[p] = w
        /\ \A q \in Processes : q # p => x'[q] = x[q] /\ on'[q] = on[q]
    BY <1>1, <1>3 DEF Becomes
  <2>2. /\ s = Out => Holders' = (Holders \ {c}) \cup {p}
        /\ s # Out => Holders' = Holders \ {c}
    BY <1>1, <1>2, <2>1, TokenTaken
  <2>3. QED BY <2>1, <2>2
<1>4. QED BY <1>2, <1>3

\* p's output is complete; its code goes on with guard s and the number w.
LEMMA RingReleased ==
  ASSUME ExamplesInv, Ring, NEW p \in Processes, Release(p)
  PROVE  /\ on[p] = Out /\ p \notin Holders /\ Rtc(p, Out, x[p])
         /\ \A w \in Nat, s \in {Ended, In, Out} : Becomes(p, w, s) =>
              /\ on'[p] = s /\ x'[p] = w
              /\ \A q \in Processes : q # p => x'[q] = x[q] /\ on'[q] = on[q]
              /\ s = Out => Holders' = Holders \cup {p}
              /\ s # Out => Holders' = Holders
<1>1. /\ RingShape /\ net \in Networks /\ phase \in [Channels -> Kernel!Phases]
      /\ x \in [Processes -> Nat] /\ on \in [Processes -> {Ended, In, Out, Out2}]
      /\ on[p] = Out /\ p \notin Holders /\ net' = net
      /\ phase' = [phase EXCEPT ![p] = "idle"] /\ Rtc(p, Out, x[p])
  BY RingRelease DEF ExamplesInv, TypeOK
<1>2. ASSUME NEW w \in Nat, NEW s \in {Ended, In, Out}, Becomes(p, w, s)
      PROVE  /\ on'[p] = s /\ x'[p] = w
             /\ \A q \in Processes : q # p => x'[q] = x[q] /\ on'[q] = on[q]
             /\ s = Out => Holders' = Holders \cup {p}
             /\ s # Out => Holders' = Holders
  <2>1. /\ on' = [on EXCEPT ![p] = on'[p]] /\ on'[p] = s /\ x'[p] = w
        /\ \A q \in Processes : q # p => x'[q] = x[q] /\ on'[q] = on[q]
    BY <1>1, <1>2 DEF Becomes
  <2>2. /\ s = Out => Holders' = Holders \cup {p}
        /\ s # Out => Holders' = Holders
    BY <1>1, <2>1, TokenReleased
  <2>3. QED BY <2>1, <2>2
<1>3. QED BY <1>1, <1>2

\* c's token has been collected.
LEMMA WorthCollected ==
  ASSUME ExamplesInv, net' = net, NEW c \in Holders, Holders' = Holders \ {c},
         \A q \in Holders' : x'[q] = x[q],
         NEW s \in Int, Sums(Worth, net.size, s)
  PROVE  Sums(Worth', net'.size, s - (x[c] + (net.size - 1 - c)))
<1>1. /\ net.size \in Nat /\ Processes = 0 .. net.size - 1 /\ Processes' = Processes
      /\ c \in Processes /\ Worth[c] = x[c] + (net.size - 1 - c)
      /\ \A q \in Processes : Worth[q] \in Int
  BY WorthAt DEF Processes, Holders
<1> DEFINE e == Worth[c]
<1>2. e \in Int
  BY <1>1
<1>3. \A q \in Processes : Worth'[q] = IF q \in Holders' THEN x'[q] + (net.size - 1 - q) ELSE 0
  BY <1>1 DEF Worth
<1>4. Worth'[c] = 0
  BY <1>1, <1>3
<1>5. ASSUME NEW q \in Processes, q # c
      PROVE  Worth'[q] = Worth[q]
  BY <1>3, <1>5 DEF Worth
<1> HIDE DEF e
<1>6. 0 - e \in Int /\ e + (0 - e) = 0 /\ s + (0 - e) = s - e
  BY <1>2
<1>7. PICK v : v = Worth'
  OBVIOUS
<1>8. /\ v[c] = Worth[c] + (0 - e)
      /\ \A i \in 0 .. net.size - 1 : i # c => v[i] = Worth[i]
      /\ \A i \in 0 .. net.size - 1 : Worth[i] \in Int
      /\ c \in 0 .. net.size - 1 /\ net.size \in Nat /\ net'.size = net.size
  BY <1>1, <1>4, <1>5, <1>6, <1>7 DEF e
<1>9. PICK w : w = Worth
  OBVIOUS
<1>10. Sums(v, net.size, s + (0 - e))
  <2>1. /\ v[c] = w[c] + (0 - e) /\ s \in Int
        /\ \A i \in 0 .. net.size - 1 : i # c => v[i] = w[i]
        /\ \A i \in 0 .. net.size - 1 : w[i] \in Int
        /\ Sums(w, net.size, s)
    BY <1>8, <1>9
  <2>2. QED BY ONLY <1>6, <1>8, <2>1, SumOne, Zenon
<1>11. Sums(Worth', net'.size, s - e)
  BY <1>6, <1>7, <1>8, <1>10
<1>12. QED BY <1>1, <1>11 DEF e

\* Only Root has a token.
LEMMA WorthOfRoot ==
  ASSUME ExamplesInv, net' = net, Holders' = {0}, x'[0] \in Nat
  PROVE  Sums(Worth', net'.size, x'[0] + (net.size - 1))
<1>1. /\ net.size \in Nat /\ Processes = 0 .. net.size - 1 /\ Processes' = Processes
      /\ 0 \in 0 .. net.size - 1 /\ net'.size = net.size
  BY WorthAt, NetworkFacts DEF Processes, ExamplesInv
<1>2. PICK v : v = Worth'
  OBVIOUS
<1>3. \A q \in Processes : v[q] = IF q \in {0} THEN x'[q] + (net.size - 1 - q) ELSE 0
  BY <1>1, <1>2 DEF Worth
<1>4. v[0] = x'[0] + (net.size - 1) /\ v[0] \in Int
  BY <1>1, <1>3
<1>5. \A i \in 0 .. net.size - 1 : i # 0 => v[i] = 0
  BY <1>1, <1>3
<1>6. Sums(v, net.size, v[0])
  BY ONLY <1>1, <1>4, <1>5, SumSingle, Zenon
<1>7. QED BY <1>1, <1>2, <1>4, <1>6

LEMMA SumsInt ==
  ASSUME NEW n \in Nat, NEW w, NEW s, Sums(w, n, s)
  PROVE  s \in Int
<1>1. n \in 0 .. n
  OBVIOUS
<1>2. QED BY <1>1 DEF Sums

LEMMA InjectedNext ==
  ASSUME NEW m \in Nat
  PROVE  /\ Injected(m) \in Int /\ Injected(1) = 1
         /\ Injected(m + 1) = Injected(m) + (IF net.program = "mtring" THEN m + 1 ELSE 1)
<1>1. m * (m + 1) \in Nat /\ (m + 1) * ((m + 1) + 1) = m * (m + 1) + 2 * (m + 1)
  OBVIOUS
<1> DEFINE a == m * (m + 1)
<1>2. a \in Nat
  BY <1>1
<1> HIDE DEF a
<1>3. (a + 2 * (m + 1)) \div 2 = (a \div 2) + (m + 1) /\ a \div 2 \in Int
  BY <1>2
<1>4. (1 * (1 + 1)) \div 2 = 1
  OBVIOUS
<1>5. ((m + 1) * ((m + 1) + 1)) \div 2 = ((m * (m + 1)) \div 2) + (m + 1)
  BY <1>1, <1>3 DEF a
<1>6. (m * (m + 1)) \div 2 \in Int
  BY <1>3 DEF a
<1>7. CASE net.program = "mtring"
  BY <1>4, <1>5, <1>6, <1>7 DEF Injected
<1>8. CASE net.program # "mtring"
  BY <1>8 DEF Injected
<1>9. QED BY <1>7, <1>8

\* Each element inputs from the one before it, Root from the last.
LEMMA RingBefore ==
  ASSUME net \in Networks, NEW p \in Processes
  PROVE  (p + net.size - 1) % net.size = IF p = 0 THEN net.size - 1 ELSE p - 1
<1>1. net.size \in Nat /\ net.size >= 2 /\ p \in Nat /\ p <= net.size - 1
  BY NetworkFacts DEF Processes
<1> DEFINE n == net.size
<1>2. n \in Nat /\ n >= 2 /\ p \in Nat /\ p <= n - 1
  BY <1>1
<1> HIDE DEF n
<1>3. CASE p = 0
  <2>1. (n - 1) % n = n - 1
    BY <1>2
  <2>2. p + n - 1 = n - 1
    BY <1>2, <1>3
  <2>3. QED BY <1>3, <2>1, <2>2 DEF n
<1>4. CASE p # 0
  <2>1. p - 1 \in 0 .. n - 1 /\ p + n - 1 = (p - 1) + n
    BY <1>2, <1>4
  <2>2. ((p - 1) + n) % n = p - 1
    BY <1>2, <2>1
  <2>3. QED BY <1>4, <2>1, <2>2 DEF n
<1>5. QED BY <1>3, <1>4

-----------------------------------------------------------------------------
\* The sum is kept by every step of a ring.

\* Steps that leave Root's state and the sum alone.
LEMMA SumCarried ==
  ASSUME ExamplesInv, RingSum, net' = net, root' = root, x'[0] = x[0], on'[0] = on[0],
         root.state # "FINAL" => \A q \in Holders' : x'[q] > 0,
         root.state # "FINAL" =>
           \A s : Sums(Worth, net.size, s) => Sums(Worth', net'.size, s)
  PROVE  RingSum'
<1>1. Base' = Base /\ Sends' = Sends /\ \A m : Injected(m)' = Injected(m)
  BY DEF Base, Sends, Injected
<1>2. PICK w, v, h : w = Worth /\ v = Worth' /\ h = Holders'
  OBVIOUS
<1>3. root.state # "FINAL" => \A q \in h : x'[q] > 0
  BY <1>2
<1>4. ASSUME root.state = "INJECTING"
      PROVE  /\ x[0] = IF net.program = "mtring" THEN root.count + 1 ELSE 1
             /\ Sums(v, net.size, Injected(root.count + 1) + (root.count + 1) * (net.size - 1))
  BY <1>2, <1>4 DEF RingSum
<1>5. ASSUME root.state = "CYCLING"
      PROVE  Sums(v, net.size, Base + net.size * (root.count + (IF on[0] = Out THEN 1 ELSE 0)))
  BY <1>2, <1>5 DEF RingSum
<1>6. ASSUME root.state = "COLLECTING"
      PROVE  /\ Sums(v, net.size, Base + net.size * Sends - root.sum)
             /\ root.count = 0 => root.sum = 0
  BY <1>2, <1>6 DEF RingSum
<1>7. Injected(root.count + 1)' = Injected(root.count + 1)
  BY DEF Injected
<1>8. QED BY <1>1, <1>2, <1>3, <1>4, <1>5, <1>6, <1>7 DEF RingSum

LEMMA SumOffer ==
  ASSUME ExamplesInv, Ring, RingSum, NEW p \in Processes, Offer(p)
  PROVE  RingSum' /\ printed' = printed
<1>1. Holders' = Holders /\ net' = net /\ x' = x /\ on' = on /\ root' = root /\ printed' = printed
  BY RingOffer DEF Offer, rootVars
<1>2. \A s : Sums(Worth, net.size, s) => Sums(Worth', net'.size, s)
  BY <1>1, WorthSame
<1>3. root.state # "FINAL" => \A q \in Holders' : x'[q] > 0
  BY <1>1 DEF RingSum
<1>4. QED BY <1>1, <1>2, <1>3, SumCarried

LEMMA SumElementTakes ==
  ASSUME ExamplesInv, Ring, RingSum, NEW p \in Processes, p # 0, Take(p)
  PROVE  RingSum' /\ printed' = printed
<1>1. PICK c \in Holders :
        /\ c = (p + net.size - 1) % net.size /\ Rtc(p, In, x[c])
        /\ \A w \in Nat, s \in {Ended, In, Out} : Becomes(p, w, s) =>
             /\ on'[p] = s /\ x'[p] = w
             /\ \A q \in Processes : q # p => x'[q] = x[q] /\ on'[q] = on[q]
             /\ s = Out => Holders' = (Holders \ {c}) \cup {p}
             /\ s # Out => Holders' = Holders \ {c}
  BY RingTook
<1>2. /\ net \in Networks /\ net' = net /\ p \notin Holders /\ c \in Processes
      /\ c = p - 1 /\ 0 \in Processes /\ net.size \in Nat
  BY <1>1, RingTake, RingBefore, NetworkFacts DEF ExamplesInv, Holders
<1> DEFINE y == IF x[c] > 0 THEN x[c] + 1 ELSE x[c]
<1>3. Becomes(p, y, Out) /\ root' = root /\ printed' = printed
  BY <1>1 DEF Rtc, Ring, Element_rtc, In, Out, rootVars
<1>4. x[c] \in Nat /\ p \in Int /\ Out \in {Ended, In, Out}
  BY <1>2, WorthAt
<1>5. y \in Nat
  BY <1>4
<1> HIDE DEF y
<1>6. /\ x'[p] = y /\ \A q \in Processes : q # p => x'[q] = x[q] /\ on'[q] = on[q]
      /\ Holders' = (Holders \ {c}) \cup {p}
  BY <1>1, <1>3, <1>4, <1>5
<1>7. CASE root.state # "FINAL"
  <2>1. \A q \in Holders : x[q] > 0
    BY <1>7 DEF RingSum
  <2>2. y = x[c] + 1
    BY <2>1 DEF y
  <2>3. \A q \in Holders' : x'[q] > 0
    <3>1. y > 0
      BY <1>4, <2>2
    <3>2. \A q \in Holders : q \in Processes
      BY DEF Holders
    <3>3. QED BY <1>6, <2>1, <3>1, <3>2
  <2>4. x'[p] + (net.size - 1 - p) = x[c] + (net.size - 1 - c) + 0
    BY <1>2, <1>4, <1>6, <2>2
  <2>5. ASSUME NEW s, Sums(Worth, net.size, s)
        PROVE  Sums(Worth', net'.size, s)
    <3>1. s \in Int
      BY <1>2, <2>5, SumsInt
    <3>2. Sums(Worth', net'.size, s + 0)
      BY <1>2, <1>6, <2>4, <2>5, <3>1, WorthMoved
    <3>3. s + 0 = s
      BY <3>1
    <3>4. QED BY <3>2, <3>3
  <2>6. QED BY <1>2, <1>3, <1>6, <2>3, <2>5, SumCarried
<1>8. CASE root.state = "FINAL"
  BY <1>2, <1>3, <1>6, <1>8, SumCarried
<1>9. QED BY <1>7, <1>8

LEMMA SumElementReleased ==
  ASSUME ExamplesInv, Ring, RingSum, NEW p \in Processes, p # 0, Release(p)
  PROVE  RingSum' /\ printed' = printed
<1>1. /\ Rtc(p, Out, x[p]) /\ net' = net /\ p \notin Holders
      /\ \A w \in Nat, s \in {Ended, In, Out} : Becomes(p, w, s) =>
           /\ on'[p] = s /\ x'[p] = w
           /\ \A q \in Processes : q # p => x'[q] = x[q] /\ on'[q] = on[q]
           /\ s = Out => Holders' = Holders \cup {p}
           /\ s # Out => Holders' = Holders
  BY RingReleased, RingRelease
<1> DEFINE s == IF x[p] = 0 THEN Ended ELSE In
<1>2. Becomes(p, x[p], s) /\ root' = root /\ printed' = printed
  BY <1>1 DEF Rtc, Ring, Element_rtc, In, Out, rootVars
<1>3. x[p] \in Nat /\ s \in {Ended, In, Out} /\ s # Out /\ 0 \in Processes
  BY WorthAt, NetworkFacts DEF Ended, In, Out, ExamplesInv
<1> HIDE DEF s
<1>4. /\ \A q \in Processes : x'[q] = x[q]
      /\ \A q \in Processes : q # p => on'[q] = on[q]
      /\ Holders' = Holders
  BY <1>1, <1>2, <1>3
<1>5. \A q \in Holders : q \in Processes
  BY DEF Holders
<1>6. \A t : Sums(Worth, net.size, t) => Sums(Worth', net'.size, t)
  BY <1>1, <1>4, <1>5, WorthSame
<1>7. root.state # "FINAL" => \A q \in Holders' : x'[q] > 0
  BY <1>4, <1>5 DEF RingSum
<1>8. QED BY <1>1, <1>2, <1>3, <1>4, <1>6, <1>7, SumCarried

LEMMA Products ==
  ASSUME NEW n \in Int, NEW k \in Int
  PROVE  n * k \in Int /\ n * (k + 1) = n * k + n /\ (k + 1) * n = k * n + n
OBVIOUS

LEMMA TimesAround ==
  ASSUME NEW i \in Int, NEW a \in Int, NEW b \in Int, NEW n \in Int
  PROVE  (i + a * (n - 1)) + n * b = i + b + (a + b) * (n - 1)
OBVIOUS

\* Numbers that the steps of Root compare.
LEMMA RootNumbers ==
  ASSUME ExamplesInv
  PROVE  /\ net.size \in Nat /\ net.tokens \in Nat /\ net.cycles \in Nat
         /\ net.size \in Int /\ net.size - 1 \in Int
         /\ root.count \in Nat /\ root.sum \in Nat /\ root.count \in Int /\ root.sum \in Int
         /\ Base \in Int /\ Sends \in Int /\ net.size * Sends \in Int
<1>1. /\ net.size \in Nat /\ net.tokens \in Nat /\ net.cycles \in Nat
      /\ root.count \in Nat /\ root.sum \in Nat
  BY NetworkFacts DEF ExamplesInv, TypeOK
<1>2. Sends \in Int
  BY <1>1 DEF Sends
<1>3. Injected(net.tokens) \in Int
  BY <1>1, InjectedNext
<1>4. net.tokens * (net.size - 1) \in Int
  BY <1>1
<1>5. Base \in Int
  BY <1>3, <1>4 DEF Base
<1>6. net.size \in Int /\ net.size - 1 \in Int /\ root.count \in Int /\ root.sum \in Int
  BY <1>1
<1>7. net.size * Sends \in Int
  BY <1>2, <1>6, Products
<1>8. QED BY <1>1, <1>2, <1>5, <1>6, <1>7

LEMMA SumRootTakes ==
  ASSUME ExamplesInv, Ring, RingSum, TokenSum, Take(0)
  PROVE  RingSum' /\ TokenSum'
<1>0. /\ net \in Networks /\ 0 \in Processes /\ RingTokens /\ root \in RootType /\ on[0] = In
      /\ net' = net /\ 0 \notin Holders /\ TypeOK
      /\ IsFiniteSet(Holders) /\ Cardinality(Holders) \in Nat /\ Holders \subseteq Processes
      /\ In # Out /\ Ended # Out /\ In # Ended
      /\ In \in {Ended, In, Out} /\ Out \in {Ended, In, Out} /\ Ended \in {Ended, In, Out}
  <2>1. net \in Networks /\ RingTokens /\ root \in RootType /\ TypeOK
    BY DEF ExamplesInv, TypeOK, RootType
  <2>2. 0 \in Processes /\ IsFiniteSet(Processes) /\ Holders \subseteq Processes
    BY <2>1, NetworkFacts DEF Holders
  <2>3. on[0] = In /\ net' = net /\ 0 \notin Holders
    BY <2>2, RingTake
  <2>4. IsFiniteSet(Holders) /\ Cardinality(Holders) \in Nat
    BY <2>2, FS_Subset, FS_CardinalityType
  <2>5. QED BY <2>1, <2>2, <2>3, <2>4 DEF In, Out, Ended
<1>1. PICK c \in Holders :
        /\ c = (0 + net.size - 1) % net.size /\ Rtc(0, In, x[c])
        /\ \A w \in Nat, s \in {Ended, In, Out} : Becomes(0, w, s) =>
             /\ on'[0] = s /\ x'[0] = w
             /\ \A q \in Processes : q # 0 => x'[q] = x[q] /\ on'[q] = on[q]
             /\ s = Out => Holders' = (Holders \ {c}) \cup {0}
             /\ s # Out => Holders' = Holders \ {c}
  BY <1>0, RingTook
<1> DEFINE v == x[c]
<1>2. /\ c = net.size - 1 /\ v \in Nat /\ c \in Int /\ net.size \in Nat
      /\ v + (net.size - 1 - c) = v
  <2>1. c = net.size - 1
    BY <1>0, <1>1, RingBefore
  <2>2. v \in Nat /\ c \in Int /\ net.size \in Nat
    BY <1>0, WorthAt
  <2> HIDE DEF v
  <2>3. v + (net.size - 1 - c) = v
    BY ONLY <2>1, <2>2
  <2>4. QED BY <2>1, <2>2, <2>3
<1>3. Root_rtc(In, v)
  BY <1>1 DEF Rtc, Ring
<1>4. /\ Base' = Base /\ Sends' = Sends /\ Processes' = Processes
      /\ printed' = printed => TokenSum'
  BY <1>0 DEF Base, Sends, Injected, Processes, TokenSum, SumAfter
<1> HIDE DEF v
<1>5. CASE RootInit(In, v)
  <2>1. /\ root.state = "INIT" /\ Becomes(0, 1, Out)
        /\ root' = [root EXCEPT !.state = "INJECTING", !.count = 0] /\ printed' = printed
    BY <1>0, <1>5 DEF RootInit
  <2>2. root'.state = "INJECTING" /\ root'.count = 0
    BY <1>0, <2>1 DEF RootType
  <2>3. Holders = {c}
    <3>1. Cardinality(Holders) = 1
      BY <1>0, <2>1 DEF RingTokens
    <3>2. QED BY <1>0, <3>1, FS_Singleton
  <2>4. x'[0] = 1 /\ Holders' = {0}
    BY <1>0, <1>1, <2>1, <2>3
  <2>5. Sums(Worth', net'.size, 1 + (net.size - 1))
    BY <1>0, <2>4, WorthOfRoot
  <2>6. /\ Injected(root'.count + 1) = 1 /\ (root'.count + 1) * (net.size - 1) = net.size - 1
        /\ Injected(root.count + 1)' = Injected(root'.count + 1)
    <3>1. root'.count + 1 = 1 /\ Injected(1) = 1 /\ 1 * (net.size - 1) = net.size - 1
      BY <1>2, <2>2, InjectedNext
    <3>2. QED BY <1>0, <3>1 DEF Injected
  <2>7. /\ \A q \in Holders' : x'[q] > 0
        /\ x'[0] = IF net'.program = "mtring" THEN root'.count + 1 ELSE 1
    BY <2>2, <2>4
  <2>8. RingSum'
    BY <1>0, <2>2, <2>5, <2>6, <2>7 DEF RingSum
  <2>9. QED BY <1>4, <2>1, <2>8
<1>6. CASE RootCycling(In, v)
  <2>1. root.state = "CYCLING" /\ Becomes(0, v + 1, Out) /\ root' = root /\ printed' = printed
    BY <1>0, <1>6 DEF RootCycling
  <2>2. v + 1 \in Nat
    BY <1>2
  <2>3. /\ on'[0] = Out /\ x'[0] = v + 1 /\ Holders' = (Holders \ {c}) \cup {0}
        /\ \A q \in Processes : q # 0 => x'[q] = x[q]
    BY <1>0, <1>1, <2>1, <2>2
  <2>4. Sums(Worth, net.size, Base + net.size * (root.count + 0))
    BY <1>0, <2>1 DEF RingSum
  <2> DEFINE t == Base + net.size * root.count
  <2>5. /\ t \in Int /\ Base + net.size * (root.count + 0) = t
        /\ Base + net.size * (root.count + 1) = t + net.size
    <3>1. root.count \in Int /\ Base \in Int /\ net.size \in Int
      BY RootNumbers, Zenon
    <3>2. /\ net.size * root.count \in Int
          /\ net.size * (root.count + 1) = net.size * root.count + net.size
      BY <3>1, Products, Zenon
    <3>3. root.count + 0 = root.count
      BY <3>1
    <3>4. Base + (net.size * root.count + net.size) = (Base + net.size * root.count) + net.size
      BY <3>1, <3>2
    <3>5. Base + net.size * root.count \in Int
      BY <3>1, <3>2
    <3>6. QED BY <3>2, <3>3, <3>4, <3>5
  <2> HIDE DEF t
  <2>6. x'[0] + (net.size - 1 - 0) = x[c] + (net.size - 1 - c) + net.size
    BY <1>2, <2>3 DEF v
  <2>7. Sums(Worth', net'.size, t + net.size)
    <3>1. net.size \in Int /\ Sums(Worth, net.size, t)
      BY <1>2, <2>4, <2>5
    <3>2. QED BY <1>0, <2>3, <2>5, <2>6, <3>1, WorthMoved
  <2>8. \A q \in Holders' : x'[q] > 0
    <3>1. \A q \in Holders : q \in Processes /\ x[q] > 0
      BY <1>0, <2>1 DEF RingSum
    <3>2. v + 1 > 0
      BY <1>2
    <3>3. QED BY <2>3, <3>1, <3>2
  <2>9. RingSum'
    BY <1>0, <1>4, <2>1, <2>3, <2>5, <2>7, <2>8 DEF RingSum
  <2>10. QED BY <1>4, <2>1, <2>9
<1>7. /\ Base \in Int /\ net.size * Sends \in Int /\ root.sum \in Int
      /\ Base + net.size * Sends - root.sum \in Int
  <2>1. Base \in Int /\ net.size * Sends \in Int /\ root.sum \in Int
    BY RootNumbers, Zenon
  <2>2. QED BY <2>1
\* The last token that Root collects is worth all that is missing in its sum.
<1>8. ASSUME root.state = "COLLECTING", root.count + 1 = net.tokens, root'.state = "FINAL",
             printed' = root.sum + v
      PROVE  RingSum' /\ TokenSum'
  <2>1. Cardinality(Holders) = 1
    <3>1. Cardinality(Holders) = net.tokens - root.count /\ root.count \in Nat
      BY <1>0, <1>8 DEF RingTokens, RootType
    <3>2. QED BY <1>8, <3>1
  <2>2. Holders = {c}
    BY <1>0, <2>1, FS_Singleton
  <2>3. Sums(Worth, net.size, Base + net.size * Sends - root.sum)
    BY <1>8 DEF RingSum
  <2>4. Base + net.size * Sends - root.sum = v
    <3>1. c \in Processes
      BY <1>0
    <3>2. Base + net.size * Sends - root.sum = x[c] + (net.size - 1 - c)
      BY <2>2, <2>3, <3>1, WorthOfOne
    <3>3. QED BY <1>2, <3>2 DEF v
  <2>5. printed' = Base + net.size * Sends
    <3>1. \A a, b, t \in Int : t + (a + b - t) = a + b
      OBVIOUS
    <3>2. QED BY <1>7, <1>8, <2>4, <3>1
  <2>6. Base + net.size * Sends
          = Injected(net.tokens) + Sends + (net.tokens + Sends) * (net.size - 1)
    <3> DEFINE i == Injected(net.tokens)
    <3>1. net.tokens \in Nat /\ Sends \in Int /\ net.size \in Int
      BY RootNumbers, Zenon
    <3>2. i \in Int /\ net.tokens \in Int
      BY <3>1, InjectedNext
    <3>3. Base = i + net.tokens * (net.size - 1)
      BY DEF Base
    <3> HIDE DEF i
    <3>4. PICK a, b, n : a = net.tokens /\ b = Sends /\ n = net.size
      OBVIOUS
    <3>5. (i + a * (n - 1)) + n * b = i + b + (a + b) * (n - 1)
      <4>1. i \in Int /\ a \in Int /\ b \in Int /\ n \in Int
        BY <3>1, <3>2, <3>4
      <4>2. QED BY ONLY <4>1, TimesAround, SMT
    <3>6. QED BY <3>3, <3>4, <3>5 DEF i
  <2>7. TokenSum'
    <3>1. printed' = Injected(net.tokens) + Sends + (net.tokens + Sends) * (net.size - 1)
      BY <2>5, <2>6
    <3>2. QED BY <1>0, <1>4, <3>1, SendsCounted DEF TokenSum, SumAfter, Injected
  <2>8. QED BY <1>8, <2>7 DEF RingSum
<1>9. CASE CollectOne(In, v)
  <2>1. /\ root.state = "COLLECTING" /\ net.program = "ring"
        /\ root' = [root EXCEPT !.state = "FINAL"] /\ printed' = v
    BY <1>9 DEF CollectOne
  <2>2. root.count < net.tokens /\ net.tokens = 1 /\ root.count \in Nat /\ root'.state = "FINAL"
    BY <1>0, <2>1, NetworkFacts DEF RingTokens, RootType
  <2>3. root.count = 0 /\ root.count + 1 = net.tokens
    BY <2>2
  <2>4. root.sum = 0
    BY <2>1, <2>3 DEF RingSum
  <2>5. printed' = root.sum + v
    BY <1>2, <2>1, <2>4
  <2>6. QED BY <1>8, <2>1, <2>2, <2>3, <2>5
<1>10. CASE CollectAll(In, v)
  <2>1. /\ root.state = "COLLECTING"
        /\ \/ /\ root.count + 1 = net.tokens
              /\ root' = [state |-> "FINAL", count |-> root.count + 1, sum |-> root.sum + v]
              /\ printed' = root.sum + v
           \/ /\ root.count + 1 # net.tokens /\ Becomes(0, v, In)
              /\ root' = [root EXCEPT !.count = @ + 1, !.sum = root.sum + v]
              /\ printed' = printed
    BY <1>10 DEF CollectAll
  <2>2. CASE root.count + 1 = net.tokens
    BY <1>8, <2>1, <2>2
  <2>3. CASE root.count + 1 # net.tokens
    <3>1. /\ root' = [state |-> "COLLECTING", count |-> root.count + 1, sum |-> root.sum + v]
          /\ Becomes(0, v, In) /\ printed' = printed
      BY <1>0, <2>1, <2>3 DEF RootType
    <3>2. /\ \A q \in Processes : q # 0 => x'[q] = x[q]
          /\ Holders' = Holders \ {c}
      BY <1>0, <1>1, <1>2, <3>1
    <3>3. \A q \in Holders' : x'[q] = x[q] /\ q \in Holders
      BY <1>0, <3>2
    <3> DEFINE t == Base + net.size * Sends - root.sum
    <3>4. t \in Int /\ Sums(Worth, net.size, t)
      BY <1>7, <2>1 DEF RingSum
    <3>5. t - v = Base + net.size * Sends - (root.sum + v)
      <4>1. v \in Int
        BY <1>2
      <4> DEFINE k == net.size * Sends
      <4>2. Base \in Int /\ k \in Int /\ root.sum \in Int
        BY <1>7
      <4> HIDE DEF k
      <4>3. (Base + k - root.sum) - v = Base + k - (root.sum + v)
        BY ONLY <4>1, <4>2
      <4>4. QED BY <4>3 DEF k
    <3> HIDE DEF t
    <3>6. Sums(Worth', net'.size, t - v)
      <4>1. Sums(Worth', net'.size, t - (x[c] + (net.size - 1 - c)))
        BY <1>0, <3>2, <3>3, <3>4, WorthCollected
      <4>2. QED BY <1>2, <4>1 DEF v
    <3>7. \A q \in Holders' : x'[q] > 0
      BY <2>1, <3>3 DEF RingSum
    <3>8. root'.state = "COLLECTING" /\ root'.count # 0 /\ root'.sum = root.sum + v
      BY <3>1, RootNumbers
    <3>9. RingSum'
      <4>1. Base' + net'.size * Sends' - root'.sum = t - v
        BY <1>0, <1>4, <3>5, <3>8
      <4>2. Sums(Worth', net'.size, Base' + net'.size * Sends' - root'.sum)
        BY <3>6, <4>1
      <4>3. QED BY <3>7, <3>8, <4>2 DEF RingSum
    <3>10. QED BY <1>4, <3>1, <3>9
  <2>4. QED BY <2>2, <2>3
<1>11. CASE RootFinal(In, v)
  <2>1. root.state = "FINAL" /\ root' = root /\ printed' = printed
    BY <1>11 DEF RootFinal
  <2>2. QED BY <1>4, <2>1 DEF RingSum
<1>12. ~InjectOne(In, v) /\ ~InjectRising(In, v) /\ ~InjectEqual(In, v)
  BY <1>0 DEF RingTokens, InjectOne, InjectRising, InjectEqual
<1>13. QED BY <1>3, <1>5, <1>6, <1>9, <1>10, <1>11, <1>12 DEF Root_rtc

LEMMA RootFields ==
  ASSUME root \in RootType
  PROVE  /\ [root EXCEPT !.count = @ + 1]
              = [state |-> root.state, count |-> root.count + 1, sum |-> root.sum]
         /\ [root EXCEPT !.state = "CYCLING", !.count = 0]
              = [state |-> "CYCLING", count |-> 0, sum |-> root.sum]
<1>1. [root EXCEPT !.count = @ + 1]
        = [state |-> root.state, count |-> root.count + 1, sum |-> root.sum]
  BY DEF RootType
<1>2. PICK r : r = [root EXCEPT !.state = "CYCLING", !.count = 0]
  OBVIOUS
<1>3. r \in RootType
  BY <1>2 DEF RootType
<1>4. r.state = "CYCLING" /\ r.count = 0 /\ r.sum = root.sum
  BY <1>2 DEF RootType
<1>5. r = [state |-> "CYCLING", count |-> 0, sum |-> root.sum]
  BY <1>3, <1>4 DEF RootType
<1>6. QED BY <1>1, <1>2, <1>5

\* How Root goes on while it injects: with another token, or with the first
\* that comes back.
LEMMA RootInjects ==
  ASSUME ExamplesInv, Ring, root.state = "INJECTING", NEW v \in Nat,
         InjectOne(Out, v) \/ InjectRising(Out, v) \/ InjectEqual(Out, v)
  PROVE  /\ printed' = printed
         /\ \/ /\ root.count + 1 < net.tokens
               /\ root' = [state |-> "INJECTING", count |-> root.count + 1, sum |-> root.sum]
               /\ Becomes(0, IF net.program = "mtring" THEN v + 1 ELSE v, Out)
            \/ /\ root.count + 1 = net.tokens
               /\ root' = [state |-> "CYCLING", count |-> 0, sum |-> root.sum]
               /\ Becomes(0, v, In)
<1>1. /\ root \in RootType
      /\ root.count \in Nat /\ root.count < net.tokens /\ net.tokens \in Nat
      /\ net.program = "ring" => net.tokens = 1
  BY NetworkFacts DEF ExamplesInv, TypeOK, RingTokens, RootType
<1>2. CASE InjectOne(Out, v)
  <2>1. Becomes(0, v, In) /\ printed' = printed /\ root' = [root EXCEPT !.state = "CYCLING"]
    BY <1>2 DEF InjectOne
  <2>2. root.count = 0 /\ root.count + 1 = net.tokens
    BY <1>1, <1>2 DEF InjectOne
  <2>3. root' = [state |-> "CYCLING", count |-> root.count, sum |-> root.sum]
    BY <1>1, <2>1 DEF RootType
  <2>4. QED BY <2>1, <2>2, <2>3
<1>3. CASE InjectRising(Out, v)
  <2>1. /\ printed' = printed /\ net.program = "mtring"
        /\ \/ /\ root.count + 1 < net.tokens /\ Becomes(0, v + 1, Out)
              /\ root' = [root EXCEPT !.count = @ + 1]
           \/ /\ root.count + 1 >= net.tokens /\ Becomes(0, v, In)
              /\ root' = [root EXCEPT !.state = "CYCLING", !.count = 0]
    BY <1>3 DEF InjectRising
  <2>2. /\ [root EXCEPT !.count = @ + 1]
             = [state |-> "INJECTING", count |-> root.count + 1, sum |-> root.sum]
        /\ [root EXCEPT !.state = "CYCLING", !.count = 0]
             = [state |-> "CYCLING", count |-> 0, sum |-> root.sum]
    BY <1>1, RootFields
  <2>3. root.count + 1 >= net.tokens => root.count + 1 = net.tokens
    BY <1>1
  <2>4. QED BY <2>1, <2>2, <2>3
<1>4. CASE InjectEqual(Out, v)
  <2>1. /\ printed' = printed /\ net.program # "mtring"
        /\ \/ /\ root.count + 1 # net.tokens /\ Becomes(0, v, Out)
              /\ root' = [root EXCEPT !.count = @ + 1]
           \/ /\ root.count + 1 = net.tokens /\ Becomes(0, v, In)
              /\ root' = [root EXCEPT !.state = "CYCLING", !.count = 0]
    BY <1>4 DEF InjectEqual
  <2>2. /\ [root EXCEPT !.count = @ + 1]
             = [state |-> "INJECTING", count |-> root.count + 1, sum |-> root.sum]
        /\ [root EXCEPT !.state = "CYCLING", !.count = 0]
             = [state |-> "CYCLING", count |-> 0, sum |-> root.sum]
    BY <1>1, RootFields
  <2>3. root.count + 1 # net.tokens => root.count + 1 < net.tokens
    BY <1>1
  <2>4. QED BY <2>1, <2>2, <2>3
<1>5. QED BY <1>2, <1>3, <1>4

LEMMA SumRootReleased ==
  ASSUME ExamplesInv, Ring, RingSum, TokenSum, Release(0)
  PROVE  RingSum' /\ TokenSum'
<1>0. /\ net \in Networks /\ 0 \in Processes /\ RingTokens /\ root \in RootType /\ on[0] = Out
      /\ net' = net /\ 0 \notin Holders /\ Holders \subseteq Processes
      /\ In # Out /\ Ended # Out /\ In # Ended
      /\ In \in {Ended, In, Out} /\ Out \in {Ended, In, Out} /\ Ended \in {Ended, In, Out}
  <2>1. net \in Networks /\ RingTokens /\ root \in RootType
    BY DEF ExamplesInv, TypeOK, RootType
  <2>2. 0 \in Processes /\ Holders \subseteq Processes
    BY <2>1, NetworkFacts DEF Holders
  <2>3. on[0] = Out /\ net' = net /\ 0 \notin Holders
    BY <2>2, RingRelease
  <2>4. QED BY <2>1, <2>2, <2>3 DEF In, Out, Ended
<1> DEFINE v == x[0]
<1>1. /\ Rtc(0, Out, v)
      /\ \A w \in Nat, s \in {Ended, In, Out} : Becomes(0, w, s) =>
           /\ on'[0] = s /\ x'[0] = w
           /\ \A q \in Processes : q # 0 => x'[q] = x[q] /\ on'[q] = on[q]
           /\ s = Out => Holders' = Holders \cup {0}
           /\ s # Out => Holders' = Holders
  BY <1>0, RingReleased
<1>2. v \in Nat /\ net.size \in Nat
  BY <1>0, WorthAt
<1>3. Root_rtc(Out, v)
  BY <1>1 DEF Rtc, Ring
<1>4. /\ Base' = Base /\ Sends' = Sends /\ Processes' = Processes
      /\ printed' = printed => TokenSum'
      /\ \A m : Injected(m)' = Injected(m)
  BY <1>0 DEF Base, Sends, Injected, Processes, TokenSum, SumAfter
\* Root keeps its variable and inputs: the tokens on their way are the same.
<1>5. ASSUME Becomes(0, v, In)
      PROVE  /\ x'[0] = x[0] /\ on'[0] = In /\ Holders' = Holders
             /\ \A q \in Holders : x'[q] = x[q]
             /\ \A s : Sums(Worth, net.size, s) => Sums(Worth', net'.size, s)
  <2>1. /\ x'[0] = v /\ on'[0] = In /\ Holders' = Holders
        /\ \A q \in Processes : q # 0 => x'[q] = x[q]
    BY <1>0, <1>1, <1>2, <1>5
  <2>2. \A q \in Holders : x'[q] = x[q]
    BY <1>0, <2>1
  <2>3. \A s : Sums(Worth, net.size, s) => Sums(Worth', net'.size, s)
    BY <1>0, <2>1, <2>2, WorthSame
  <2>4. QED BY <2>1, <2>2, <2>3
<1>6. ASSUME root.state # "FINAL", Becomes(0, v, In)
      PROVE  \A q \in Holders' : x'[q] > 0
  BY <1>5, <1>6 DEF RingSum
<1> HIDE DEF v
<1>7. CASE RootInit(Out, v)
  <2>1. root.state = "INIT" /\ Becomes(0, v, In) /\ root' = root /\ printed' = printed
    BY <1>0, <1>7 DEF RootInit
  <2>2. \A q \in Holders' : x'[q] > 0
    BY <1>6, <2>1
  <2>3. RingSum'
    BY <2>1, <2>2 DEF RingSum
  <2>4. QED BY <1>4, <2>1, <2>3
<1>8. CASE InjectOne(Out, v) \/ InjectRising(Out, v) \/ InjectEqual(Out, v)
  <2>1. root.state = "INJECTING"
    BY <1>8 DEF InjectOne, InjectRising, InjectEqual
  <2> DEFINE more == IF net.program = "mtring" THEN v + 1 ELSE v
  <2>2. /\ printed' = printed
        /\ \/ /\ root.count + 1 < net.tokens
              /\ root' = [state |-> "INJECTING", count |-> root.count + 1, sum |-> root.sum]
              /\ Becomes(0, more, Out)
           \/ /\ root.count + 1 = net.tokens
              /\ root' = [state |-> "CYCLING", count |-> 0, sum |-> root.sum]
              /\ Becomes(0, v, In)
    BY <1>2, <1>8, <2>1, RootInjects
  <2> DEFINE m == root.count + 1
             t == Injected(m) + m * (net.size - 1)
  <2>3. /\ v = IF net.program = "mtring" THEN m ELSE 1
        /\ Sums(Worth, net.size, t)
        /\ \A q \in Holders : x[q] > 0
    BY <2>1 DEF RingSum, v
  <2>4. m \in Nat /\ m \in Int /\ m > 0 /\ net.size - 1 \in Int
    <3>1. root.count \in Nat /\ net.size - 1 \in Int
      BY RootNumbers, Zenon
    <3>2. QED BY <3>1
  <2> HIDE DEF m, more
  <2>5. t \in Int
    <3>1. Injected(m) \in Int /\ m * (net.size - 1) \in Int
      BY <2>4, InjectedNext
    <3>2. QED BY <3>1
  <2>6. CASE m < net.tokens
    <3>1. /\ root' = [state |-> "INJECTING", count |-> m, sum |-> root.sum]
          /\ Becomes(0, more, Out)
      <4>1. m # net.tokens
        BY <2>4, <2>6, RootNumbers
      <4>2. QED BY <2>2, <4>1 DEF m
    <3>2. more = (IF net.program = "mtring" THEN m + 1 ELSE 1) /\ more \in Nat /\ more > 0
      BY <2>3, <2>4 DEF more
    <3>3. /\ x'[0] = more /\ Holders' = Holders \cup {0}
          /\ \A q \in Processes : q # 0 => x'[q] = x[q]
      BY <1>0, <1>1, <3>1, <3>2
    <3>4. Sums(Worth', net'.size, t + (more + (net.size - 1 - 0)))
      BY <1>0, <2>3, <2>5, <3>2, <3>3, WorthAdded
    <3>5. t + (more + (net.size - 1 - 0)) = Injected(m + 1) + (m + 1) * (net.size - 1)
      <4>1. Injected(m + 1) = Injected(m) + more /\ Injected(m) \in Int
        BY <2>4, <3>2, InjectedNext
      <4>2. /\ m * (net.size - 1) \in Int
            /\ (m + 1) * (net.size - 1) = m * (net.size - 1) + (net.size - 1)
        BY <2>4, Products
      <4> DEFINE j == Injected(m)
                 k == m * (net.size - 1)
                 n == net.size - 1
      <4>3. j \in Int /\ k \in Int /\ n \in Int /\ more \in Int /\ net.size - 1 - 0 = n
        BY <1>2, <2>4, <3>2, <4>1, <4>2
      <4>4. t = j + k /\ Injected(m + 1) = j + more /\ (m + 1) * (net.size - 1) = k + n
        BY <4>1, <4>2
      <4> HIDE DEF j, k, n, t
      <4>5. (j + k) + (more + n) = (j + more) + (k + n)
        BY ONLY <4>3
      <4>6. QED BY <4>3, <4>4, <4>5
    <3>6. \A q \in Holders' : x'[q] > 0
      BY <1>0, <2>3, <3>2, <3>3
    <3>7. root'.state = "INJECTING" /\ root'.count = m
      BY <3>1
    <3>8. Injected(root.count + 1)' = Injected(m + 1)
      BY <1>0, <3>7 DEF Injected
    <3>9. RingSum'
      <4>1. x'[0] = IF net'.program = "mtring" THEN root'.count + 1 ELSE 1
        BY <1>0, <3>2, <3>3, <3>7
      <4>2. Sums(Worth', net'.size, Injected(m + 1) + (root'.count + 1) * (net'.size - 1))
        BY <1>0, <3>4, <3>5, <3>7
      <4>3. QED BY <3>6, <3>7, <3>8, <4>1, <4>2 DEF RingSum
    <3>10. QED BY <1>4, <2>2, <3>9
  <2>7. CASE ~(m < net.tokens)
    <3>1. /\ root' = [state |-> "CYCLING", count |-> 0, sum |-> root.sum]
          /\ Becomes(0, v, In) /\ m = net.tokens
      BY <2>2, <2>7 DEF m
    <3>2. Sums(Worth', net'.size, t) /\ on'[0] # Out
      BY <1>0, <1>5, <2>3, <3>1 DEF v
    <3>3. t = Base
      BY <3>1 DEF Base
    <3>4. Base + net.size * (0 + 0) = Base
      <4>1. Base \in Int /\ net.size \in Int
        BY RootNumbers, Zenon
      <4>2. net.size * (0 + 0) = 0
        BY <4>1
      <4>3. QED BY <4>1, <4>2
    <3>5. \A q \in Holders' : x'[q] > 0
      BY <1>6, <2>1, <3>1
    <3>6. RingSum'
      <4>1. root'.state = "CYCLING" /\ root'.count = 0
        BY <3>1
      <4>2. Base' + net'.size * (root'.count + (IF on'[0] = Out THEN 1 ELSE 0)) = t
        BY <1>0, <1>4, <3>2, <3>3, <3>4, <4>1
      <4>3. QED BY <3>2, <3>5, <4>1, <4>2 DEF RingSum
    <3>7. QED BY <1>4, <2>2, <3>6
  <2>8. QED BY <2>6, <2>7
<1>9. CASE RootCycling(Out, v)
  <2>1. /\ root.state = "CYCLING" /\ Becomes(0, v, In) /\ printed' = printed
        /\ root' = IF root.count + 1 = Sends
                   THEN [state |-> "COLLECTING", count |-> 0, sum |-> 0]
                   ELSE [root EXCEPT !.count = @ + 1]
    BY <1>0, <1>9 DEF RootCycling
  <2> DEFINE t == Base + net.size * (root.count + 1)
  <2>2. Sums(Worth', net'.size, t) /\ on'[0] # Out /\ \A q \in Holders' : x'[q] > 0
    <3>1. Sums(Worth, net.size, t)
      BY <1>0, <2>1 DEF RingSum
    <3>2. QED BY <1>0, <1>5, <1>6, <2>1, <3>1 DEF v
  <2>3. CASE root.count + 1 = Sends
    <3>1. root'.state = "COLLECTING" /\ root'.count = 0 /\ root'.sum = 0
      BY <2>1, <2>3
    <3>2. Base' + net'.size * Sends' - root'.sum = t
      <4>1. Base \in Int /\ net.size * Sends \in Int
        BY RootNumbers, Zenon
      <4>2. Base + net.size * Sends - 0 = Base + net.size * Sends
        BY <4>1
      <4>3. QED BY <1>0, <1>4, <2>3, <3>1, <4>2
    <3>3. RingSum'
      BY <2>2, <3>1, <3>2 DEF RingSum
    <3>4. QED BY <1>4, <2>1, <3>3
  <2>4. CASE root.count + 1 # Sends
    <3>1. root'.state = "CYCLING" /\ root'.count = root.count + 1
      BY <1>0, <2>1, <2>4 DEF RootType
    <3>2. Base' + net'.size * (root'.count + (IF on'[0] = Out THEN 1 ELSE 0)) = t
      <4>1. root.count + 1 + 0 = root.count + 1
        BY RootNumbers
      <4>2. QED BY <1>0, <1>4, <2>2, <3>1, <4>1
    <3>3. RingSum'
      BY <2>2, <3>1, <3>2 DEF RingSum
    <3>4. QED BY <1>4, <2>1, <3>3
  <2>5. QED BY <2>3, <2>4
<1>10. CASE RootFinal(Out, v)
  <2>1. root.state = "FINAL" /\ root' = root /\ printed' = printed
    BY <1>10 DEF RootFinal
  <2>2. QED BY <1>4, <2>1 DEF RingSum
<1>11. ~CollectOne(Out, v) /\ ~CollectAll(Out, v)
  BY <1>0 DEF RingTokens, CollectOne, CollectAll
<1>12. QED BY <1>3, <1>7, <1>8, <1>9, <1>10, <1>11 DEF Root_rtc

LEMMA SumStart ==
  ASSUME Init
  PROVE  SumInv
<1>1. ExamplesInv /\ root.state = "INIT" /\ printed = -1
  BY ExamplesStart DEF Init
<1>2. TokenSum
  BY <1>1 DEF TokenSum
<1>3. ASSUME Ring
      PROVE  RingSum
  <2>1. x = [p \in Processes |-> IF p = 0 THEN FirstToken[net.program] ELSE 0]
    BY <1>3 DEF Init, Ring, Rings
  <2>2. FirstToken[net.program] > 0
    BY <1>3 DEF FirstToken, Ring, Rings
  <2>3. \A p \in Holders : p = 0 /\ p \in Processes
    BY DEF Init, Holders, In, Out
  <2>4. \A p \in Holders : x[p] > 0
    BY <2>1, <2>2, <2>3
  <2>5. QED BY <1>1, <2>4 DEF RingSum
<1>4. QED BY <1>1, <1>2, <1>3 DEF SumInv

LEMMA SumStep ==
  ASSUME SumInv, NEW p \in Processes, Step(p)
  PROVE  SumInv'
<1>1. ExamplesInv /\ TokenSum
  BY DEF SumInv
<1>2. ExamplesInv' /\ net' = net
  BY <1>1, RingStep, CommsStep DEF Step, Offer, Take, Release
<1>3. printed' = printed => TokenSum'
  BY <1>1, <1>2 DEF TokenSum, SumAfter
<1>4. CASE Ring
  <2>1. RingSum
    BY <1>4 DEF SumInv
  <2>2. RingSum' /\ TokenSum'
    <3>1. CASE Offer(p)
      BY <1>1, <1>3, <1>4, <2>1, <3>1, SumOffer
    <3>2. CASE Take(p) /\ p = 0
      BY <1>1, <1>4, <2>1, <3>2, SumRootTakes
    <3>3. CASE Take(p) /\ p # 0
      BY <1>1, <1>3, <1>4, <2>1, <3>3, SumElementTakes
    <3>4. CASE Release(p) /\ p = 0
      BY <1>1, <1>4, <2>1, <3>4, SumRootReleased
    <3>5. CASE Release(p) /\ p # 0
      BY <1>1, <1>3, <1>4, <2>1, <3>5, SumElementReleased
    <3>6. QED BY <3>1, <3>2, <3>3, <3>4, <3>5 DEF Step
  <2>3. QED BY <1>2, <2>2 DEF SumInv
<1>5. CASE ~Ring
  <2>1. printed' = printed
    BY <1>1, <1>5, CommsMoves DEF rootVars
  <2>2. ~Ring'
    BY <1>2, <1>5 DEF Ring
  <2>3. QED BY <1>2, <1>3, <2>1, <2>2 DEF SumInv
<1>6. QED BY <1>4, <1>5

\* Root prints the sum of tokens that have gone around the ring `cycles' times
\* (ring3.c: that have been sent on `cycles' times together), whatever the number
\* of processes, tokens and cycles, and in whatever order the processes run.
THEOREM TokenSumHolds == Spec => []TokenSum
<1>1. Init => SumInv
  BY SumStart
<1>2. SumInv /\ [Next]_appVars => SumInv'
  <2>1. ASSUME SumInv, NEW p \in Processes, Step(p)
        PROVE  SumInv'
    BY <2>1, SumStep
  <2>2. ASSUME SumInv, UNCHANGED appVars
        PROVE  SumInv'
    <3>1. /\ net' = net /\ phase' = phase /\ x' = x /\ on' = on /\ root' = root
          /\ printed' = printed
      BY <2>2 DEF appVars
    <3>2. ExamplesInv'
      BY <2>2, ExamplesStutters DEF SumInv
    <3>3. TokenSum'
      BY <2>2, <3>1 DEF SumInv, TokenSum, SumAfter
    <3>4. Holders' = Holders
      BY <3>1 DEF Holders, Processes
    <3>5. ASSUME Ring'
          PROVE  RingSum'
      <4>1. ExamplesInv /\ RingSum
        BY <2>2, <3>1, <3>5 DEF SumInv, Ring
      <4>2. \A s : Sums(Worth, net.size, s) => Sums(Worth', net'.size, s)
        BY <3>1, <3>4, <4>1, WorthSame
      <4>3. root.state # "FINAL" => \A q \in Holders' : x'[q] > 0
        BY <3>1, <3>4, <4>1 DEF RingSum
      <4>4. QED BY <3>1, <4>1, <4>2, <4>3, SumCarried
    <3>6. QED BY <3>2, <3>3, <3>5 DEF SumInv
  <2>3. QED BY <2>1, <2>2 DEF Next
<1>3. SumInv => TokenSum
  BY DEF SumInv
<1>4. QED BY <1>1, <1>2, <1>3, PTL DEF Spec
=============================================================================
