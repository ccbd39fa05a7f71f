---------------------------- MODULE MCExamples ----------------------------
EXTENDS Examples

Network(program, size, tokens, cycles) ==
  [program |-> program, size |-> size, tokens |-> tokens, cycles |-> cycles]

\* Rings of two to four processes, with as many tokens as there is room for.
MCNetworks ==
  {Network("commstime", 4, 1, 1)}
    \cup {Network("ring", n, 1, k) : n \in 2 .. 4, k \in 1 .. 3}
    \cup {m \in {Network(r, n, t, k) : r \in {"mtring", "ring3"}, n \in 2 .. 4, t \in 1 .. 3, k \in 1 .. 3} :
            m.tokens < m.size}

\* ring3.c with two tokens.
MCRing3 == {Network("ring3", 3, 2, 2)}
===========================================================================
