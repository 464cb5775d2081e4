---------------------------- MODULE MCTurnStream ----------------------------
(***************************************************************************)
(* Finite instances of TurnStream.                                          *)
(***************************************************************************)
EXTENDS TurnStream, TLC

CONSTANTS t1, t2, t3, s1, s2, w1, w2

OneStream  == [t \in Turns |-> s1]
TwoStreams == [t \in Turns |-> IF t = t3 THEN s2 ELSE s1]

\* The turns arrive in every order, so one ranking of their ids is enough.
AnyRank == CHOOSE f \in [Turns -> 1..Cardinality(Turns)] :
             \A t, u \in Turns : f[t] = f[u] => t = u

SymWorkers == Permutations(Workers)

\* Only Resume reads IdRank, so the turns of one stream are interchangeable
\* in an instance without pauses.
SymAll == Permutations(Workers) \cup Permutations(Turns)
=============================================================================
