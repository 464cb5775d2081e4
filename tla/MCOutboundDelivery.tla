------------------------- MODULE MCOutboundDelivery -------------------------
(***************************************************************************)
(* Finite instances of OutboundDelivery.                                    *)
(***************************************************************************)
EXTENDS OutboundDelivery, TLC

CONSTANTS a1, a2, t1, t2, p1, p2, p3, o1, o2

\* One row, or the poll a1 and the text a2 that replaces it.
OneTurn  == [a \in Artifacts |-> t1]
PartsOf  == [a \in Artifacts |-> IF a = a1 THEN 0 ELSE 1]
AllText  == [a \in Artifacts |-> "text"]
AllMedia == [a \in Artifacts |-> "media"]
PollText == [a \in Artifacts |-> IF a = a1 THEN "poll" ELSE "text"]

SymProcs == Permutations(Procs)
=============================================================================
