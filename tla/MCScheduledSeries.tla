--------------------------- MODULE MCScheduledSeries ---------------------------
(***************************************************************************)
(* Finite instances of ScheduledSeries.                                     *)
(***************************************************************************)
EXTENDS ScheduledSeries, TLC

CONSTANTS t1, t2, w1, w2

\* Passes are interchangeable, and so are drains.
Symmetry == Permutations(Ticks) \cup Permutations(Drains)
=============================================================================
