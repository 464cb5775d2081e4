---------------------------- MODULE MCEngineJournal ----------------------------
(***************************************************************************)
(* Finite instances of EngineJournal.                                       *)
(***************************************************************************)
EXTENDS EngineJournal, TLC

CONSTANTS i1, i2

\* Gateway invocations are interchangeable.
SymJournal == Permutations(Invocations)
=============================================================================
