---------------------------- MODULE MCToolDispatch ----------------------------
(***************************************************************************)
(* Finite instances of ToolDispatch.                                        *)
(***************************************************************************)
EXTENDS ToolDispatch, TLC

CONSTANTS d1, d2, x1, x2, ana, bia, caio

\* The owners other than the requester are interchangeable.
SymApprovals == Permutations(Callers) \cup Permutations(People \ {Requester})
=============================================================================
