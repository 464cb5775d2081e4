----------------------------- MODULE MCChannelLine -----------------------------
(***************************************************************************)
(* Finite instances of ChannelLine.                                         *)
(***************************************************************************)
EXTENDS ChannelLine, TLC

CONSTANTS p1, p2, p3

SymProcesses == Permutations(Processes)
=============================================================================
