------------------------- MODULE MCReceiveSessions -------------------------
(***************************************************************************)
(* ReceiveSessions on small instances.                                     *)
(***************************************************************************)
EXTENDS ReceiveSessions, TLC

\* Receives and hashes are interchangeable.
Symmetry == Permutations(Receives) \cup Permutations(Hashes)
=============================================================================
