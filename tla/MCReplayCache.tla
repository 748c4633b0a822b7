--------------------------- MODULE MCReplayCache ---------------------------
(***************************************************************************)
(* ReplayCache with interchangeable threads and salts.                     *)
(***************************************************************************)
EXTENDS ReplayCache, TLC

Symmetry == Permutations(Threads) \cup Permutations(Salts)
=============================================================================
