--------------------------- MODULE MCHostSettings ---------------------------
(* HostSettings with two threads and two settings.                         *)
EXTENDS HostSettings, TLC

Symmetry == Permutations(Threads) \cup Permutations(Settings)
=============================================================================
