--------------------------- MODULE MCChannelHost ---------------------------
(* ChannelHost with two threads; the configurations are chosen here.       *)
EXTENDS ChannelHost, TLC

Symmetry == Permutations(Threads)
BothOrOne == {{"v4", "v6"}, {"v6"}}
=============================================================================
