--------------------------- MODULE MCLibHttpCurl ---------------------------
(* LibHttpCurl on a few threads; the threads are interchangeable.          *)
EXTENDS LibHttpCurl, TLC

Symmetry == Permutations(Threads)
=============================================================================
