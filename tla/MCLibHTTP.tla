----------------------------- MODULE MCLibHTTP -----------------------------
(* LibHTTP on a few threads and file names.                                *)
EXTENDS LibHTTP, TLC
=============================================================================
