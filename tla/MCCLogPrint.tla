----------------------------- MODULE MCCLogPrint -----------------------------
(* CLogPrint with a few threads and listeners as model values.             *)
EXTENDS CLogPrint
=============================================================================
