---------------------------- MODULE MCCurlHandle ----------------------------
(* CurlHandle with limits on both sides of the buffer size, a negative one *)
(* that libcurl refuses, and ints of 14 bits, so that the time of a long   *)
(* request does not fit.                                                   *)
EXTENDS CurlHandle

HostSpeeds == {-1, 0, 1, 3}
=============================================================================
