--------------------------- MODULE HTTPCallbacks ---------------------------
(***************************************************************************)
(* The stop flag that all transfers share.  HTTPWriteCallback checks and   *)
(* lowers it under the static m_gHttpMutex, so one callback is one step.   *)
(***************************************************************************)
EXTENDS Naturals

CONSTANT MaxStops   \* bound: calls of LIBHTTPStopCurrentDownloadTask

ASSUME MaxStopsAssumption == MaxStops \in Nat

VARIABLES
  stop,      \* CHTTPCore::m_bStopCurrentTask
  stops,     \* how often a stop was asked for
  victims    \* how many transfers the flag has ended

stopVars == <<stop, stops, victims>>

StopTypeOK == stop \in BOOLEAN /\ stops \in Nat /\ victims \in Nat

StopInit == stop = FALSE /\ stops = 0 /\ victims = 0

\* LIBHTTPStopCurrentDownloadTask, whatever runs at the moment.
AskStop == /\ stops < MaxStops
           /\ stop' = TRUE /\ stops' = stops + 1
           /\ UNCHANGED victims

\* The write callback finds the flag up: it lowers it and takes no bytes.
WriteRefused == /\ stop
                /\ stop' = FALSE /\ victims' = victims + 1
                /\ UNCHANGED stops

\* The flag is down and the bytes are passed on.
WriteAccepted == ~stop /\ UNCHANGED stopVars
=============================================================================
