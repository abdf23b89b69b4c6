---------------------------- MODULE SerialCalls ----------------------------
(***************************************************************************)
(* What the three call mutexes of libhttpCurl.cpp promise a host process:  *)
(* the calls of a class (requests, downloads, uploads) are served one at a *)
(* time, classes do not exclude each other, and a call without a class is  *)
(* served at once.                                                         *)
(***************************************************************************)
CONSTANTS Threads, Classes, NoClass

VARIABLES phase,   \* where the call of each thread stands
          class    \* the class of that call, NoClass without a call

svars == <<phase, class>>

SInit == /\ phase = [t \in Threads |-> "idle"]
         /\ class = [t \in Threads |-> NoClass]

Queue(t, c) ==
  /\ phase[t] = "idle"
  /\ phase' = [phase EXCEPT ![t] = "queued"]
  /\ class' = [class EXCEPT ![t] = c]

Bypass(t) ==
  /\ phase[t] = "idle"
  /\ phase' = [phase EXCEPT ![t] = "active"]
  /\ UNCHANGED class

Start(t) ==
  /\ phase[t] = "queued"
  /\ \A u \in Threads : phase[u] = "active" => class[u] # class[t]
  /\ phase' = [phase EXCEPT ![t] = "active"]
  /\ UNCHANGED class

Return(t) ==
  /\ phase[t] = "active"
  /\ phase' = [phase EXCEPT ![t] = "idle"]
  /\ class' = [class EXCEPT ![t] = NoClass]

SNext == \E t \in Threads :
           \/ \E c \in Classes : Queue(t, c)
           \/ Bypass(t) \/ Start(t) \/ Return(t)

SSpec == SInit /\ [][SNext]_svars
=============================================================================
