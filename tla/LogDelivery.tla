---------------------------- MODULE LogDelivery ----------------------------
(***************************************************************************)
(* What the logger promises its callers and the listeners of the host.     *)
(* Setting a listener and logging a text each take effect at one moment    *)
(* between the start of the call and its return: a text goes, unmixed, to  *)
(* the listener that is set at that moment, one text at a time, and no     *)
(* listener is replaced while it is being told one.                        *)
(***************************************************************************)
CONSTANTS Threads, Listeners, NULL

VARIABLES phase,     \* of a thread: "idle", "setting", "logging", "talking", "done"
          wanted,    \* the listener a thread last asked for
          current,   \* the listener that is set
          heard,     \* what the onLog that a thread runs is told, and which one
          ready      \* there is room for a text

ovars == <<phase, wanted, current, heard, ready>>

Silence == [to |-> NULL, text |-> NULL]

OInit ==
  /\ phase = [t \in Threads |-> "idle"] /\ wanted = [t \in Threads |-> NULL]
  /\ current = NULL /\ heard = [t \in Threads |-> Silence] /\ ready = FALSE

Turn(t, from, to) == phase[t] = from /\ phase' = [phase EXCEPT ![t] = to]
Quiet == \A t \in Threads : heard[t] = Silence

AskSet(t) ==
  /\ Turn(t, "idle", "setting")
  /\ \E l \in Listeners \cup {NULL} : wanted' = [wanted EXCEPT ![t] = l]
  /\ UNCHANGED <<current, heard, ready>>

Replace(t) ==
  /\ Turn(t, "setting", "done") /\ Quiet
  /\ current' = wanted[t]
  /\ UNCHANGED <<wanted, heard, ready>>

AskLog(t) ==
  /\ Turn(t, "idle", "logging")
  /\ UNCHANGED <<wanted, current, heard, ready>>

\* The first text that has a listener makes room for itself and for all others.
MakeRoom(t) ==
  /\ phase[t] = "logging" /\ current # NULL
  /\ ready' = TRUE
  /\ UNCHANGED <<phase, wanted, current, heard>>

\* No text is dropped that has a listener, but for want of room.
Drop(t) ==
  /\ Turn(t, "logging", "done") /\ Quiet
  /\ current = NULL \/ ~ready
  /\ UNCHANGED <<wanted, current, heard, ready>>

Say(t) ==
  /\ Turn(t, "logging", "talking") /\ Quiet
  /\ current # NULL
  /\ heard' = [heard EXCEPT ![t] = [to |-> current, text |-> t]]
  /\ UNCHANGED <<wanted, current, ready>>

Hush(t) ==
  /\ Turn(t, "talking", "done")
  /\ heard' = [heard EXCEPT ![t] = Silence]
  /\ UNCHANGED <<wanted, current, ready>>

Return(t) ==
  /\ Turn(t, "done", "idle")
  /\ UNCHANGED <<wanted, current, heard, ready>>

ONext == \E t \in Threads : \/ AskSet(t) \/ Replace(t) \/ AskLog(t) \/ MakeRoom(t)
                            \/ Drop(t) \/ Say(t) \/ Hush(t) \/ Return(t)

OSpec == OInit /\ [][ONext]_ovars
=============================================================================
