------------------------------ MODULE StopFlag ------------------------------
(***************************************************************************)
(* What the one stop flag of the library promises the transfers that share *)
(* it: a stop that is asked for waits for a transfer, ends exactly one     *)
(* that runs at that moment, and is then used up; a second stop asked for  *)
(* meanwhile is not counted.                                               *)
(***************************************************************************)
CONSTANT Tasks

VARIABLES pending,   \* a stop was asked for and has ended no transfer yet
          state      \* of each transfer: "idle", "running" or "ended" by a stop

fvars == <<pending, state>>

FInit == pending = FALSE /\ state = [x \in Tasks |-> "idle"]

Ask == pending' = TRUE /\ UNCHANGED state

Begin(x) ==
  /\ state[x] = "idle"
  /\ state' = [state EXCEPT ![x] = "running"]
  /\ UNCHANGED pending

EndOne(x) ==
  /\ pending /\ state[x] = "running"
  /\ pending' = FALSE
  /\ state' = [state EXCEPT ![x] = "ended"]

Return(x) ==
  /\ state[x] # "idle"
  /\ state' = [state EXCEPT ![x] = "idle"]
  /\ UNCHANGED pending

FNext == Ask \/ \E x \in Tasks : Begin(x) \/ EndOne(x) \/ Return(x)

FSpec == FInit /\ [][FNext]_fvars
=============================================================================
