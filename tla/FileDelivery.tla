---------------------------- MODULE FileDelivery ----------------------------
(***************************************************************************)
(* What downloads promise a host about the local name they are given.  A   *)
(* refused download, and one that cannot open the name, leave it as it is; *)
(* from then on the name is the download's: it holds the whole body when   *)
(* the download reports success, or the part of it that the disk took, and *)
(* nothing when it fails.                                                  *)
(***************************************************************************)
VARIABLES phase,     \* "idle", "asked" or "writing"
          name,      \* under the name: "nothing", "earlier", "part" or "whole"
          lossy,     \* the disk has dropped a part of this download
          outcome    \* of the last: "none", "refused", "failed" or "success"

evars == <<phase, name, lossy, outcome>>

EInit ==
  /\ phase = "idle" /\ name \in {"nothing", "earlier"}
  /\ lossy \in BOOLEAN /\ outcome = "none"

\* A new request takes what the last download left for an earlier file.
Earlier == IF name = "nothing" THEN "nothing" ELSE "earlier"

Refuse ==
  /\ phase = "idle"
  /\ outcome' = "refused" /\ name' = Earlier
  /\ UNCHANGED <<phase, lossy>>

Request ==
  /\ phase = "idle"
  /\ phase' = "asked" /\ outcome' = "none" /\ name' = Earlier /\ lossy' = FALSE

CannotOpen ==
  /\ phase = "asked"
  /\ phase' = "idle" /\ outcome' = "failed"
  /\ UNCHANGED <<name, lossy>>

Truncate ==
  /\ phase = "asked"
  /\ phase' = "writing" /\ name' = "part"
  /\ UNCHANGED <<lossy, outcome>>

Lose ==
  /\ phase = "writing"
  /\ lossy' = TRUE
  /\ UNCHANGED <<phase, name, outcome>>

Succeed ==
  /\ phase = "writing"
  /\ phase' = "idle" /\ outcome' = "success"
  /\ name' = "whole" \/ (lossy /\ name' = "part")
  /\ UNCHANGED lossy

Fail ==
  /\ phase = "writing"
  /\ phase' = "idle" /\ outcome' = "failed" /\ name' = "nothing"
  /\ UNCHANGED lossy

ENext == Refuse \/ Request \/ CannotOpen \/ Truncate \/ Lose \/ Succeed \/ Fail

ESpec == EInit /\ [][ENext]_evars
=============================================================================
