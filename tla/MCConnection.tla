---------------------------- MODULE MCConnection -----------------------------
(***************************************************************************)
(* The two sides of a connection task for TLC: what it tells its           *)
(* supervisor (NoticeSink) and when it may dial and write (Pacing).  They  *)
(* share no state, so each is explored with the other at rest.             *)
(***************************************************************************)
EXTENDS NoticeSink, Pacing, TLC

CONSTANTS r1, r2, r3

VARIABLE side       \* which of the two moves in this behaviour

MCEndpoint == (r1 :> "a") @@ (r2 :> "b") @@ (r3 :> "b")
MCFloor == (r1 :> 2) @@ (r2 :> 1) @@ (r3 :> 2)

MCInit == Init /\ PacingInit /\ side \in {"notices", "pacing"}

Notices == side = "notices" /\ Next /\ UNCHANGED <<pacingVars, side>>
Paced == side = "pacing" /\ PacingNext /\ UNCHANGED <<vars, side>>

MCNext == Notices \/ Paced

MCSpec ==
  /\ MCInit /\ [][MCNext]_<<vars, pacingVars, side>>
  /\ WF_vars(Deliver) /\ WF_vars(Receive)
=============================================================================
