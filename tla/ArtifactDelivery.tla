-------------------------- MODULE ArtifactDelivery ---------------------------
(***************************************************************************)
(* What the artifact lifecycle promises, without files, manifests or       *)
(* processes: a session's capture is begun, sealed once and never touched  *)
(* again; the destination only ever takes sealed captures; and a capture   *)
(* is archived at most once, after the destination has taken it.           *)
(***************************************************************************)
CONSTANT Sessions

VARIABLES
    stage,     \* how far the capture of each session has come
    accepted   \* the sessions the destination holds

Stages == {"none", "open", "sealed", "archived"}

Init ==
    /\ stage = [s \in Sessions |-> "none"]
    /\ accepted = {}

Begin(s) ==
    /\ stage[s] = "none"
    /\ stage' = [stage EXCEPT ![s] = "open"]
    /\ UNCHANGED accepted

Seal(s) ==
    /\ stage[s] = "open"
    /\ stage' = [stage EXCEPT ![s] = "sealed"]
    /\ UNCHANGED accepted

Accept(s) ==
    /\ stage[s] = "sealed"
    /\ accepted' = accepted \cup {s}
    /\ UNCHANGED stage

Archive(s) ==
    /\ stage[s] = "sealed"
    /\ s \in accepted
    /\ stage' = [stage EXCEPT ![s] = "archived"]
    /\ UNCHANGED accepted

Next == \E s \in Sessions : Begin(s) \/ Seal(s) \/ Accept(s) \/ Archive(s)

Spec == Init /\ [][Next]_<<stage, accepted>>
=============================================================================
