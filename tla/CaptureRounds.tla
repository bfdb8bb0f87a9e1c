---------------------------- MODULE CaptureRounds -----------------------------
(***************************************************************************)
(* What the main thread promises about the order of its work (main.cpp,    *)
(* 828-876), without saying when: alerts are drained in rounds, a snapshot *)
(* is taken at most once in a round and only right after the drain, and    *)
(* whatever ends the capture, a last drain and a last snapshot come before *)
(* the session is finalized, which happens once.                           *)
(***************************************************************************)
VARIABLE step

Steps == {"round", "drained", "last_drained", "recorded", "finished"}

Init == step = "round"

Drain == step = "round" /\ step' = "drained"

\* The snapshot of a round, or none: the next round begins.
EndRound == step = "drained" /\ step' = "round"

LastDrain == step = "round" /\ step' = "last_drained"

LastSnapshot == step = "last_drained" /\ step' = "recorded"

Finalize == step = "recorded" /\ step' = "finished"

Next == Drain \/ EndRound \/ LastDrain \/ LastSnapshot \/ Finalize

Spec == Init /\ [][Next]_step
=============================================================================
