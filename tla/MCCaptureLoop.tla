---------------------------- MODULE MCCaptureLoop -----------------------------
(* CaptureLoop for TLC: the bounds are in the configurations. *)
EXTENDS CaptureLoop
=============================================================================
