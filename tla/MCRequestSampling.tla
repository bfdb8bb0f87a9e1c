-------------------------- MODULE MCRequestSampling ---------------------------
(* RequestSampling for TLC: the bounds are in the configurations. *)
EXTENDS RequestSampling
=============================================================================
