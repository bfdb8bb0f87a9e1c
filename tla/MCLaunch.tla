------------------------------- MODULE MCLaunch ------------------------------
(* Launch for TLC: what an operator may type. *)
EXTENDS Launch

Tokens == {"-f", "-t", "-h", "number", "word", "--no-console-status"}
MCTyped == UNION {[1..n -> Tokens] : n \in 0..3}
=============================================================================
