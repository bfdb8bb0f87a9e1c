--------------------------- MODULE MCSessionSummary ---------------------------
(***************************************************************************)
(* What write_session_summary computes, for TLC: the totals over the       *)
(* records, and the statistics of a series of samples. Neither depends on  *)
(* the other, so a behaviour either goes through a session or appends      *)
(* samples, which are small numbers.                                       *)
(***************************************************************************)
EXTENDS SessionTotals, SampleStatistics

MCValues == 0..4

MCInit == Init /\ SeriesInit

MCNext ==
    \/ samples = <<>> /\ Next /\ UNCHANGED samples
    \/ Init /\ AppendSample /\ UNCHANGED vars

MCSpec == MCInit /\ [][MCNext]_<<vars, samples>>
=============================================================================
