--------------------------- MODULE RequestSampling ----------------------------
(***************************************************************************)
(* What the loop of CaptureLoop makes of the times of a peer's requests.   *)
(* libtorrent posts an alert when a request arrives; the program stamps it *)
(* when it handles the alert, in the next round (main.cpp, 246-248, and    *)
(* logging.cpp, 104), and measures gaps and bursts between the stamps.     *)
(***************************************************************************)
EXTENDS CaptureLoop, Sequences

CONSTANT
    MaxRequests   \* how many requests the peer makes (a bound of the model)

ASSUME SamplingAssumption == MaxRequests \in Nat

VARIABLES
    arrived,      \* when the requests came whose alerts are queued
    made,         \* how many there have been
    arrival,      \* when the request came that was handled last
    stamp,        \* last_incoming_request_mono_ns; 0 is "none yet"
    gaps          \* history: the true and the measured gaps between requests

sampling == <<arrived, made, arrival, stamp, gaps>>

\* No time is of the future, and nothing is stamped before it came.
SamplingTypeOK ==
    /\ arrived \in Seq(1..clock) /\ made \in Nat
    /\ arrival \in 0..clock /\ stamp \in Nat /\ arrival <= stamp
    /\ gaps \in SUBSET [true : Nat, measured : Nat]

\* A request arrives and its alert is queued. Nothing comes at time 0.
Arrive ==
    /\ at # "done" /\ clock > 0 /\ made < MaxRequests
    /\ made' = made + 1
    /\ arrived' = Append(arrived, clock)
    /\ UNCHANGED <<vars, arrival, stamp, gaps>>

\* When the requests of a batch may be stamped: one after the other, while the drain
\* takes its time.
Stamps ==
    {t \in [1..Len(arrived) -> clock..until'] :
        \A i \in 2..Len(arrived) : t[i - 1] <= t[i]}

\* The gap to the last request of an earlier batch, and those within this one.
Gaps(t) ==
    (IF stamp = 0 THEN {}
     ELSE {[true |-> arrived[1] - arrival, measured |-> t[1] - stamp]})
    \cup {[true |-> arrived[i] - arrived[i - 1], measured |-> t[i] - t[i - 1]] :
              i \in 2..Len(arrived)}

StampAt(t) ==
    /\ gaps' = gaps \cup Gaps(t)
    /\ arrival' = arrived[Len(arrived)]
    /\ stamp' = t[Len(arrived)]
    /\ arrived' = <<>>

\* drain_alerts.
Stamp ==
    /\ Drain \/ LastDrain
    /\ IF arrived = <<>> THEN UNCHANGED <<arrived, arrival, stamp, gaps>>
       ELSE \E t \in Stamps : StampAt(t)
    /\ UNCHANGED made

OtherStep ==
    /\ \/ Tick \/ handle_signal \/ Check \/ SnapshotDue \/ NoSnapshotDue
       \/ DeadlinePassed \/ Sleep \/ LastSnapshot \/ finalize
    /\ UNCHANGED sampling

SamplingInit ==
    /\ Init
    /\ arrived = <<>> /\ made = 0 /\ arrival = 0 /\ stamp = 0 /\ gaps = {}

SamplingNext == Arrive \/ Stamp \/ OtherStep

SamplingSpec == SamplingInit /\ [][SamplingNext]_<<vars, sampling>>

-----------------------------------------------------------------------------
(* Properties.                                                              *)

\* How late a request may be stamped.
LatestStamp == LongestRound + MaxDrain

\* main.cpp:246-248, 824, 850-862: a measured gap differs from the true one by no more
\* than a round and a drain, in either direction.
GapsAreSampled ==
    \A gap \in gaps :
        /\ gap.measured <= gap.true + LatestStamp
        /\ gap.true <= gap.measured + LatestStamp
=============================================================================
