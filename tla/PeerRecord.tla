------------------------------ MODULE PeerRecord ------------------------------
(***************************************************************************)
(* The record of one connection (peer_stats.cpp, PeerStats): how the       *)
(* alerts about a peer and the snapshots of it become counts, gaps,        *)
(* latencies, bursts and times. Which alerts go into the record is the     *)
(* matter of PeerRegistry; here each is handled when it is popped, and the *)
(* clock is the one main() reads then.                                     *)
(*                                                                         *)
(* A series of samples is kept as what its mean is made of, the number and *)
(* the sum of its samples. Blocks are those of one piece, its last block   *)
(* may be shorter. The handlers' mark_seen is left out: its times are used *)
(* only for a connection that is open, and no summary is made of one.      *)
(***************************************************************************)
EXTENDS Naturals, Sequences, FiniteSets

CONSTANTS
    BlockSize,      \* how many bytes libtorrent counts as one block
    PieceLength,
    BurstGap,       \* kIncomingRequestBurstGapMs, in ticks of the clock
    Interval,       \* snapshot_interval_ms, in ticks
    Events,         \* what may happen (narrows a run)
    MaxClock,       \* where the clock stops (a bound of the model)
    MaxEvents       \* how often the same thing happens (a bound of the model)

ASSUME RecordAssumption ==
    /\ BlockSize \in Nat \ {0} /\ PieceLength \in Nat \ {0}
    /\ BurstGap \in Nat /\ Interval \in Nat \ {0}
    /\ Events \subseteq {"request", "cancel", "incoming", "upload", "peer_cancel", "part",
                    "snub", "snapshot", "loss", "disconnect"}
    /\ MaxClock \in Nat \ {0} /\ MaxEvents \in Nat

\* The blocks libtorrent numbers, and the one it names when it has sent what a request
\* of the peer asks for. A request may be for less than a block, from anywhere.
Blocks == {b \in 0..(PieceLength - 1) : b * BlockSize < PieceLength}
PeerRequests ==
    {r \in [start : 0..(PieceLength - 1), length : 1..BlockSize] :
        r.start + r.length <= PieceLength}
BlockOf(r) == r.start \div BlockSize

LengthOf(b) ==
    IF (b + 1) * BlockSize <= PieceLength THEN BlockSize ELSE PieceLength - b * BlockSize
Whole(b) == [start |-> b * BlockSize, length |-> LengthOf(b)]
IsWhole(r) == r = Whole(BlockOf(r))

\* The code divides by the length of the request, not by the size of a block.
block_index_from_request(request) == request.start \div request.length

Key(r) == block_index_from_request(r)
Keys == {Key(r) : r \in PeerRequests}
Regular == {b \in Blocks : Key(Whole(b)) = b}

Streams == {"request", "incoming_request", "block_upload"}
Series == Streams \cup {"interaction", "block_latency", "upload_latency", "burst_size",
                        "burst_duration", "burst_idle_gap"}

VARIABLES
    clock,
    \* libtorrent and the peer
    asked,      \* when a block was requested last, until it is answered or given up
    due,        \* when the requests were made that the peer still waits for, by block
    choking,    \* whether the peer chokes us (our choking it is the same)
    \* PeerStats
    connected,  \* connected_mono_ns
    disconnected,
    active_connection,
    outstanding_requests,
    pending_upload_requests,
    last,       \* last_request_sent, last_incoming_request, last_block_uploaded
    delay,      \* first_request_delay, and so on
    number,     \* requests_sent, incoming_requests_received, blocks_uploaded
    last_interaction,
    burst,      \* the incoming request burst under way
    window,     \* last_activity_window: since when, and whether it is an active one
    active_time, idle_time,
    choke,      \* state_flags_initialized, remote_choked, choked_count, unchoked_count
    samples,
    \* history
    first_interaction,
    answered,   \* the latencies block responses really had
    served,     \* the latencies that uploads really had, of the blocks not mixed
    strays,     \* what was measured of those that are mixed
    mixed,      \* the blocks a request was for, or took for its own, but not both
    initially,  \* the flag of the first snapshot
    faults,     \* what has happened of "cancel", "peer_cancel", "part" and "loss"
    final       \* finalize has been called

peer == <<asked, due, choking>>
life == <<connected, disconnected, active_connection, final>>
pace == <<last, delay, number>>
requests == <<outstanding_requests, answered>>
uploaded == <<served, strays, mixed>>
uploads == <<pending_upload_requests, uploaded>>
interaction == <<last_interaction, first_interaction>>
activity == <<window, active_time, idle_time>>
flags == <<choke, initially>>
vars == <<clock, peer, life, pace, requests, uploads, interaction, burst, activity,
          flags, samples, faults>>

\* No time: the steady clock is never at 0.
Never == 0

NoBurst == [active |-> FALSE, size |-> 0, start |-> 0, last |-> 0]
NoSamples == [count |-> 0, total |-> 0]

\* Every variable stays within its type, and no time is of the future.
TypeOK ==
    /\ clock \in Nat \ {0}
    /\ asked \in [Blocks -> 0..clock] /\ due \in [Blocks -> Seq(1..clock)]
    /\ choking \in BOOLEAN
    /\ connected \in 1..clock /\ disconnected \in 0..clock
    /\ active_connection \in BOOLEAN /\ final \in BOOLEAN
    /\ outstanding_requests \in [Blocks -> 0..clock]
    /\ pending_upload_requests \in [Keys -> Seq(1..clock)]
    /\ last \in [Streams -> 0..clock] /\ delay \in [Streams -> 0..clock]
    /\ number \in [Streams -> Nat]
    /\ last_interaction \in 0..clock /\ first_interaction \in 0..clock
    /\ burst \in [active : BOOLEAN, size : Nat, start : 0..clock, last : 0..clock]
    /\ window \in [since : 1..clock, active : BOOLEAN]
    /\ active_time \in Nat /\ idle_time \in Nat
    /\ choke \in [initialized : BOOLEAN, flag : BOOLEAN, choked : Nat, unchoked : Nat]
    /\ samples \in [Series -> [count : Nat, total : Nat]]
    /\ {answered, served, strays} \subseteq [count : Nat, total : Nat]
    /\ mixed \subseteq Blocks
    /\ initially \in BOOLEAN
    /\ faults \subseteq {"cancel", "peer_cancel", "part", "loss"}

-----------------------------------------------------------------------------
(* Samples, and what the handlers have in common. An operator that is given *)
(* samples returns them with those of its own added.                        *)

Add(sum, value) == [count |-> sum.count + 1, total |-> sum.total + value]
Push(series, name, value) == [series EXCEPT ![name] = Add(@, value)]

\* note_interaction.
InteractionSamples(series) ==
    IF last_interaction # Never /\ clock > last_interaction
    THEN Push(series, "interaction", clock - last_interaction) ELSE series

note_interaction ==
    /\ last_interaction' = clock
    /\ first_interaction' = IF first_interaction = Never THEN clock ELSE first_interaction

\* The gap to the one before in a stream of requests or uploads; the first of them
\* has a delay instead.
GapSamples(s, series) ==
    IF last[s] # Never THEN Push(series, s, clock - last[s]) ELSE series

note_pace(s) ==
    /\ number' = [number EXCEPT ![s] = @ + 1]
    /\ last' = [last EXCEPT ![s] = clock]
    /\ delay' = IF last[s] = Never THEN [delay EXCEPT ![s] = clock - connected] ELSE delay

\* flush_incoming_request_burst: the burst under way is over.
FlushSamples(series) ==
    IF burst.active
    THEN Push(Push(series, "burst_size", burst.size),
              "burst_duration", burst.last - burst.start)
    ELSE series

NewBurst == [active |-> TRUE, size |-> 1, start |-> clock, last |-> clock]

\* Mutant: the limit is measured from the start of the burst.
Continues_FromStart == burst.active /\ clock - burst.start <= BurstGap

\* A gap of exactly the limit does not end the burst.
Continues == burst.active /\ clock - burst.last <= BurstGap

\* Mutant: a burst that ends with an idle gap is not recorded.
BurstSamples_NoFlush(series) ==
    IF burst.active /\ ~Continues
    THEN Push(series, "burst_idle_gap", clock - burst.last) ELSE series

BurstSamples(series) ==
    IF burst.active /\ ~Continues
    THEN Push(FlushSamples(series), "burst_idle_gap", clock - burst.last) ELSE series

\* note_incoming_request_burst.
note_incoming_request_burst ==
    burst' = IF Continues THEN [burst EXCEPT !.size = @ + 1, !.last = clock] ELSE NewBurst

\* Mutant: a window goes on as long as the activity does not change.
advance_activity_window_OnChange(active_now) ==
    /\ window' = IF active_now = window.active THEN window
                 ELSE [since |-> clock, active |-> active_now]
    /\ IF window.active
       THEN active_time' = active_time + (clock - window.since) /\ UNCHANGED idle_time
       ELSE idle_time' = idle_time + (clock - window.since) /\ UNCHANGED active_time

\* advance_activity_window.
advance_activity_window(active_now) ==
    /\ window' = [since |-> clock, active |-> active_now]
    /\ IF window.active
       THEN active_time' = active_time + (clock - window.since) /\ UNCHANGED idle_time
       ELSE idle_time' = idle_time + (clock - window.since) /\ UNCHANGED active_time

\* reset_outstanding_requests.
NothingPending ==
    /\ outstanding_requests' = [b \in Blocks |-> Never]
    /\ pending_upload_requests' = [k \in Keys |-> <<>>]

-----------------------------------------------------------------------------
(* The requests libtorrent sends.                                           *)

Open(event) == event \in Events /\ active_connection

Outstanding(b) == [outstanding_requests EXCEPT ![b] = clock]

note_request_sent(b) ==
    /\ Open("request") /\ number["request"] < MaxEvents
    /\ note_interaction
    /\ note_pace("request")
    /\ outstanding_requests' = Outstanding(b)
    /\ samples' = GapSamples("request", InteractionSamples(samples))
    /\ asked' = [asked EXCEPT ![b] = clock]
    /\ UNCHANGED <<clock, due, choking, life, answered, uploads, burst, activity, flags, faults>>

\* Mutant: a request that was answered stays outstanding.
Erase_Not(b) == outstanding_requests
Erase(b) == [outstanding_requests EXCEPT ![b] = Never]

\* An answer, perhaps one that comes after a time-out: then nothing is measured.
note_block_response(b) ==
    LET sent == outstanding_requests[b]
        before == InteractionSamples(samples)
    IN
    /\ Open("request") /\ asked[b] # Never
    /\ note_interaction
    /\ outstanding_requests' = Erase(b)
    /\ samples' = IF sent # Never THEN Push(before, "block_latency", clock - sent) ELSE before
    /\ answered' = IF sent # Never THEN Add(answered, clock - asked[b]) ELSE answered
    /\ asked' \in {asked, [asked EXCEPT ![b] = Never]}
    /\ UNCHANGED <<clock, due, choking, life, pace, uploads, burst, activity, flags, faults>>

\* note_timeout, after which an answer may still come, and note_drop.
note_timeout(b) ==
    /\ Open("request") /\ asked[b] # Never
    /\ note_interaction
    /\ outstanding_requests' = Erase(b)
    /\ samples' = InteractionSamples(samples)
    /\ asked' \in {asked, [asked EXCEPT ![b] = Never]}
    /\ UNCHANGED <<clock, due, choking, life, pace, answered, uploads, burst, activity,
                   flags, faults>>

\* libtorrent gives a request up, for it has got the block elsewhere: no alert.
Cancel(b) ==
    /\ Open("cancel") /\ asked[b] # Never
    /\ asked' = [asked EXCEPT ![b] = Never]
    /\ faults' = faults \cup {"cancel"}
    /\ UNCHANGED <<clock, due, choking, life, pace, requests, uploads, interaction, burst,
                   activity, flags, samples>>

-----------------------------------------------------------------------------
(* The requests of the peer.                                                *)

note_incoming_request(r) ==
    /\ Open("incoming") /\ number["incoming_request"] < MaxEvents
    /\ IsWhole(r) \/ "part" \in Events
    /\ note_interaction
    /\ note_pace("incoming_request")
    /\ note_incoming_request_burst
    /\ samples' =
           BurstSamples(GapSamples("incoming_request", InteractionSamples(samples)))
    /\ pending_upload_requests' =
           [pending_upload_requests EXCEPT ![Key(r)] = Append(@, clock)]
    /\ due' = [due EXCEPT ![BlockOf(r)] = Append(@, clock)]
    /\ mixed' = IF Key(r) = BlockOf(r) THEN mixed
                ELSE mixed \cup ({Key(r), BlockOf(r)} \cap Blocks)
    /\ faults' = IF IsWhole(r) THEN faults ELSE faults \cup {"part"}
    /\ UNCHANGED <<clock, asked, choking, life, requests, served, strays, activity, flags>>

Pending(b) == IF b \in Keys THEN pending_upload_requests[b] ELSE <<>>

\* Mutant: the newest request of a block is taken for the one served.
Serve_Newest(b) ==
    [from |-> Pending(b)[Len(Pending(b))],
     left |-> SubSeq(Pending(b), 1, Len(Pending(b)) - 1)]

\* The oldest request of the block, and those that remain.
Serve(b) == [from |-> Head(Pending(b)), left |-> Tail(Pending(b))]

\* libtorrent sends what the oldest request of a block asks for. "served" has its latency
\* whether or not one is measured.
note_block_uploaded(b) ==
    LET before == GapSamples("block_upload", InteractionSamples(samples)) IN
    /\ Open("upload") /\ due[b] # <<>>
    /\ note_interaction
    /\ note_pace("block_upload")
    /\ IF Pending(b) # <<>>
       THEN /\ samples' = Push(before, "upload_latency", clock - Serve(b).from)
            /\ pending_upload_requests' = [pending_upload_requests EXCEPT ![b] = Serve(b).left]
       ELSE samples' = before /\ UNCHANGED pending_upload_requests
    /\ IF b \in mixed
       THEN /\ strays' = IF Pending(b) # <<>> THEN Add(strays, clock - Serve(b).from) ELSE strays
            /\ UNCHANGED served
       ELSE served' = Add(served, clock - Head(due[b])) /\ UNCHANGED strays
    /\ due' = [due EXCEPT ![b] = Tail(@)]
    /\ UNCHANGED <<clock, asked, choking, life, requests, mixed, burst, activity, flags, faults>>

Without(times, i) == SubSeq(times, 1, i - 1) \o SubSeq(times, i + 1, Len(times))

\* The peer cancels a request, or is choked and its requests are rejected: no alert.
PeerCancel(b) ==
    /\ Open("peer_cancel")
    /\ \E i \in 1..Len(due[b]) : due' = [due EXCEPT ![b] = Without(@, i)]
    /\ faults' = faults \cup {"peer_cancel"}
    /\ UNCHANGED <<clock, asked, choking, life, pace, requests, uploads, interaction, burst,
                   activity, flags, samples>>

-----------------------------------------------------------------------------
(* Snubs, snapshots, losses and the end.                                    *)

\* note_snubbed, note_unsnubbed (which also count).
note_snubbed ==
    /\ Open("snub")
    /\ note_interaction
    /\ samples' = InteractionSamples(samples)
    /\ UNCHANGED <<clock, peer, life, pace, requests, uploads, burst, activity, flags, faults>>

ChokeChanges ==
    /\ Open("snapshot")
    /\ choking' = ~choking
    /\ UNCHANGED <<clock, asked, due, life, pace, requests, uploads, interaction, burst,
                   activity, flags, samples, faults>>

\* The first snapshot only tells how things are.
Choke ==
    [initialized |-> TRUE, flag |-> choking,
     choked |-> choke.choked + (IF choke.initialized /\ ~choke.flag /\ choking THEN 1 ELSE 0),
     unchoked |-> choke.unchoked + (IF choke.initialized /\ choke.flag /\ ~choking THEN 1 ELSE 0)]

\* An active peer that has not interacted for an interval is taken to have done so.
\* There is one snapshot in a tick (CaptureLoop!SnapshotsSpaced).
update_from_snapshot(active_now) ==
    LET interacts == active_now /\ (last_interaction = Never \/ clock - last_interaction >= Interval)
    IN
    /\ Open("snapshot")
    /\ ~choke.initialized \/ window.since < clock
    /\ choke' = Choke
    /\ initially' = IF choke.initialized THEN initially ELSE choking
    /\ advance_activity_window(active_now)
    /\ IF interacts
       THEN note_interaction /\ samples' = InteractionSamples(samples)
       ELSE UNCHANGED <<interaction, samples>>
    /\ UNCHANGED <<clock, peer, life, pace, requests, uploads, burst, faults>>

\* What may have become of a block while the alerts about it were lost: it was asked
\* for or answered; some requests of the peer were served.
Unseen ==
    \E b \in Blocks :
        /\ asked' \in {asked, [asked EXCEPT ![b] = Never]}
                     \cup (IF "request" \in Events THEN {[asked EXCEPT ![b] = clock]} ELSE {})
        /\ \E k \in 1..(Len(due[b]) + 1) : due' = [due EXCEPT ![b] = SubSeq(@, k, Len(@))]

\* note_alert_loss resets the records of closed connections too.
note_alert_loss ==
    /\ "loss" \in Events /\ ~final
    /\ Unseen
    /\ NothingPending
    /\ faults' = faults \cup {"loss"}
    /\ UNCHANGED <<clock, choking, life, pace, answered, uploaded, interaction, burst, activity,
                   flags, samples>>

note_disconnect ==
    /\ active_connection' = FALSE
    /\ disconnected' = clock
    /\ burst' = NoBurst /\ samples' = FlushSamples(samples)
    /\ advance_activity_window(FALSE)
    /\ NothingPending

Disconnect ==
    /\ Open("disconnect")
    /\ note_disconnect
    /\ asked' = [b \in Blocks |-> Never] /\ due' = [b \in Blocks |-> <<>>]
    /\ UNCHANGED <<clock, choking, connected, final, pace, answered, uploaded, interaction,
                   flags, faults>>

\* A connection that is open is taken to end now. One that has ended gets the time
\* since then as idle time.
finalize ==
    /\ ~final
    /\ final' = TRUE
    /\ IF active_connection
       THEN note_disconnect
       ELSE /\ burst' = NoBurst /\ samples' = FlushSamples(samples)
            /\ advance_activity_window(FALSE)
            /\ UNCHANGED <<active_connection, disconnected, outstanding_requests,
                           pending_upload_requests>>
    /\ UNCHANGED <<clock, peer, connected, pace, answered, uploaded, interaction, flags, faults>>

-----------------------------------------------------------------------------
(* The specification.                                                       *)

Tick ==
    /\ ~final /\ clock < MaxClock
    /\ clock' = clock + 1
    /\ UNCHANGED <<peer, life, pace, requests, uploads, interaction, burst, activity, flags,
                   samples, faults>>

\* The constructor, which is called when the peer is first heard of.
Init ==
    /\ clock = 1
    /\ asked = [b \in Blocks |-> Never] /\ due = [b \in Blocks |-> <<>>]
    /\ choking \in (IF "snapshot" \in Events THEN BOOLEAN ELSE {FALSE})
    /\ connected = clock /\ disconnected = Never
    /\ active_connection = TRUE /\ final = FALSE
    /\ outstanding_requests = [b \in Blocks |-> Never]
    /\ pending_upload_requests = [k \in Keys |-> <<>>]
    /\ last = [s \in Streams |-> Never] /\ delay = [s \in Streams |-> 0]
    /\ number = [s \in Streams |-> 0]
    /\ last_interaction = Never /\ first_interaction = Never
    /\ burst = NoBurst
    /\ window = [since |-> clock, active |-> TRUE]
    /\ active_time = 0 /\ idle_time = 0
    /\ choke = [initialized |-> FALSE, flag |-> FALSE, choked |-> 0, unchoked |-> 0]
    /\ initially = FALSE
    /\ samples = [s \in Series |-> NoSamples]
    /\ answered = NoSamples /\ served = NoSamples /\ strays = NoSamples /\ mixed = {}
    /\ faults = {}

Next ==
    \/ Tick
    \/ \E b \in Blocks :
          \/ note_request_sent(b) \/ note_block_response(b) \/ note_timeout(b) \/ Cancel(b)
          \/ note_block_uploaded(b) \/ PeerCancel(b)
    \/ \E r \in PeerRequests : note_incoming_request(r)
    \/ note_snubbed \/ ChokeChanges
    \/ \E active_now \in BOOLEAN : update_from_snapshot(active_now)
    \/ note_alert_loss \/ Disconnect \/ finalize

Spec == Init /\ [][Next]_vars

-----------------------------------------------------------------------------
(* Properties.                                                              *)

StreamTelescopes(s) ==
    IF number[s] = 0 THEN last[s] = Never /\ samples[s] = NoSamples
    ELSE /\ samples[s].count + 1 = number[s]
         /\ connected + delay[s] + samples[s].total = last[s]

InteractionsTelescope == first_interaction + samples["interaction"].total = last_interaction

\* peer_stats.cpp:195-204, 251-261, 273-283, 565-572: the delay and the gaps of a
\* stream are the time from the connection to its last event, without a hole or an
\* overlap, and there is one gap less than there are events.
GapsTelescope == (\A s \in Streams : StreamTelescopes(s)) /\ InteractionsTelescope

One(condition) == IF condition THEN 1 ELSE 0

\* peer_stats.cpp:574-615, 164-175: every incoming request is in one burst; bursts and
\* the idle gaps between them make up the time the gaps cover; and a burst is under
\* way only while the connection is open.
BurstsPartition ==
    LET n == number["incoming_request"] IN
    /\ samples["burst_size"].total + burst.size = n
    /\ samples["burst_duration"].total + samples["burst_idle_gap"].total
           + (burst.last - burst.start) = samples["incoming_request"].total
    /\ samples["burst_size"].count = samples["burst_duration"].count
    /\ samples["burst_idle_gap"].count + One(n > 0)
           = samples["burst_size"].count + One(burst.active)
    /\ burst.active => active_connection /\ burst.last = last["incoming_request"]

\* peer_stats.cpp:13, 586-591: between two bursts there is more than the limit, and
\* within one no gap is longer, a gap of exactly the limit included.
BurstsKeepTheGap ==
    LET bursts == samples["burst_size"].count + One(burst.active) IN
    /\ samples["burst_idle_gap"].total >= samples["burst_idle_gap"].count * (BurstGap + 1)
    /\ samples["burst_duration"].total + (burst.last - burst.start)
           <= (number["incoming_request"] - bursts) * BurstGap

OutstandingBlocks == {b \in Blocks : outstanding_requests[b] # Never}
Requested == {p \in Keys \X (1..MaxEvents) : p[2] <= Len(pending_upload_requests[p[1]])}

\* peer_stats.cpp:217-222, 286-300: a request is measured at most once, however often
\* it is answered, and not while it is outstanding or pending.
MeasuredOnce ==
    /\ samples["block_latency"].count + Cardinality(OutstandingBlocks) <= number["request"]
    /\ samples["upload_latency"].count + Cardinality(Requested) <= number["incoming_request"]

\* peer_stats.cpp:206: a latency is the time since the block was requested last, also
\* if libtorrent gave an earlier request for it up without telling.
LatencyOfLastRequest == samples["block_latency"] = answered

\* peer_stats.cpp:67-71, 285-300: without a loss, every upload of a block is measured that
\* no request was mixed up with, and its latency is its own unless the peer took requests
\* back: then it is too long, never too short. Requests for parts of blocks mix blocks up,
\* and what is measured of such a block may be another's, and too short. If the peer asks
\* for whole blocks, as clients do, only a short block at the end is mixed up, and of that
\* nothing is measured.
UploadLatencyNeverShort ==
    "loss" \notin faults =>
        /\ samples["upload_latency"].count = served.count + strays.count
        /\ samples["upload_latency"].total >= served.total + strays.total
        /\ "peer_cancel" \notin faults =>
               samples["upload_latency"].total = served.total + strays.total
        /\ "part" \notin faults => Regular \cap mixed = {} /\ strays = NoSamples

\* peer_stats.cpp:622-639, 418-429: active and idle time are the whole time from the
\* connection to the last update; at the end that is the end of the session, also for
\* a connection that ended before.
WindowsTile ==
    /\ connected + active_time + idle_time = window.since
    /\ final => window.since = clock

\* peer_stats.cpp:32-38: the time a connection lasted. For one that is open the code takes
\* the time it was last seen, but makes no summary of one.
connected_duration ==
    IF disconnected # Never THEN disconnected - connected ELSE clock - connected

\* peer_stats.cpp:32-38, 164-175, 622-639: a peer is never active for longer than it was
\* connected: what comes after the end is idle time.
ActiveWhileConnected == active_time <= connected_duration

\* peer_stats.cpp:380-394: the transitions alternate, and lead from the flag of the
\* first snapshot to the one of the last.
TransitionsAlternate ==
    IF choke.initialized
    THEN choke.choked + One(initially) = choke.unchoked + One(choke.flag)
    ELSE choke.choked = 0 /\ choke.unchoked = 0
=============================================================================
