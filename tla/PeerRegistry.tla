---------------------------- MODULE PeerRegistry -----------------------------
(***************************************************************************)
(* The connection records of a capture (peer_stats.cpp, SessionStats).     *)
(* libtorrent opens and closes connections, exchanges pieces and posts     *)
(* alerts about it to a bounded queue; the main thread drains the queue    *)
(* every now and then (main.cpp, drain_alerts) and takes snapshots of the  *)
(* peers as they are at that moment (capture_snapshots), which may be      *)
(* ahead of the alerts still queued. What the program writes about a peer  *)
(* is right only if both end up in the record of the right connection.     *)
(*                                                                         *)
(* An endpoint has at most one connection at a time; its connections are   *)
(* numbered in the order they are opened. A piece stands for its blocks:   *)
(* a request, an answer and a timeout are about a piece as a whole.        *)
(***************************************************************************)
EXTENDS Naturals, Sequences, FiniteSets

CONSTANTS
    Endpoints,
    Pieces,
    QueueLimit,  \* alert_queue_size
    Troubles,    \* what may go wrong between peers (narrows a run)
    MaxPosts     \* how many alerts libtorrent posts (a bound of the model)

ASSUME RegistryAssumption ==
    /\ IsFiniteSet(Endpoints) /\ IsFiniteSet(Pieces) /\ Pieces # {}
    /\ QueueLimit \in Nat \ {0}
    /\ Troubles \subseteq {"open_fails", "peer_error", "error_closes", "time_out",
                      "hash_fails", "checking"}
    /\ MaxPosts \in Nat

VARIABLES
    \* libtorrent
    opened,      \* connections opened so far, by endpoint
    up,          \* whether the last of them is still open
    asked,       \* pieces requested over the open connection
    have,        \* pieces downloaded or verified
    sender,      \* the connection that has sent a piece, until it is refused
    network,     \* the torrent is past checking its files
    queue,       \* alerts posted since the last pop_alerts
    lost,        \* whether alerts posted since then did not fit in
    posts,       \* alerts posted so far
    \* the main thread
    at,          \* where main() is
    stopping,    \* the loop has ended: what follows is the final round
    batch,       \* alerts popped and not yet handled
    \* SessionStats
    peers,       \* peers_by_key: the records of an endpoint, by sequence number
    active,      \* active_peer_key_by_endpoint; 0 is "no entry"
    last_piece,  \* last_piece_peer_key
    latest,      \* latest_torrent_state is one past checking
    connects,    \* successful_peer_connects
    completions, \* piece_completions
    \* history
    epoch,       \* periods of loss so far
    latencies,   \* from which request to which answer latencies were measured
    overtaken    \* a snapshot, or the first status, was taken while alerts were queued

torrent == <<opened, up, asked, have, sender, network>>
alerts == <<queue, lost, posts, epoch>>
thread == <<at, stopping, batch>>
stats == <<peers, active, last_piece, latest, connects, completions>>
vars == <<torrent, alerts, thread, stats, latencies, overtaken>>

-----------------------------------------------------------------------------
(* Types.                                                                   *)

NoPeer == <<>>
NoTag == [conn |-> 0, epoch |-> 0]

\* History: on which connection, and after how many losses, an alert was posted.
Tag == [conn : Nat, epoch : Nat]

\* PeerStats, as far as the registry is concerned. "pieces" are those counted in
\* pieces_finished; "alerted" and "sampled" are the connections whose alerts and
\* snapshots went into the record (history).
PeerStats ==
    [active_connection    : BOOLEAN,
     saw_connect_alert    : BOOLEAN,
     outstanding_requests : [Pieces -> Tag],
     pieces               : SUBSET Pieces,
     alerted              : SUBSET Nat,
     sampled              : SUBSET Nat]

NothingOutstanding == [p \in Pieces |-> NoTag]

\* The PeerStats constructor.
NewPeer ==
    [active_connection |-> TRUE, saw_connect_alert |-> FALSE,
     outstanding_requests |-> NothingOutstanding, pieces |-> {},
     alerted |-> {}, sampled |-> {}]

PeerAlerts == {"connect", "disconnect", "error", "request", "response", "timeout"}
Alert ==
    [type : PeerAlerts, endpoint : Endpoints, piece : Pieces, tag : Tag]
    \cup [type : {"piece_finished"}, piece : Pieces]
    \cup [type : {"state_changed", "alerts_dropped"}]

Places == {"added", "check", "poll", "handle", "snapshot", "finalize", "done"}

\* Every variable stays within its type; a key names a record that exists.
TypeOK ==
    /\ opened \in [Endpoints -> Nat]
    /\ up \in [Endpoints -> BOOLEAN]
    /\ asked \in [Endpoints -> SUBSET Pieces]
    /\ have \in SUBSET Pieces
    /\ sender \in [Pieces -> {NoPeer} \cup (Endpoints \X Nat)]
    /\ network \in BOOLEAN
    /\ queue \in Seq(Alert) /\ batch \in Seq(Alert)
    /\ lost \in BOOLEAN /\ posts \in Nat /\ epoch \in Nat
    /\ at \in Places /\ stopping \in BOOLEAN
    /\ peers \in [Endpoints -> Seq(PeerStats)]
    /\ active \in [Endpoints -> Nat]
    /\ \A e \in Endpoints : active[e] \in 0..Len(peers[e])
    /\ last_piece \in [Pieces -> {NoPeer} \cup (Endpoints \X Nat)]
    /\ \A p \in Pieces : last_piece[p] # NoPeer =>
           last_piece[p][2] \in 1..Len(peers[last_piece[p][1]])
    /\ latest \in BOOLEAN /\ connects \in Nat /\ completions \in Nat
    /\ latencies \in SUBSET [from : Tag, to : Tag]
    /\ overtaken \in BOOLEAN

-----------------------------------------------------------------------------
(* libtorrent, as the program relies on it. An alert that does not fit into *)
(* the queue is lost, and so is every later one until the queue is popped;  *)
(* the batch then ends with an alert that says so.                          *)

Post(alert) ==
    /\ at # "done"
    /\ posts < MaxPosts
    /\ posts' = posts + 1
    /\ IF Len(queue) < QueueLimit
       THEN /\ queue' = Append(queue, alert)
            /\ UNCHANGED <<lost, epoch>>
       ELSE /\ lost' = TRUE
            /\ epoch' = IF lost THEN epoch ELSE epoch + 1
            /\ UNCHANGED queue

\* An alert about a peer; "conn" is the connection it is about.
PostPeer(type, e, p, conn) ==
    Post([type |-> type, endpoint |-> e, piece |-> p,
          tag |-> [conn |-> conn, epoch |-> epoch]])

AnyPiece == CHOOSE p \in Pieces : TRUE

Open(e) ==
    /\ ~up[e]
    /\ opened' = [opened EXCEPT ![e] = @ + 1]
    /\ up' = [up EXCEPT ![e] = TRUE]
    /\ PostPeer("connect", e, AnyPiece, opened'[e])
    /\ UNCHANGED <<asked, have, sender, network>>

\* A connection ends with a disconnect alert; after an error perhaps without one.
Endings ==
    {"disconnect"} \cup (IF "error_closes" \in Troubles THEN {"error"} ELSE {})

Close(e) ==
    /\ up[e]
    /\ up' = [up EXCEPT ![e] = FALSE]
    /\ asked' = [asked EXCEPT ![e] = {}]
    /\ \E type \in Endings : PostPeer(type, e, AnyPiece, opened[e])
    /\ UNCHANGED <<opened, have, sender, network>>

\* A connection that could not be made is reported as an error or a disconnect.
OpenFails(e) ==
    /\ "open_fails" \in Troubles /\ ~up[e]
    /\ \E type \in {"error", "disconnect"} : PostPeer(type, e, AnyPiece, 0)
    /\ UNCHANGED torrent

PeerError(e) ==
    /\ "peer_error" \in Troubles /\ up[e]
    /\ PostPeer("error", e, AnyPiece, opened[e])
    /\ UNCHANGED torrent

Request(e, p) ==
    /\ up[e] /\ network
    /\ p \notin have /\ sender[p] = NoPeer
    /\ asked' = [asked EXCEPT ![e] = @ \cup {p}]
    /\ PostPeer("request", e, p, opened[e])
    /\ UNCHANGED <<opened, up, have, sender, network>>

Respond(e, p) ==
    /\ p \in asked[e] /\ sender[p] = NoPeer
    /\ asked' = [asked EXCEPT ![e] = @ \ {p}]
    /\ sender' = [sender EXCEPT ![p] = <<e, opened[e]>>]
    /\ PostPeer("response", e, p, opened[e])
    /\ UNCHANGED <<opened, up, have, network>>

\* A request times out, and may still be answered, or is dropped by the peer.
TimeOut(e, p) ==
    /\ "time_out" \in Troubles /\ p \in asked[e]
    /\ asked' \in {asked, [asked EXCEPT ![e] = @ \ {p}]}
    /\ PostPeer("timeout", e, p, opened[e])
    /\ UNCHANGED <<opened, up, have, sender, network>>

\* The hash of a piece is checked some time after its last block has come.
PieceFinished(p) ==
    /\ sender[p] # NoPeer /\ p \notin have
    /\ have' = have \cup {p}
    /\ Post([type |-> "piece_finished", piece |-> p])
    /\ UNCHANGED <<opened, up, asked, sender, network>>

HashFails(p) ==
    /\ "hash_fails" \in Troubles /\ at # "done"
    /\ sender[p] # NoPeer /\ p \notin have
    /\ sender' = [sender EXCEPT ![p] = NoPeer]
    /\ UNCHANGED <<opened, up, asked, have, network, alerts>>

\* Files of an earlier run: their pieces finish while they are being checked.
PieceVerified(p) ==
    /\ ~network /\ p \notin have
    /\ have' = have \cup {p}
    /\ Post([type |-> "piece_finished", piece |-> p])
    /\ UNCHANGED <<opened, up, asked, sender, network>>

StateChanged ==
    /\ ~network
    /\ network' = TRUE
    /\ Post([type |-> "state_changed"])
    /\ UNCHANGED <<opened, up, asked, have, sender>>

-----------------------------------------------------------------------------
(* SessionStats: finding the record of an endpoint. Every handler below     *)
(* gives the new values of peers and active.                                *)

\* Mutant: the last record of an endpoint is taken, closed or not.
ensure_peer_for_endpoint_Last(e) ==
    IF peers[e] # <<>>
    THEN [records |-> peers[e], key |-> Len(peers[e])]
    ELSE [records |-> <<NewPeer>>, key |-> 1]

\* The active record of an endpoint, a new one if it has none.
ensure_peer_for_endpoint(e) ==
    IF active[e] # 0
    THEN [records |-> peers[e], key |-> active[e]]
    ELSE [records |-> Append(peers[e], NewPeer), key |-> Len(peers[e]) + 1]

\* The record ensure_peer_for_endpoint returns, and the step that changes it.
Peer(e) == LET found == ensure_peer_for_endpoint(e) IN found.records[found.key]
SetPeer(e, peer) ==
    LET found == ensure_peer_for_endpoint(e) IN
    /\ peers' = [peers EXCEPT ![e] = [found.records EXCEPT ![found.key] = peer]]
    /\ active' = [active EXCEPT ![e] = found.key]

\* note_peer_event: the record an alert is about (which now has its data in it).
note_peer_event(alert) ==
    [Peer(alert.endpoint) EXCEPT !.alerted = @ \cup ({alert.tag.conn} \ {0})]

-----------------------------------------------------------------------------
(* drain_alerts: the handlers. Alerts not mentioned only count or log.      *)

Connected(alert) ==
    [note_peer_event(alert) EXCEPT !.active_connection = TRUE,
                                   !.saw_connect_alert = TRUE]

\* A snapshot may have created the record before: it counts when it is connected.
note_peer_connect(alert) ==
    /\ SetPeer(alert.endpoint, Connected(alert))
    /\ connects' = IF Peer(alert.endpoint).saw_connect_alert
                   THEN connects ELSE connects + 1
    /\ UNCHANGED <<last_piece, latest, completions, latencies>>

\* Mutant: the record is not marked as closed.
note_disconnect_StaysActive(peer) ==
    [peer EXCEPT !.outstanding_requests = NothingOutstanding]

\* PeerStats::note_disconnect.
note_disconnect(peer) ==
    [peer EXCEPT !.active_connection = FALSE,
                 !.outstanding_requests = NothingOutstanding]

\* Mutant: the record remains the active one of its endpoint.
note_peer_disconnect_NoErase(alert) ==
    /\ SetPeer(alert.endpoint, note_disconnect(note_peer_event(alert)))
    /\ UNCHANGED <<last_piece, latest, connects, completions, latencies>>

\* SessionStats::note_peer_disconnect.
note_peer_disconnect(alert) ==
    LET e == alert.endpoint
        found == ensure_peer_for_endpoint(e)
        closed == note_disconnect(note_peer_event(alert))
    IN /\ peers' = [peers EXCEPT ![e] = [found.records EXCEPT ![found.key] = closed]]
       /\ active' = [active EXCEPT ![e] = 0]
       /\ UNCHANGED <<last_piece, latest, connects, completions, latencies>>

\* A peer_error alert only marks the peer as seen.
note_peer_error(alert) ==
    /\ SetPeer(alert.endpoint, note_peer_event(alert))
    /\ UNCHANGED <<last_piece, latest, connects, completions, latencies>>

note_request_sent(alert) ==
    /\ SetPeer(alert.endpoint, [note_peer_event(alert) EXCEPT
                                   !.outstanding_requests[alert.piece] = alert.tag])
    /\ UNCHANGED <<last_piece, latest, connects, completions, latencies>>

Answered(alert) ==
    [note_peer_event(alert) EXCEPT !.outstanding_requests[alert.piece] = NoTag]

\* A latency is measured if the request is outstanding.
Measure(alert) ==
    LET request == Peer(alert.endpoint).outstanding_requests[alert.piece] IN
    latencies' = IF request = NoTag THEN latencies
                 ELSE latencies \cup {[from |-> request, to |-> alert.tag]}

\* Mutant: the key is read from the table before the record is looked up.
note_block_response_StaleKey(alert) ==
    LET e == alert.endpoint IN
    /\ SetPeer(e, Answered(alert))
    /\ Measure(alert)
    /\ last_piece' = [last_piece EXCEPT ![alert.piece] = <<e, active[e]>>]
    /\ UNCHANGED <<latest, connects, completions>>

\* The answer to a request; the piece is now this peer's.
note_block_response(alert) ==
    LET e == alert.endpoint IN
    /\ SetPeer(e, Answered(alert))
    /\ Measure(alert)
    /\ last_piece' = [last_piece EXCEPT
                         ![alert.piece] = <<e, ensure_peer_for_endpoint(e).key>>]
    /\ UNCHANGED <<latest, connects, completions>>

\* note_timeout, note_drop.
note_timeout(alert) ==
    /\ SetPeer(alert.endpoint, Answered(alert))
    /\ UNCHANGED <<last_piece, latest, connects, completions, latencies>>

\* pieces_finished of the peer that sent the last block, if it is still known.
Credit(p) ==
    peers' = IF last_piece[p] = NoPeer THEN peers
             ELSE [peers EXCEPT ![last_piece[p][1]][last_piece[p][2]].pieces = @ \cup {p}]

\* Mutant: a piece found by checking the files counts as a download.
note_piece_finished_AnyState(alert) ==
    /\ completions' = completions + 1
    /\ Credit(alert.piece)
    /\ UNCHANGED <<active, last_piece, latest, connects, latencies>>

\* What finishes while the files are being checked was not downloaded.
note_piece_finished(alert) ==
    /\ IF latest
       THEN completions' = completions + 1 /\ Credit(alert.piece)
       ELSE UNCHANGED <<completions, peers>>
    /\ UNCHANGED <<active, last_piece, latest, connects, latencies>>

note_torrent_state ==
    /\ latest' = TRUE
    /\ UNCHANGED <<peers, active, last_piece, connects, completions, latencies>>

\* reset_outstanding_requests, for every record.
ResetOutstanding ==
    [e \in Endpoints |-> [n \in DOMAIN peers[e] |->
        [peers[e][n] EXCEPT !.outstanding_requests = NothingOutstanding]]]

\* Mutants: requests stay outstanding; the senders of blocks are not forgotten.
note_alert_loss_KeepsRequests ==
    /\ last_piece' = [p \in Pieces |-> NoPeer]
    /\ UNCHANGED <<peers, active, latest, connects, completions, latencies>>
note_alert_loss_KeepsSenders ==
    /\ peers' = ResetOutstanding
    /\ UNCHANGED <<last_piece, active, latest, connects, completions, latencies>>

\* After a loss nothing that was under way is known any more.
note_alert_loss ==
    /\ last_piece' = [p \in Pieces |-> NoPeer]
    /\ peers' = ResetOutstanding
    /\ UNCHANGED <<active, latest, connects, completions, latencies>>

Dispatch(alert) ==
    \/ alert.type = "connect" /\ note_peer_connect(alert)
    \/ alert.type = "disconnect" /\ note_peer_disconnect(alert)
    \/ alert.type = "error" /\ note_peer_error(alert)
    \/ alert.type = "request" /\ note_request_sent(alert)
    \/ alert.type = "response" /\ note_block_response(alert)
    \/ alert.type = "timeout" /\ note_timeout(alert)
    \/ alert.type = "piece_finished" /\ note_piece_finished(alert)
    \/ alert.type = "state_changed" /\ note_torrent_state
    \/ alert.type = "alerts_dropped" /\ note_alert_loss

-----------------------------------------------------------------------------
(* The main thread.                                                         *)

\* The status the torrent has some time after it was added, when alerts may be queued.
set_initial_totals ==
    /\ at = "added"
    /\ at' = "check"
    /\ latest' = network
    /\ overtaken' = (overtaken \/ queue # <<>>)
    /\ UNCHANGED <<stopping, batch, torrent, alerts, peers, active, last_piece, connects,
                   completions, latencies>>

\* The condition of the loop and its deadline: another round, or the last one.
Check ==
    /\ at = "check"
    /\ at' = "poll"
    /\ stopping' \in BOOLEAN
    /\ UNCHANGED <<batch, torrent, alerts, stats, latencies, overtaken>>

\* pop_alerts empties the queue; libtorrent goes on posting to another one.
PopAlerts ==
    /\ at = "poll"
    /\ batch' = IF lost THEN Append(queue, [type |-> "alerts_dropped"]) ELSE queue
    /\ queue' = <<>>
    /\ lost' = FALSE
    /\ at' = "handle"
    /\ UNCHANGED <<stopping, posts, epoch, torrent, stats, latencies, overtaken>>

Handle ==
    /\ at = "handle"
    /\ batch # <<>>
    /\ Dispatch(Head(batch))
    /\ batch' = Tail(batch)
    /\ UNCHANGED <<at, stopping, torrent, alerts, overtaken>>

\* The batch is done. A snapshot follows if it is due, and in the final round.
Drained ==
    /\ at = "handle"
    /\ batch = <<>>
    /\ at' \in IF stopping THEN {"snapshot"} ELSE {"snapshot", "check"}
    /\ UNCHANGED <<stopping, batch, torrent, alerts, stats, latencies, overtaken>>

\* note_peer_snapshot and update_from_snapshot, for every peer there is now.
Snapshot ==
    /\ at = "snapshot"
    /\ latest' = network
    /\ peers' = [e \in Endpoints |->
          LET found == ensure_peer_for_endpoint(e) IN
          IF up[e] THEN [found.records EXCEPT ![found.key].sampled = @ \cup {opened[e]}]
                   ELSE peers[e]]
    /\ active' = [e \in Endpoints |->
          IF up[e] THEN ensure_peer_for_endpoint(e).key ELSE active[e]]
    /\ overtaken' = (overtaken \/ queue # <<>>)
    /\ at' = IF stopping THEN "finalize" ELSE "check"
    /\ UNCHANGED <<stopping, batch, torrent, alerts, last_piece, connects,
                   completions, latencies>>

\* SessionStats::finalize closes the records that are still open.
finalize ==
    /\ at = "finalize"
    /\ peers' = [e \in Endpoints |-> [n \in DOMAIN peers[e] |->
          IF peers[e][n].active_connection THEN note_disconnect(peers[e][n])
                                           ELSE peers[e][n]]]
    /\ at' = "done"
    /\ UNCHANGED <<stopping, batch, torrent, alerts, active, last_piece, latest,
                   connects, completions, latencies, overtaken>>

-----------------------------------------------------------------------------
(* The specification.                                                       *)

Init ==
    /\ opened = [e \in Endpoints |-> 0]
    /\ up = [e \in Endpoints |-> FALSE]
    /\ asked = [e \in Endpoints |-> {}]
    /\ have = {}
    /\ sender = [p \in Pieces |-> NoPeer]
    /\ network \in (IF "checking" \in Troubles THEN BOOLEAN ELSE {TRUE})
    /\ queue = <<>> /\ lost = FALSE /\ posts = 0 /\ epoch = 0
    /\ at = "added" /\ stopping = FALSE /\ batch = <<>>
    /\ peers = [e \in Endpoints |-> <<>>]
    /\ active = [e \in Endpoints |-> 0]
    /\ last_piece = [p \in Pieces |-> NoPeer]
    /\ latest = FALSE /\ connects = 0 /\ completions = 0
    /\ latencies = {} /\ overtaken = FALSE

Torrent ==
    /\ \/ \E e \in Endpoints : Open(e) \/ Close(e) \/ OpenFails(e) \/ PeerError(e)
       \/ \E e \in Endpoints, p \in Pieces : Request(e, p) \/ Respond(e, p) \/ TimeOut(e, p)
       \/ \E p \in Pieces : PieceFinished(p) \/ HashFails(p) \/ PieceVerified(p)
       \/ StateChanged
    /\ UNCHANGED <<thread, stats, latencies, overtaken>>

Main == set_initial_totals \/ Check \/ PopAlerts \/ Handle \/ Drained \/ Snapshot \/ finalize

Next == Torrent \/ Main

Spec == Init /\ [][Next]_vars

-----------------------------------------------------------------------------
(* Properties.                                                              *)

\* peer_stats.cpp:652-684, 716-726, 819-829: until the session is finalized, the record
\* the table names for an endpoint is its last one and is the only one of that
\* endpoint with active_connection set; after that none is active, whenever it was
\* made, and nothing is outstanding.
OneActiveRecord ==
    \A e \in Endpoints :
        /\ at # "done" => active[e] \in {0, Len(peers[e])}
        /\ \A n \in 1..Len(peers[e]) :
               IF at # "done" THEN peers[e][n].active_connection <=> active[e] = n
               ELSE /\ ~peers[e][n].active_connection
                    /\ peers[e][n].outstanding_requests = NothingOutstanding

\* peer_stats.cpp:661-665, 716-726: whatever comes late, twice or not at all, a
\* record that was closed is never changed or reopened; it may still be credited.
ClosedIsFrozen ==
    [][\A e \in Endpoints : \A n \in 1..Len(peers[e]) :
        ~peers[e][n].active_connection =>
            /\ n <= Len(peers'[e])
            /\ \E done \in SUBSET Pieces :
                   /\ peers[e][n].pieces \subseteq done
                   /\ peers'[e][n] = [peers[e][n] EXCEPT !.pieces = done]]_vars

\* peer_stats.cpp:164-175, 788-800: a latency is measured from a request to an
\* answer over the same connection, and never across alerts that were lost.
LatencyHasNoGap == \A l \in latencies : l.from = l.to

\* main.cpp:393, peer_stats.cpp:752-770, 793: a piece is credited to a record only if
\* the connection that sent it went into that record, also when alerts are lost.
CreditIsEarned ==
    \A e \in Endpoints : \A n \in 1..Len(peers[e]) : \A p \in peers[e][n].pieces :
        \E c \in peers[e][n].alerted : sender[p] = <<e, c>>

ConnectedRecords(e) == {n \in 1..Len(peers[e]) : peers[e][n].saw_connect_alert}

AllHandled == queue = <<>> /\ batch = <<>>

\* peer_stats.cpp:652-726: when no alert was lost and all have been handled, each
\* endpoint has one connected record for each of its connections, and the open
\* connection is the active one.
RecordsAreConnections ==
    AllHandled /\ epoch = 0 /\ at # "done" =>
        \A e \in Endpoints :
            /\ Cardinality(ConnectedRecords(e)) = opened[e]
            /\ up[e] => active[e] \in ConnectedRecords(e)
            /\ ~up[e] /\ active[e] # 0 => active[e] \notin ConnectedRecords(e)

\* peer_stats.cpp:670-671 (the comment on the sequence suffix): a record has data of
\* one connection only, and no two records share one, unless alerts were lost or a
\* snapshot has overtaken some.
OneConnectionIfInOrder ==
    epoch = 0 /\ ~overtaken =>
        \A e \in Endpoints : \A n \in 1..Len(peers[e]) :
            LET Of(r) == r.alerted \cup r.sampled IN
            /\ Cardinality(Of(peers[e][n])) <= 1
            /\ \A m \in 1..(n - 1) : Of(peers[e][n]) \cap Of(peers[e][m]) = {}

\* peer_stats.cpp:752-781: unless a snapshot, or the status after the torrent was added,
\* has overtaken the alerts, or some were lost, only downloaded pieces count as
\* completed, none that was verified.
CompletionsAreDownloads ==
    epoch = 0 /\ ~overtaken =>
        completions <= Cardinality({p \in have : sender[p] # NoPeer})

-----------------------------------------------------------------------------
(* The refinement.                                                          *)

RoundsStep ==
    CASE at = "snapshot" -> IF stopping THEN "last_drained" ELSE "drained"
      [] at = "finalize" -> "recorded"
      [] at = "done" -> "finished"
      [] OTHER -> "round"

Rounds == INSTANCE CaptureRounds WITH step <- RoundsStep

\* main.cpp:828-876: the rounds the registry is fed in are those of CaptureRounds,
\* which CaptureLoop implements too: a snapshot sees the alerts that were posted before
\* its round handled, and nothing is finalized before a last one.
RoundsInOrder == Rounds!Spec
=============================================================================
