---------------------------- MODULE SessionTotals -----------------------------
(***************************************************************************)
(* The totals of a session that the summary draws from the records of its   *)
(* peers (summary_writer.cpp, 57-100), set against the connections there    *)
(* really were. The bytes of a record are those of the last snapshot that   *)
(* went into it (peer_stats.cpp, 354-355); which record that is follows the *)
(* alerts handled so far, as in PeerRegistry. A batch of alerts is handled  *)
(* in one step: libtorrent posts the next ones to another queue.            *)
(*                                                                         *)
(* One direction of the traffic stands for both; "requests" are those sent   *)
(* and those received, which the counts of the summary add up.              *)
(***************************************************************************)
EXTENDS Naturals, Sequences, FiniteSets, SequencesExt

CONSTANTS
    Endpoints,
    QueueSize,        \* alert_queue_size
    SampleThreshold,  \* the requests a fingerprint takes, 100 in the code
    Troubles,         \* what may go wrong (narrows a run)
    MaxConnections,   \* how often a peer tries to connect (a bound of the model)
    MaxBytes,         \* the bytes a connection moves (a bound of the model)
    MaxRequests       \* the requests made over it (a bound of the model)

ASSUME TotalsAssumption ==
    /\ IsFiniteSet(Endpoints) /\ QueueSize \in Nat \ {0} /\ SampleThreshold \in Nat \ {0}
    /\ Troubles \subseteq {"loss", "open_fails", "error_closes"}
    /\ MaxConnections \in Nat /\ MaxBytes \in Nat /\ MaxRequests \in Nat

VARIABLES
    \* libtorrent
    connections,   \* the attempts of each endpoint, with what they really moved
    up,            \* the endpoints that are connected
    queue, lost,   \* the alerts, and whether some were dropped
    \* SessionStats
    peers,         \* the records of each endpoint
    active,        \* active_peer_key_by_endpoint: which of them, or 0
    at,            \* where the main thread is
    \* history
    overtaken,     \* a snapshot was taken while alerts were queued
    blurred        \* alerts were dropped, or no disconnect told that an attempt was over

swarm == <<connections, up>>
alerts == <<queue, lost>>
stats == <<peers, active>>
vars == <<swarm, alerts, stats, at, overtaken, blurred>>

NewConnection == [bytes |-> 0, requests |-> 0, seen |-> 0]
NewPeer == [bytes |-> 0, requests |-> 0]
Alerts == [type : {"connect", "disconnect", "error", "request"}, endpoint : Endpoints]

\* Every variable stays within its type, and the table names records there are.
TypeOK ==
    /\ connections \in [Endpoints -> Seq([bytes : Nat, requests : Nat, seen : Nat])]
    /\ up \in SUBSET Endpoints
    /\ queue \in Seq(Alerts) /\ Len(queue) <= QueueSize /\ lost \in BOOLEAN
    /\ peers \in [Endpoints -> Seq([bytes : Nat, requests : Nat])]
    /\ active \in [Endpoints -> Nat] /\ \A e \in Endpoints : active[e] <= Len(peers[e])
    /\ at \in {"drain", "snapshot", "done"}
    /\ overtaken \in BOOLEAN /\ blurred \in BOOLEAN

-----------------------------------------------------------------------------
(* libtorrent. What it does after the final snapshot is in no summary.       *)

Post(type, e) ==
    /\ at # "done"
    /\ IF ~lost /\ Len(queue) < QueueSize
       THEN queue' = Append(queue, [type |-> type, endpoint |-> e]) /\ UNCHANGED lost
       ELSE "loss" \in Troubles /\ lost' = TRUE /\ UNCHANGED queue

Current(e) == Len(connections[e])

Open(e) ==
    /\ e \notin up /\ Current(e) < MaxConnections
    /\ Post("connect", e)
    /\ connections' = [connections EXCEPT ![e] = Append(@, NewConnection)]
    /\ up' = up \cup {e}
    /\ UNCHANGED <<stats, at, overtaken, blurred>>

\* After an error there is perhaps no disconnect alert.
Close(e) ==
    /\ e \in up
    /\ \/ Post("disconnect", e) /\ UNCHANGED blurred
       \/ "error_closes" \in Troubles /\ Post("error", e) /\ blurred' = TRUE
    /\ up' = up \ {e}
    /\ UNCHANGED <<connections, stats, at, overtaken>>

\* An attempt that fails is reported as a disconnect or as an error. An error leaves the
\* record it needs active, so that the next attempt is filed there too.
OpenFails(e) ==
    /\ "open_fails" \in Troubles /\ e \notin up /\ Current(e) < MaxConnections
    /\ \/ Post("disconnect", e) /\ UNCHANGED blurred
       \/ Post("error", e) /\ blurred' = TRUE
    /\ connections' = [connections EXCEPT ![e] = Append(@, NewConnection)]
    /\ UNCHANGED <<up, stats, at, overtaken>>

Transfer(e) ==
    /\ at # "done" /\ e \in up /\ connections[e][Current(e)].bytes < MaxBytes
    /\ connections' = [connections EXCEPT ![e][Current(e)].bytes = @ + 1]
    /\ UNCHANGED <<up, alerts, stats, at, overtaken, blurred>>

Request(e) ==
    /\ e \in up /\ connections[e][Current(e)].requests < MaxRequests
    /\ Post("request", e)
    /\ connections' = [connections EXCEPT ![e][Current(e)].requests = @ + 1]
    /\ UNCHANGED <<up, stats, at, overtaken, blurred>>

-----------------------------------------------------------------------------
(* SessionStats. A table of records has peers and active.                    *)

\* Mutant: a record is made although the endpoint has an active one.
ensure_peer_for_endpoint_New(table, e) ==
    [peers  |-> [table.peers EXCEPT ![e] = Append(@, NewPeer)],
     active |-> [table.active EXCEPT ![e] = Len(table.peers[e]) + 1]]

\* The active record of an endpoint, a new one if it has none.
ensure_peer_for_endpoint(table, e) ==
    IF table.active[e] # 0 THEN table
    ELSE [peers  |-> [table.peers EXCEPT ![e] = Append(@, NewPeer)],
          active |-> [table.active EXCEPT ![e] = Len(table.peers[e]) + 1]]

\* Mutants: at a disconnect the table goes on to name the record, or names the next.
Handled_NoErase(table, alert) ==
    LET e == alert.endpoint
        found == ensure_peer_for_endpoint(table, e)
    IN IF alert.type = "request"
       THEN [found EXCEPT !.peers[e][found.active[e]].requests = @ + 1]
       ELSE found
Handled_Next(table, alert) ==
    LET e == alert.endpoint
        found == ensure_peer_for_endpoint(table, e)
    IN IF alert.type = "disconnect" THEN [found EXCEPT !.active[e] = @ + 1] ELSE found

\* What an alert does to the records: a connect and an error only need the record.
Handled(table, alert) ==
    LET e == alert.endpoint
        found == ensure_peer_for_endpoint(table, e)
    IN CASE alert.type = "request" ->
                [found EXCEPT !.peers[e][found.active[e]].requests = @ + 1]
         [] alert.type = "disconnect" -> [found EXCEPT !.active[e] = 0]
         [] OTHER -> found

\* drain_alerts, in a final round too.
Drain ==
    /\ at = "drain"
    /\ LET table == FoldLeft(Handled, [peers |-> peers, active |-> active], queue)
       IN peers' = table.peers /\ active' = table.active
    /\ queue' = <<>> /\ lost' = FALSE
    /\ blurred' = (blurred \/ lost)
    /\ at' \in {"drain", "snapshot"}
    /\ UNCHANGED <<swarm, overtaken>>

\* libtorrent counts the bytes of a connection from its start.
Sampled(peer, connection) == [peer EXCEPT !.bytes = connection.bytes]

\* capture_snapshots: every peer there is now. The summary follows the last one.
Snapshot ==
    LET table == [peers |-> peers, active |-> active]
        Found(e) == ensure_peer_for_endpoint(table, e)
        Key(e) == Found(e).active[e]
        Connection(e) == connections[e][Current(e)]
    IN
    /\ at = "snapshot"
    /\ peers' = [e \in Endpoints |->
           IF e \in up THEN [Found(e).peers[e] EXCEPT ![Key(e)] = Sampled(@, Connection(e))]
                       ELSE peers[e]]
    /\ active' = [e \in Endpoints |-> IF e \in up THEN Key(e) ELSE active[e]]
    /\ connections' = [e \in Endpoints |->
           IF e \in up THEN [connections[e] EXCEPT ![Current(e)].seen = Connection(e).bytes]
                       ELSE connections[e]]
    /\ overtaken' = (overtaken \/ queue # <<>>)
    /\ at' \in {"drain", "done"}
    /\ UNCHANGED <<up, alerts, blurred>>

-----------------------------------------------------------------------------
(* The specification.                                                       *)

Init ==
    /\ connections = [e \in Endpoints |-> <<>>] /\ up = {}
    /\ queue = <<>> /\ lost = FALSE
    /\ peers = [e \in Endpoints |-> <<>>] /\ active = [e \in Endpoints |-> 0]
    /\ at = "drain"
    /\ overtaken = FALSE /\ blurred = FALSE

Next ==
    \/ \E e \in Endpoints :
          Open(e) \/ Close(e) \/ OpenFails(e) \/ Transfer(e) \/ Request(e)
    \/ Drain \/ Snapshot

Spec == Init /\ [][Next]_vars

-----------------------------------------------------------------------------
(* The summary.                                                             *)

All(table) == UNION {{e} \X DOMAIN table[e] : e \in Endpoints}

\* peer_network_byte_totals.
NetworkBytes ==
    SumFunction([e \in Endpoints |->
        SumFunction([k \in DOMAIN peers[e] |-> peers[e][k].bytes])])

\* peer_observation_counts.
HadProtocolActivity(peer) == peer.requests > 0 \/ peer.bytes > 0

\* Mutant: more than the threshold is asked for.
Fingerprintable_Above(peer) == peer.requests > SampleThreshold /\ HadProtocolActivity(peer)
Fingerprintable(peer) == peer.requests >= SampleThreshold /\ HadProtocolActivity(peer)

peer_observation_counts ==
    LET Peer(k) == peers[k[1]][k[2]]
    IN [observed        |-> Cardinality(All(peers)),
        active          |-> Cardinality({k \in All(peers) : HadProtocolActivity(Peer(k))}),
        fingerprintable |-> Cardinality({k \in All(peers) : Fingerprintable(Peer(k))})]

\* The same counts of the connections there really were.
ConnectionCounts ==
    LET Connection(k) == connections[k[1]][k[2]]
        Busy(c) == c.requests > 0 \/ c.seen > 0
    IN [observed        |-> Cardinality(All(connections)),
        active          |-> Cardinality({k \in All(connections) : Busy(Connection(k))}),
        fingerprintable |-> Cardinality({k \in All(connections) :
                                           Connection(k).requests >= SampleThreshold})]

BytesSeen ==
    SumFunction([e \in Endpoints |->
        SumFunction([k \in DOMAIN connections[e] |-> connections[e][k].seen])])

-----------------------------------------------------------------------------
(* Properties.                                                              *)

\* summary_writer.cpp:57-67: bytes are counted twice only if a snapshot overtook alerts,
\* not if alerts are lost.
NeverOvercounted == ~overtaken => NetworkBytes <= BytesSeen

\* A disconnect has told, or will tell, of the end of every attempt that is over, and
\* snapshots came when the alerts before them had been handled.
AllTold == ~overtaken /\ ~blurred /\ ~lost

\* summary_writer.cpp:57-67, peer_stats.cpp:670-671: if every end is told by a disconnect,
\* none is lost and no snapshot comes before its time, the total misses nothing but what
\* was moved after the last snapshot that saw the connection, also when peers reconnect.
TotalsAddUp == AllTold => NetworkBytes = BytesSeen

\* main.cpp:331-337, summary_writer.cpp:69-100: whatever is lost or told by an error
\* alone, there are never more records than attempts, unless a snapshot overtook alerts.
\* If besides every end is told by a disconnect, the counts of the summary are those of
\* the attempts, of the connections seen to do something, and of those with enough
\* requests, once the alerts are handled.
CountsAreConnections ==
    /\ ~overtaken => peer_observation_counts.observed <= ConnectionCounts.observed
    /\ AllTold /\ queue = <<>> => peer_observation_counts = ConnectionCounts
=============================================================================
