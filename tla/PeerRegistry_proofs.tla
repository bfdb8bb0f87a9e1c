------------------------- MODULE PeerRegistry_proofs -------------------------
(***************************************************************************)
(* For any endpoints, pieces, length of the queue and number of alerts,    *)
(* lost ones included: the table of active records and the records agree.  *)
(***************************************************************************)
EXTENDS PeerRegistry, SequenceTheorems, FiniteSetTheorems, TLAPS

-----------------------------------------------------------------------------
(* TypeOK in parts: a step disturbs few of them.                            *)

TorrentType ==
    /\ opened \in [Endpoints -> Nat]
    /\ up \in [Endpoints -> BOOLEAN]
    /\ asked \in [Endpoints -> SUBSET Pieces]
    /\ have \in SUBSET Pieces
    /\ sender \in [Pieces -> {NoPeer} \cup (Endpoints \X Nat)]
    /\ network \in BOOLEAN

QueueType ==
    /\ queue \in Seq(Alert)
    /\ lost \in BOOLEAN /\ posts \in Nat /\ epoch \in Nat

ThreadType == at \in Places /\ stopping \in BOOLEAN /\ batch \in Seq(Alert)

RecordType ==
    /\ peers \in [Endpoints -> Seq(PeerStats)]
    /\ active \in [Endpoints -> Nat]
    /\ \A e \in Endpoints : active[e] \in 0..Len(peers[e])

KeyType ==
    /\ last_piece \in [Pieces -> {NoPeer} \cup (Endpoints \X Nat)]
    /\ \A p \in Pieces : last_piece[p] # NoPeer =>
           last_piece[p][2] \in 1..Len(peers[last_piece[p][1]])

CountType ==
    /\ latest \in BOOLEAN /\ connects \in Nat /\ completions \in Nat
    /\ latencies \in SUBSET [from : Tag, to : Tag]
    /\ overtaken \in BOOLEAN

LEMMA TypeParts ==
    TypeOK <=> /\ TorrentType /\ QueueType /\ ThreadType
               /\ RecordType /\ KeyType /\ CountType
BY DEF TypeOK, TorrentType, QueueType, ThreadType, RecordType, KeyType, CountType

\* The same after a step.
LEMMA TypeWhole ==
    ASSUME TorrentType', QueueType', ThreadType', RecordType', KeyType', CountType'
    PROVE  TypeOK'
BY DEF TypeOK, TorrentType, QueueType, ThreadType, RecordType, KeyType, CountType

\* What OneActiveRecord says of a session that is not finalized.
Table ==
    \A e \in Endpoints :
        /\ active[e] \in {0, Len(peers[e])}
        /\ \A n \in 1..Len(peers[e]) :
               peers[e][n].active_connection <=> active[e] = n

\* No record is ever removed.
Grows == \A e \in Endpoints : Len(peers[e]) <= Len(peers'[e])

-----------------------------------------------------------------------------
(* Records and sequences.                                                   *)

LEMMA NewPeerType ==
    /\ NewPeer \in PeerStats
    /\ NewPeer.active_connection
    /\ NothingOutstanding \in [Pieces -> Tag]
    /\ NoTag \in Tag
BY DEF NewPeer, PeerStats, NothingOutstanding, NoTag, Tag

\* Changing one element, or every element, of a sequence of records.
LEMMA ChangeOne ==
    ASSUME NEW S, NEW s \in Seq(S), NEW i \in 1..Len(s), NEW x \in S
    PROVE  /\ [s EXCEPT ![i] = x] \in Seq(S)
           /\ Len([s EXCEPT ![i] = x]) = Len(s)
           /\ \A n \in 1..Len(s) :
                  [s EXCEPT ![i] = x][n] = IF n = i THEN x ELSE s[n]
BY ExceptSeq

LEMMA ChangeAll ==
    ASSUME NEW S, NEW s \in Seq(S), NEW t, DOMAIN t = DOMAIN s,
           t = [n \in DOMAIN s |-> t[n]], \A n \in DOMAIN s : t[n] \in S
    PROVE  t \in Seq(S) /\ Len(t) = Len(s)
<1>1. DOMAIN s = 1..Len(s) /\ Len(s) \in Nat
  BY LenProperties
<1>2. t \in [1..Len(s) -> S]
  BY <1>1
<1>3. t \in Seq(S)
  BY <1>1, <1>2, SeqDef
<1> QED
  BY <1>1, <1>2, <1>3, LenProperties

\* What ensure_peer_for_endpoint returns: the old records, perhaps one more; and
\* if the table is right, the last record, which is active, unlike the others.
LEMMA EnsureType ==
    ASSUME RecordType, NEW e \in Endpoints
    PROVE  LET found == ensure_peer_for_endpoint(e) IN
           /\ found.records \in Seq(PeerStats)
           /\ found.key \in 1..Len(found.records)
           /\ found.key \in Nat
           /\ Len(peers[e]) <= Len(found.records)
           /\ Peer(e) \in PeerStats
           /\ Table => /\ found.key = Len(found.records)
                       /\ Peer(e).active_connection
                       /\ \A n \in 1..Len(found.records) :
                              found.records[n].active_connection <=> n = found.key
<1> DEFINE found == ensure_peer_for_endpoint(e)
<1>1. /\ peers[e] \in Seq(PeerStats) /\ active[e] \in Nat
      /\ active[e] \in 0..Len(peers[e]) /\ Len(peers[e]) \in Nat
  BY LenProperties DEF RecordType
<1>2. CASE active[e] # 0
  <2>1. found.records = peers[e] /\ found.key = active[e]
    BY <1>2 DEF ensure_peer_for_endpoint
  <2>2. found.key \in 1..Len(peers[e])
    BY <1>1, <1>2, <2>1
  <2>3. Peer(e) \in PeerStats
    BY <1>1, <2>1, <2>2, ElementOfSeq DEF Peer
  <2>4. ASSUME Table
        PROVE  /\ found.key = Len(found.records)
               /\ Peer(e).active_connection
               /\ \A n \in 1..Len(found.records) :
                      found.records[n].active_connection <=> n = found.key
    BY <1>1, <1>2, <2>1, <2>2, <2>4 DEF Table, Peer
  <2> QED
    BY <1>1, <2>1, <2>2, <2>3, <2>4
<1>3. CASE active[e] = 0
  <2>1. /\ found.records = Append(peers[e], NewPeer)
        /\ found.key = Len(peers[e]) + 1
    BY <1>3 DEF ensure_peer_for_endpoint
  <2>2. /\ found.records \in Seq(PeerStats)
        /\ Len(found.records) = Len(peers[e]) + 1
        /\ found.records[found.key] = NewPeer
        /\ \A n \in 1..Len(peers[e]) : found.records[n] = peers[e][n]
    BY <1>1, <2>1, NewPeerType, AppendProperties
  <2>3. Peer(e) = NewPeer
    BY <2>2 DEF Peer
  <2>4. ASSUME Table
        PROVE  \A n \in 1..Len(found.records) :
                      found.records[n].active_connection <=> n = found.key
    BY <1>1, <1>3, <2>1, <2>2, <2>4, NewPeerType DEF Table
  <2> QED
    BY <1>1, <2>1, <2>2, <2>3, <2>4, NewPeerType
<1> QED
  BY <1>1, <1>2, <1>3

\* The records of an endpoint after the one it returns has become x.
LEMMA Stored ==
    ASSUME RecordType, Table, NEW e \in Endpoints, NEW x \in PeerStats
    PROVE  LET found == ensure_peer_for_endpoint(e)
               new == [found.records EXCEPT ![found.key] = x]
           IN
           /\ new \in Seq(PeerStats)
           /\ Len(new) \in Nat /\ Len(peers[e]) \in Nat
           /\ Len(peers[e]) <= Len(new)
           /\ found.key = Len(new) /\ found.key \in 1..Len(new)
           /\ x.active_connection =>
                  \A n \in 1..Len(new) : new[n].active_connection <=> found.key = n
           /\ ~x.active_connection =>
                  \A n \in 1..Len(new) : ~new[n].active_connection
<1> DEFINE found == ensure_peer_for_endpoint(e)
           new == [found.records EXCEPT ![found.key] = x]
<1>1. /\ found.records \in Seq(PeerStats)
      /\ found.key \in 1..Len(found.records)
      /\ found.key = Len(found.records)
      /\ Len(peers[e]) <= Len(found.records)
      /\ \A n \in 1..Len(found.records) :
             found.records[n].active_connection <=> n = found.key
  BY EnsureType
<1>2. /\ new \in Seq(PeerStats)
      /\ Len(new) = Len(found.records)
      /\ \A n \in 1..Len(found.records) :
             new[n] = IF n = found.key THEN x ELSE found.records[n]
  BY <1>1, ChangeOne
<1>3. Len(new) \in Nat /\ Len(peers[e]) \in Nat
  BY <1>1, <1>2, LenProperties DEF RecordType
<1> HIDE DEF found, new
<1>4. /\ Len(peers[e]) <= Len(new)
      /\ found.key = Len(new) /\ found.key \in 1..Len(new)
  BY <1>1, <1>2, <1>3
<1>5. ASSUME x.active_connection, NEW n \in 1..Len(new)
      PROVE  new[n].active_connection <=> found.key = n
  BY <1>1, <1>2, <1>5
<1>6. ASSUME ~x.active_connection, NEW n \in 1..Len(new)
      PROVE  ~new[n].active_connection
  BY <1>1, <1>2, <1>6
<1> QED
  BY <1>2, <1>3, <1>4, <1>5, <1>6 DEF found, new

LEMMA SetPeerKeeps ==
    ASSUME RecordType, Table, NEW e \in Endpoints, NEW x \in PeerStats,
           x.active_connection, SetPeer(e, x)
    PROVE  RecordType' /\ Table' /\ Grows
<1> DEFINE found == ensure_peer_for_endpoint(e)
           new == [found.records EXCEPT ![found.key] = x]
<1>1. /\ peers' = [peers EXCEPT ![e] = new]
      /\ active' = [active EXCEPT ![e] = found.key]
  BY DEF SetPeer
<1>2. /\ new \in Seq(PeerStats)
      /\ Len(new) \in Nat /\ Len(peers[e]) \in Nat
      /\ Len(peers[e]) <= Len(new)
      /\ found.key = Len(new) /\ found.key \in 1..Len(new)
      /\ \A n \in 1..Len(new) : new[n].active_connection <=> found.key = n
  BY Stored
<1>3. \A d \in Endpoints : Len(peers[d]) \in Nat
  BY LenProperties DEF RecordType
<1> HIDE DEF found, new
<1>4. RecordType'
  BY <1>1, <1>2 DEF RecordType
<1>5. Table'
  BY <1>1, <1>2 DEF Table, RecordType
<1>6. Grows
  BY <1>1, <1>2, <1>3 DEF Grows, RecordType
<1> QED
  BY <1>4, <1>5, <1>6

\* What an alert does to a record leaves it active, unless it is a disconnect.
LEMMA EventType ==
    ASSUME RecordType, Table, NEW a, a.endpoint \in Endpoints, a.piece \in Pieces,
           a.tag \in Tag
    PROVE  LET peer == note_peer_event(a) IN
           /\ peer \in PeerStats /\ peer.active_connection
           /\ Connected(a) \in PeerStats /\ Connected(a).active_connection
           /\ Answered(a) \in PeerStats /\ Answered(a).active_connection
           /\ [peer EXCEPT !.outstanding_requests[a.piece] = a.tag] \in PeerStats
           /\ [peer EXCEPT !.outstanding_requests[a.piece] = a.tag].active_connection
           /\ note_disconnect(peer) \in PeerStats
           /\ ~note_disconnect(peer).active_connection
<1> DEFINE old == Peer(a.endpoint)
           peer == note_peer_event(a)
<1>1. old \in PeerStats /\ old.active_connection
  BY EnsureType
<1>2. peer = [old EXCEPT !.alerted = @ \cup ({a.tag.conn} \ {0})]
  BY DEF note_peer_event
<1>3. a.tag.conn \in Nat
  BY DEF Tag
<1>4. peer \in PeerStats /\ peer.active_connection
  BY <1>1, <1>2, <1>3 DEF PeerStats
<1> HIDE DEF peer
<1>5. /\ [peer EXCEPT !.active_connection = TRUE, !.saw_connect_alert = TRUE] \in PeerStats
      /\ [peer EXCEPT !.active_connection = TRUE,
                      !.saw_connect_alert = TRUE].active_connection
  BY <1>4 DEF PeerStats
<1>6. \A t \in Tag :
        /\ [peer EXCEPT !.outstanding_requests[a.piece] = t] \in PeerStats
        /\ [peer EXCEPT !.outstanding_requests[a.piece] = t].active_connection
  BY <1>4 DEF PeerStats
<1>7. note_disconnect(peer) \in PeerStats /\ ~note_disconnect(peer).active_connection
  BY <1>4, NewPeerType DEF PeerStats, note_disconnect
<1> QED
  BY <1>4, <1>5, <1>6, <1>7, NewPeerType DEF peer, Connected, Answered

LEMMA DisconnectKeeps ==
    ASSUME RecordType, Table, NEW a, a.endpoint \in Endpoints, a.piece \in Pieces,
           a.tag \in Tag, note_peer_disconnect(a)
    PROVE  RecordType' /\ Table' /\ Grows
<1> DEFINE e == a.endpoint
           x == note_disconnect(note_peer_event(a))
           found == ensure_peer_for_endpoint(e)
           new == [found.records EXCEPT ![found.key] = x]
<1>1. /\ peers' = [peers EXCEPT ![e] = new]
      /\ active' = [active EXCEPT ![e] = 0]
  BY DEF note_peer_disconnect
<1>2. x \in PeerStats /\ ~x.active_connection
  BY EventType
<1>3. /\ new \in Seq(PeerStats)
      /\ Len(new) \in Nat /\ Len(peers[e]) \in Nat
      /\ Len(peers[e]) <= Len(new)
      /\ \A n \in 1..Len(new) : ~new[n].active_connection
  <2> HIDE DEF x
  <2> QED BY <1>2, Stored
<1>4. \A d \in Endpoints : Len(peers[d]) \in Nat
  BY LenProperties DEF RecordType
<1> HIDE DEF new
<1>5. RecordType'
  BY <1>1, <1>3 DEF RecordType
<1>6. Table'
  BY <1>1, <1>3 DEF Table, RecordType
<1>7. Grows
  BY <1>1, <1>3, <1>4 DEF Grows, RecordType
<1> QED
  BY <1>5, <1>6, <1>7

\* A step that changes neither the number nor the activity of any record.
LEMMA SameActivity ==
    ASSUME RecordType, Table, UNCHANGED active,
           peers' \in [Endpoints -> Seq(PeerStats)],
           \A e \in Endpoints :
               /\ Len(peers'[e]) = Len(peers[e])
               /\ \A n \in 1..Len(peers[e]) :
                      peers'[e][n].active_connection = peers[e][n].active_connection
    PROVE  RecordType' /\ Table' /\ Grows
<1>1. \A e \in Endpoints : Len(peers[e]) \in Nat
  BY LenProperties DEF RecordType
<1>2. RecordType'
  BY DEF RecordType
<1>3. Table'
  BY DEF Table
<1>4. Grows
  BY <1>1 DEF Grows
<1> QED
  BY <1>2, <1>3, <1>4

LEMMA ResetKeeps ==
    ASSUME RecordType, Table, UNCHANGED active, peers' = ResetOutstanding
    PROVE  RecordType' /\ Table' /\ Grows
<1>1. ASSUME NEW e \in Endpoints
      PROVE  /\ peers'[e] \in Seq(PeerStats)
             /\ Len(peers'[e]) = Len(peers[e])
             /\ \A n \in 1..Len(peers[e]) :
                    peers'[e][n].active_connection = peers[e][n].active_connection
  <2> DEFINE s == peers[e]
             t == [n \in DOMAIN s |->
                      [s[n] EXCEPT !.outstanding_requests = NothingOutstanding]]
  <2>1. s \in Seq(PeerStats) /\ DOMAIN s = 1..Len(s)
    BY LenProperties DEF RecordType
  <2>2. peers'[e] = t
    BY DEF ResetOutstanding
  <2>3. \A n \in DOMAIN s : s[n] \in PeerStats
    BY <2>1, ElementOfSeq
  <2>4. \A n \in DOMAIN s : t[n] \in PeerStats
                            /\ t[n].active_connection = s[n].active_connection
    BY <2>3, NewPeerType DEF PeerStats
  <2>5. DOMAIN t = DOMAIN s /\ t = [n \in DOMAIN s |-> t[n]]
    OBVIOUS
  <2> HIDE DEF t
  <2>6. t \in Seq(PeerStats) /\ Len(t) = Len(s)
    BY <2>1, <2>4, <2>5, ChangeAll
  <2> QED
    BY <2>1, <2>2, <2>4, <2>6
<1>2. peers' = [e \in Endpoints |-> peers'[e]]
  BY DEF ResetOutstanding
<1>3. peers' \in [Endpoints -> Seq(PeerStats)]
  BY <1>1, <1>2
<1> QED
  BY <1>1, <1>3, SameActivity

LEMMA CreditKeeps ==
    ASSUME RecordType, KeyType, Table, UNCHANGED active, NEW p \in Pieces, Credit(p)
    PROVE  RecordType' /\ Table' /\ Grows
<1>1. CASE last_piece[p] = NoPeer
  <2>1. peers' = peers
    BY <1>1 DEF Credit
  <2> QED
    BY <2>1, SameActivity DEF RecordType
<1>2. CASE last_piece[p] # NoPeer
  <2> DEFINE e == last_piece[p][1]
             n == last_piece[p][2]
             x == [peers[e][n] EXCEPT !.pieces = @ \cup {p}]
             new == [peers[e] EXCEPT ![n] = x]
  <2>1. e \in Endpoints /\ n \in 1..Len(peers[e])
    BY <1>2 DEF KeyType
  <2>2. peers[e] \in Seq(PeerStats)
    BY <2>1 DEF RecordType
  <2>3. peers[e][n] \in PeerStats
    BY <2>1, <2>2, ElementOfSeq
  <2>4. peers' = [peers EXCEPT ![e] = new]
    BY <1>2 DEF Credit
  <2>5. x \in PeerStats /\ x.active_connection = peers[e][n].active_connection
    BY <2>3 DEF PeerStats
  <2> HIDE DEF x, e, n
  <2>6. /\ new \in Seq(PeerStats) /\ Len(new) = Len(peers[e])
        /\ \A m \in 1..Len(peers[e]) : new[m] = IF m = n THEN x ELSE peers[e][m]
    BY <2>1, <2>2, <2>5, ChangeOne
  <2> HIDE DEF new
  <2>7. peers' \in [Endpoints -> Seq(PeerStats)]
    BY <2>1, <2>4, <2>6 DEF RecordType
  <2>8. \A d \in Endpoints :
           /\ Len(peers'[d]) = Len(peers[d])
           /\ \A m \in 1..Len(peers[d]) :
                  peers'[d][m].active_connection = peers[d][m].active_connection
    BY <2>1, <2>4, <2>5, <2>6 DEF RecordType
  <2> QED
    BY <2>7, <2>8, SameActivity
<1> QED
  BY <1>1, <1>2

\* Keys stay valid because records are only ever added.
LEMMA KeysStay ==
    ASSUME RecordType, RecordType', KeyType, Grows, UNCHANGED last_piece
    PROVE  KeyType'
<1>1. \A e \in Endpoints : Len(peers[e]) \in Nat /\ Len(peers'[e]) \in Nat
  BY LenProperties DEF RecordType
<1>2. ASSUME NEW p \in Pieces, last_piece[p] # NoPeer
      PROVE  last_piece[p][2] \in 1..Len(peers'[last_piece[p][1]])
  <2>1. /\ last_piece[p][1] \in Endpoints
        /\ last_piece[p][2] \in 1..Len(peers[last_piece[p][1]])
    BY <1>2 DEF KeyType
  <2> QED
    BY <1>1, <2>1 DEF Grows
<1> QED
  BY <1>2 DEF KeyType

LEMMA KeysCleared ==
    ASSUME last_piece' = [p \in Pieces |-> NoPeer]
    PROVE  KeyType'
BY DEF KeyType

LEMMA SnapshotKeeps ==
    ASSUME RecordType, Table, Snapshot, TorrentType
    PROVE  RecordType' /\ Table' /\ Grows
<1>1. ASSUME NEW e \in Endpoints
      PROVE  /\ peers'[e] \in Seq(PeerStats)
             /\ active'[e] \in Nat
             /\ active'[e] \in 0..Len(peers'[e])
             /\ Len(peers[e]) <= Len(peers'[e])
             /\ active'[e] \in {0, Len(peers'[e])}
             /\ \A n \in 1..Len(peers'[e]) :
                    peers'[e][n].active_connection <=> active'[e] = n
  <2> DEFINE found == ensure_peer_for_endpoint(e)
             old == Peer(e)
             x == [old EXCEPT !.sampled = @ \cup {opened[e]}]
             new == [found.records EXCEPT ![found.key] = x]
  <2>1. CASE up[e]
    <3>1. old \in PeerStats /\ old.active_connection
      BY EnsureType
    <3>2. opened[e] \in Nat
      BY <2>1 DEF TorrentType
    <3>3. x \in PeerStats /\ x.active_connection
      <4> HIDE DEF old
      <4> QED BY <3>1, <3>2 DEF PeerStats
    <3>4. peers'[e] = new /\ active'[e] = found.key
      BY <2>1 DEF Snapshot, Peer
    <3>5. /\ new \in Seq(PeerStats)
          /\ Len(new) \in Nat /\ Len(peers[e]) \in Nat
          /\ Len(peers[e]) <= Len(new)
          /\ found.key = Len(new) /\ found.key \in 1..Len(new)
          /\ \A n \in 1..Len(new) : new[n].active_connection <=> found.key = n
      <4> HIDE DEF x
      <4> QED BY <3>3, Stored
    <3> HIDE DEF found, new
    <3> QED
      BY <3>4, <3>5
  <2>2. CASE ~up[e]
    <3>1. peers'[e] = peers[e] /\ active'[e] = active[e]
      BY <2>2 DEF Snapshot
    <3>2. Len(peers[e]) \in Nat
      BY LenProperties DEF RecordType
    <3> QED
      BY <3>1, <3>2 DEF RecordType, Table
  <2> QED
    BY <2>1, <2>2
<1>2. /\ peers' = [e \in Endpoints |-> peers'[e]]
      /\ active' = [e \in Endpoints |-> active'[e]]
  BY DEF Snapshot
<1>3. RecordType'
  BY <1>1, <1>2 DEF RecordType
<1>4. Table'
  BY <1>1 DEF Table
<1>5. Grows
  BY <1>1 DEF Grows
<1> QED
  BY <1>3, <1>4, <1>5

-----------------------------------------------------------------------------
(* The handlers.                                                            *)

LEMMA AlertFields ==
    ASSUME NEW a \in Alert
    PROVE  /\ a.type \in PeerAlerts =>
                  a.endpoint \in Endpoints /\ a.piece \in Pieces /\ a.tag \in Tag
           /\ a.type = "piece_finished" => a.piece \in Pieces
BY DEF Alert, PeerAlerts

\* What a handler may change besides the records and the keys.
CountersType ==
    /\ latest \in BOOLEAN /\ connects \in Nat /\ completions \in Nat
    /\ latencies \in SUBSET [from : Tag, to : Tag]

LEMMA DispatchKeeps ==
    ASSUME RecordType, KeyType, CountersType, Table, NEW a \in Alert, Dispatch(a)
    PROVE  RecordType' /\ KeyType' /\ CountersType' /\ Table'
<1>0. /\ a.type \in PeerAlerts =>
            a.endpoint \in Endpoints /\ a.piece \in Pieces /\ a.tag \in Tag
      /\ a.type = "piece_finished" => a.piece \in Pieces
  BY AlertFields
<1>1. ASSUME a.type = "connect", note_peer_connect(a)
      PROVE  RecordType' /\ KeyType' /\ CountersType' /\ Table'
  <2>1. a.endpoint \in Endpoints /\ a.piece \in Pieces /\ a.tag \in Tag
    BY <1>0, <1>1 DEF PeerAlerts
  <2>2. Connected(a) \in PeerStats /\ Connected(a).active_connection
    BY <2>1, EventType
  <2>3. RecordType' /\ Table' /\ Grows
    BY <1>1, <2>1, <2>2, SetPeerKeeps DEF note_peer_connect
  <2>4. KeyType'
    BY <1>1, <2>3, KeysStay DEF note_peer_connect
  <2>5. CountersType'
    BY <1>1 DEF note_peer_connect, CountersType
  <2> QED
    BY <2>3, <2>4, <2>5
<1>2. ASSUME a.type = "disconnect", note_peer_disconnect(a)
      PROVE  RecordType' /\ KeyType' /\ CountersType' /\ Table'
  <2>1. a.endpoint \in Endpoints /\ a.piece \in Pieces /\ a.tag \in Tag
    BY <1>0, <1>2 DEF PeerAlerts
  <2>2. RecordType' /\ Table' /\ Grows
    BY <1>2, <2>1, DisconnectKeeps
  <2>3. UNCHANGED <<last_piece, latest, connects, completions, latencies>>
    BY <1>2 DEF note_peer_disconnect
  <2>4. KeyType'
    BY <2>2, <2>3, KeysStay
  <2> QED
    BY <2>2, <2>3, <2>4 DEF CountersType
<1>3. ASSUME a.type = "error", note_peer_error(a)
      PROVE  RecordType' /\ KeyType' /\ CountersType' /\ Table'
  <2>1. a.endpoint \in Endpoints /\ a.piece \in Pieces /\ a.tag \in Tag
    BY <1>0, <1>3 DEF PeerAlerts
  <2>2. note_peer_event(a) \in PeerStats /\ note_peer_event(a).active_connection
    BY <2>1, EventType
  <2>3. RecordType' /\ Table' /\ Grows
    BY <1>3, <2>1, <2>2, SetPeerKeeps DEF note_peer_error
  <2>4. KeyType'
    BY <1>3, <2>3, KeysStay DEF note_peer_error
  <2> QED
    BY <1>3, <2>3, <2>4 DEF note_peer_error, CountersType
<1>4. ASSUME a.type = "request", note_request_sent(a)
      PROVE  RecordType' /\ KeyType' /\ CountersType' /\ Table'
  <2> DEFINE x == [note_peer_event(a) EXCEPT !.outstanding_requests[a.piece] = a.tag]
  <2>1. a.endpoint \in Endpoints /\ a.piece \in Pieces /\ a.tag \in Tag
    BY <1>0, <1>4 DEF PeerAlerts
  <2>2. x \in PeerStats /\ x.active_connection
    BY <2>1, EventType
  <2>3. SetPeer(a.endpoint, x)
    BY <1>4 DEF note_request_sent
  <2>4. RecordType' /\ Table' /\ Grows
    <3> HIDE DEF x
    <3> QED BY <2>1, <2>2, <2>3, SetPeerKeeps
  <2>5. KeyType'
    BY <1>4, <2>4, KeysStay DEF note_request_sent
  <2> QED
    BY <1>4, <2>4, <2>5 DEF note_request_sent, CountersType
<1>5. ASSUME a.type = "response", note_block_response(a)
      PROVE  RecordType' /\ KeyType' /\ CountersType' /\ Table'
  <2> DEFINE e == a.endpoint
             found == ensure_peer_for_endpoint(e)
  <2>1. e \in Endpoints /\ a.piece \in Pieces /\ a.tag \in Tag
    BY <1>0, <1>5 DEF PeerAlerts
  <2>2. Answered(a) \in PeerStats /\ Answered(a).active_connection
    BY <2>1, EventType
  <2>3. SetPeer(e, Answered(a))
    BY <1>5 DEF note_block_response
  <2>4. RecordType' /\ Table' /\ Grows
    BY <2>1, <2>2, <2>3, SetPeerKeeps
  <2>5. found.key \in Nat /\ found.key \in 1..Len(peers'[e])
    <3>1. peers'[e] = [found.records EXCEPT ![found.key] = Answered(a)]
      BY <2>1, <2>3 DEF SetPeer, RecordType
    <3>2. found.key \in 1..Len([found.records EXCEPT ![found.key] = Answered(a)])
      BY <2>1, <2>2, Stored
    <3>3. found.key \in Nat
      BY <2>1, EnsureType
    <3> QED
      BY <3>1, <3>2, <3>3
  <2>6. last_piece' = [last_piece EXCEPT ![a.piece] = <<e, found.key>>]
    BY <1>5 DEF note_block_response
  <2>7. KeyType'
    <3> HIDE DEF found, e
    <3>1. last_piece' \in [Pieces -> {NoPeer} \cup (Endpoints \X Nat)]
      BY <2>1, <2>5, <2>6 DEF KeyType
    <3>2. ASSUME NEW p \in Pieces, last_piece'[p] # NoPeer
          PROVE  last_piece'[p][2] \in 1..Len(peers'[last_piece'[p][1]])
      <4>1. CASE p = a.piece
        BY <2>1, <2>5, <2>6, <4>1 DEF KeyType
      <4>2. CASE p # a.piece
        <5>1. last_piece'[p] = last_piece[p] /\ last_piece[p] # NoPeer
          BY <2>6, <3>2, <4>2 DEF KeyType
        <5>2. /\ last_piece[p][1] \in Endpoints
              /\ last_piece[p][2] \in 1..Len(peers[last_piece[p][1]])
          BY <5>1 DEF KeyType
        <5>3. \A d \in Endpoints : Len(peers[d]) \in Nat /\ Len(peers'[d]) \in Nat
          BY <2>4, LenProperties DEF RecordType
        <5> QED
          BY <2>4, <5>1, <5>2, <5>3 DEF Grows
      <4> QED
        BY <4>1, <4>2
    <3> QED
      BY <3>1, <3>2 DEF KeyType
  <2>8. Peer(e).outstanding_requests[a.piece] \in Tag
    BY <2>1, EnsureType DEF PeerStats
  <2>9. CountersType'
    BY <1>5, <2>1, <2>8 DEF note_block_response, Measure, CountersType
  <2> QED
    BY <2>4, <2>7, <2>9
<1>6. ASSUME a.type = "timeout", note_timeout(a)
      PROVE  RecordType' /\ KeyType' /\ CountersType' /\ Table'
  <2>1. a.endpoint \in Endpoints /\ a.piece \in Pieces /\ a.tag \in Tag
    BY <1>0, <1>6 DEF PeerAlerts
  <2>2. Answered(a) \in PeerStats /\ Answered(a).active_connection
    BY <2>1, EventType
  <2>3. RecordType' /\ Table' /\ Grows
    BY <1>6, <2>1, <2>2, SetPeerKeeps DEF note_timeout
  <2>4. KeyType'
    BY <1>6, <2>3, KeysStay DEF note_timeout
  <2> QED
    BY <1>6, <2>3, <2>4 DEF note_timeout, CountersType
<1>7. ASSUME a.type = "piece_finished", note_piece_finished(a)
      PROVE  RecordType' /\ KeyType' /\ CountersType' /\ Table'
  <2>1. a.piece \in Pieces
    BY <1>0, <1>7
  <2>2. UNCHANGED <<active, last_piece, latest, connects, latencies>>
    BY <1>7 DEF note_piece_finished
  <2>3. CASE latest
    <3>1. completions' = completions + 1 /\ Credit(a.piece)
      BY <1>7, <2>3 DEF note_piece_finished
    <3>2. RecordType' /\ Table' /\ Grows
      BY <2>1, <2>2, <3>1, CreditKeeps
    <3>3. KeyType'
      BY <2>2, <3>2, KeysStay
    <3> QED
      BY <2>2, <3>1, <3>2, <3>3 DEF CountersType
  <2>4. CASE ~latest
    <3>1. UNCHANGED <<completions, peers>>
      BY <1>7, <2>4 DEF note_piece_finished
    <3> QED
      BY <2>2, <3>1 DEF CountersType, RecordType, KeyType, Table
  <2> QED
    BY <2>3, <2>4
<1>8. ASSUME note_torrent_state
      PROVE  RecordType' /\ KeyType' /\ CountersType' /\ Table'
  BY <1>8 DEF note_torrent_state, RecordType, KeyType, CountersType, Table
<1>9. ASSUME note_alert_loss
      PROVE  RecordType' /\ KeyType' /\ CountersType' /\ Table'
  <2>1. RecordType' /\ Table'
    BY <1>9, ResetKeeps DEF note_alert_loss
  <2>2. KeyType'
    BY <1>9, KeysCleared DEF note_alert_loss
  <2> QED
    BY <1>9, <2>1, <2>2 DEF note_alert_loss, CountersType
<1> QED
  BY <1>1, <1>2, <1>3, <1>4, <1>5, <1>6, <1>7, <1>8, <1>9 DEF Dispatch

-----------------------------------------------------------------------------
(* libtorrent only touches its own state and the queue.                     *)

LEMMA PostType ==
    ASSUME QueueType, NEW a \in Alert, Post(a)
    PROVE  QueueType'
<1>1. Append(queue, a) \in Seq(Alert)
  BY AppendProperties DEF QueueType
<1>2. queue' = queue \/ queue' = Append(queue, a)
  BY DEF Post
<1>3. posts' = posts + 1
  BY DEF Post
<1>4. (lost' = lost \/ lost' = TRUE) /\ (epoch' = epoch \/ epoch' = epoch + 1)
  BY DEF Post
<1>5. queue' \in Seq(Alert)
  BY <1>1, <1>2 DEF QueueType
<1>6. lost' \in BOOLEAN
  BY <1>4 DEF QueueType
<1>7. posts' \in Nat /\ epoch' \in Nat
  BY <1>3, <1>4, SMT DEF QueueType
<1> QED
  BY <1>5, <1>6, <1>7 DEF QueueType

LEMMA PostPeerType ==
    ASSUME QueueType, NEW type \in PeerAlerts, NEW e \in Endpoints,
           NEW p \in Pieces, NEW conn \in Nat, PostPeer(type, e, p, conn)
    PROVE  QueueType'
<1> DEFINE a == [type |-> type, endpoint |-> e, piece |-> p,
                 tag |-> [conn |-> conn, epoch |-> epoch]]
<1>1. a \in Alert
  BY DEF Alert, Tag, QueueType
<1>2. Post(a)
  BY DEF PostPeer
<1> HIDE DEF a
<1> QED
  BY <1>1, <1>2, PostType

LEMMA TorrentKeeps ==
    ASSUME TorrentType, QueueType, Torrent
    PROVE  TorrentType' /\ QueueType'
<1>0. AnyPiece \in Pieces
  BY RegistryAssumption DEF AnyPiece
<1>1. ASSUME NEW e \in Endpoints, Open(e)
      PROVE  TorrentType' /\ QueueType'
  <2>1. opened'[e] \in Nat /\ TorrentType'
    BY <1>1 DEF Open, TorrentType
  <2> QED
    BY <1>0, <1>1, <2>1, PostPeerType DEF Open, PeerAlerts
<1>2. ASSUME NEW e \in Endpoints, Close(e)
      PROVE  TorrentType' /\ QueueType'
  <2>1. opened[e] \in Nat /\ TorrentType'
    BY <1>2 DEF Close, TorrentType
  <2> QED
    BY <1>0, <1>2, <2>1, PostPeerType DEF Close, Endings, PeerAlerts
<1>3. ASSUME NEW e \in Endpoints, OpenFails(e)
      PROVE  TorrentType' /\ QueueType'
  BY <1>0, <1>3, PostPeerType DEF OpenFails, PeerAlerts, TorrentType, torrent
<1>4. ASSUME NEW e \in Endpoints, PeerError(e)
      PROVE  TorrentType' /\ QueueType'
  BY <1>0, <1>4, PostPeerType DEF PeerError, PeerAlerts, TorrentType, torrent
<1>5. ASSUME NEW e \in Endpoints, NEW p \in Pieces, Request(e, p)
      PROVE  TorrentType' /\ QueueType'
  <2>1. opened[e] \in Nat /\ TorrentType'
    BY <1>5 DEF Request, TorrentType
  <2> QED
    BY <1>5, <2>1, PostPeerType DEF Request, PeerAlerts
<1>6. ASSUME NEW e \in Endpoints, NEW p \in Pieces, Respond(e, p)
      PROVE  TorrentType' /\ QueueType'
  <2>1. opened[e] \in Nat /\ TorrentType'
    BY <1>6 DEF Respond, TorrentType
  <2> QED
    BY <1>6, <2>1, PostPeerType DEF Respond, PeerAlerts
<1>7. ASSUME NEW e \in Endpoints, NEW p \in Pieces, TimeOut(e, p)
      PROVE  TorrentType' /\ QueueType'
  <2>1. opened[e] \in Nat /\ TorrentType'
    BY <1>7 DEF TimeOut, TorrentType
  <2> QED
    BY <1>7, <2>1, PostPeerType DEF TimeOut, PeerAlerts
<1>8. ASSUME NEW p \in Pieces, PieceFinished(p) \/ PieceVerified(p)
      PROVE  TorrentType' /\ QueueType'
  <2>1. [type |-> "piece_finished", piece |-> p] \in Alert
    BY DEF Alert
  <2>2. TorrentType'
    BY <1>8 DEF PieceFinished, PieceVerified, TorrentType
  <2> QED
    BY <1>8, <2>1, <2>2, PostType DEF PieceFinished, PieceVerified
<1>9. ASSUME NEW p \in Pieces, HashFails(p)
      PROVE  TorrentType' /\ QueueType'
  BY <1>9 DEF HashFails, TorrentType, QueueType, alerts
<1>10. ASSUME StateChanged
       PROVE  TorrentType' /\ QueueType'
  <2>1. [type |-> "state_changed"] \in Alert
    BY DEF Alert
  <2> QED
    BY <1>10, <2>1, PostType DEF StateChanged, TorrentType
<1> QED
  BY <1>1, <1>2, <1>3, <1>4, <1>5, <1>6, <1>7, <1>8, <1>9, <1>10 DEF Torrent

-----------------------------------------------------------------------------
(* The main thread.                                                         *)

LEMMA PopKeeps ==
    ASSUME QueueType, ThreadType, PopAlerts
    PROVE  QueueType' /\ ThreadType'
<1>1. [type |-> "alerts_dropped"] \in Alert
  BY DEF Alert
<1>2. Append(queue, [type |-> "alerts_dropped"]) \in Seq(Alert)
  BY <1>1, AppendProperties DEF QueueType
<1>3. <<>> \in Seq(Alert)
  BY EmptySeq
<1> QED
  BY <1>2, <1>3 DEF QueueType, ThreadType, PopAlerts, Places

\* A finalized record has the type of a record; their number does not change.
LEMMA FinalizeKeeps ==
    ASSUME RecordType, KeyType, finalize
    PROVE  RecordType' /\ KeyType'
<1>1. ASSUME NEW e \in Endpoints
      PROVE  peers'[e] \in Seq(PeerStats) /\ Len(peers'[e]) = Len(peers[e])
  <2> DEFINE s == peers[e]
             t == [n \in DOMAIN s |-> IF s[n].active_connection
                                      THEN note_disconnect(s[n]) ELSE s[n]]
  <2>1. s \in Seq(PeerStats) /\ DOMAIN s = 1..Len(s)
    BY LenProperties DEF RecordType
  <2>2. peers'[e] = t
    BY DEF finalize
  <2>3. \A n \in DOMAIN s : s[n] \in PeerStats
    BY <2>1, ElementOfSeq
  <2>4. \A n \in DOMAIN s : t[n] \in PeerStats
    BY <2>3, NewPeerType DEF PeerStats, note_disconnect
  <2>5. DOMAIN t = DOMAIN s /\ t = [n \in DOMAIN s |-> t[n]]
    OBVIOUS
  <2> HIDE DEF t
  <2>6. t \in Seq(PeerStats) /\ Len(t) = Len(s)
    BY <2>1, <2>4, <2>5, ChangeAll
  <2> QED
    BY <2>2, <2>6
<1>2. peers' = [e \in Endpoints |-> peers'[e]] /\ UNCHANGED <<active, last_piece>>
  BY DEF finalize
<1>3. peers' \in [Endpoints -> Seq(PeerStats)]
  BY <1>1, <1>2
<1>4. RecordType'
  BY <1>1, <1>2, <1>3 DEF RecordType
<1>5. KeyType'
  BY <1>1, <1>2 DEF KeyType
<1> QED
  BY <1>4, <1>5

\* What it says of one that is, but for the requests.
AllClosed ==
    \A e \in Endpoints : \A n \in 1..Len(peers[e]) : ~peers[e][n].active_connection

LEMMA FinalizeCloses ==
    ASSUME RecordType, finalize
    PROVE  AllClosed'
<1> SUFFICES ASSUME NEW e \in Endpoints, NEW n \in 1..Len(peers'[e])
             PROVE  ~peers'[e][n].active_connection
  BY DEF AllClosed
<1> DEFINE s == peers[e]
           t == [m \in DOMAIN s |-> IF s[m].active_connection
                                    THEN note_disconnect(s[m]) ELSE s[m]]
<1>1. s \in Seq(PeerStats) /\ DOMAIN s = 1..Len(s) /\ Len(s) \in Nat
  BY LenProperties DEF RecordType
<1>2. peers'[e] = t
  BY DEF finalize
<1>3. Len(t) = Len(s)
  BY <1>1
<1>4. n \in 1..Len(s) /\ s[n] \in PeerStats
  BY <1>1, <1>2, <1>3, ElementOfSeq
<1>5. peers'[e][n] = IF s[n].active_connection THEN note_disconnect(s[n]) ELSE s[n]
  BY <1>1, <1>2, <1>4
<1> QED
  BY <1>4, <1>5 DEF note_disconnect, PeerStats

Registry == TypeOK /\ (at # "done" => Table) /\ (at = "done" => AllClosed)

LEMMA RegistryInit == Init => Registry
<1> SUFFICES ASSUME Init PROVE TypeOK /\ Table /\ at # "done"
  BY DEF Registry
<1>1. <<>> \in Seq(Alert) /\ <<>> \in Seq(PeerStats) /\ Len(<<>>) = 0
  BY EmptySeq
<1>2. TypeOK
  <2>1. TorrentType /\ QueueType /\ ThreadType
    BY <1>1 DEF Init, TorrentType, QueueType, ThreadType, Places
  <2>2. RecordType
    BY <1>1 DEF Init, RecordType
  <2>3. KeyType
    BY DEF Init, KeyType
  <2>4. network \in BOOLEAN
    BY <2>1 DEF TorrentType
  <2>5. CountType
    BY <2>4 DEF Init, CountType
  <2> QED
    BY <2>1, <2>2, <2>3, <2>5, TypeParts
<1>3. Table /\ at # "done"
  BY <1>1 DEF Init, Table
<1> QED
  BY <1>2, <1>3

LEMMA RegistryStep ==
    ASSUME Registry, [Next]_vars
    PROVE  Registry'
<1>0. /\ TorrentType /\ QueueType /\ ThreadType /\ RecordType /\ KeyType /\ CountType
      /\ at # "done" => Table
      /\ at = "done" => AllClosed
  BY TypeParts DEF Registry
<1> SUFFICES /\ TorrentType' /\ QueueType' /\ ThreadType'
             /\ RecordType' /\ KeyType' /\ CountType'
             /\ at' # "done" => Table'
             /\ at' = "done" => AllClosed'
  BY TypeWhole DEF Registry
<1>1. CASE Torrent
  <2>1. TorrentType' /\ QueueType'
    BY <1>0, <1>1, TorrentKeeps
  <2>2. UNCHANGED <<thread, stats, latencies, overtaken>>
    BY <1>1 DEF Torrent
  <2> QED
    BY <1>0, <2>1, <2>2
    DEF thread, stats, ThreadType, RecordType, KeyType, CountType, Table, AllClosed
<1>2. CASE Check \/ Drained
  BY <1>0, <1>2 DEF Check, Drained, torrent, alerts, stats, Places,
     TorrentType, QueueType, ThreadType, RecordType, KeyType, CountType, Table
<1>8. CASE set_initial_totals
  BY <1>0, <1>8 DEF set_initial_totals, torrent, alerts, Places,
     TorrentType, QueueType, ThreadType, RecordType, KeyType, CountType, Table
<1>3. CASE PopAlerts
  <2>1. QueueType' /\ ThreadType'
    BY <1>0, <1>3, PopKeeps
  <2> QED
    BY <1>0, <1>3, <2>1 DEF PopAlerts, torrent, stats,
       TorrentType, RecordType, KeyType, CountType, Table
<1>4. CASE Handle
  <2>1. /\ at = "handle" /\ batch # <<>> /\ Dispatch(Head(batch))
        /\ batch' = Tail(batch)
        /\ UNCHANGED <<at, stopping, torrent, alerts, overtaken>>
    BY <1>4 DEF Handle
  <2>2. Head(batch) \in Alert /\ Tail(batch) \in Seq(Alert)
    BY <1>0, <2>1, HeadTailProperties DEF ThreadType
  <2>3. CountersType
    BY <1>0 DEF CountType, CountersType
  <2>4. Table
    BY <1>0, <2>1
  <2>5. RecordType' /\ KeyType' /\ CountersType' /\ Table'
    BY <1>0, <2>1, <2>2, <2>3, <2>4, DispatchKeeps
  <2> QED
    BY <1>0, <2>1, <2>2, <2>5 DEF torrent, alerts, TorrentType, QueueType,
       ThreadType, CountType, CountersType
<1>5. CASE Snapshot
  <2>1. Table
    BY <1>0, <1>5 DEF Snapshot
  <2>2. RecordType' /\ Table' /\ Grows
    BY <1>0, <1>5, <2>1, SnapshotKeeps
  <2>3. KeyType'
    BY <1>0, <1>5, <2>2, KeysStay DEF Snapshot
  <2>4. CountType'
    BY <1>0, <1>5 DEF Snapshot, CountType, TorrentType, QueueType
  <2> QED
    BY <1>0, <1>5, <2>2, <2>3, <2>4 DEF Snapshot, torrent, alerts, Places,
       TorrentType, QueueType, ThreadType
<1>6. CASE finalize
  <2>1. RecordType' /\ KeyType' /\ AllClosed'
    BY <1>0, <1>6, FinalizeKeeps, FinalizeCloses
  <2> QED
    BY <1>0, <1>6, <2>1 DEF finalize, torrent, alerts, Places,
       TorrentType, QueueType, ThreadType, CountType
<1>7. CASE UNCHANGED vars
  BY <1>0, <1>7 DEF vars, torrent, alerts, thread, stats,
     TorrentType, QueueType, ThreadType, RecordType, KeyType, CountType, Table, AllClosed
<1> QED
  BY <1>1, <1>2, <1>3, <1>4, <1>5, <1>6, <1>7, <1>8 DEF Next, Main

LEMMA RegistryHolds == Spec => []Registry
BY RegistryInit, RegistryStep, PTL DEF Spec

\* Every reachable state is well typed; in particular every key that the table
\* and last_piece_peer_key hold names a record that exists, so that the at() of
\* ensure_peer_for_endpoint never throws.
THEOREM RegistryTypeCorrect == Spec => []TypeOK
<1>1. Registry => TypeOK
  BY DEF Registry
<1> QED
  BY <1>1, RegistryHolds, PTL

-----------------------------------------------------------------------------
(* The registry is fed in the rounds of CaptureRounds.                      *)

LEMMA StepInRounds ==
ASSUME TypeOK, [Next]_vars
PROVE  [Rounds!Next]_RoundsStep
<1> USE DEF RoundsStep
<1>1. CASE Torrent
  BY <1>1 DEF Torrent, thread
<1>2. CASE set_initial_totals \/ Check
  BY <1>2 DEF set_initial_totals, Check
<1>3. CASE PopAlerts
  BY <1>3 DEF PopAlerts
<1>4. CASE Handle
  BY <1>4 DEF Handle
<1>5. CASE Drained
  <2>1. stopping \in BOOLEAN /\ stopping' = stopping
    BY <1>5 DEF Drained, TypeOK
  <2>2. CASE stopping
    BY <1>5, <2>1, <2>2 DEF Drained, Rounds!Next, Rounds!LastDrain
  <2>3. CASE ~stopping
    BY <1>5, <2>1, <2>3 DEF Drained, Rounds!Next, Rounds!Drain
  <2> QED
    BY <2>2, <2>3
<1>6. CASE Snapshot
  <2>1. stopping \in BOOLEAN /\ at = "snapshot" /\ at' = IF stopping THEN "finalize" ELSE "check"
    BY <1>6 DEF Snapshot, TypeOK
  <2>2. CASE stopping
    BY <2>1, <2>2 DEF Rounds!Next, Rounds!LastSnapshot
  <2>3. CASE ~stopping
    BY <2>1, <2>3 DEF Rounds!Next, Rounds!EndRound
  <2> QED
    BY <2>2, <2>3
<1>7. CASE finalize
  BY <1>7 DEF finalize, Rounds!Next, Rounds!Finalize
<1>8. CASE UNCHANGED vars
  BY <1>8 DEF vars, thread
<1> QED
  BY <1>1, <1>2, <1>3, <1>4, <1>5, <1>6, <1>7, <1>8 DEF Next, Main

\* main.cpp:828-876: every snapshot of the registry comes right after a drain, and a
\* last drain and a last snapshot come before the records are finalized.
THEOREM ImplementsRounds == Spec => RoundsInOrder
<1>1. Init => Rounds!Init
  BY DEF Init, Rounds!Init, RoundsStep
<1>2. TypeOK /\ [Next]_vars => [Rounds!Next]_RoundsStep
  BY StepInRounds
<1> QED
  BY <1>1, <1>2, RegistryTypeCorrect, PTL DEF Spec, RoundsInOrder, Rounds!Spec

-----------------------------------------------------------------------------
(* What becomes of each record. A handler changes the one record that       *)
(* ensure_peer_for_endpoint returns, which is active; a closed one has      *)
(* nothing outstanding, so that a loss of alerts changes nothing in it.     *)

\* The records of e after the one found for it has become x, one by one.
LEMMA StoredAt ==
    ASSUME RecordType, NEW e \in Endpoints, NEW x \in PeerStats
    PROVE  LET found == ensure_peer_for_endpoint(e)
               new == [found.records EXCEPT ![found.key] = x]
           IN
           /\ Len(peers[e]) \in Nat /\ Len(new) \in Nat /\ Len(peers[e]) <= Len(new)
           /\ found.key \in 1..Len(new) /\ new[found.key] = x
           /\ \A n \in 1..Len(new) :
                  n # found.key => n \in 1..Len(peers[e]) /\ new[n] = peers[e][n]
           /\ found.key \in 1..Len(peers[e]) => Peer(e) = peers[e][found.key]
           /\ found.key \notin 1..Len(peers[e]) => Peer(e) = NewPeer
<1> DEFINE found == ensure_peer_for_endpoint(e)
           new == [found.records EXCEPT ![found.key] = x]
<1>1. /\ peers[e] \in Seq(PeerStats) /\ Len(peers[e]) \in Nat
      /\ active[e] \in 0..Len(peers[e])
  BY LenProperties DEF RecordType
<1>2. /\ found.records \in Seq(PeerStats) /\ Len(found.records) \in Nat
      /\ found.key \in 1..Len(found.records)
      /\ Len(peers[e]) <= Len(found.records)
  BY EnsureType, LenProperties
<1>3. /\ Len(new) = Len(found.records)
      /\ \A n \in 1..Len(found.records) :
             new[n] = IF n = found.key THEN x ELSE found.records[n]
  BY <1>2, ChangeOne
<1>4. /\ \A n \in 1..Len(found.records) :
             n # found.key => n \in 1..Len(peers[e]) /\ found.records[n] = peers[e][n]
      /\ found.key \in 1..Len(peers[e]) => Peer(e) = peers[e][found.key]
      /\ found.key \notin 1..Len(peers[e]) => Peer(e) = NewPeer
  <2>1. CASE active[e] # 0
    <3>1. found.records = peers[e] /\ found.key = active[e] /\ Peer(e) = peers[e][active[e]]
      BY <2>1 DEF ensure_peer_for_endpoint, Peer
    <3> QED
      BY <1>1, <1>2, <3>1
  <2>2. CASE active[e] = 0
    <3>1. /\ found.records = Append(peers[e], NewPeer) /\ found.key = Len(peers[e]) + 1
          /\ Peer(e) = Append(peers[e], NewPeer)[Len(peers[e]) + 1]
      BY <2>2 DEF ensure_peer_for_endpoint, Peer
    <3>2. /\ Len(found.records) = Len(peers[e]) + 1 /\ Peer(e) = NewPeer
          /\ \A n \in 1..Len(peers[e]) : found.records[n] = peers[e][n]
      BY <1>1, <3>1, NewPeerType, AppendProperties
    <3> HIDE DEF found
    <3> QED
      BY <1>1, <3>1, <3>2
  <2> QED
    BY <2>1, <2>2
<1> HIDE DEF found, new
<1> QED
  BY <1>1, <1>2, <1>3, <1>4 DEF found, new

\* A record that is not active has nothing outstanding.
Idle ==
    \A e \in Endpoints : \A n \in 1..Len(peers[e]) :
        ~peers[e][n].active_connection =>
            peers[e][n].outstanding_requests = NothingOutstanding

\* What ClosedIsFrozen allows to happen to a closed record.
Credited(old, new) ==
    \E done \in SUBSET Pieces :
        old.pieces \subseteq done /\ new = [old EXCEPT !.pieces = done]

\* The closed records of endpoint e stay as they are but for their pieces.
FrozenAt(e) ==
    \A n \in 1..Len(peers[e]) :
        ~peers[e][n].active_connection =>
            n <= Len(peers'[e]) /\ Credited(peers[e][n], peers'[e][n])

IdleAt(e) ==
    \A n \in 1..Len(peers'[e]) :
        ~peers'[e][n].active_connection =>
            peers'[e][n].outstanding_requests = NothingOutstanding

LEMMA SameIsCredited ==
    ASSUME NEW r \in PeerStats
    PROVE  Credited(r, r)
BY DEF Credited, PeerStats

\* When the records are those of a handler that leaves a record active or empty.
LEMMA StoredFreezes ==
    ASSUME RecordType, Table, Idle, NEW e \in Endpoints, NEW x \in PeerStats,
           x.active_connection \/ x.outstanding_requests = NothingOutstanding,
           peers'[e] = [ensure_peer_for_endpoint(e).records EXCEPT
                           ![ensure_peer_for_endpoint(e).key] = x]
    PROVE  FrozenAt(e) /\ IdleAt(e)
<1> DEFINE found == ensure_peer_for_endpoint(e)
<1>1. /\ Len(peers[e]) \in Nat /\ Len(peers'[e]) \in Nat
      /\ Len(peers[e]) <= Len(peers'[e])
      /\ found.key \in 1..Len(peers'[e]) /\ peers'[e][found.key] = x
      /\ \A n \in 1..Len(peers'[e]) :
             n # found.key => n \in 1..Len(peers[e]) /\ peers'[e][n] = peers[e][n]
      /\ found.key \in 1..Len(peers[e]) => Peer(e) = peers[e][found.key]
  BY StoredAt
<1>2. Peer(e).active_connection
  BY EnsureType
<1>3. \A n \in 1..Len(peers[e]) : peers[e][n] \in PeerStats
  BY ElementOfSeq DEF RecordType
<1> HIDE DEF found
<1>4. ASSUME NEW n \in 1..Len(peers[e]), ~peers[e][n].active_connection
      PROVE  n <= Len(peers'[e]) /\ Credited(peers[e][n], peers'[e][n])
  <2>1. n # found.key /\ n \in 1..Len(peers'[e])
    BY <1>1, <1>2, <1>4
  <2>2. peers'[e][n] = peers[e][n]
    BY <1>1, <2>1
  <2> QED
    BY <1>1, <1>3, <2>1, <2>2, SameIsCredited
<1>5. ASSUME NEW n \in 1..Len(peers'[e]), ~peers'[e][n].active_connection
      PROVE  peers'[e][n].outstanding_requests = NothingOutstanding
  BY <1>1, <1>5 DEF Idle
<1> QED
  BY <1>4, <1>5 DEF FrozenAt, IdleAt

LEMMA SameFreezes ==
    ASSUME RecordType, Idle, NEW e \in Endpoints, peers'[e] = peers[e]
    PROVE  FrozenAt(e) /\ IdleAt(e)
<1>1. \A n \in 1..Len(peers[e]) : peers[e][n] \in PeerStats
  BY ElementOfSeq DEF RecordType
<1>2. Len(peers[e]) \in Nat
  BY LenProperties DEF RecordType
<1> QED
  BY <1>1, <1>2, SameIsCredited DEF FrozenAt, IdleAt, Idle

LEMMA SetPeerFreezes ==
    ASSUME RecordType, Table, Idle, NEW d \in Endpoints, NEW x \in PeerStats,
           x.active_connection \/ x.outstanding_requests = NothingOutstanding,
           peers' = [peers EXCEPT ![d] = [ensure_peer_for_endpoint(d).records EXCEPT
                                             ![ensure_peer_for_endpoint(d).key] = x]],
           NEW e \in Endpoints
    PROVE  FrozenAt(e) /\ IdleAt(e)
<1>1. CASE e = d
  BY <1>1, StoredFreezes DEF RecordType
<1>2. CASE e # d
  <2>1. peers'[e] = peers[e]
    BY <1>2 DEF RecordType
  <2> QED
    BY <2>1, SameFreezes
<1> QED
  BY <1>1, <1>2

\* A step that changes every record of e by itself.
LEMMA MappedFreezes ==
    ASSUME RecordType, NEW e \in Endpoints, Len(peers'[e]) = Len(peers[e]),
           \A n \in 1..Len(peers[e]) :
               /\ ~peers[e][n].active_connection => Credited(peers[e][n], peers'[e][n])
               /\ ~peers'[e][n].active_connection =>
                      peers'[e][n].outstanding_requests = NothingOutstanding
    PROVE  FrozenAt(e) /\ IdleAt(e)
<1>1. Len(peers[e]) \in Nat
  BY LenProperties DEF RecordType
<1> QED
  BY <1>1 DEF FrozenAt, IdleAt

LEMMA CreditFreezes ==
    ASSUME RecordType, KeyType, Idle, NEW p \in Pieces, Credit(p), NEW e \in Endpoints
    PROVE  FrozenAt(e) /\ IdleAt(e)
<1>1. CASE last_piece[p] = NoPeer
  BY <1>1, SameFreezes DEF Credit
<1>2. CASE last_piece[p] # NoPeer
  <2> DEFINE d == last_piece[p][1]
             n == last_piece[p][2]
             x == [peers[d][n] EXCEPT !.pieces = @ \cup {p}]
             new == [peers[d] EXCEPT ![n] = x]
  <2>1. d \in Endpoints /\ n \in 1..Len(peers[d]) /\ peers[d] \in Seq(PeerStats)
    BY <1>2 DEF KeyType, RecordType
  <2>2. peers[d][n] \in PeerStats
    BY <2>1, ElementOfSeq
  <2>3. peers' = [peers EXCEPT ![d] = new]
    BY <1>2 DEF Credit
  <2>4. /\ x \in PeerStats /\ x.active_connection = peers[d][n].active_connection
        /\ x.outstanding_requests = peers[d][n].outstanding_requests
        /\ Credited(peers[d][n], x)
    <3>1. x = [peers[d][n] EXCEPT !.pieces = peers[d][n].pieces \cup {p}]
          /\ peers[d][n].pieces \in SUBSET Pieces
      BY <2>2 DEF PeerStats
    <3>2. Credited(peers[d][n], x)
      BY <3>1 DEF Credited
    <3> QED
      BY <2>2, <3>2 DEF PeerStats
  <2> HIDE DEF x, d, n
  <2>5. /\ Len(new) = Len(peers[d])
        /\ \A m \in 1..Len(peers[d]) : new[m] = IF m = n THEN x ELSE peers[d][m]
    BY <2>1, <2>4, ChangeOne
  <2> HIDE DEF new
  <2>6. CASE e = d
    <3>1. peers'[e] = new
      BY <2>1, <2>3, <2>6 DEF RecordType
    <3>2. \A m \in 1..Len(peers[e]) : peers[e][m] \in PeerStats
      BY ElementOfSeq DEF RecordType
    <3>3. \A m \in 1..Len(peers[e]) :
             /\ Credited(peers[e][m], peers'[e][m])
             /\ ~peers'[e][m].active_connection =>
                    peers'[e][m].outstanding_requests = NothingOutstanding
      BY <2>4, <2>5, <2>6, <3>1, <3>2, SameIsCredited DEF Idle
    <3> QED
      BY <2>5, <2>6, <3>1, <3>3, MappedFreezes
  <2>7. CASE e # d
    <3>1. peers'[e] = peers[e]
      BY <2>3, <2>7 DEF RecordType
    <3> QED
      BY <3>1, SameFreezes
  <2> QED
    BY <2>6, <2>7
<1> QED
  BY <1>1, <1>2

\* A record that forgets its requests, or is closed.
LEMMA ResetRecord ==
    ASSUME NEW r \in PeerStats
    PROVE  LET q == [r EXCEPT !.outstanding_requests = NothingOutstanding] IN
           /\ q \in PeerStats /\ q.active_connection = r.active_connection
           /\ q.outstanding_requests = NothingOutstanding
           /\ q.pieces = r.pieces /\ q.alerted = r.alerted
           /\ r.outstanding_requests = NothingOutstanding => q = r
BY NewPeerType DEF PeerStats

LEMMA ClosedRecord ==
    ASSUME NEW r \in PeerStats
    PROVE  /\ note_disconnect(r) \in PeerStats /\ ~note_disconnect(r).active_connection
           /\ note_disconnect(r).outstanding_requests = NothingOutstanding
           /\ note_disconnect(r).pieces = r.pieces
           /\ note_disconnect(r).alerted = r.alerted
BY NewPeerType DEF PeerStats, note_disconnect

LEMMA ResetFreezes ==
    ASSUME RecordType, Idle, peers' = ResetOutstanding, NEW e \in Endpoints
    PROVE  FrozenAt(e) /\ IdleAt(e)
<1> DEFINE s == peers[e]
<1>1. s \in Seq(PeerStats) /\ DOMAIN s = 1..Len(s) /\ Len(s) \in Nat
  BY LenProperties DEF RecordType
<1>2. peers'[e] = [n \in DOMAIN s |->
                      [s[n] EXCEPT !.outstanding_requests = NothingOutstanding]]
  BY DEF ResetOutstanding
<1>3. \A n \in 1..Len(s) : s[n] \in PeerStats
  BY <1>1, ElementOfSeq
<1>4. \A n \in 1..Len(s) :
         /\ peers'[e][n] \in PeerStats
         /\ peers'[e][n].active_connection = s[n].active_connection
         /\ peers'[e][n].outstanding_requests = NothingOutstanding
         /\ s[n].outstanding_requests = NothingOutstanding => peers'[e][n] = s[n]
  BY <1>1, <1>2, <1>3, ResetRecord
<1>5. Len(peers'[e]) = Len(s)
  <2>1. DOMAIN peers'[e] = DOMAIN s /\ peers'[e] = [n \in DOMAIN s |-> peers'[e][n]]
    BY <1>2
  <2> QED
    BY <1>1, <1>4, <2>1, ChangeAll
<1>6. \A n \in 1..Len(s) :
         ~s[n].active_connection => Credited(s[n], peers'[e][n])
  BY <1>3, <1>4, SameIsCredited DEF Idle
<1> QED
  BY <1>4, <1>5, <1>6, MappedFreezes

LEMMA SnapshotFreezes ==
    ASSUME RecordType, Table, Idle, TorrentType, Snapshot, NEW e \in Endpoints
    PROVE  FrozenAt(e) /\ IdleAt(e)
<1> DEFINE found == ensure_peer_for_endpoint(e)
           x == [Peer(e) EXCEPT !.sampled = @ \cup {opened[e]}]
<1>1. CASE up[e]
  <2>1. Peer(e) \in PeerStats /\ Peer(e).active_connection /\ opened[e] \in Nat
    BY EnsureType DEF TorrentType
  <2>2. x \in PeerStats /\ x.active_connection
    BY <2>1 DEF PeerStats
  <2>3. peers'[e] = [found.records EXCEPT ![found.key] = x]
    BY <1>1 DEF Snapshot, Peer
  <2> HIDE DEF x
  <2> QED
    BY <2>2, <2>3, StoredFreezes
<1>2. CASE ~up[e]
  <2>1. peers'[e] = peers[e]
    BY <1>2 DEF Snapshot
  <2> QED
    BY <2>1, SameFreezes
<1> QED
  BY <1>1, <1>2

LEMMA FinalizeFreezes ==
    ASSUME RecordType, Idle, finalize, NEW e \in Endpoints
    PROVE  FrozenAt(e) /\ IdleAt(e)
<1> DEFINE s == peers[e]
<1>1. s \in Seq(PeerStats) /\ DOMAIN s = 1..Len(s) /\ Len(s) \in Nat
  BY LenProperties DEF RecordType
<1>2. peers'[e] = [n \in DOMAIN s |-> IF s[n].active_connection
                                       THEN note_disconnect(s[n]) ELSE s[n]]
  BY DEF finalize
<1>3. \A n \in 1..Len(s) : s[n] \in PeerStats
  BY <1>1, ElementOfSeq
<1>4. \A n \in 1..Len(s) :
         /\ peers'[e][n] = IF s[n].active_connection THEN note_disconnect(s[n]) ELSE s[n]
         /\ peers'[e][n] \in PeerStats
         /\ s[n].active_connection =>
                peers'[e][n].outstanding_requests = NothingOutstanding
  BY <1>1, <1>2, <1>3, ClosedRecord
<1>5. Len(peers'[e]) = Len(s)
  <2>1. DOMAIN peers'[e] = DOMAIN s /\ peers'[e] = [n \in DOMAIN s |-> peers'[e][n]]
    BY <1>2
  <2> QED
    BY <1>1, <1>4, <2>1, ChangeAll
<1>6. \A n \in 1..Len(s) :
         /\ ~s[n].active_connection => Credited(s[n], peers'[e][n])
         /\ peers'[e][n].outstanding_requests = NothingOutstanding
  BY <1>3, <1>4, SameIsCredited DEF Idle
<1> QED
  BY <1>5, <1>6, MappedFreezes

LEMMA DispatchFreezes ==
    ASSUME RecordType, KeyType, Table, Idle, NEW a \in Alert, Dispatch(a),
           NEW e \in Endpoints
    PROVE  FrozenAt(e) /\ IdleAt(e)
<1> DEFINE found == ensure_peer_for_endpoint(a.endpoint)
<1>1. ASSUME NEW x \in PeerStats, a.endpoint \in Endpoints,
             x.active_connection \/ x.outstanding_requests = NothingOutstanding,
             peers' = [peers EXCEPT ![a.endpoint] = [found.records EXCEPT ![found.key] = x]]
      PROVE  FrozenAt(e) /\ IdleAt(e)
  BY <1>1, SetPeerFreezes
<1>2. CASE a.type \in PeerAlerts
  <2>1. a.endpoint \in Endpoints /\ a.piece \in Pieces /\ a.tag \in Tag
    BY <1>2, AlertFields
  <2> DEFINE seen == note_peer_event(a)
             asking == [seen EXCEPT !.outstanding_requests[a.piece] = a.tag]
  <2>2. /\ seen \in PeerStats /\ seen.active_connection
        /\ Connected(a) \in PeerStats /\ Connected(a).active_connection
        /\ Answered(a) \in PeerStats /\ Answered(a).active_connection
        /\ asking \in PeerStats /\ asking.active_connection
    BY <2>1, EventType
  <2>3. /\ note_disconnect(seen) \in PeerStats
        /\ note_disconnect(seen).outstanding_requests = NothingOutstanding
    BY <2>2, ClosedRecord
  <2> HIDE DEF seen, asking
  <2>4. \/ SetPeer(a.endpoint, Connected(a)) \/ SetPeer(a.endpoint, seen)
        \/ SetPeer(a.endpoint, asking) \/ SetPeer(a.endpoint, Answered(a))
        \/ peers' = [peers EXCEPT ![a.endpoint] =
                        [found.records EXCEPT ![found.key] = note_disconnect(seen)]]
    BY <1>2 DEF Dispatch, PeerAlerts, note_peer_connect, note_peer_disconnect,
       note_peer_error, note_request_sent, note_block_response, note_timeout, seen, asking
  <2>5. CASE SetPeer(a.endpoint, Connected(a))
    BY <1>1, <2>1, <2>2, <2>5 DEF SetPeer
  <2>6. CASE SetPeer(a.endpoint, seen)
    BY <1>1, <2>1, <2>2, <2>6 DEF SetPeer
  <2>7. CASE SetPeer(a.endpoint, asking)
    BY <1>1, <2>1, <2>2, <2>7 DEF SetPeer
  <2>8. CASE SetPeer(a.endpoint, Answered(a))
    BY <1>1, <2>1, <2>2, <2>8 DEF SetPeer
  <2>9. CASE peers' = [peers EXCEPT ![a.endpoint] =
                          [found.records EXCEPT ![found.key] = note_disconnect(seen)]]
    BY <1>1, <2>1, <2>3, <2>9
  <2> QED
    BY <2>4, <2>5, <2>6, <2>7, <2>8, <2>9
<1>3. CASE note_piece_finished(a) /\ a.type = "piece_finished"
  <2>1. a.piece \in Pieces
    BY <1>3, AlertFields
  <2>2. Credit(a.piece) \/ peers' = peers
    BY <1>3 DEF note_piece_finished
  <2> QED
    BY <2>1, <2>2, CreditFreezes, SameFreezes
<1>4. CASE note_torrent_state
  BY <1>4, SameFreezes DEF note_torrent_state
<1>5. CASE note_alert_loss
  BY <1>5, ResetFreezes DEF note_alert_loss
<1> QED
  BY <1>2, <1>3, <1>4, <1>5 DEF Dispatch, PeerAlerts

LEMMA FrozenStep ==
    ASSUME Registry, Idle, [Next]_vars, NEW e \in Endpoints
    PROVE  FrozenAt(e) /\ IdleAt(e)
<1>1. /\ RecordType /\ KeyType /\ TorrentType /\ ThreadType
      /\ at # "done" => Table
  BY TypeParts DEF Registry
<1>2. CASE peers' = peers
  BY <1>1, <1>2, SameFreezes
<1>3. CASE Handle
  <2>1. at = "handle" /\ batch # <<>> /\ Dispatch(Head(batch))
    BY <1>3 DEF Handle
  <2>2. Head(batch) \in Alert
    BY <1>1, <2>1, HeadTailProperties DEF ThreadType
  <2>3. Table
    BY <1>1, <2>1
  <2> QED
    BY <1>1, <2>1, <2>2, <2>3, DispatchFreezes
<1>4. CASE Snapshot
  <2>1. Table
    BY <1>1, <1>4 DEF Snapshot
  <2> QED
    BY <1>1, <1>4, <2>1, SnapshotFreezes
<1>5. CASE finalize
  BY <1>1, <1>5, FinalizeFreezes
<1> QED
  BY <1>2, <1>3, <1>4, <1>5
  DEF Next, Main, Torrent, set_initial_totals, Check, PopAlerts, Drained, stats, vars

LEMMA IdleHolds == Spec => []Idle
<1>1. Init => Idle
  <2>1. Len(<<>>) = 0
    BY EmptySeq
  <2> QED
    BY <2>1 DEF Init, Idle
<1>2. Registry /\ Idle /\ [Next]_vars => Idle'
  <2> SUFFICES ASSUME Registry, Idle, [Next]_vars PROVE Idle'
    OBVIOUS
  <2>1. \A e \in Endpoints : IdleAt(e)
    BY FrozenStep
  <2> QED
    BY <2>1 DEF Idle, IdleAt
<1> QED
  BY <1>1, <1>2, RegistryHolds, PTL DEF Spec

\* However alerts are lost and snapshots overtake them: until the session is finalized,
\* each endpoint has at most one active record, its last, and the table names it; then
\* every record is closed, also those made by the last snapshot (peer_stats.cpp:819-829).
THEOREM ActiveRecordIsUnique == Spec => []OneActiveRecord
<1>1. Registry /\ Idle => OneActiveRecord
  BY DEF Registry, Table, AllClosed, Idle, OneActiveRecord
<1> QED
  BY <1>1, RegistryHolds, IdleHolds, PTL

\* However late, doubled or lost the alerts about a connection are, a record that was
\* closed is never changed or opened again, also not by finalize or by the reset
\* after a loss; it may still be credited with a piece (peer_stats.cpp:652-726).
THEOREM ClosedStaysFrozen == Spec => ClosedIsFrozen
<1> DEFINE Kept ==
      \A e \in Endpoints : \A n \in 1..Len(peers[e]) :
        ~peers[e][n].active_connection =>
            /\ n <= Len(peers'[e])
            /\ \E done \in SUBSET Pieces :
                   /\ peers[e][n].pieces \subseteq done
                   /\ peers'[e][n] = [peers[e][n] EXCEPT !.pieces = done]
<1>1. Registry /\ Idle /\ [Next]_vars => [Kept]_vars
  <2> SUFFICES ASSUME Registry, Idle, [Next]_vars PROVE Kept
    OBVIOUS
  <2>1. \A e \in Endpoints : FrozenAt(e)
    BY FrozenStep
  <2> QED
    BY <2>1 DEF FrozenAt, Credited
<1> QED
  BY <1>1, RegistryHolds, IdleHolds, PTL DEF Spec, ClosedIsFrozen

-----------------------------------------------------------------------------
(* The alerts on their way: those popped and not yet handled, then those    *)
(* still queued. What the handlers will know of a request or of a piece is  *)
(* decided by the last alert about it, wherever that alert is.              *)

Pending == batch \o queue

\* None of the first i alerts of s is in E.
Quiet(E, s, i) == \A j \in 1..i : s[j] \notin E

\* The last alert of E among the first i of s, if there is one, is in G.
LastIn(E, G, s, i) ==
    \A j \in 1..i :
        s[j] \in E /\ (\A k \in (j + 1)..i : s[k] \notin E) => s[j] \in G

LEMMA AppendSince ==
    ASSUME NEW S, NEW s \in Seq(S), NEW a \in S, NEW E, NEW G
    PROVE  LET t == Append(s, a)
               n == Len(s)
           IN
           /\ \A i \in 0..n : /\ LastIn(E, G, s, i) => LastIn(E, G, t, i)
                              /\ Quiet(E, t, i) => Quiet(E, s, i)
           /\ LastIn(E, G, s, n) /\ (a \in E => a \in G) => LastIn(E, G, t, n + 1)
           /\ a \in E /\ a \in G => LastIn(E, G, t, n + 1)
           /\ Quiet(E, t, n + 1) => a \notin E /\ Quiet(E, s, n)
<1> DEFINE t == Append(s, a)
           n == Len(s)
<1>1. /\ n \in Nat /\ t[n + 1] = a
      /\ \A i \in 1..n : t[i] = s[i]
  BY AppendProperties, LenProperties
<1> HIDE DEF t, n
<1>2. ASSUME NEW i \in 0..n
      PROVE  /\ LastIn(E, G, s, i) => LastIn(E, G, t, i)
             /\ Quiet(E, t, i) => Quiet(E, s, i)
  BY <1>1 DEF LastIn, Quiet
<1>3. ASSUME LastIn(E, G, s, n), a \in E => a \in G
      PROVE  LastIn(E, G, t, n + 1)
  <2> SUFFICES ASSUME NEW j \in 1..(n + 1), t[j] \in E,
                      \A k \in (j + 1)..(n + 1) : t[k] \notin E
               PROVE  t[j] \in G
    BY DEF LastIn
  <2>1. CASE j = n + 1
    BY <1>1, <1>3, <2>1
  <2>2. CASE j \in 1..n
    <3>1. \A k \in (j + 1)..n : s[k] \notin E
      BY <1>1, <2>2
    <3> QED
      BY <1>1, <1>3, <2>2, <3>1 DEF LastIn
  <2> QED
    BY <1>1, <2>1, <2>2
<1>4. ASSUME a \in E, a \in G PROVE LastIn(E, G, t, n + 1)
  <2> SUFFICES ASSUME NEW j \in 1..(n + 1), t[j] \in E,
                      \A k \in (j + 1)..(n + 1) : t[k] \notin E
               PROVE  t[j] \in G
    BY DEF LastIn
  <2>1. j = n + 1
    BY <1>1, <1>4
  <2> QED
    BY <1>1, <1>4, <2>1
<1>5. Quiet(E, t, n + 1) => a \notin E /\ Quiet(E, s, n)
  BY <1>1 DEF Quiet
<1> QED
  BY <1>2, <1>3, <1>4, <1>5 DEF t, n

LEMMA TailSince ==
    ASSUME NEW S, NEW s \in Seq(S), s # <<>>, NEW E, NEW G, NEW i \in 1..Len(s)
    PROVE  /\ LastIn(E, G, s, i) => LastIn(E, G, Tail(s), i - 1)
           /\ Quiet(E, Tail(s), i - 1) => /\ s[1] \notin E => Quiet(E, s, i)
                                          /\ s[1] \in E /\ LastIn(E, G, s, i) => s[1] \in G
<1> DEFINE t == Tail(s)
           n == Len(s)
<1>1. /\ n \in Nat /\ i \in 1..n
      /\ \A j \in 1..(n - 1) : t[j] = s[j + 1]
  BY HeadTailProperties, LenProperties
<1> HIDE DEF t, n
<1>2. ASSUME LastIn(E, G, s, i) PROVE LastIn(E, G, t, i - 1)
  <2> SUFFICES ASSUME NEW j \in 1..(i - 1), t[j] \in E,
                      \A k \in (j + 1)..(i - 1) : t[k] \notin E
               PROVE  t[j] \in G
    BY DEF LastIn
  <2>1. /\ j + 1 \in 1..i /\ t[j] = s[j + 1]
    BY <1>1
  <2>2. ASSUME NEW k \in (j + 1 + 1)..i PROVE s[k] \notin E
    <3>1. k - 1 \in (j + 1)..(i - 1) /\ k - 1 \in 1..(n - 1) /\ k - 1 + 1 = k
      BY <1>1
    <3>2. t[k - 1] = s[k]
      BY <1>1, <3>1
    <3> QED
      BY <3>1, <3>2
  <2> QED
    BY <1>2, <2>1, <2>2 DEF LastIn
<1>3. ASSUME Quiet(E, t, i - 1), NEW k \in 2..i PROVE s[k] \notin E
  <2>1. k - 1 \in 1..(i - 1) /\ k - 1 \in 1..(n - 1) /\ k - 1 + 1 = k
    BY <1>1
  <2>2. t[k - 1] = s[k]
    BY <1>1, <2>1
  <2> QED
    BY <1>3, <2>1, <2>2 DEF Quiet
<1>4. ASSUME Quiet(E, t, i - 1), s[1] \notin E PROVE Quiet(E, s, i)
  <2>1. \A k \in 1..i : k = 1 \/ k \in 2..i
    BY <1>1
  <2> QED
    BY <1>3, <1>4, <2>1 DEF Quiet
<1>5. ASSUME Quiet(E, t, i - 1), s[1] \in E, LastIn(E, G, s, i) PROVE s[1] \in G
  <2>1. 1 \in 1..i /\ \A k \in (1 + 1)..i : s[k] \notin E
    BY <1>1, <1>3, <1>5
  <2> QED
    BY <1>5, <2>1 DEF LastIn
<1> QED
  BY <1>2, <1>4, <1>5 DEF t

\* Nothing is lost but to a full queue, and a batch is only there to be handled.
StreamInv ==
    /\ lost => Len(queue) >= QueueLimit
    /\ at # "handle" => batch = <<>>

LEMMA PendingType ==
    ASSUME QueueType, ThreadType
    PROVE  Pending \in Seq(Alert) /\ Len(Pending) \in Nat
<1>1. Pending \in Seq(Alert)
  BY ConcatProperties DEF Pending, QueueType, ThreadType
<1> QED
  BY <1>1, LenProperties

LEMMA PostStream ==
    ASSUME QueueType, ThreadType, StreamInv, NEW a \in Alert, Post(a), UNCHANGED batch
    PROVE  \/ ~lost /\ ~lost' /\ epoch' = epoch /\ Pending' = Append(Pending, a)
           \/ lost' /\ Pending' = Pending
<1>1. Len(queue) \in Nat
  BY LenProperties DEF QueueType
<1>2. CASE Len(queue) < QueueLimit
  <2>1. queue' = Append(queue, a) /\ lost' = lost /\ epoch' = epoch
    BY <1>2 DEF Post
  <2>2. ~lost
    BY <1>1, <1>2, RegistryAssumption DEF StreamInv
  <2>3. batch \o Append(queue, a) = Append(batch \o queue, a)
    <3>1. Append(queue, a) = queue \o <<a>> /\ <<a>> \in Seq(Alert)
      BY AppendIsConcat DEF QueueType
    <3>2. batch \o queue \in Seq(Alert)
      BY ConcatProperties DEF QueueType, ThreadType
    <3>3. Append(batch \o queue, a) = (batch \o queue) \o <<a>>
      BY <3>2, AppendIsConcat
    <3> QED
      BY <3>1, <3>3, ConcatAssociative DEF QueueType, ThreadType
  <2> QED
    BY <2>1, <2>2, <2>3 DEF Pending
<1>3. CASE ~(Len(queue) < QueueLimit)
  BY <1>3 DEF Post, Pending
<1> QED
  BY <1>2, <1>3

Dropped == [type |-> "alerts_dropped"]

LEMMA PopStream ==
    ASSUME QueueType, ThreadType, StreamInv, PopAlerts
    PROVE  /\ ~lost'
           /\ lost => Pending' = Append(Pending, Dropped)
           /\ ~lost => Pending' = Pending
<1>1. batch = <<>> /\ queue' = <<>> /\ ~lost'
      /\ batch' = IF lost THEN Append(queue, Dropped) ELSE queue
  BY DEF PopAlerts, StreamInv, Dropped
<1>2. Pending = queue
  BY <1>1, ConcatEmptySeq DEF Pending, QueueType
<1>3. Dropped \in Alert
  BY DEF Alert, Dropped
<1>4. batch' \in Seq(Alert)
  BY <1>1, <1>3, AppendProperties DEF QueueType
<1>5. Pending' = batch'
  BY <1>1, <1>4, ConcatEmptySeq DEF Pending
<1> QED
  BY <1>1, <1>2, <1>5

LEMMA HandleStream ==
    ASSUME QueueType, ThreadType, Handle
    PROVE  /\ Pending # <<>> /\ Pending[1] = Head(batch) /\ Pending' = Tail(Pending)
           /\ Pending \in Seq(Alert) /\ Len(Pending) \in Nat /\ Pending[1] \in Alert
           /\ Dispatch(Pending[1]) /\ UNCHANGED <<lost, epoch, torrent>>
<1>1. /\ batch \in Seq(Alert) /\ queue \in Seq(Alert) /\ batch # <<>>
      /\ batch' = Tail(batch) /\ queue' = queue
      /\ Dispatch(Head(batch)) /\ UNCHANGED <<lost, epoch, torrent>>
  BY DEF Handle, QueueType, ThreadType, alerts
<1>2. /\ Len(batch) \in Nat \ {0} /\ Len(queue) \in Nat
      /\ Len(Tail(batch)) = Len(batch) - 1 /\ Tail(batch) \in Seq(Alert)
      /\ \A i \in 1..(Len(batch) - 1) : Tail(batch)[i] = batch[i + 1]
      /\ Head(batch) = batch[1] /\ Head(batch) \in Alert
  BY <1>1, HeadTailProperties, EmptySeq, LenProperties
<1>3. /\ Pending \in Seq(Alert) /\ Len(Pending) = Len(batch) + Len(queue)
      /\ \A i \in 1..(Len(batch) + Len(queue)) :
             Pending[i] = IF i <= Len(batch) THEN batch[i] ELSE queue[i - Len(batch)]
  BY <1>1, ConcatProperties DEF Pending
<1>4. /\ Pending' \in Seq(Alert) /\ Len(Pending') = Len(Tail(batch)) + Len(queue)
      /\ \A i \in 1..(Len(Tail(batch)) + Len(queue)) :
             Pending'[i] = IF i <= Len(Tail(batch)) THEN Tail(batch)[i]
                                                    ELSE queue[i - Len(Tail(batch))]
  <2>1. Pending' = Tail(batch) \o queue
    BY <1>1 DEF Pending
  <2> QED
    BY <1>1, <1>2, <2>1, ConcatProperties
<1>5. Pending # <<>> /\ Len(Pending) \in Nat /\ Pending[1] = Head(batch)
  <2>1. Len(Pending) \in Nat /\ Len(Pending) # 0 /\ Pending[1] = Head(batch)
    BY <1>2, <1>3
  <2> QED
    BY <2>1, EmptySeq
<1>6. /\ Tail(Pending) \in Seq(Alert) /\ Len(Tail(Pending)) = Len(Pending) - 1
      /\ \A i \in 1..Len(Tail(Pending)) : Tail(Pending)[i] = Pending[i + 1]
  BY <1>3, <1>5, HeadTailProperties
<1>7. ASSUME NEW i \in 1..Len(Pending') PROVE Pending'[i] = Tail(Pending)[i]
  <2>1. Tail(Pending)[i] = Pending[i + 1]
    BY <1>2, <1>3, <1>4, <1>6
  <2>2. CASE i <= Len(batch) - 1
    <3>1. Pending'[i] = batch[i + 1] /\ Pending[i + 1] = batch[i + 1]
      BY <1>2, <1>3, <1>4, <2>2
    <3> QED
      BY <2>1, <3>1
  <2>3. CASE ~(i <= Len(batch) - 1)
    <3>1. /\ Pending'[i] = queue[i - (Len(batch) - 1)]
          /\ Pending[i + 1] = queue[(i + 1) - Len(batch)]
          /\ i - (Len(batch) - 1) = (i + 1) - Len(batch)
      BY <1>2, <1>3, <1>4, <2>3
    <3> QED
      BY <2>1, <3>1
  <2> QED
    BY <2>2, <2>3
<1>8. Pending' = Tail(Pending)
  BY <1>2, <1>3, <1>4, <1>6, <1>7, SeqEqual
<1> QED
  BY <1>1, <1>2, <1>3, <1>5, <1>8

-----------------------------------------------------------------------------
(* Latencies. What is outstanding for a piece is the request that the last  *)
(* alert about it was, and an answer on its way was asked for by just that. *)

\* Alerts that decide whether a request for piece p is outstanding with e.
About(e, p) ==
    {a \in Alert : \/ a.type = "alerts_dropped"
                   \/ a.type = "disconnect" /\ a.endpoint = e
                   \/ /\ a.type \in {"request", "response", "timeout"}
                      /\ a.endpoint = e /\ a.piece = p}

Tagged(t) == {a \in Alert : a.type = "request" => a.tag = t}

Out(e, p) == Peer(e).outstanding_requests[p]

\* After the first i alerts only request t can be outstanding for p with e.
Answerable(e, p, t, i) ==
    /\ LastIn(About(e, p), Tagged(t), Pending, i)
    /\ Quiet(About(e, p), Pending, i) => Out(e, p) \in {NoTag, t}

\* How libtorrent labels what it does over the open connection of e.
Now(e) == [conn |-> opened[e], epoch |-> epoch]

Asking ==
    \A e \in Endpoints : \A p \in asked[e] :
        /\ up[e]
        /\ ~lost => Answerable(e, p, Now(e), Len(Pending))

Answering ==
    \A i \in 1..Len(Pending) :
        Pending[i].type = "response" =>
            Answerable(Pending[i].endpoint, Pending[i].piece, Pending[i].tag, i - 1)

LatencyInv == StreamInv /\ Asking /\ Answering /\ LatencyHasNoGap

\* The active record of an endpoint, or a new one.
LEMMA PeerIs ==
    ASSUME NEW e \in Endpoints
    PROVE  /\ RecordType => Peer(e) = IF active[e] # 0 THEN peers[e][active[e]] ELSE NewPeer
           /\ RecordType' =>
                  Peer(e)' = IF active'[e] # 0 THEN peers'[e][active'[e]] ELSE NewPeer
<1>1. /\ RecordType => peers[e] \in Seq(PeerStats)
      /\ RecordType' => peers'[e] \in Seq(PeerStats)
  BY DEF RecordType
<1>2. \A s \in Seq(PeerStats) : Append(s, NewPeer)[Len(s) + 1] = NewPeer
  BY NewPeerType, AppendProperties
<1> QED
  BY <1>1, <1>2 DEF Peer, ensure_peer_for_endpoint

LEMMA SetPeerIs ==
    ASSUME RecordType, RecordType', NEW d \in Endpoints, NEW x \in PeerStats, SetPeer(d, x)
    PROVE  Peer(d)' = x /\ \A e \in Endpoints \ {d} : Peer(e)' = Peer(e)
<1> DEFINE found == ensure_peer_for_endpoint(d)
           new == [found.records EXCEPT ![found.key] = x]
<1>1. /\ peers' = [peers EXCEPT ![d] = new]
      /\ active' = [active EXCEPT ![d] = found.key]
  BY DEF SetPeer
<1>2. found.key \in 1..Len(new) /\ new[found.key] = x /\ Len(new) \in Nat
  BY StoredAt
<1> HIDE DEF found, new
<1>3. /\ active'[d] = found.key /\ peers'[d] = new
      /\ \A e \in Endpoints \ {d} : active'[e] = active[e] /\ peers'[e] = peers[e]
  BY <1>1 DEF RecordType
<1> QED
  BY <1>2, <1>3, PeerIs

LEMMA EventOut ==
    ASSUME RecordType, NEW a, a.endpoint \in Endpoints, a.piece \in Pieces, a.tag \in Tag
    PROVE  LET peer == note_peer_event(a)
               asking == [peer EXCEPT !.outstanding_requests[a.piece] = a.tag]
           IN
           \A p \in Pieces :
               /\ peer.outstanding_requests[p] = Out(a.endpoint, p)
               /\ Connected(a).outstanding_requests[p] = Out(a.endpoint, p)
               /\ Answered(a).outstanding_requests[p] =
                      IF p = a.piece THEN NoTag ELSE Out(a.endpoint, p)
               /\ asking.outstanding_requests[p] =
                      IF p = a.piece THEN a.tag ELSE Out(a.endpoint, p)
<1> DEFINE old == Peer(a.endpoint)
           peer == note_peer_event(a)
<1>1. old \in PeerStats
  BY EnsureType
<1>2. peer = [old EXCEPT !.alerted = @ \cup ({a.tag.conn} \ {0})]
  BY DEF note_peer_event
<1>3. peer \in PeerStats /\ peer.outstanding_requests = old.outstanding_requests
  BY <1>1, <1>2 DEF PeerStats, Tag
<1>4. old.outstanding_requests \in [Pieces -> Tag]
  BY <1>1 DEF PeerStats
<1> HIDE DEF peer
<1>5. \A t \in Tag : [peer EXCEPT !.outstanding_requests[a.piece] = t].outstanding_requests
                        = [old.outstanding_requests EXCEPT ![a.piece] = t]
  BY <1>3 DEF PeerStats
<1>6. [peer EXCEPT !.active_connection = TRUE,
                   !.saw_connect_alert = TRUE].outstanding_requests
        = old.outstanding_requests
  BY <1>3 DEF PeerStats
<1> QED
  BY <1>3, <1>4, <1>5, <1>6, NewPeerType DEF peer, Out, Connected, Answered

\* A credit changes the pieces of one record, and nothing else.
LEMMA CreditOut ==
    ASSUME RecordType, KeyType, NEW p \in Pieces, Credit(p), NEW e \in Endpoints,
           NEW n \in 1..Len(peers[e])
    PROVE  /\ peers'[e][n].outstanding_requests = peers[e][n].outstanding_requests
           /\ peers'[e][n].alerted = peers[e][n].alerted
           /\ peers'[e][n].pieces =
                  IF last_piece[p] # NoPeer /\ last_piece[p][1] = e /\ last_piece[p][2] = n
                  THEN peers[e][n].pieces \cup {p} ELSE peers[e][n].pieces
<1>1. peers[e] \in Seq(PeerStats) /\ peers[e][n] \in PeerStats
  BY ElementOfSeq DEF RecordType
<1>2. CASE last_piece[p] = NoPeer
  BY <1>2 DEF Credit
<1>3. CASE last_piece[p] # NoPeer
  <2> DEFINE d == last_piece[p][1]
             m == last_piece[p][2]
             x == [peers[d][m] EXCEPT !.pieces = @ \cup {p}]
             new == [peers[d] EXCEPT ![m] = x]
  <2>1. d \in Endpoints /\ m \in 1..Len(peers[d]) /\ peers[d] \in Seq(PeerStats)
    BY <1>3 DEF KeyType, RecordType
  <2>2. peers[d][m] \in PeerStats
    BY <2>1, ElementOfSeq
  <2>3. peers' = [peers EXCEPT ![d] = new]
    BY <1>3 DEF Credit
  <2>4. /\ x \in PeerStats /\ x.outstanding_requests = peers[d][m].outstanding_requests
        /\ x.alerted = peers[d][m].alerted /\ x.pieces = peers[d][m].pieces \cup {p}
    BY <2>2 DEF PeerStats
  <2> HIDE DEF x, d, m
  <2>5. \A k \in 1..Len(peers[d]) : new[k] = IF k = m THEN x ELSE peers[d][k]
    BY <2>1, <2>4, ChangeOne
  <2> HIDE DEF new
  <2>6. peers'[e][n] = IF e = d /\ n = m THEN x ELSE peers[e][n]
    BY <2>1, <2>3, <2>5 DEF RecordType
  <2> QED
    BY <1>3, <2>4, <2>6 DEF d, m
<1> QED
  BY <1>2, <1>3

\* What handling an alert makes of what is outstanding.
LEMMA OutStep ==
    ASSUME RecordType, RecordType', KeyType, Table, NEW a \in Alert, Dispatch(a),
           NEW e \in Endpoints, NEW p \in Pieces
    PROVE  /\ a \notin About(e, p) => Out(e, p)' \in {NoTag, Out(e, p)}
           /\ a \in About(e, p) => Out(e, p)' = IF a.type = "request" THEN a.tag ELSE NoTag
<1>1. NewPeer.outstanding_requests[p] = NoTag /\ NothingOutstanding[p] = NoTag
  BY DEF NewPeer, NothingOutstanding
<1>2. CASE a.type \in PeerAlerts
  <2> DEFINE d == a.endpoint
             seen == note_peer_event(a)
             asking == [seen EXCEPT !.outstanding_requests[a.piece] = a.tag]
  <2>1. d \in Endpoints /\ a.piece \in Pieces /\ a.tag \in Tag
    BY <1>2, AlertFields
  <2>2. /\ seen \in PeerStats /\ Connected(a) \in PeerStats
        /\ Answered(a) \in PeerStats /\ asking \in PeerStats
    BY <2>1, EventType
  <2>3. /\ seen.outstanding_requests[p] = Out(d, p)
        /\ Connected(a).outstanding_requests[p] = Out(d, p)
        /\ Answered(a).outstanding_requests[p] = IF p = a.piece THEN NoTag ELSE Out(d, p)
        /\ asking.outstanding_requests[p] = IF p = a.piece THEN a.tag ELSE Out(d, p)
    BY <2>1, EventOut
  <2> HIDE DEF seen, asking
  <2>4. ASSUME NEW x \in PeerStats, SetPeer(d, x)
        PROVE  Out(e, p)' = IF e = d THEN x.outstanding_requests[p] ELSE Out(e, p)
    BY <2>1, <2>4, SetPeerIs DEF Out
  <2>5. CASE a.type = "disconnect"
    <3>1. note_peer_disconnect(a)
      BY <2>5 DEF Dispatch
    <3>2. \A f \in Endpoints : /\ f = d => active'[f] = 0
                               /\ f # d => active'[f] = active[f] /\ peers'[f] = peers[f]
      BY <2>1, <3>1 DEF note_peer_disconnect, RecordType
    <3>3. /\ e = d => Peer(e)' = NewPeer
          /\ e # d => Peer(e)' = Peer(e)
      BY <3>2, PeerIs
    <3> QED
      BY <1>1, <2>5, <3>3 DEF Out, About
  <2>6. CASE a.type = "connect" \/ a.type = "error"
    <3>1. SetPeer(d, Connected(a)) \/ SetPeer(d, seen)
      BY <2>6 DEF Dispatch, note_peer_connect, note_peer_error, seen
    <3>2. Out(e, p)' = Out(e, p)
      BY <2>2, <2>3, <2>4, <3>1
    <3> QED
      BY <2>6, <3>2 DEF About
  <2>7. CASE a.type = "request"
    <3>1. SetPeer(d, asking)
      BY <2>7 DEF Dispatch, note_request_sent, asking, seen
    <3>2. Out(e, p)' = IF e = d /\ p = a.piece THEN a.tag ELSE Out(e, p)
      BY <2>2, <2>3, <2>4, <3>1
    <3> QED
      BY <2>7, <3>2 DEF About
  <2>8. CASE a.type = "response" \/ a.type = "timeout"
    <3>1. SetPeer(d, Answered(a))
      BY <2>8 DEF Dispatch, note_block_response, note_timeout
    <3>2. Out(e, p)' = IF e = d /\ p = a.piece THEN NoTag ELSE Out(e, p)
      BY <2>2, <2>3, <2>4, <3>1
    <3> QED
      BY <2>8, <3>2 DEF About
  <2> QED
    BY <1>2, <2>5, <2>6, <2>7, <2>8 DEF PeerAlerts
<1>3. CASE a.type = "piece_finished"
  <2>1. a \notin About(e, p) /\ a.piece \in Pieces
    BY <1>3, AlertFields DEF About
  <2>2. UNCHANGED active /\ (Credit(a.piece) \/ peers' = peers)
    BY <1>3 DEF Dispatch, note_piece_finished
  <2>3. \A n \in 1..Len(peers[e]) :
           peers'[e][n].outstanding_requests = peers[e][n].outstanding_requests
    BY <2>1, <2>2, CreditOut DEF RecordType
  <2>4. Out(e, p)' = Out(e, p)
    <3>1. active'[e] = active[e] /\ active[e] \in 0..Len(peers[e])
          /\ Len(peers[e]) \in Nat
      BY <2>2, LenProperties DEF RecordType
    <3>2. /\ Peer(e) = IF active[e] # 0 THEN peers[e][active[e]] ELSE NewPeer
          /\ Peer(e)' = IF active[e] # 0 THEN peers'[e][active[e]] ELSE NewPeer
      BY <3>1, PeerIs
    <3>3. Peer(e)'.outstanding_requests = Peer(e).outstanding_requests
      BY <2>3, <3>1, <3>2
    <3> QED
      BY <3>3 DEF Out
  <2> QED
    BY <2>1, <2>4
<1>4. CASE a.type = "state_changed"
  <2>1. a \notin About(e, p) /\ UNCHANGED <<peers, active>>
    BY <1>4 DEF Dispatch, note_torrent_state, About
  <2> QED
    BY <2>1 DEF Out, Peer, ensure_peer_for_endpoint
<1>5. CASE a.type = "alerts_dropped"
  <2>1. UNCHANGED active /\ peers' = ResetOutstanding
    BY <1>5 DEF Dispatch, note_alert_loss
  <2>2. peers[e] \in Seq(PeerStats) /\ DOMAIN peers[e] = 1..Len(peers[e])
        /\ active[e] \in 0..Len(peers[e]) /\ Len(peers[e]) \in Nat
    BY LenProperties DEF RecordType
  <2>3. \A n \in 1..Len(peers[e]) : peers'[e][n].outstanding_requests = NothingOutstanding
    <3>1. \A n \in 1..Len(peers[e]) : peers[e][n] \in PeerStats
      BY <2>2, ElementOfSeq
    <3> QED
      BY <2>1, <2>2, <3>1, ResetRecord DEF ResetOutstanding
  <2>4. Out(e, p)' = NoTag
    BY <1>1, <2>1, <2>2, <2>3, PeerIs DEF Out
  <2> QED
    BY <1>5, <2>4 DEF About
<1> QED
  BY <1>2, <1>3, <1>4, <1>5 DEF Dispatch, PeerAlerts

\* A new alert only adds to what the alerts on their way say.
LEMMA AnswerAppend ==
    ASSUME QueueType, ThreadType, NEW a \in Alert, Pending' = Append(Pending, a),
           NEW e \in Endpoints, NEW p \in Pieces, NEW t, Out(e, p)' = Out(e, p)
    PROVE  /\ Len(Pending)' = Len(Pending) + 1 /\ Pending'[Len(Pending) + 1] = a
           /\ \A i \in 1..Len(Pending) : Pending'[i] = Pending[i]
           /\ \A i \in 0..Len(Pending) : Answerable(e, p, t, i) => Answerable(e, p, t, i)'
           /\ Answerable(e, p, t, Len(Pending)) /\ (a \in About(e, p) => a \in Tagged(t))
                  => Answerable(e, p, t, Len(Pending))'
           /\ a \in About(e, p) /\ a \in Tagged(t) => Answerable(e, p, t, Len(Pending))'
<1>1. Pending \in Seq(Alert) /\ Len(Pending) \in Nat
  BY PendingType
<1>2. /\ Len(Pending)' = Len(Pending) + 1 /\ Pending'[Len(Pending) + 1] = a
      /\ \A i \in 1..Len(Pending) : Pending'[i] = Pending[i]
  BY <1>1, AppendProperties
<1> DEFINE E == About(e, p)
           G == Tagged(t)
           n == Len(Pending)
<1> HIDE DEF E, G
<1>3. /\ \A i \in 0..n : /\ LastIn(E, G, Pending, i) => LastIn(E, G, Pending', i)
                         /\ Quiet(E, Pending', i) => Quiet(E, Pending, i)
      /\ LastIn(E, G, Pending, n) /\ (a \in E => a \in G) => LastIn(E, G, Pending', n + 1)
      /\ a \in E /\ a \in G => LastIn(E, G, Pending', n + 1)
      /\ Quiet(E, Pending', n + 1) => a \notin E /\ Quiet(E, Pending, n)
  BY <1>1, AppendSince
<1> QED
  BY <1>2, <1>3 DEF Answerable, E, G

LEMMA AnswerSame ==
    ASSUME Pending' = Pending, NEW e \in Endpoints, NEW p \in Pieces, NEW t,
           Out(e, p)' \in {NoTag, Out(e, p)}, NEW i, Answerable(e, p, t, i)
    PROVE  Answerable(e, p, t, i)'
BY DEF Answerable

\* Handling the first of them takes what it says into the record.
LEMMA AnswerTail ==
    ASSUME QueueType, ThreadType, RecordType, RecordType', KeyType, Table, Handle,
           NEW e \in Endpoints, NEW p \in Pieces, NEW t, NEW i \in 1..Len(Pending),
           Answerable(e, p, t, i)
    PROVE  Answerable(e, p, t, i - 1)'
<1> DEFINE E == About(e, p)
           G == Tagged(t)
           a == Pending[1]
<1>1. /\ Pending # <<>> /\ Pending' = Tail(Pending) /\ Pending \in Seq(Alert)
      /\ a \in Alert /\ Dispatch(a)
  BY HandleStream
<1>2. /\ a \notin E => Out(e, p)' \in {NoTag, Out(e, p)}
      /\ a \in E => Out(e, p)' = IF a.type = "request" THEN a.tag ELSE NoTag
  BY <1>1, OutStep
<1>3. a \in G /\ a.type = "request" => a.tag = t
  BY DEF Tagged
<1> HIDE DEF E, G, a
<1>4. /\ LastIn(E, G, Pending, i) => LastIn(E, G, Tail(Pending), i - 1)
      /\ Quiet(E, Tail(Pending), i - 1) =>
             /\ Pending[1] \notin E => Quiet(E, Pending, i)
             /\ Pending[1] \in E /\ LastIn(E, G, Pending, i) => Pending[1] \in G
  BY <1>1, TailSince
<1>5. LastIn(E, G, Pending, i) /\ (Quiet(E, Pending, i) => Out(e, p) \in {NoTag, t})
  BY DEF Answerable, E, G
<1>6. LastIn(E, G, Pending', i - 1)
  BY <1>1, <1>4, <1>5
<1>7. ASSUME Quiet(E, Pending', i - 1) PROVE Out(e, p)' \in {NoTag, t}
  <2>1. CASE a \in E
    BY <1>1, <1>2, <1>3, <1>4, <1>5, <1>7, <2>1 DEF a
  <2>2. CASE a \notin E
    BY <1>1, <1>2, <1>4, <1>5, <1>7, <2>2 DEF a
  <2> QED
    BY <2>1, <2>2
<1> QED
  BY <1>6, <1>7 DEF Answerable, E, G

LEMMA LatencyPost ==
    ASSUME QueueType, ThreadType, LatencyInv, NEW a \in Alert, Post(a),
           UNCHANGED <<thread, peers, active, latencies>>,
           \A e \in Endpoints : asked'[e] \subseteq Pieces /\ asked[e] \subseteq Pieces,
           \A e \in Endpoints : \A p \in asked'[e] :
               /\ up'[e]
               /\ (p \in asked[e] /\ opened'[e] = opened[e]) \/ a \in About(e, p)
               /\ a \in About(e, p) => a \in Tagged([conn |-> opened'[e], epoch |-> epoch]),
           a.type = "response" =>
               /\ a.endpoint \in Endpoints /\ a.piece \in asked[a.endpoint]
               /\ a.tag = Now(a.endpoint)
    PROVE  LatencyInv'
<1> USE DEF LatencyInv
<1>1. Pending \in Seq(Alert) /\ Len(Pending) \in Nat
  BY PendingType
<1>2. \A e \in Endpoints : \A p \in Pieces : Out(e, p)' = Out(e, p)
  BY DEF Out, Peer, ensure_peer_for_endpoint
<1>3. StreamInv'
  <2>1. CASE Len(queue) < QueueLimit
    <3>1. Len(queue) \in Nat /\ ~lost
      BY <2>1, LenProperties, RegistryAssumption DEF StreamInv, QueueType
    <3> QED
      BY <2>1, <3>1 DEF Post, StreamInv, thread
  <2>2. CASE ~(Len(queue) < QueueLimit)
    <3>1. Len(queue) \in Nat
      BY LenProperties DEF QueueType
    <3> QED
      BY <2>2, <3>1, RegistryAssumption DEF Post, StreamInv, thread
  <2> QED
    BY <2>1, <2>2
<1>4. \/ ~lost /\ ~lost' /\ epoch' = epoch /\ Pending' = Append(Pending, a)
      \/ lost' /\ Pending' = Pending
  BY PostStream DEF thread
<1>5. CASE ~lost /\ ~lost' /\ epoch' = epoch /\ Pending' = Append(Pending, a)
  <2>1. Asking'
    <3> SUFFICES ASSUME NEW e \in Endpoints, NEW p \in asked'[e]
                 PROVE  up'[e] /\ Answerable(e, p, Now(e), Len(Pending))'
      BY DEF Asking
    <3>1. PICK t : t = [conn |-> opened'[e], epoch |-> epoch]
      OBVIOUS
    <3>2. /\ Now(e)' = t /\ p \in Pieces
          /\ opened'[e] = opened[e] => Now(e) = t
      BY <1>5, <3>1 DEF Now
    <3>3. CASE a \in About(e, p)
      <4>1. a \in Tagged(t)
        BY <3>1, <3>3
      <4>2. Answerable(e, p, t, Len(Pending))'
        BY <1>2, <1>5, <3>2, <3>3, <4>1, AnswerAppend
      <4> QED
        BY <3>2, <4>2 DEF Answerable
    <3>4. CASE a \notin About(e, p)
      <4>1. p \in asked[e] /\ opened'[e] = opened[e]
        BY <3>4
      <4>2. Answerable(e, p, t, Len(Pending))
        BY <1>5, <3>2, <4>1 DEF Asking
      <4>3. Answerable(e, p, t, Len(Pending))'
        BY <1>2, <1>5, <3>2, <3>4, <4>2, AnswerAppend
      <4> QED
        BY <3>2, <4>3 DEF Answerable
    <3> QED
      BY <3>3, <3>4
  <2>2. Answering'
    <3> SUFFICES ASSUME NEW i \in 1..Len(Pending'), Pending'[i].type = "response"
                 PROVE  Answerable(Pending[i].endpoint, Pending[i].piece,
                                   Pending[i].tag, i - 1)'
      BY DEF Answering
    <3>1. PICK d, q, t : d = Pending'[i].endpoint /\ q = Pending'[i].piece /\ t = Pending'[i].tag
      OBVIOUS
    <3>2. Len(Pending') = Len(Pending) + 1 /\ Pending'[Len(Pending) + 1] = a
          /\ \A j \in 1..Len(Pending) : Pending'[j] = Pending[j]
      BY <1>1, <1>5, AppendProperties
    <3>3. /\ Pending'[i] \in Alert /\ d \in Endpoints /\ q \in Pieces
          /\ i - 1 \in 0..Len(Pending)
      <4>1. Pending'[i] \in Alert
        BY <1>1, <1>5, <3>2, ElementOfSeq, AppendProperties
      <4> QED
        BY <1>1, <3>1, <3>2, <4>1, AlertFields DEF PeerAlerts
    <3>4. Answerable(d, q, t, i - 1)
      <4>1. CASE i \in 1..Len(Pending)
        BY <3>1, <3>2, <4>1 DEF Answering
      <4>2. CASE i = Len(Pending) + 1
        <5>1. q \in asked[d] /\ t = Now(d)
          BY <3>1, <3>2, <4>2
        <5>2. i - 1 = Len(Pending)
          BY <1>1, <4>2
        <5> QED
          BY <1>5, <3>3, <5>1, <5>2 DEF Asking
      <4> QED
        BY <1>1, <3>2, <4>1, <4>2
    <3>5. Answerable(d, q, t, i - 1)'
      BY <1>2, <1>5, <3>3, <3>4, AnswerAppend
    <3> QED
      BY <3>1, <3>5 DEF Answerable
  <2> QED
    BY <1>3, <2>1, <2>2 DEF LatencyHasNoGap
<1>6. CASE lost' /\ Pending' = Pending
  <2>1. Asking'
    BY <1>6 DEF Asking
  <2>2. Answering'
    <3> SUFFICES ASSUME NEW i \in 1..Len(Pending), Pending[i].type = "response"
                 PROVE  Answerable(Pending[i].endpoint, Pending[i].piece,
                                   Pending[i].tag, i - 1)'
      BY <1>6 DEF Answering
    <3>1. PICK d, q, t : d = Pending[i].endpoint /\ q = Pending[i].piece /\ t = Pending[i].tag
      OBVIOUS
    <3>2. Pending[i] \in Alert /\ d \in Endpoints /\ q \in Pieces
      BY <1>1, <3>1, ElementOfSeq, AlertFields DEF PeerAlerts
    <3>3. Answerable(d, q, t, i - 1)
      BY <3>1 DEF Answering
    <3>4. Answerable(d, q, t, i - 1)'
      BY <1>2, <1>6, <3>2, <3>3, AnswerSame
    <3> QED
      BY <1>6, <3>1, <3>4 DEF Answerable
  <2> QED
    BY <1>3, <2>1, <2>2 DEF LatencyHasNoGap
<1> QED
  BY <1>4, <1>5, <1>6

LEMMA LatencyPeerPost ==
    ASSUME TorrentType, TorrentType', QueueType, ThreadType, LatencyInv,
           UNCHANGED <<thread, peers, active, latencies>>,
           NEW type \in PeerAlerts, NEW d \in Endpoints, NEW q \in Pieces, NEW conn \in Nat,
           PostPeer(type, d, q, conn),
           type = "request" => conn = opened'[d],
           type = "response" => q \in asked[d] /\ conn = opened[d],
           \A e \in Endpoints : \A p \in asked'[e] :
               /\ up'[e]
               /\ \/ p \in asked[e] /\ opened'[e] = opened[e]
                  \/ type = "request" /\ e = d /\ p = q
    PROVE  LatencyInv'
<1> DEFINE tag == [conn |-> conn, epoch |-> epoch]
           a == [type |-> type, endpoint |-> d, piece |-> q, tag |-> tag]
<1>1. tag \in Tag
  BY DEF Tag, QueueType
<1>2. Post(a)
  BY DEF PostPeer
<1>3. /\ a.type = type /\ a.endpoint = d /\ a.piece = q /\ a.tag = tag
      /\ a.type # "alerts_dropped"
  BY DEF PeerAlerts
<1>4. a \in Alert
  <2> HIDE DEF tag
  <2> QED BY <1>1 DEF Alert
<1>5. ASSUME NEW e \in Endpoints, NEW p \in asked'[e]
      PROVE  /\ (p \in asked[e] /\ opened'[e] = opened[e]) \/ a \in About(e, p)
             /\ a \in About(e, p) => a \in Tagged([conn |-> opened'[e], epoch |-> epoch])
  <2> HIDE DEF a
  <2>1. (p \in asked[e] /\ opened'[e] = opened[e]) \/ a \in About(e, p)
    BY <1>3, <1>4 DEF About
  <2>2. ASSUME a \in About(e, p), a.type = "request"
        PROVE  a.tag = [conn |-> opened'[e], epoch |-> epoch]
    BY <1>3, <2>2 DEF About
  <2> QED
    BY <1>4, <2>1, <2>2 DEF Tagged
<1>6. a.type = "response" =>
          /\ a.endpoint \in Endpoints /\ a.piece \in asked[a.endpoint]
          /\ a.tag = Now(a.endpoint)
  <2> HIDE DEF a
  <2> QED BY <1>3 DEF Now
<1>7. \A e \in Endpoints : asked'[e] \subseteq Pieces /\ asked[e] \subseteq Pieces
  BY DEF TorrentType
<1> HIDE DEF a
<1> QED
  BY <1>2, <1>4, <1>5, <1>6, <1>7, LatencyPost

LEMMA LatencyTorrent ==
    ASSUME TorrentType, QueueType, ThreadType, LatencyInv, Torrent
    PROVE  LatencyInv'
<1>0. /\ AnyPiece \in Pieces /\ TorrentType'
      /\ UNCHANGED <<thread, peers, active, latencies>>
      /\ \A e \in Endpoints : opened[e] \in Nat /\ opened'[e] \in Nat
      /\ \A e \in Endpoints : \A p \in asked[e] : up[e] /\ p \in Pieces
  <2>1. TorrentType'
    BY TorrentKeeps
  <2> QED
    BY <2>1, RegistryAssumption
    DEF AnyPiece, Torrent, stats, TorrentType, LatencyInv, Asking
<1>1. ASSUME NEW e \in Endpoints, Open(e)
      PROVE  LatencyInv'
  <2>1. /\ PostPeer("connect", e, AnyPiece, opened'[e]) /\ asked' = asked
        /\ ~up[e] /\ up' = [up EXCEPT ![e] = TRUE]
        /\ opened' = [opened EXCEPT ![e] = @ + 1]
    BY <1>1 DEF Open
  <2>2. \A d \in Endpoints : \A p \in asked'[d] :
            up'[d] /\ p \in asked[d] /\ opened'[d] = opened[d]
    BY <1>0, <2>1 DEF TorrentType
  <2> QED
    BY <1>0, <2>1, <2>2, LatencyPeerPost DEF PeerAlerts
<1>2. ASSUME NEW e \in Endpoints, Close(e)
      PROVE  LatencyInv'
  <2>1. PICK type \in Endings : PostPeer(type, e, AnyPiece, opened[e])
    BY <1>2 DEF Close
  <2>2. type \in PeerAlerts \ {"request", "response"}
    BY DEF Endings, PeerAlerts
  <2>3. \A d \in Endpoints : \A p \in asked'[d] :
            up'[d] /\ p \in asked[d] /\ opened'[d] = opened[d]
    BY <1>0, <1>2 DEF Close, TorrentType
  <2> QED
    BY <1>0, <2>1, <2>2, <2>3, LatencyPeerPost
<1>3. ASSUME NEW e \in Endpoints, OpenFails(e)
      PROVE  LatencyInv'
  <2>1. PICK type \in {"error", "disconnect"} : PostPeer(type, e, AnyPiece, 0)
    BY <1>3 DEF OpenFails
  <2>2. \A d \in Endpoints : \A p \in asked'[d] :
            up'[d] /\ p \in asked[d] /\ opened'[d] = opened[d]
    BY <1>0, <1>3 DEF OpenFails, torrent
  <2> QED
    BY <1>0, <2>1, <2>2, LatencyPeerPost DEF PeerAlerts
<1>4. ASSUME NEW e \in Endpoints, PeerError(e)
      PROVE  LatencyInv'
  <2>1. PostPeer("error", e, AnyPiece, opened[e])
    BY <1>4 DEF PeerError
  <2>2. \A d \in Endpoints : \A p \in asked'[d] :
            up'[d] /\ p \in asked[d] /\ opened'[d] = opened[d]
    BY <1>0, <1>4 DEF PeerError, torrent
  <2> QED
    BY <1>0, <2>1, <2>2, LatencyPeerPost DEF PeerAlerts
<1>5. ASSUME NEW e \in Endpoints, NEW p \in Pieces, Request(e, p)
      PROVE  LatencyInv'
  <2>1. /\ PostPeer("request", e, p, opened[e]) /\ opened' = opened /\ up' = up
        /\ up[e] /\ asked' = [asked EXCEPT ![e] = @ \cup {p}]
    BY <1>5 DEF Request
  <2>2. \A d \in Endpoints : \A b \in asked'[d] :
            /\ up'[d]
            /\ \/ b \in asked[d] /\ opened'[d] = opened[d]
               \/ d = e /\ b = p
    BY <1>0, <2>1 DEF TorrentType
  <2> QED
    BY <1>0, <2>1, <2>2, LatencyPeerPost DEF PeerAlerts
<1>6. ASSUME NEW e \in Endpoints, NEW p \in Pieces, Respond(e, p)
      PROVE  LatencyInv'
  <2>1. /\ PostPeer("response", e, p, opened[e]) /\ opened' = opened /\ up' = up
        /\ p \in asked[e] /\ asked' = [asked EXCEPT ![e] = @ \ {p}]
    BY <1>6 DEF Respond
  <2>2. \A d \in Endpoints : \A b \in asked'[d] :
            up'[d] /\ b \in asked[d] /\ opened'[d] = opened[d]
    BY <1>0, <2>1 DEF TorrentType
  <2> QED
    BY <1>0, <2>1, <2>2, LatencyPeerPost DEF PeerAlerts
<1>7. ASSUME NEW e \in Endpoints, NEW p \in Pieces, TimeOut(e, p)
      PROVE  LatencyInv'
  <2>1. /\ PostPeer("timeout", e, p, opened[e]) /\ opened' = opened /\ up' = up
        /\ asked' \in {asked, [asked EXCEPT ![e] = @ \ {p}]}
    BY <1>7 DEF TimeOut
  <2>2. \A d \in Endpoints : \A b \in asked'[d] :
            up'[d] /\ b \in asked[d] /\ opened'[d] = opened[d]
    BY <1>0, <2>1 DEF TorrentType
  <2> QED
    BY <1>0, <2>1, <2>2, LatencyPeerPost DEF PeerAlerts
<1>8. ASSUME NEW a \in Alert, a.type \in {"piece_finished", "state_changed"},
             Post(a), UNCHANGED <<opened, up, asked>>
      PROVE  LatencyInv'
  <2>1. \A e \in Endpoints : \A p \in Pieces : a \notin About(e, p)
    BY <1>8 DEF About
  <2>2. \A e \in Endpoints : asked'[e] \subseteq Pieces /\ asked[e] \subseteq Pieces
    BY <1>0, <1>8
  <2> QED
    BY <1>0, <1>8, <2>1, <2>2, LatencyPost
<1>9. ASSUME NEW p \in Pieces, PieceFinished(p) \/ PieceVerified(p)
      PROVE  LatencyInv'
  <2> DEFINE a == [type |-> "piece_finished", piece |-> p]
  <2>1. a \in Alert /\ a.type \in {"piece_finished", "state_changed"}
    BY DEF Alert
  <2>2. Post(a) /\ UNCHANGED <<opened, up, asked>>
    BY <1>9 DEF PieceFinished, PieceVerified
  <2> HIDE DEF a
  <2> QED
    BY <1>8, <2>1, <2>2
<1>10. ASSUME NEW p \in Pieces, HashFails(p)
       PROVE  LatencyInv'
  BY <1>0, <1>10 DEF HashFails, alerts, thread, LatencyInv, StreamInv, Asking, Answering,
     LatencyHasNoGap, Answerable, Now, Pending, Out, Peer, ensure_peer_for_endpoint
<1>11. ASSUME StateChanged
       PROVE  LatencyInv'
  <2> DEFINE a == [type |-> "state_changed"]
  <2>1. a \in Alert /\ a.type \in {"piece_finished", "state_changed"}
    BY DEF Alert
  <2>2. Post(a) /\ UNCHANGED <<opened, up, asked>>
    BY <1>11 DEF StateChanged
  <2> HIDE DEF a
  <2> QED
    BY <1>8, <2>1, <2>2
<1> QED
  BY <1>1, <1>2, <1>3, <1>4, <1>5, <1>6, <1>7, <1>9, <1>10, <1>11 DEF Torrent

\* What neither posts nor handles an alert leaves what is outstanding, or clears it.
LEMMA LatencySame ==
    ASSUME QueueType, ThreadType, TorrentType, LatencyInv, Pending' = Pending, lost' = lost,
           UNCHANGED <<asked, up, opened, epoch, latencies>>, StreamInv',
           \A e \in Endpoints : \A p \in Pieces : Out(e, p)' \in {NoTag, Out(e, p)}
    PROVE  LatencyInv'
<1> USE DEF LatencyInv
<1>1. Pending \in Seq(Alert) /\ Len(Pending) \in Nat
  BY PendingType
<1>2. Asking'
  <2> SUFFICES ASSUME NEW e \in Endpoints, NEW p \in asked[e], ~lost
               PROVE  Answerable(e, p, Now(e), Len(Pending))'
    BY DEF Asking
  <2>1. PICK t, n : t = Now(e) /\ n = Len(Pending)
    OBVIOUS
  <2>2. t = Now(e)' /\ n = Len(Pending)' /\ p \in Pieces
    BY <2>1 DEF Now, TorrentType
  <2>3. Answerable(e, p, t, n)
    BY <2>1 DEF Asking
  <2>4. Answerable(e, p, t, n)'
    BY <2>2, <2>3, AnswerSame
  <2> QED
    BY <2>2, <2>4 DEF Answerable
<1>3. Answering'
  <2> SUFFICES ASSUME NEW i \in 1..Len(Pending), Pending[i].type = "response"
               PROVE  Answerable(Pending[i].endpoint, Pending[i].piece,
                                 Pending[i].tag, i - 1)'
    BY DEF Answering
  <2>1. PICK d, q, t : d = Pending[i].endpoint /\ q = Pending[i].piece /\ t = Pending[i].tag
    OBVIOUS
  <2>2. Pending[i] \in Alert /\ d \in Endpoints /\ q \in Pieces
    BY <1>1, <2>1, ElementOfSeq, AlertFields DEF PeerAlerts
  <2>3. Answerable(d, q, t, i - 1)
    BY <2>1 DEF Answering
  <2>4. Answerable(d, q, t, i - 1)'
    BY <2>2, <2>3, AnswerSame
  <2> QED
    BY <2>1, <2>4 DEF Answerable
<1> QED
  BY <1>2, <1>3 DEF LatencyHasNoGap

LEMMA LatencyPop ==
    ASSUME QueueType, ThreadType, TorrentType, LatencyInv, PopAlerts
    PROVE  LatencyInv'
<1> USE DEF LatencyInv
<1>1. Pending \in Seq(Alert) /\ Len(Pending) \in Nat /\ Dropped \in Alert
  BY PendingType DEF Dropped, Alert
<1>2. /\ ~lost' /\ StreamInv' /\ latencies' = latencies
      /\ UNCHANGED <<asked, up, opened, epoch, peers, active>>
  BY DEF PopAlerts, StreamInv, torrent, stats
<1>3. \A e \in Endpoints : \A p \in Pieces : Out(e, p)' = Out(e, p)
  BY <1>2 DEF Out, Peer, ensure_peer_for_endpoint
<1>4. CASE ~lost
  <2>1. Pending' = Pending
    BY <1>4, PopStream
  <2>2. lost' = lost
    BY <1>4 DEF PopAlerts, QueueType
  <2> QED
    BY <1>2, <1>3, <2>1, <2>2, LatencySame
<1>5. CASE lost
  <2>1. Pending' = Append(Pending, Dropped)
    BY <1>5, PopStream
  <2>2. \A e \in Endpoints : \A p \in Pieces : Dropped \in About(e, p)
    BY <1>1 DEF About, Dropped
  <2>3. ASSUME NEW t PROVE Dropped \in Tagged(t)
    BY <1>1 DEF Tagged, Dropped
  <2>4. Asking'
    <3> SUFFICES ASSUME NEW e \in Endpoints, NEW p \in asked[e]
                 PROVE  up[e] /\ Answerable(e, p, Now(e), Len(Pending))'
      BY <1>2 DEF Asking
    <3>1. PICK t : t = Now(e)'
      OBVIOUS
    <3>2. p \in Pieces
      BY DEF TorrentType
    <3>3. Answerable(e, p, t, Len(Pending))'
      BY <1>1, <1>3, <2>1, <2>2, <2>3, <3>2, AnswerAppend
    <3> QED
      BY <3>1, <3>3 DEF Answerable, Asking
  <2>5. Answering'
    <3> SUFFICES ASSUME NEW i \in 1..Len(Pending'), Pending'[i].type = "response"
                 PROVE  Answerable(Pending[i].endpoint, Pending[i].piece,
                                   Pending[i].tag, i - 1)'
      BY DEF Answering
    <3>1. PICK d, q, t : d = Pending'[i].endpoint /\ q = Pending'[i].piece /\ t = Pending'[i].tag
      OBVIOUS
    <3>2. Len(Pending') = Len(Pending) + 1 /\ Pending'[Len(Pending) + 1] = Dropped
          /\ \A j \in 1..Len(Pending) : Pending'[j] = Pending[j]
      BY <1>1, <2>1, AppendProperties
    <3>3. i \in 1..Len(Pending)
      BY <1>1, <3>2 DEF Dropped
    <3>4. Pending[i] \in Alert /\ d \in Endpoints /\ q \in Pieces /\ i - 1 \in 0..Len(Pending)
      BY <1>1, <3>1, <3>2, <3>3, ElementOfSeq, AlertFields DEF PeerAlerts
    <3>5. Answerable(d, q, t, i - 1)
      BY <3>1, <3>2, <3>3 DEF Answering
    <3>6. Answerable(d, q, t, i - 1)'
      BY <1>1, <1>3, <2>1, <3>4, <3>5, AnswerAppend
    <3> QED
      BY <3>1, <3>6 DEF Answerable
  <2> QED
    BY <1>2, <2>4, <2>5 DEF LatencyHasNoGap
<1> QED
  BY <1>4, <1>5

\* An answer is measured from the request that asked for it, if from any.
LEMMA LatencyHandle ==
    ASSUME TorrentType, QueueType, ThreadType, RecordType, RecordType', KeyType, Table,
           LatencyInv, Handle
    PROVE  LatencyInv'
<1> USE DEF LatencyInv
<1>1. /\ Pending # <<>> /\ Pending' = Tail(Pending) /\ Pending \in Seq(Alert)
      /\ Len(Pending) \in Nat /\ Pending[1] \in Alert /\ Dispatch(Pending[1])
      /\ UNCHANGED <<lost, epoch, asked, up, opened, at, queue>> /\ at = "handle"
  BY HandleStream DEF Handle, torrent, alerts
<1>2. /\ Len(Tail(Pending)) = Len(Pending) - 1 /\ Len(Pending) # 0
      /\ \A i \in 1..(Len(Pending) - 1) : Tail(Pending)[i] = Pending[i + 1]
  BY <1>1, HeadTailProperties, EmptySeq
<1>3. StreamInv'
  BY <1>1 DEF StreamInv
<1>4. Asking'
  <2> SUFFICES ASSUME NEW e \in Endpoints, NEW p \in asked[e]
               PROVE  up[e] /\ (~lost => Answerable(e, p, Now(e), Len(Pending))')
    BY <1>1 DEF Asking
  <2>1. PICK t, n : t = Now(e) /\ n = Len(Pending)
    OBVIOUS
  <2>2. t = Now(e)' /\ n - 1 = Len(Pending)' /\ n \in 1..Len(Pending) /\ p \in Pieces
    BY <1>1, <1>2, <2>1 DEF Now, TorrentType
  <2>3. up[e] /\ (~lost => Answerable(e, p, t, n))
    BY <2>1 DEF Asking
  <2>4. ~lost => Answerable(e, p, t, n - 1)'
    BY <2>2, <2>3, AnswerTail
  <2> QED
    BY <2>2, <2>3, <2>4 DEF Answerable
<1>5. Answering'
  <2> SUFFICES ASSUME NEW i \in 1..Len(Pending'), Pending'[i].type = "response"
               PROVE  Answerable(Pending[i].endpoint, Pending[i].piece,
                                 Pending[i].tag, i - 1)'
    BY DEF Answering
  <2>1. PICK d, q, t : d = Pending'[i].endpoint /\ q = Pending'[i].piece /\ t = Pending'[i].tag
    OBVIOUS
  <2>2. PICK j : j = i + 1
    OBVIOUS
  <2>3. j \in 1..Len(Pending) /\ Pending'[i] = Pending[j] /\ j - 1 = i
        /\ j - 1 \in 1..Len(Pending) /\ j - 1 - 1 = i - 1
    BY <1>1, <1>2, <2>2
  <2>4. Pending[j] \in Alert /\ d \in Endpoints /\ q \in Pieces
    BY <1>1, <2>1, <2>3, ElementOfSeq, AlertFields DEF PeerAlerts
  <2>5. Answerable(d, q, t, j - 1)
    BY <2>1, <2>3 DEF Answering
  <2>6. Answerable(d, q, t, i - 1)'
    BY <2>3, <2>4, <2>5, AnswerTail
  <2> QED
    BY <2>1, <2>6 DEF Answerable
<1>6. LatencyHasNoGap'
  <2> DEFINE a == Pending[1]
  <2>1. CASE a.type = "response"
    <3>1. note_block_response(a)
      BY <1>1, <2>1 DEF Dispatch
    <3>2. Answerable(a.endpoint, a.piece, a.tag, 0)
      <4>1. 1 \in 1..Len(Pending) /\ 1 - 1 = 0
        BY <1>1, <1>2
      <4> QED
        BY <2>1, <4>1 DEF Answering
    <3>3. Out(a.endpoint, a.piece) \in {NoTag, a.tag}
      BY <3>2 DEF Answerable, Quiet
    <3>4. latencies' = latencies \/ latencies' = latencies \cup {[from |-> a.tag, to |-> a.tag]}
      BY <3>1, <3>3 DEF note_block_response, Measure, Out
    <3> QED
      BY <3>4 DEF LatencyHasNoGap
  <2>2. CASE a.type # "response"
    <3>1. latencies' = latencies
      BY <1>1, <2>2 DEF Dispatch, note_peer_connect, note_peer_disconnect, note_peer_error,
         note_request_sent, note_timeout, note_piece_finished, note_torrent_state,
         note_alert_loss
    <3> QED
      BY <3>1 DEF LatencyHasNoGap
  <2> QED
    BY <2>1, <2>2
<1> QED
  BY <1>3, <1>4, <1>5, <1>6

\* A snapshot may create a record; the end of the session clears some.
LEMMA OutKept ==
    ASSUME RecordType, RecordType', TorrentType, Snapshot \/ finalize,
           NEW e \in Endpoints, NEW p \in Pieces
    PROVE  Out(e, p)' \in {NoTag, Out(e, p)}
<1>1. /\ Peer(e) \in PeerStats
      /\ Peer(e) = IF active[e] # 0 THEN peers[e][active[e]] ELSE NewPeer
      /\ Peer(e)' = IF active'[e] # 0 THEN peers'[e][active'[e]] ELSE NewPeer
  BY EnsureType, PeerIs
<1>2. CASE Snapshot /\ up[e]
  <2> DEFINE found == ensure_peer_for_endpoint(e)
             x == [Peer(e) EXCEPT !.sampled = @ \cup {opened[e]}]
             new == [found.records EXCEPT ![found.key] = x]
  <2>1. x \in PeerStats /\ x.outstanding_requests = Peer(e).outstanding_requests
    BY <1>1 DEF PeerStats, TorrentType
  <2>2. peers'[e] = new /\ active'[e] = found.key
    BY <1>2 DEF Snapshot, Peer
  <2>3. found.key \in 1..Len(new) /\ new[found.key] = x /\ Len(new) \in Nat
    <3> HIDE DEF x
    <3> QED BY <2>1, StoredAt
  <2> HIDE DEF new, found
  <2>4. Peer(e)' = x
    BY <1>1, <2>2, <2>3
  <2> HIDE DEF x
  <2> QED
    BY <2>1, <2>4 DEF Out
<1>3. CASE Snapshot /\ ~up[e]
  <2>1. peers'[e] = peers[e] /\ active'[e] = active[e]
    BY <1>3 DEF Snapshot
  <2> QED
    BY <1>1, <2>1 DEF Out
<1>4. CASE finalize
  <2>1. /\ peers[e] \in Seq(PeerStats) /\ DOMAIN peers[e] = 1..Len(peers[e])
        /\ active[e] \in 0..Len(peers[e]) /\ Len(peers[e]) \in Nat /\ active'[e] = active[e]
    BY <1>4, LenProperties DEF RecordType, finalize
  <2>2. CASE active[e] = 0
    BY <1>1, <2>1, <2>2 DEF Out
  <2>3. CASE active[e] \in 1..Len(peers[e])
    <3> DEFINE r == peers[e][active[e]]
    <3>1. r \in PeerStats
      BY <2>1, <2>3, ElementOfSeq
    <3>2. Peer(e) = r /\ Peer(e)' = IF r.active_connection THEN note_disconnect(r) ELSE r
      BY <1>1, <1>4, <2>1, <2>3 DEF finalize
    <3> HIDE DEF r
    <3>3. note_disconnect(r).outstanding_requests[p] = NoTag
      BY <3>1, ClosedRecord DEF NothingOutstanding
    <3> QED
      BY <3>2, <3>3 DEF Out
  <2> QED
    BY <2>1, <2>2, <2>3
<1> QED
  BY <1>2, <1>3, <1>4

LEMMA LatencyStep ==
    ASSUME Registry, Registry', LatencyInv, [Next]_vars
    PROVE  LatencyInv'
<1>1. /\ TorrentType /\ QueueType /\ ThreadType /\ RecordType /\ KeyType
      /\ RecordType' /\ (at # "done" => Table)
  BY TypeParts DEF Registry, TypeOK, RecordType
<1>2. CASE Torrent
  BY <1>1, <1>2, LatencyTorrent
<1>3. CASE PopAlerts
  BY <1>1, <1>3, LatencyPop
<1>4. CASE Handle
  BY <1>1, <1>4, LatencyHandle DEF Handle
<1>5. CASE set_initial_totals \/ Check \/ Drained \/ UNCHANGED vars
  <2>1. /\ UNCHANGED <<torrent, alerts, peers, active, batch, latencies>>
        /\ at' = at \/ at \in {"added", "check"} \/ batch = <<>>
    BY <1>5 DEF set_initial_totals, Check, Drained, vars, thread, stats
  <2>2. StreamInv' /\ Pending' = Pending
    BY <2>1 DEF LatencyInv, StreamInv, alerts, Pending
  <2>3. \A e \in Endpoints : \A p \in Pieces : Out(e, p)' = Out(e, p)
    BY <2>1 DEF Out, Peer, ensure_peer_for_endpoint
  <2> QED
    BY <1>1, <2>1, <2>2, <2>3, LatencySame DEF torrent, alerts
<1>6. CASE Snapshot \/ finalize
  <2>1. /\ UNCHANGED <<torrent, alerts, batch, latencies>>
        /\ at # "handle"
    BY <1>6 DEF Snapshot, finalize
  <2>2. StreamInv' /\ Pending' = Pending
    BY <1>6, <2>1 DEF LatencyInv, StreamInv, alerts, Pending
  <2>3. \A e \in Endpoints : \A p \in Pieces : Out(e, p)' \in {NoTag, Out(e, p)}
    BY <1>1, <1>6, OutKept
  <2> QED
    BY <1>1, <2>1, <2>2, <2>3, LatencySame DEF torrent, alerts
<1> QED
  BY <1>2, <1>3, <1>4, <1>5, <1>6 DEF Next, Main

LEMMA LatencyHolds == Spec => []LatencyInv
<1>1. Init => LatencyInv
  <2> SUFFICES ASSUME Init PROVE LatencyInv
    OBVIOUS
  <2>1. Pending = <<>> /\ Len(<<>>) = 0
    <3>1. <<>> \in Seq(Alert)
      BY EmptySeq
    <3> QED
      BY <3>1, ConcatEmptySeq, EmptySeq DEF Init, Pending
  <2>2. StreamInv /\ Asking /\ LatencyHasNoGap
    BY DEF Init, StreamInv, Asking, LatencyHasNoGap
  <2>3. Answering
    BY <2>1 DEF Answering
  <2> QED
    BY <2>2, <2>3 DEF LatencyInv
<1>2. Registry /\ Registry' /\ LatencyInv /\ [Next]_vars => LatencyInv'
  BY LatencyStep
<1> QED
  BY <1>1, <1>2, RegistryHolds, PTL DEF Spec

\* However alerts are delayed, lost, overtaken by a snapshot or cut off by the end of
\* their connection, a latency is measured from a request to its answer over the same
\* connection and without a loss between them (peer_stats.cpp:164-175, 788-800).
THEOREM LatenciesHaveNoGap == Spec => []LatencyHasNoGap
<1>1. LatencyInv => LatencyHasNoGap
  BY DEF LatencyInv
<1> QED
  BY <1>1, LatencyHolds, PTL

-----------------------------------------------------------------------------
(* Credits. A piece is credited to the record that last_piece names, and    *)
(* that record has data of the connection the piece came from, because the  *)
(* last answer about it on its way, or else the last one handled, did.      *)

\* The records of e only gain data of connections, and no piece.
UncreditedAt(e) ==
    /\ Len(peers[e]) <= Len(peers'[e])
    /\ \A n \in 1..Len(peers[e]) : /\ peers[e][n].alerted \subseteq peers'[e][n].alerted
                                   /\ peers'[e][n].pieces = peers[e][n].pieces
    /\ \A n \in 1..Len(peers'[e]) : n > Len(peers[e]) => peers'[e][n].pieces = {}

LEMMA SameUncredited ==
    ASSUME RecordType, NEW e \in Endpoints, peers'[e] = peers[e]
    PROVE  UncreditedAt(e)
<1>1. Len(peers[e]) \in Nat
  BY LenProperties DEF RecordType
<1> QED
  BY <1>1 DEF UncreditedAt

LEMMA StoredUncredited ==
    ASSUME RecordType, NEW e \in Endpoints, NEW x \in PeerStats,
           Peer(e).alerted \subseteq x.alerted, x.pieces = Peer(e).pieces,
           peers'[e] = [ensure_peer_for_endpoint(e).records EXCEPT
                           ![ensure_peer_for_endpoint(e).key] = x]
    PROVE  UncreditedAt(e)
<1> DEFINE found == ensure_peer_for_endpoint(e)
<1>1. /\ Len(peers[e]) \in Nat /\ Len(peers'[e]) \in Nat
      /\ Len(peers[e]) <= Len(peers'[e])
      /\ found.key \in 1..Len(peers'[e]) /\ peers'[e][found.key] = x
      /\ \A n \in 1..Len(peers'[e]) :
             n # found.key => n \in 1..Len(peers[e]) /\ peers'[e][n] = peers[e][n]
      /\ found.key \in 1..Len(peers[e]) => Peer(e) = peers[e][found.key]
      /\ found.key \notin 1..Len(peers[e]) => Peer(e) = NewPeer
  BY StoredAt
<1>2. NewPeer.pieces = {}
  BY DEF NewPeer
<1> HIDE DEF found
<1>3. \A n \in 1..Len(peers[e]) : /\ peers[e][n].alerted \subseteq peers'[e][n].alerted
                                  /\ peers'[e][n].pieces = peers[e][n].pieces
  BY <1>1
<1>4. \A n \in 1..Len(peers'[e]) : n > Len(peers[e]) => peers'[e][n].pieces = {}
  BY <1>1, <1>2
<1> QED
  BY <1>1, <1>3, <1>4 DEF UncreditedAt

LEMMA SetPeerUncredited ==
    ASSUME RecordType, NEW d \in Endpoints, NEW x \in PeerStats,
           Peer(d).alerted \subseteq x.alerted, x.pieces = Peer(d).pieces,
           peers' = [peers EXCEPT ![d] = [ensure_peer_for_endpoint(d).records EXCEPT
                                             ![ensure_peer_for_endpoint(d).key] = x]],
           NEW e \in Endpoints
    PROVE  UncreditedAt(e)
<1>1. CASE e = d
  BY <1>1, StoredUncredited DEF RecordType
<1>2. CASE e # d
  <2>1. peers'[e] = peers[e]
    BY <1>2 DEF RecordType
  <2> QED
    BY <2>1, SameUncredited
<1> QED
  BY <1>1, <1>2

LEMMA MappedUncredited ==
    ASSUME RecordType, NEW e \in Endpoints, DOMAIN peers'[e] = DOMAIN peers[e],
           peers'[e] = [n \in DOMAIN peers[e] |-> peers'[e][n]],
           \A n \in 1..Len(peers[e]) : /\ peers'[e][n] \in PeerStats
                                       /\ peers'[e][n].alerted = peers[e][n].alerted
                                       /\ peers'[e][n].pieces = peers[e][n].pieces
    PROVE  UncreditedAt(e)
<1>1. /\ peers[e] \in Seq(PeerStats) /\ DOMAIN peers[e] = 1..Len(peers[e])
      /\ Len(peers[e]) \in Nat
  BY LenProperties DEF RecordType
<1>2. Len(peers'[e]) = Len(peers[e])
  BY <1>1, ChangeAll
<1>3. \A n \in 1..Len(peers'[e]) : ~(n > Len(peers[e]))
  BY <1>1, <1>2
<1>4. Len(peers[e]) <= Len(peers'[e])
  BY <1>1, <1>2
<1>5. \A n \in 1..Len(peers[e]) : peers[e][n].alerted \subseteq peers'[e][n].alerted
  OBVIOUS
<1> QED
  BY <1>3, <1>4, <1>5 DEF UncreditedAt

\* What an alert about a peer does to the data of the record it is about.
LEMMA EventAlerted ==
    ASSUME RecordType, NEW a, a.endpoint \in Endpoints, a.piece \in Pieces, a.tag \in Tag
    PROVE  LET peer == note_peer_event(a)
               old == Peer(a.endpoint)
               Same(r) == r.alerted = old.alerted \cup ({a.tag.conn} \ {0})
                          /\ r.pieces = old.pieces
           IN
           /\ Same(peer) /\ Same(Connected(a)) /\ Same(Answered(a))
           /\ Same([peer EXCEPT !.outstanding_requests[a.piece] = a.tag])
           /\ Same(note_disconnect(peer))
<1> DEFINE old == Peer(a.endpoint)
           peer == note_peer_event(a)
           Same(r) == r.alerted = old.alerted \cup ({a.tag.conn} \ {0})
                      /\ r.pieces = old.pieces
<1>1. old \in PeerStats
  BY EnsureType
<1>2. peer = [old EXCEPT !.alerted = @ \cup ({a.tag.conn} \ {0})]
  BY DEF note_peer_event
<1>3. peer \in PeerStats /\ Same(peer)
  <2> HIDE DEF old, peer
  <2> QED BY <1>1, <1>2 DEF PeerStats, Tag
<1> HIDE DEF old, peer
<1>4. Same([peer EXCEPT !.outstanding_requests[a.piece] = a.tag])
  BY <1>3 DEF PeerStats
<1>5. Same([peer EXCEPT !.active_connection = TRUE, !.saw_connect_alert = TRUE])
  BY <1>3 DEF PeerStats
<1>6. Same([peer EXCEPT !.outstanding_requests[a.piece] = NoTag])
  BY <1>3 DEF PeerStats
<1>7. Same(note_disconnect(peer))
  BY <1>3, ClosedRecord
<1> QED
  BY <1>3, <1>4, <1>5, <1>6, <1>7 DEF old, peer, Connected, Answered

LEMMA DispatchUncredited ==
    ASSUME RecordType, KeyType, Table, NEW a \in Alert, Dispatch(a), NEW e \in Endpoints
    PROVE  \/ UncreditedAt(e)
           \/ a.type = "piece_finished" /\ a.piece \in Pieces /\ Credit(a.piece)
<1>1. CASE a.type \in PeerAlerts
  <2> DEFINE found == ensure_peer_for_endpoint(a.endpoint)
             seen == note_peer_event(a)
             asking == [seen EXCEPT !.outstanding_requests[a.piece] = a.tag]
  <2>1. a.endpoint \in Endpoints /\ a.piece \in Pieces /\ a.tag \in Tag
    BY <1>1, AlertFields
  <2>2. /\ seen \in PeerStats /\ Connected(a) \in PeerStats /\ Answered(a) \in PeerStats
        /\ asking \in PeerStats /\ note_disconnect(seen) \in PeerStats
    BY <2>1, EventType
  <2>3. \A x \in {seen, Connected(a), Answered(a), asking, note_disconnect(seen)} :
           Peer(a.endpoint).alerted \subseteq x.alerted /\ x.pieces = Peer(a.endpoint).pieces
    BY <2>1, EventAlerted
  <2> HIDE DEF seen, asking
  <2>4. PICK x \in {seen, Connected(a), Answered(a), asking, note_disconnect(seen)} :
           peers' = [peers EXCEPT ![a.endpoint] = [found.records EXCEPT ![found.key] = x]]
    BY <1>1 DEF Dispatch, PeerAlerts, SetPeer, note_peer_connect, note_peer_disconnect,
       note_peer_error, note_request_sent, note_block_response, note_timeout, seen, asking
  <2>5. x \in PeerStats
    BY <2>2
  <2> QED
    BY <2>1, <2>3, <2>4, <2>5, SetPeerUncredited
<1>2. CASE a.type = "piece_finished"
  <2>1. a.piece \in Pieces
    BY <1>2, AlertFields
  <2>2. Credit(a.piece) \/ peers' = peers
    BY <1>2 DEF Dispatch, note_piece_finished
  <2> QED
    BY <1>2, <2>1, <2>2, SameUncredited
<1>3. CASE a.type = "state_changed"
  BY <1>3, SameUncredited DEF Dispatch, note_torrent_state
<1>4. CASE a.type = "alerts_dropped"
  <2>1. peers' = ResetOutstanding
    BY <1>4 DEF Dispatch, note_alert_loss
  <2>2. peers[e] \in Seq(PeerStats) /\ DOMAIN peers[e] = 1..Len(peers[e])
    BY LenProperties DEF RecordType
  <2>3. peers'[e] = [n \in DOMAIN peers[e] |->
                        [peers[e][n] EXCEPT !.outstanding_requests = NothingOutstanding]]
    BY <2>1 DEF ResetOutstanding
  <2>4. \A n \in 1..Len(peers[e]) : peers[e][n] \in PeerStats
    BY <2>2, ElementOfSeq
  <2>5. \A n \in 1..Len(peers[e]) : /\ peers'[e][n] \in PeerStats
                                    /\ peers'[e][n].alerted = peers[e][n].alerted
                                    /\ peers'[e][n].pieces = peers[e][n].pieces
    BY <2>2, <2>3, <2>4, ResetRecord
  <2>6. DOMAIN peers'[e] = DOMAIN peers[e]
        /\ peers'[e] = [n \in DOMAIN peers[e] |-> peers'[e][n]]
    BY <2>3
  <2> QED
    BY <2>5, <2>6, MappedUncredited
<1> QED
  BY <1>1, <1>2, <1>3, <1>4 DEF Dispatch, PeerAlerts

LEMMA OtherUncredited ==
    ASSUME RecordType, TorrentType, Snapshot \/ finalize, NEW e \in Endpoints
    PROVE  UncreditedAt(e)
<1>1. CASE Snapshot /\ up[e]
  <2> DEFINE found == ensure_peer_for_endpoint(e)
             x == [Peer(e) EXCEPT !.sampled = @ \cup {opened[e]}]
  <2>1. Peer(e) \in PeerStats
    BY EnsureType
  <2>2. /\ x \in PeerStats /\ x.alerted = Peer(e).alerted /\ x.pieces = Peer(e).pieces
    BY <2>1 DEF PeerStats, TorrentType
  <2>3. peers'[e] = [found.records EXCEPT ![found.key] = x]
    BY <1>1 DEF Snapshot, Peer
  <2> HIDE DEF x
  <2> QED
    BY <2>2, <2>3, StoredUncredited
<1>2. CASE Snapshot /\ ~up[e]
  <2>1. peers'[e] = peers[e]
    BY <1>2 DEF Snapshot
  <2> QED
    BY <2>1, SameUncredited
<1>3. CASE finalize
  <2>1. peers[e] \in Seq(PeerStats) /\ DOMAIN peers[e] = 1..Len(peers[e])
    BY LenProperties DEF RecordType
  <2>2. peers'[e] = [n \in DOMAIN peers[e] |-> IF peers[e][n].active_connection
                                               THEN note_disconnect(peers[e][n])
                                               ELSE peers[e][n]]
    BY <1>3 DEF finalize
  <2>3. \A n \in 1..Len(peers[e]) : peers[e][n] \in PeerStats
    BY <2>1, ElementOfSeq
  <2>4. \A n \in 1..Len(peers[e]) : /\ peers'[e][n] \in PeerStats
                                    /\ peers'[e][n].alerted = peers[e][n].alerted
                                    /\ peers'[e][n].pieces = peers[e][n].pieces
    BY <2>1, <2>2, <2>3, ClosedRecord
  <2>5. DOMAIN peers'[e] = DOMAIN peers[e]
        /\ peers'[e] = [n \in DOMAIN peers[e] |-> peers'[e][n]]
    BY <2>2
  <2> QED
    BY <2>4, <2>5, MappedUncredited
<1> QED
  BY <1>1, <1>2, <1>3

\* What holds of the connections and of the pieces whatever the program does.
DownloadInv ==
    /\ \A e \in Endpoints : up[e] => opened[e] > 0
    /\ \A e \in Endpoints : \A p \in asked[e] : network /\ (p \in have => sender[p] # NoPeer)
    /\ \A p \in Pieces : sender[p] # NoPeer => network

\* A piece that is there has been sent by the connection that sent it for good.
LEMMA DownloadStep ==
    ASSUME TorrentType, DownloadInv, Torrent
    PROVE  /\ DownloadInv'
           /\ have \subseteq have' /\ (network => network')
           /\ \A p \in have : sender'[p] = sender[p]
<1>1. ASSUME NEW e \in Endpoints, Open(e) \/ Close(e) \/ OpenFails(e) \/ PeerError(e)
      PROVE  /\ UNCHANGED <<have, sender, network>>
             /\ \A d \in Endpoints : /\ asked'[d] \subseteq asked[d]
                                     /\ up'[d] => opened'[d] > 0
  BY <1>1 DEF Open, Close, OpenFails, PeerError, torrent, TorrentType, DownloadInv
<1>2. ASSUME NEW e \in Endpoints, NEW p \in Pieces, TimeOut(e, p)
      PROVE  /\ UNCHANGED <<opened, up, have, sender, network>>
             /\ \A d \in Endpoints : asked'[d] \subseteq asked[d]
  BY <1>2 DEF TimeOut, TorrentType
<1>3. ASSUME NEW e \in Endpoints, NEW p \in Pieces, Request(e, p)
      PROVE  /\ UNCHANGED <<opened, up, have, sender, network>>
             /\ \A d \in Endpoints : asked'[d] \subseteq asked[d] \cup {p}
             /\ network /\ p \notin have
  BY <1>3 DEF Request, TorrentType
<1>4. ASSUME NEW e \in Endpoints, NEW p \in Pieces, Respond(e, p)
      PROVE  /\ UNCHANGED <<opened, up, have, network>> /\ network /\ p \notin have
             /\ sender'[p] # NoPeer
             /\ \A q \in Pieces : q # p => sender'[q] = sender[q]
             /\ \A d \in Endpoints : asked'[d] \subseteq asked[d]
  BY <1>4 DEF Respond, TorrentType, DownloadInv, NoPeer
<1>5. ASSUME NEW p \in Pieces, HashFails(p)
      PROVE  /\ UNCHANGED <<opened, up, asked, have, network>> /\ p \notin have
             /\ sender'[p] = NoPeer
             /\ \A q \in Pieces : q # p => sender'[q] = sender[q]
  BY <1>5 DEF HashFails, TorrentType
<1>6. ASSUME NEW p \in Pieces, PieceFinished(p) \/ PieceVerified(p)
      PROVE  /\ UNCHANGED <<opened, up, asked, sender, network>> /\ have' = have \cup {p}
             /\ sender[p] # NoPeer \/ ~network
  BY <1>6 DEF PieceFinished, PieceVerified
<1>7. ASSUME StateChanged
      PROVE  UNCHANGED <<opened, up, asked, have, sender>> /\ network'
  BY <1>7 DEF StateChanged
<1>8. \A e \in Endpoints : asked[e] \subseteq Pieces
  BY DEF TorrentType
<1>9. CASE \E e \in Endpoints : Open(e) \/ Close(e) \/ OpenFails(e) \/ PeerError(e)
  <2>1. /\ UNCHANGED <<have, sender, network>>
        /\ \A d \in Endpoints : asked'[d] \subseteq asked[d] /\ (up'[d] => opened'[d] > 0)
    BY <1>1, <1>9
  <2> QED
    BY <2>1 DEF DownloadInv
<1>10. CASE \E e \in Endpoints, p \in Pieces : TimeOut(e, p)
  <2>1. /\ UNCHANGED <<opened, up, have, sender, network>>
        /\ \A d \in Endpoints : asked'[d] \subseteq asked[d]
    BY <1>2, <1>10
  <2> QED
    BY <2>1 DEF DownloadInv
<1>11. CASE \E e \in Endpoints, p \in Pieces : Request(e, p)
  <2>1. PICK p \in Pieces : /\ UNCHANGED <<opened, up, have, sender, network>>
                            /\ \A d \in Endpoints : asked'[d] \subseteq asked[d] \cup {p}
                            /\ network /\ p \notin have
    BY <1>3, <1>11
  <2> QED
    BY <2>1 DEF DownloadInv
<1>12. CASE \E e \in Endpoints, p \in Pieces : Respond(e, p)
  <2>1. PICK p \in Pieces : /\ UNCHANGED <<opened, up, have, network>> /\ network /\ p \notin have
                            /\ sender'[p] # NoPeer
                            /\ \A q \in Pieces : q # p => sender'[q] = sender[q]
                            /\ \A d \in Endpoints : asked'[d] \subseteq asked[d]
    BY <1>4, <1>12
  <2> QED
    BY <1>8, <2>1 DEF DownloadInv, TorrentType
<1>13. CASE \E p \in Pieces : HashFails(p)
  <2>1. PICK p \in Pieces : /\ UNCHANGED <<opened, up, asked, have, network>> /\ p \notin have
                            /\ sender'[p] = NoPeer
                            /\ \A q \in Pieces : q # p => sender'[q] = sender[q]
    BY <1>5, <1>13
  <2> QED
    BY <1>8, <2>1 DEF DownloadInv, TorrentType
<1>14. CASE \E p \in Pieces : PieceFinished(p) \/ PieceVerified(p)
  <2>1. PICK p \in Pieces : /\ UNCHANGED <<opened, up, asked, sender, network>>
                            /\ have' = have \cup {p} /\ (sender[p] # NoPeer \/ ~network)
    BY <1>6, <1>14
  <2> QED
    BY <2>1 DEF DownloadInv
<1>15. CASE StateChanged
  BY <1>7, <1>15 DEF DownloadInv
<1> QED
  BY <1>9, <1>10, <1>11, <1>12, <1>13, <1>14, <1>15 DEF Torrent

\* Alerts that decide which record piece p is credited to.
Sends(p) ==
    {a \in Alert : a.type = "alerts_dropped" \/ (a.type = "response" /\ a.piece = p)}

From(source) == {a \in Alert : a.type = "response" => <<a.endpoint, a.tag.conn>> = source}

\* The record a piece is credited to has data of the connection it came from.
LastRight(p) ==
    last_piece[p] # NoPeer =>
        \E c \in peers[last_piece[p][1]][last_piece[p][2]].alerted :
            sender[p] = <<last_piece[p][1], c>>

\* It will be so when the first i alerts have been handled.
Traced(p, i) ==
    /\ LastIn(Sends(p), From(sender[p]), Pending, i)
    /\ Quiet(Sends(p), Pending, i) => LastRight(p)

Owned == \A e \in Endpoints : \A n \in 1..Len(peers[e]) : peers[e][n].pieces \subseteq have

Sending == \A p \in Pieces : sender[p] # NoPeer /\ ~lost => Traced(p, Len(Pending))

Finishing ==
    \A i \in 1..Len(Pending) :
        Pending[i].type = "piece_finished" =>
            Pending[i].piece \in have /\ Traced(Pending[i].piece, i - 1)

Responding ==
    /\ \A i \in 1..Len(Pending) : Pending[i].type = "response" => network /\ Pending[i].tag.conn # 0
    /\ \A p \in Pieces : last_piece[p] # NoPeer => network

CreditInv == DownloadInv /\ Owned /\ Sending /\ Finishing /\ Responding /\ CreditIsEarned

LEMMA TracedAppend ==
    ASSUME QueueType, ThreadType, NEW a \in Alert, Pending' = Append(Pending, a),
           NEW p \in Pieces
    PROVE  /\ sender'[p] = sender[p] /\ (LastRight(p) => LastRight(p)') =>
                  /\ \A i \in 0..Len(Pending) : Traced(p, i) => Traced(p, i)'
                  /\ Traced(p, Len(Pending)) /\ (a \in Sends(p) => a \in From(sender[p]))
                         => Traced(p, Len(Pending))'
           /\ a \in Sends(p) /\ a \in From(sender'[p]) => Traced(p, Len(Pending))'
<1>1. Pending \in Seq(Alert) /\ Len(Pending) \in Nat
  BY PendingType
<1>2. Len(Pending)' = Len(Pending) + 1
  BY <1>1, AppendProperties
<1>3. PICK s : s = sender'[p]
  OBVIOUS
<1> DEFINE E == Sends(p)
           G == From(s)
           n == Len(Pending)
<1>4. /\ Traced(p, n)' <=> /\ LastIn(E, G, Pending', n + 1)
                           /\ Quiet(E, Pending', n + 1) => LastRight(p)'
      /\ \A i \in 0..n : Traced(p, i)' <=> /\ LastIn(E, G, Pending', i)
                                           /\ Quiet(E, Pending', i) => LastRight(p)'
      /\ sender'[p] = sender[p] =>
             \A i \in 0..n : Traced(p, i) <=> /\ LastIn(E, G, Pending, i)
                                              /\ Quiet(E, Pending, i) => LastRight(p)
  BY <1>2, <1>3 DEF Traced
<1> HIDE DEF E, G
<1>5. /\ \A i \in 0..n : /\ LastIn(E, G, Pending, i) => LastIn(E, G, Pending', i)
                         /\ Quiet(E, Pending', i) => Quiet(E, Pending, i)
      /\ LastIn(E, G, Pending, n) /\ (a \in E => a \in G) => LastIn(E, G, Pending', n + 1)
      /\ a \in E /\ a \in G => LastIn(E, G, Pending', n + 1)
      /\ Quiet(E, Pending', n + 1) => a \notin E /\ Quiet(E, Pending, n)
  BY <1>1, AppendSince
<1>6. ASSUME sender'[p] = sender[p], LastRight(p) => LastRight(p)',
             NEW i \in 0..n, Traced(p, i)
      PROVE  Traced(p, i)'
  BY <1>4, <1>5, <1>6
<1>7. ASSUME sender'[p] = sender[p], LastRight(p) => LastRight(p)', Traced(p, n),
             a \in E => a \in G
      PROVE  Traced(p, Len(Pending))'
  <2>1. n \in 0..n
    BY <1>1
  <2> QED
    BY <1>4, <1>5, <1>7, <2>1
<1>8. a \in E /\ a \in G => Traced(p, Len(Pending))'
  BY <1>4, <1>5
<1> QED
  BY <1>3, <1>6, <1>7, <1>8 DEF E, G

LEMMA TracedSame ==
    ASSUME Pending' = Pending, NEW p \in Pieces, sender'[p] = sender[p],
           LastRight(p) => LastRight(p)', NEW i, Traced(p, i)
    PROVE  Traced(p, i)'
<1>1. PICK s : s = sender[p]
  OBVIOUS
<1>2. LastIn(Sends(p), From(s), Pending, i) /\ (Quiet(Sends(p), Pending, i) => LastRight(p))
  BY <1>1 DEF Traced
<1>3. s = sender'[p]
  BY <1>1
<1> QED
  BY <1>2, <1>3 DEF Traced

\* Nothing but an answer or a loss changes which record a piece is credited to.
LEMMA LastRightKept ==
    ASSUME RecordType, KeyType, NEW p \in Pieces, last_piece'[p] = last_piece[p],
           sender'[p] = sender[p], LastRight(p),
           \A e \in Endpoints : \A n \in 1..Len(peers[e]) :
               peers[e][n].alerted \subseteq peers'[e][n].alerted
    PROVE  LastRight(p)'
<1>1. last_piece[p] # NoPeer => /\ last_piece[p][1] \in Endpoints
                                /\ last_piece[p][2] \in 1..Len(peers[last_piece[p][1]])
  BY DEF KeyType
<1> QED
  BY <1>1 DEF LastRight

LEMMA CreditLen ==
    ASSUME RecordType, KeyType, NEW p \in Pieces, Credit(p), NEW e \in Endpoints
    PROVE  Len(peers'[e]) = Len(peers[e])
<1>1. CASE last_piece[p] = NoPeer
  BY <1>1 DEF Credit
<1>2. CASE last_piece[p] # NoPeer
  <2> DEFINE d == last_piece[p][1]
             m == last_piece[p][2]
             x == [peers[d][m] EXCEPT !.pieces = @ \cup {p}]
             new == [peers[d] EXCEPT ![m] = x]
  <2>1. d \in Endpoints /\ m \in 1..Len(peers[d]) /\ peers[d] \in Seq(PeerStats)
    BY <1>2 DEF KeyType, RecordType
  <2>2. peers[d][m] \in PeerStats
    BY <2>1, ElementOfSeq
  <2>3. peers' = [peers EXCEPT ![d] = new]
    BY <1>2 DEF Credit
  <2>4. x \in PeerStats
    BY <2>2 DEF PeerStats
  <2> HIDE DEF x, d, m
  <2>5. Len(new) = Len(peers[d])
    BY <2>1, <2>4, ChangeOne
  <2> HIDE DEF new
  <2> QED
    BY <2>1, <2>3, <2>5 DEF RecordType
<1> QED
  BY <1>1, <1>2

LEMMA DispatchAlerted ==
    ASSUME RecordType, KeyType, Table, NEW a \in Alert, Dispatch(a), NEW e \in Endpoints,
           NEW n \in 1..Len(peers[e])
    PROVE  peers[e][n].alerted \subseteq peers'[e][n].alerted
BY DispatchUncredited, CreditOut DEF UncreditedAt

LEMMA DispatchLast ==
    ASSUME RecordType, RecordType', KeyType, Table, NEW a \in Alert, Dispatch(a),
           a.type = "response" => a.tag.conn # 0, UNCHANGED sender, NEW p \in Pieces
    PROVE  /\ a \in Sends(p) /\ a \in From(sender[p]) => LastRight(p)'
           /\ a \notin Sends(p) /\ LastRight(p) => LastRight(p)'
<1>1. CASE a.type = "alerts_dropped"
  <2>1. last_piece'[p] = NoPeer /\ a \in Sends(p)
    BY <1>1 DEF Dispatch, note_alert_loss, Sends
  <2> QED
    BY <2>1 DEF LastRight
<1>2. CASE a.type = "response" /\ a.piece = p
  <2> DEFINE e == a.endpoint
             found == ensure_peer_for_endpoint(e)
             c == a.tag.conn
             x == Answered(a)
             new == [found.records EXCEPT ![found.key] = x]
  <2>1. e \in Endpoints /\ a.piece \in Pieces /\ a.tag \in Tag
    BY <1>2, AlertFields DEF PeerAlerts
  <2>2. /\ SetPeer(e, x)
        /\ last_piece' = [last_piece EXCEPT ![p] = <<e, found.key>>]
    BY <1>2 DEF Dispatch, note_block_response
  <2>3. x \in PeerStats
    BY <2>1, EventType
  <2>4. c \in x.alerted
    <3>1. x.alerted = Peer(e).alerted \cup ({c} \ {0})
      BY <2>1, EventAlerted
    <3> QED
      BY <1>2, <3>1
  <2>5. peers' = [peers EXCEPT ![e] = new]
    BY <2>2 DEF SetPeer
  <2> HIDE DEF x
  <2>6. new[found.key] = x
    BY <2>1, <2>3, StoredAt
  <2> HIDE DEF new, found
  <2>7. last_piece'[p] = <<e, found.key>> /\ peers'[e][found.key] = x
    BY <2>1, <2>2, <2>5, <2>6 DEF KeyType, RecordType
  <2>8. a \in Sends(p) /\ (a \in From(sender[p]) => sender'[p] = <<e, c>>)
    BY <1>2 DEF Sends, From
  <2> QED
    BY <2>4, <2>7, <2>8 DEF LastRight
<1>3. CASE a \notin Sends(p)
  <2>1. last_piece'[p] = last_piece[p]
    <3>1. ~(a.type = "alerts_dropped") /\ ~(a.type = "response" /\ a.piece = p)
      BY <1>3 DEF Sends
    <3>2. CASE a.type = "response"
      <4>1. a.piece # p
        BY <3>1, <3>2
      <4>2. last_piece' = [last_piece EXCEPT
                ![a.piece] = <<a.endpoint, ensure_peer_for_endpoint(a.endpoint).key>>]
        BY <3>2 DEF Dispatch, note_block_response
      <4> QED
        BY <4>1, <4>2 DEF KeyType
    <3>3. CASE a.type # "response"
      BY <3>1, <3>3 DEF Dispatch, note_peer_connect, note_peer_disconnect, note_peer_error,
         note_request_sent, note_timeout, note_piece_finished, note_torrent_state
    <3> QED
      BY <3>2, <3>3
  <2>2. \A e \in Endpoints : \A n \in 1..Len(peers[e]) :
            peers[e][n].alerted \subseteq peers'[e][n].alerted
    BY DispatchAlerted
  <2> QED
    BY <1>3, <2>1, <2>2, LastRightKept
<1> QED
  BY <1>1, <1>2, <1>3 DEF Sends

LEMMA TracedTail ==
    ASSUME QueueType, ThreadType, RecordType, RecordType', KeyType, Table, Handle, Responding,
           NEW p \in Pieces, NEW i \in 1..Len(Pending), Traced(p, i)
    PROVE  Traced(p, i - 1)'
<1> DEFINE E == Sends(p)
           G == From(sender[p])
           a == Pending[1]
<1>1. /\ Pending # <<>> /\ Pending' = Tail(Pending) /\ Pending \in Seq(Alert)
      /\ Len(Pending) \in Nat /\ a \in Alert /\ Dispatch(a) /\ UNCHANGED sender
  BY HandleStream DEF torrent
<1>2. 1 \in 1..Len(Pending)
  BY <1>1
<1>3. a.type = "response" => a.tag.conn # 0
  BY <1>2 DEF Responding
<1>4. /\ a \in E /\ a \in G => LastRight(p)'
      /\ a \notin E /\ LastRight(p) => LastRight(p)'
  BY <1>1, <1>3, DispatchLast
<1>5. PICK s : s = sender[p]
  OBVIOUS
<1>6. /\ LastIn(E, From(s), Pending, i) /\ (Quiet(E, Pending, i) => LastRight(p))
      /\ G = From(s)
  BY <1>5 DEF Traced
<1> HIDE DEF E, G, a
<1>7. /\ LastIn(E, From(s), Pending, i) => LastIn(E, From(s), Tail(Pending), i - 1)
      /\ Quiet(E, Tail(Pending), i - 1) =>
             /\ Pending[1] \notin E => Quiet(E, Pending, i)
             /\ Pending[1] \in E /\ LastIn(E, From(s), Pending, i) => Pending[1] \in From(s)
  BY <1>1, TailSince
<1>8. LastIn(E, From(s), Pending', i - 1)
  BY <1>1, <1>6, <1>7
<1>9. Quiet(E, Pending', i - 1) => LastRight(p)'
  BY <1>1, <1>4, <1>6, <1>7 DEF a
<1>10. s = sender'[p]
  BY <1>1, <1>5
<1> QED
  BY <1>8, <1>9, <1>10 DEF Traced, E

\* When nothing is credited, what was earned stays so.
LEMMA EarnedKept ==
    ASSUME RecordType, RecordType', Owned, CreditIsEarned, have \subseteq have',
           \A p \in have : sender'[p] = sender[p], \A e \in Endpoints : UncreditedAt(e)
    PROVE  Owned' /\ CreditIsEarned'
<1> SUFFICES ASSUME NEW e \in Endpoints, NEW n \in 1..Len(peers'[e]),
                    NEW p \in peers'[e][n].pieces
             PROVE  p \in have' /\ \E c \in peers'[e][n].alerted : sender'[p] = <<e, c>>
  BY DEF Owned, CreditIsEarned
<1>1. Len(peers[e]) \in Nat /\ Len(peers'[e]) \in Nat
  BY LenProperties DEF RecordType
<1>2. n \in 1..Len(peers[e])
  BY <1>1 DEF UncreditedAt
<1>3. p \in peers[e][n].pieces /\ peers[e][n].alerted \subseteq peers'[e][n].alerted
  BY <1>2 DEF UncreditedAt
<1>4. p \in have
  BY <1>2, <1>3 DEF Owned
<1> QED
  BY <1>2, <1>3, <1>4 DEF CreditIsEarned

LEMMA CreditPost ==
    ASSUME TorrentType, QueueType, ThreadType, RecordType, StreamInv, CreditInv,
           NEW a \in Alert, Post(a), UNCHANGED <<thread, stats>>,
           DownloadInv', have \subseteq have', network => network',
           \A p \in have : sender'[p] = sender[p],
           \A p \in Pieces : /\ sender'[p] = sender[p] \/ a \in Sends(p)
                             /\ a \in Sends(p) => a \in From(sender'[p]),
           a.type = "piece_finished" => /\ a.piece \in have' /\ sender'[a.piece] = sender[a.piece]
                                        /\ ~lost => Traced(a.piece, Len(Pending)),
           a.type = "response" => network' /\ a.tag.conn # 0
    PROVE  CreditInv'
<1> USE DEF CreditInv
<1>1. Pending \in Seq(Alert) /\ Len(Pending) \in Nat
  BY PendingType
<1>2. UNCHANGED <<peers, last_piece>>
  BY DEF stats
<1>3. \A p \in Pieces : sender'[p] = sender[p] /\ LastRight(p) => LastRight(p)'
  BY <1>2 DEF LastRight
<1>4. Owned' /\ CreditIsEarned'
  <2>1. RecordType' /\ \A e \in Endpoints : UncreditedAt(e)
    BY <1>2, SameUncredited DEF RecordType, stats
  <2> QED
    BY <2>1, EarnedKept
<1>5. \/ ~lost /\ ~lost' /\ Pending' = Append(Pending, a)
      \/ lost' /\ Pending' = Pending
  BY PostStream DEF thread
<1>6. ASSUME NEW i \in 1..Len(Pending), Pending[i].type = "piece_finished"
      PROVE  /\ Pending[i].piece \in have /\ Pending[i].piece \in Pieces
             /\ Traced(Pending[i].piece, i - 1)
             /\ sender'[Pending[i].piece] = sender[Pending[i].piece]
             /\ i - 1 \in 0..Len(Pending)
  BY <1>1, <1>6 DEF Finishing, TorrentType
<1>7. CASE ~lost /\ ~lost' /\ Pending' = Append(Pending, a)
  <2>1. /\ Len(Pending') = Len(Pending) + 1 /\ Pending'[Len(Pending) + 1] = a
        /\ \A j \in 1..Len(Pending) : Pending'[j] = Pending[j]
    BY <1>1, <1>7, AppendProperties
  <2>2. Sending'
    <3> SUFFICES ASSUME NEW p \in Pieces, sender'[p] # NoPeer
                 PROVE  Traced(p, Len(Pending))'
      BY DEF Sending
    <3>1. CASE a \in Sends(p)
      BY <1>7, <3>1, TracedAppend
    <3>2. CASE a \notin Sends(p)
      <4>1. sender'[p] = sender[p] /\ (LastRight(p) => LastRight(p)')
        BY <1>3, <3>2
      <4>2. Traced(p, Len(Pending))
        BY <1>7, <4>1 DEF Sending
      <4> QED
        BY <1>7, <3>2, <4>1, <4>2, TracedAppend
    <3> QED
      BY <3>1, <3>2
  <2>3. Finishing'
    <3> SUFFICES ASSUME NEW i \in 1..Len(Pending'), Pending'[i].type = "piece_finished"
                 PROVE  Pending'[i].piece \in have' /\ Traced(Pending[i].piece, i - 1)'
      BY DEF Finishing
    <3>1. PICK q : q = Pending'[i].piece
      OBVIOUS
    <3>2. /\ q \in have' /\ q \in Pieces /\ sender'[q] = sender[q]
          /\ i - 1 \in 0..Len(Pending) /\ Traced(q, i - 1)
      <4>1. CASE i \in 1..Len(Pending)
        BY <1>6, <2>1, <3>1, <4>1
      <4>2. CASE i = Len(Pending) + 1
        <5>1. a.type = "piece_finished" /\ q = a.piece
          BY <2>1, <3>1, <4>2
        <5>2. i - 1 = Len(Pending) /\ a.piece \in Pieces
          BY <1>1, <4>2, <5>1, AlertFields
        <5> QED
          BY <1>1, <1>7, <5>1, <5>2
      <4> QED
        BY <1>1, <2>1, <4>1, <4>2
    <3>3. Traced(q, i - 1)'
      BY <1>3, <1>7, <3>2, TracedAppend
    <3> QED
      BY <3>1, <3>2, <3>3 DEF Traced
  <2>4. Responding'
    <3>1. ASSUME NEW i \in 1..Len(Pending'), Pending'[i].type = "response"
          PROVE  network' /\ Pending'[i].tag.conn # 0
      <4>1. CASE i \in 1..Len(Pending)
        BY <2>1, <3>1, <4>1 DEF Responding
      <4>2. CASE i = Len(Pending) + 1
        BY <2>1, <3>1, <4>2
      <4> QED
        BY <1>1, <2>1, <4>1, <4>2
    <3> QED
      BY <1>2, <3>1 DEF Responding
  <2> QED
    BY <1>4, <2>2, <2>3, <2>4
<1>8. CASE lost' /\ Pending' = Pending
  <2>1. Sending'
    BY <1>8 DEF Sending
  <2>2. Finishing'
    <3> SUFFICES ASSUME NEW i \in 1..Len(Pending), Pending[i].type = "piece_finished"
                 PROVE  Pending[i].piece \in have' /\ Traced(Pending[i].piece, i - 1)'
      BY <1>8 DEF Finishing
    <3>1. PICK q : q = Pending[i].piece
      OBVIOUS
    <3>2. Traced(q, i - 1)'
      BY <1>3, <1>6, <1>8, <3>1, TracedSame
    <3> QED
      BY <1>6, <1>8, <3>1, <3>2 DEF Traced
  <2>3. Responding'
    BY <1>2, <1>8 DEF Responding
  <2> QED
    BY <1>4, <2>1, <2>2, <2>3
<1> QED
  BY <1>5, <1>7, <1>8

LEMMA CreditTorrent ==
    ASSUME TorrentType, QueueType, ThreadType, RecordType, LatencyInv, CreditInv, Torrent
    PROVE  CreditInv'
<1>0. /\ AnyPiece \in Pieces /\ StreamInv
      /\ UNCHANGED <<thread, stats>> /\ DownloadInv' /\ have \subseteq have'
      /\ network => network'
      /\ \A p \in have : sender'[p] = sender[p]
      /\ \A e \in Endpoints : opened[e] \in Nat
  <2>1. DownloadInv' /\ have \subseteq have' /\ (network => network')
        /\ \A p \in have : sender'[p] = sender[p]
    BY DownloadStep DEF CreditInv
  <2> QED
    BY <2>1, RegistryAssumption DEF AnyPiece, Torrent, TorrentType, LatencyInv
<1>1. ASSUME NEW type \in PeerAlerts \ {"response"}, NEW e \in Endpoints, NEW q \in Pieces,
             NEW conn \in Nat, PostPeer(type, e, q, conn), sender' = sender
      PROVE  CreditInv'
  <2> DEFINE a == [type |-> type, endpoint |-> e, piece |-> q,
                   tag |-> [conn |-> conn, epoch |-> epoch]]
  <2>1. a \in Alert /\ Post(a)
    BY <1>1 DEF PostPeer, Alert, Tag, QueueType
  <2>2. a.type \notin {"response", "piece_finished", "alerts_dropped"}
    BY DEF PeerAlerts
  <2> HIDE DEF a
  <2>3. \A p \in Pieces : a \notin Sends(p)
    BY <2>2 DEF Sends
  <2> QED
    BY <1>0, <1>1, <2>1, <2>2, <2>3, CreditPost
<1>2. ASSUME NEW e \in Endpoints, Open(e)
      PROVE  CreditInv'
  <2>1. PICK n : n = opened'[e]
    OBVIOUS
  <2>2. n \in Nat
    BY <1>0, <1>2, <2>1 DEF Open, TorrentType
  <2>3. PostPeer("connect", e, AnyPiece, n) /\ sender' = sender
    BY <1>2, <2>1 DEF Open
  <2> QED
    BY <1>0, <1>1, <2>2, <2>3 DEF PeerAlerts
<1>3. ASSUME NEW e \in Endpoints, Close(e)
      PROVE  CreditInv'
  <2>1. PICK type \in Endings : PostPeer(type, e, AnyPiece, opened[e])
    BY <1>3 DEF Close
  <2>2. type \in PeerAlerts \ {"response"} /\ sender' = sender
    BY <1>3 DEF Endings, PeerAlerts, Close
  <2> QED
    BY <1>0, <1>1, <2>1, <2>2
<1>4. ASSUME NEW e \in Endpoints, OpenFails(e)
      PROVE  CreditInv'
  <2>1. PICK type \in {"error", "disconnect"} : PostPeer(type, e, AnyPiece, 0)
    BY <1>4 DEF OpenFails
  <2>2. type \in PeerAlerts \ {"response"} /\ sender' = sender
    BY <1>4 DEF PeerAlerts, OpenFails, torrent
  <2> QED
    BY <1>0, <1>1, <2>1, <2>2
<1>5. ASSUME NEW e \in Endpoints, PeerError(e)
      PROVE  CreditInv'
  <2>1. PostPeer("error", e, AnyPiece, opened[e]) /\ sender' = sender
    BY <1>5 DEF PeerError, torrent
  <2> QED
    BY <1>0, <1>1, <2>1 DEF PeerAlerts
<1>6. ASSUME NEW e \in Endpoints, NEW p \in Pieces, Request(e, p)
      PROVE  CreditInv'
  <2>1. PostPeer("request", e, p, opened[e]) /\ sender' = sender
    BY <1>6 DEF Request
  <2> QED
    BY <1>0, <1>1, <2>1 DEF PeerAlerts
<1>7. ASSUME NEW e \in Endpoints, NEW p \in Pieces, TimeOut(e, p)
      PROVE  CreditInv'
  <2>1. PostPeer("timeout", e, p, opened[e]) /\ sender' = sender
    BY <1>7 DEF TimeOut
  <2> QED
    BY <1>0, <1>1, <2>1 DEF PeerAlerts
<1>8. ASSUME NEW e \in Endpoints, NEW p \in Pieces, Respond(e, p)
      PROVE  CreditInv'
  <2> DEFINE tag == [conn |-> opened[e], epoch |-> epoch]
             a == [type |-> "response", endpoint |-> e, piece |-> p, tag |-> tag]
  <2>1. a \in Alert /\ Post(a)
    <3>1. tag \in Tag /\ "response" \in PeerAlerts
      BY <1>0 DEF Tag, QueueType, PeerAlerts
    <3> HIDE DEF tag
    <3> QED
      BY <1>8, <3>1 DEF Respond, PostPeer, Alert, tag
  <2>2. /\ a.type = "response" /\ a.endpoint = e /\ a.piece = p
        /\ a.tag.conn = opened[e]
    OBVIOUS
  <2> HIDE DEF a
  <2>3. /\ sender' = [sender EXCEPT ![p] = <<e, opened[e]>>] /\ UNCHANGED <<have, network>>
        /\ p \in asked[e]
    BY <1>8 DEF Respond
  <2>4. \A q \in Pieces : /\ sender'[q] = IF q = p THEN <<e, opened[e]>> ELSE sender[q]
                          /\ a \in Sends(q) <=> q = p
    BY <2>1, <2>2, <2>3 DEF Sends, TorrentType
  <2>5. \A q \in Pieces : /\ sender'[q] = sender[q] \/ a \in Sends(q)
                          /\ a \in Sends(q) => a \in From(sender'[q])
    BY <2>1, <2>2, <2>4 DEF From
  <2>6. network' /\ opened[e] # 0
    BY <1>0, <2>3 DEF CreditInv, DownloadInv, LatencyInv, Asking
  <2> QED
    BY <1>0, <2>1, <2>2, <2>5, <2>6, CreditPost
<1>9. ASSUME NEW a \in Alert, a.type \in {"piece_finished", "state_changed"},
             Post(a), sender' = sender,
             a.type = "piece_finished" =>
                 a.piece \in have' /\ (~lost => Traced(a.piece, Len(Pending)))
      PROVE  CreditInv'
  <2>1. \A p \in Pieces : a \notin Sends(p)
    BY <1>9 DEF Sends
  <2> QED
    BY <1>0, <1>9, <2>1, CreditPost
<1>10. ASSUME NEW p \in Pieces, PieceFinished(p) \/ PieceVerified(p)
       PROVE  CreditInv'
  <2> DEFINE a == [type |-> "piece_finished", piece |-> p]
  <2>1. /\ a \in Alert /\ a.type \in {"piece_finished", "state_changed"}
        /\ a.piece = p
    BY DEF Alert
  <2>2. Post(a) /\ sender' = sender /\ p \in have'
    BY <1>10 DEF PieceFinished, PieceVerified
  <2> HIDE DEF a
  <2>3. ~lost => Traced(p, Len(Pending))
    <3>1. CASE sender[p] # NoPeer
      BY <3>1 DEF CreditInv, Sending
    <3>2. CASE sender[p] = NoPeer
      <4>1. ~network
        BY <1>10, <3>2 DEF PieceFinished, PieceVerified
      <4>2. /\ \A j \in 1..Len(Pending) : Pending[j].type # "response"
            /\ last_piece[p] = NoPeer
        BY <4>1 DEF CreditInv, Responding
      <4>3. \A j \in 1..Len(Pending) : Pending[j] \in Sends(p) => Pending[j] \in From(sender[p])
        BY <4>2 DEF Sends, From
      <4> QED
        BY <4>2, <4>3 DEF Traced, LastIn, LastRight
    <3> QED
      BY <3>1, <3>2
  <2> QED
    BY <1>9, <2>1, <2>2, <2>3
<1>11. ASSUME StateChanged
       PROVE  CreditInv'
  <2> DEFINE a == [type |-> "state_changed"]
  <2>1. a \in Alert /\ a.type \in {"piece_finished", "state_changed"}
        /\ a.type # "piece_finished"
    BY DEF Alert
  <2>2. Post(a) /\ sender' = sender
    BY <1>11 DEF StateChanged
  <2> HIDE DEF a
  <2> QED
    BY <1>9, <2>1, <2>2
<1>12. ASSUME NEW p \in Pieces, HashFails(p)
       PROVE  CreditInv'
  <2>1. /\ sender'[p] = NoPeer /\ p \notin have /\ have' = have /\ network' = network
        /\ \A q \in Pieces : q # p => sender'[q] = sender[q]
        /\ lost' = lost /\ Pending' = Pending /\ peers' = peers /\ last_piece' = last_piece
    BY <1>0, <1>12 DEF HashFails, TorrentType, alerts, thread, stats, Pending
  <2>2. Owned' /\ CreditIsEarned'
    <3>1. Owned'
      BY <2>1 DEF CreditInv, Owned
    <3>2. ASSUME NEW e \in Endpoints, NEW n \in 1..Len(peers[e]), NEW q \in peers[e][n].pieces
          PROVE  sender'[q] = sender[q] /\ \E c \in peers[e][n].alerted : sender[q] = <<e, c>>
      BY <1>0, <3>2 DEF CreditInv, Owned, CreditIsEarned
    <3>3. CreditIsEarned'
      BY <2>1, <3>2 DEF CreditIsEarned
    <3> QED
      BY <3>1, <3>3
  <2>3. ASSUME NEW q \in Pieces, sender'[q] = sender[q], NEW i, Traced(q, i)
        PROVE  Traced(q, i)'
    <3>1. LastRight(q) => LastRight(q)'
      BY <2>1, <2>3 DEF LastRight
    <3> QED
      BY <2>1, <2>3, <3>1, TracedSame
  <2>4. Sending'
    <3> SUFFICES ASSUME NEW q \in Pieces, sender'[q] # NoPeer, ~lost
                 PROVE  Traced(q, Len(Pending))'
      BY <2>1 DEF Sending
    <3>1. sender'[q] = sender[q]
      BY <2>1
    <3>2. PICK n : n = Len(Pending)
      OBVIOUS
    <3>3. Traced(q, n) /\ n = Len(Pending')
      BY <2>1, <3>1, <3>2 DEF CreditInv, Sending
    <3> QED
      BY <2>3, <3>1, <3>3 DEF Traced
  <2>5. Finishing'
    <3> SUFFICES ASSUME NEW i \in 1..Len(Pending), Pending[i].type = "piece_finished"
                 PROVE  Pending[i].piece \in have' /\ Traced(Pending[i].piece, i - 1)'
      BY <2>1 DEF Finishing
    <3>1. PICK q : q = Pending[i].piece
      OBVIOUS
    <3>2. q \in have /\ q \in Pieces /\ Traced(q, i - 1)
      BY <3>1 DEF CreditInv, Finishing, TorrentType
    <3>3. Traced(q, i - 1)'
      BY <1>0, <2>3, <3>2
    <3> QED
      BY <2>1, <3>1, <3>2, <3>3 DEF Traced
  <2>6. Responding'
    BY <2>1 DEF CreditInv, Responding
  <2> QED
    BY <1>0, <2>2, <2>4, <2>5, <2>6 DEF CreditInv
<1> QED
  BY <1>2, <1>3, <1>4, <1>5, <1>6, <1>7, <1>8, <1>10, <1>11, <1>12 DEF Torrent

\* The steps of the main thread that do not handle an alert.
LEMMA CreditSame ==
    ASSUME TorrentType, QueueType, ThreadType, RecordType, RecordType', KeyType, CreditInv,
           UNCHANGED <<torrent, last_piece, lost>>, Pending' = Pending,
           \A e \in Endpoints : UncreditedAt(e)
    PROVE  CreditInv'
<1> USE DEF CreditInv
<1>1. UNCHANGED <<opened, up, asked, have, sender, network, last_piece, lost>>
  BY DEF torrent
<1>2. Owned' /\ CreditIsEarned'
  BY <1>1, EarnedKept
<1>3. ASSUME NEW p \in Pieces, NEW i, Traced(p, i)
      PROVE  Traced(p, i)'
  <2>1. LastRight(p) => LastRight(p)'
    BY <1>1, LastRightKept DEF UncreditedAt
  <2> QED
    BY <1>1, <1>3, <2>1, TracedSame
<1>4. Sending'
  <2> SUFFICES ASSUME NEW p \in Pieces, sender[p] # NoPeer, ~lost
               PROVE  Traced(p, Len(Pending))'
    BY <1>1 DEF Sending
  <2>1. PICK n : n = Len(Pending)
    OBVIOUS
  <2>2. Traced(p, n) /\ n = Len(Pending')
    BY <2>1 DEF Sending
  <2> QED
    BY <1>3, <2>2 DEF Traced
<1>5. Finishing'
  <2> SUFFICES ASSUME NEW i \in 1..Len(Pending), Pending[i].type = "piece_finished"
               PROVE  Pending[i].piece \in have' /\ Traced(Pending[i].piece, i - 1)'
    BY DEF Finishing
  <2>1. PICK q : q = Pending[i].piece
    OBVIOUS
  <2>2. q \in have /\ q \in Pieces /\ Traced(q, i - 1)
    BY <2>1 DEF Finishing, TorrentType
  <2>3. Traced(q, i - 1)'
    BY <1>3, <2>2
  <2> QED
    BY <1>1, <2>1, <2>2, <2>3 DEF Traced
<1>6. Responding' /\ DownloadInv'
  BY <1>1 DEF Responding, DownloadInv
<1> QED
  BY <1>2, <1>4, <1>5, <1>6

LEMMA CreditPop ==
    ASSUME TorrentType, QueueType, ThreadType, RecordType, RecordType', KeyType, StreamInv,
           CreditInv, PopAlerts
    PROVE  CreditInv'
<1> USE DEF CreditInv
<1>1. /\ Pending \in Seq(Alert) /\ Len(Pending) \in Nat
      /\ Dropped \in Alert /\ Dropped.type = "alerts_dropped"
  BY PendingType DEF Dropped, Alert
<1>2. /\ UNCHANGED <<opened, up, asked, have, sender, network, last_piece, peers>>
      /\ UNCHANGED torrent /\ lost' = FALSE
  BY DEF PopAlerts, torrent, stats
<1>3. \A e \in Endpoints : UncreditedAt(e)
  BY <1>2, SameUncredited
<1>4. CASE ~lost
  <2>1. Pending' = Pending
    BY <1>4, PopStream
  <2>2. lost' = lost
    BY <1>2, <1>4 DEF QueueType
  <2> QED
    BY <1>2, <1>3, <2>1, <2>2, CreditSame
<1>5. CASE lost
  <2>1. Pending' = Append(Pending, Dropped)
    BY <1>5, PopStream
  <2>2. /\ Len(Pending') = Len(Pending) + 1 /\ Pending'[Len(Pending) + 1] = Dropped
        /\ \A j \in 1..Len(Pending) : Pending'[j] = Pending[j]
    BY <1>1, <2>1, AppendProperties
  <2>3. \A p \in Pieces : /\ sender'[p] = sender[p] /\ (LastRight(p) => LastRight(p)')
                          /\ Dropped \in Sends(p) /\ Dropped \in From(sender'[p])
    BY <1>1, <1>2 DEF LastRight, Sends, From
  <2>4. Sending'
    BY <1>1, <2>1, <2>3, TracedAppend DEF Sending
  <2>5. Finishing'
    <3> SUFFICES ASSUME NEW i \in 1..Len(Pending'), Pending'[i].type = "piece_finished"
                 PROVE  Pending'[i].piece \in have' /\ Traced(Pending[i].piece, i - 1)'
      BY DEF Finishing
    <3>1. PICK q : q = Pending'[i].piece
      OBVIOUS
    <3>2. i \in 1..Len(Pending) /\ i - 1 \in 0..Len(Pending)
      BY <1>1, <2>2
    <3>3. q \in have /\ q \in Pieces /\ Traced(q, i - 1)
      BY <2>2, <3>1, <3>2 DEF Finishing, TorrentType
    <3>4. Traced(q, i - 1)'
      BY <1>1, <2>1, <2>3, <3>2, <3>3, TracedAppend
    <3> QED
      BY <1>2, <3>1, <3>3, <3>4 DEF Traced
  <2>6. \A i \in 1..Len(Pending') : Pending'[i].type = "response" => i \in 1..Len(Pending)
    BY <1>1, <2>2
  <2>7. Responding'
    BY <1>2, <2>2, <2>6 DEF Responding
  <2>8. Owned' /\ CreditIsEarned' /\ DownloadInv'
    BY <1>2 DEF Owned, CreditIsEarned, DownloadInv
  <2> QED
    BY <2>4, <2>5, <2>7, <2>8
<1> QED
  BY <1>4, <1>5

\* A piece that finishes is credited to the record that last_piece names by then.
LEMMA CreditHandle ==
    ASSUME TorrentType, QueueType, ThreadType, RecordType, RecordType', KeyType, Table,
           CreditInv, Handle
    PROVE  CreditInv'
<1> USE DEF CreditInv
<1> DEFINE a == Pending[1]
<1>1. /\ Pending # <<>> /\ Pending' = Tail(Pending) /\ Pending \in Seq(Alert)
      /\ Len(Pending) \in Nat /\ a \in Alert /\ Dispatch(a)
      /\ UNCHANGED <<lost, opened, up, asked, have, sender, network>>
  BY HandleStream DEF torrent
<1>2. /\ Len(Pending') = Len(Pending) - 1 /\ 1 \in 1..Len(Pending)
      /\ \A i \in 1..Len(Pending') : /\ i + 1 \in 1..Len(Pending) /\ i \in 1..Len(Pending)
                                     /\ Pending'[i] = Pending[i + 1]
  <2>1. /\ Len(Pending') = Len(Pending) - 1 /\ Len(Pending) # 0
        /\ \A i \in 1..(Len(Pending) - 1) : Pending'[i] = Pending[i + 1]
    BY <1>1, HeadTailProperties, EmptySeq
  <2> QED
    BY <1>1, <2>1
<1>3. ASSUME NEW p \in Pieces, NEW i \in 1..Len(Pending), Traced(p, i)
      PROVE  Traced(p, i - 1)'
  BY <1>3, TracedTail
<1>4. Sending'
  <2> SUFFICES ASSUME NEW p \in Pieces, sender[p] # NoPeer, ~lost
               PROVE  Traced(p, Len(Pending))'
    BY <1>1 DEF Sending
  <2>1. PICK n : n = Len(Pending)
    OBVIOUS
  <2>2. Traced(p, n) /\ n \in 1..Len(Pending) /\ n - 1 = Len(Pending')
    BY <1>1, <1>2, <2>1 DEF Sending
  <2>3. Traced(p, n - 1)'
    BY <1>3, <2>2
  <2> QED
    BY <2>2, <2>3 DEF Traced
<1>5. Finishing'
  <2> SUFFICES ASSUME NEW i \in 1..Len(Pending'), Pending'[i].type = "piece_finished"
               PROVE  Pending'[i].piece \in have' /\ Traced(Pending[i].piece, i - 1)'
    BY DEF Finishing
  <2>1. PICK q, j : q = Pending'[i].piece /\ j = i + 1
    OBVIOUS
  <2>2. j \in 1..Len(Pending) /\ i \in 1..Len(Pending) /\ j - 1 = i /\ Pending'[i] = Pending[j]
    BY <1>1, <1>2, <2>1
  <2>3. q \in have /\ q \in Pieces /\ Traced(q, i)
    BY <2>1, <2>2 DEF Finishing, TorrentType
  <2>4. Traced(q, i - 1)'
    BY <1>3, <2>2, <2>3
  <2> QED
    BY <1>1, <2>1, <2>3, <2>4 DEF Traced
<1>6. Responding'
  <2>1. \A i \in 1..Len(Pending') :
            Pending'[i].type = "response" => network' /\ Pending'[i].tag.conn # 0
    BY <1>1, <1>2 DEF Responding
  <2>2. ASSUME NEW p \in Pieces, last_piece'[p] # NoPeer
        PROVE  network'
    <3>1. CASE a.type = "response"
      BY <1>1, <1>2, <3>1 DEF Responding
    <3>2. CASE a.type # "response"
      <4>1. last_piece' = last_piece \/ last_piece'[p] = NoPeer
        BY <1>1, <3>2 DEF Dispatch, note_peer_connect, note_peer_disconnect, note_peer_error,
           note_request_sent, note_timeout, note_piece_finished, note_torrent_state,
           note_alert_loss
      <4> QED
        BY <1>1, <2>2, <4>1 DEF Responding
    <3> QED
      BY <3>1, <3>2
  <2> QED
    BY <2>1, <2>2 DEF Responding
<1>7. Owned' /\ CreditIsEarned'
  <2>1. CASE \A e \in Endpoints : UncreditedAt(e)
    BY <1>1, <2>1, EarnedKept
  <2>2. CASE a.type = "piece_finished" /\ a.piece \in Pieces /\ Credit(a.piece)
    <3>1. a.piece \in have /\ Traced(a.piece, 0)
      <4>1. 1 - 1 = 0
        OBVIOUS
      <4> QED
        BY <1>2, <2>2, <4>1 DEF Finishing
    <3>2. LastRight(a.piece)
      BY <3>1 DEF Traced, Quiet
    <3>3. PICK q : q = a.piece
      OBVIOUS
    <3> SUFFICES ASSUME NEW e \in Endpoints, NEW n \in 1..Len(peers'[e]),
                        NEW p \in peers'[e][n].pieces
                 PROVE  p \in have /\ \E c \in peers'[e][n].alerted : sender[p] = <<e, c>>
      BY <1>1 DEF Owned, CreditIsEarned
    <3>4. n \in 1..Len(peers[e])
      <4>1. Len(peers'[e]) = Len(peers[e])
        BY <2>2, CreditLen
      <4> QED
        BY <4>1
    <3>5. /\ peers'[e][n].alerted = peers[e][n].alerted
          /\ peers'[e][n].pieces =
                 IF last_piece[q] # NoPeer /\ last_piece[q][1] = e /\ last_piece[q][2] = n
                 THEN peers[e][n].pieces \cup {q} ELSE peers[e][n].pieces
      <4>1. q \in Pieces /\ Credit(q)
        BY <2>2, <3>3
      <4> QED
        BY <3>4, <4>1, CreditOut
    <3>6. CASE p \in peers[e][n].pieces
      BY <3>4, <3>5, <3>6 DEF Owned, CreditIsEarned
    <3>7. CASE p \notin peers[e][n].pieces
      <4>1. p = q /\ last_piece[q] # NoPeer /\ last_piece[q][1] = e /\ last_piece[q][2] = n
        BY <3>5, <3>7
      <4>2. \E c \in peers[e][n].alerted : sender[q] = <<e, c>>
        BY <3>2, <3>3, <4>1 DEF LastRight
      <4> QED
        BY <3>1, <3>3, <3>5, <4>1, <4>2
    <3> QED
      BY <3>6, <3>7
  <2> QED
    BY <1>1, <2>1, <2>2, DispatchUncredited
<1>8. DownloadInv'
  BY <1>1 DEF DownloadInv
<1> QED
  BY <1>4, <1>5, <1>6, <1>7, <1>8

LEMMA CreditStep ==
    ASSUME Registry, Registry', LatencyInv, CreditInv, [Next]_vars
    PROVE  CreditInv'
<1>1. /\ TorrentType /\ QueueType /\ ThreadType /\ RecordType /\ KeyType
      /\ RecordType' /\ (at # "done" => Table) /\ StreamInv
  BY TypeParts DEF Registry, TypeOK, RecordType, LatencyInv
<1>2. CASE Torrent
  BY <1>1, <1>2, CreditTorrent
<1>3. CASE PopAlerts
  BY <1>1, <1>3, CreditPop
<1>4. CASE Handle
  BY <1>1, <1>4, CreditHandle DEF Handle
<1>5. CASE set_initial_totals \/ Check \/ Drained \/ UNCHANGED vars
  <2>1. UNCHANGED <<torrent, alerts, last_piece, peers, batch>>
    BY <1>5 DEF set_initial_totals, Check, Drained, vars, thread, stats
  <2>2. UNCHANGED <<torrent, last_piece, lost, peers>> /\ Pending' = Pending
    BY <2>1 DEF alerts, Pending
  <2>3. \A e \in Endpoints : UncreditedAt(e)
    BY <1>1, <2>2, SameUncredited
  <2> QED
    BY <1>1, <2>2, <2>3, CreditSame
<1>6. CASE Snapshot \/ finalize
  <2>1. UNCHANGED <<torrent, last_piece, lost>> /\ Pending' = Pending
    BY <1>6 DEF Snapshot, finalize, alerts, Pending
  <2>2. \A e \in Endpoints : UncreditedAt(e)
    BY <1>1, <1>6, OtherUncredited
  <2> QED
    BY <1>1, <2>1, <2>2, CreditSame
<1> QED
  BY <1>2, <1>3, <1>4, <1>5, <1>6 DEF Next, Main

\* Whatever is lost, late or refused by its hash, a piece is credited to a record only if
\* the connection that sent it went into that record; a piece verified on disk is credited
\* to none (main.cpp:393, peer_stats.cpp:752-770, 793).
THEOREM CreditsAreEarned == Spec => []CreditIsEarned
<1>1. Init => CreditInv
  <2> SUFFICES ASSUME Init PROVE CreditInv
    OBVIOUS
  <2>1. Pending = <<>> /\ Len(<<>>) = 0
    <3>1. <<>> \in Seq(Alert)
      BY EmptySeq
    <3> QED
      BY <3>1, ConcatEmptySeq, EmptySeq DEF Init, Pending
  <2>2. DownloadInv /\ Owned /\ CreditIsEarned /\ Sending
    BY <2>1 DEF Init, DownloadInv, Owned, CreditIsEarned, Sending
  <2>3. Finishing /\ Responding
    BY <2>1 DEF Init, Finishing, Responding
  <2> QED
    BY <2>2, <2>3 DEF CreditInv
<1>2. Registry /\ Registry' /\ LatencyInv /\ CreditInv /\ [Next]_vars => CreditInv'
  BY CreditStep
<1>3. CreditInv => CreditIsEarned
  BY DEF CreditInv
<1> QED
  BY <1>1, <1>2, <1>3, RegistryHolds, LatencyHolds, PTL DEF Spec
-----------------------------------------------------------------------------
(* Connections. As long as nothing is lost, the connected records are those *)
(* of the connections whose connect alerts are handled, and the alerts on   *)
(* their way say what has become of the others.                             *)

\* Value v is t after the first i alerts of s: the last one of E says so, or
\* there is none and v is t now.
Tracked(E, G, s, i, v, t) == LastIn(E, G, s, i) /\ (Quiet(E, s, i) => v = t)

Connects(e) == {a \in Alert : a.type = "connect" /\ a.endpoint = e}
Links(e) == {a \in Alert : a.type \in {"connect", "disconnect"} /\ a.endpoint = e}
Numbered(t) == {a \in Alert : a.type = "connect" => a.tag.conn = t}
Leading(b) == {a \in Alert : a.type = IF b = "up" THEN "connect" ELSE "disconnect"}

\* How many connections of e the records know, and whether the last one is open.
Count(e) == Cardinality(ConnectedRecords(e))
Standing(e) == IF active[e] \in ConnectedRecords(e) THEN "up" ELSE "down"
Link(e) == IF up[e] THEN "up" ELSE "down"

\* After the first i alerts t connections of e are known, the last one is open or not.
Follows(e, t, b, i) ==
    /\ Tracked(Connects(e), Numbered(t), Pending, i, Count(e), t)
    /\ Tracked(Links(e), Leading(b), Pending, i, Standing(e), b)

\* When alert a comes after i others, its connection is the next one or the current one.
Announced(a, i) ==
    a.type \in PeerAlerts =>
        /\ a.type = "connect" =>
               a.tag.conn # 0 /\ Follows(a.endpoint, a.tag.conn - 1, "down", i)
        /\ a.type # "connect" /\ a.tag.conn # 0 =>
               Follows(a.endpoint, a.tag.conn, "up", i)

Data(r) == r.alerted \cup r.sampled

DataOf(e) == [n \in 1..Len(peers[e]) |-> Data(peers[e][n])]

\* Records with data f, of which those in R are connected to N connections so far.
Orderly(f, R, N) ==
    /\ \A n \in DOMAIN f : \A c \in f[n] : n \in R /\ c <= N
    /\ \A m, n \in DOMAIN f : \A c \in f[m], d \in f[n] : c = d <=> m = n

\* Each connected record of e has the data of one connection, the active one of the last.
OrderAt(e) ==
    /\ Orderly(DataOf(e), ConnectedRecords(e), Count(e))
    /\ Standing(e) = "up" => DataOf(e)[active[e]] = {Count(e)}

ConnInv ==
    /\ lost => epoch # 0
    /\ epoch = 0 => /\ \A e \in Endpoints : Follows(e, opened[e], Link(e), Len(Pending))
                    /\ \A i \in 1..Len(Pending) : Announced(Pending[i], i - 1)
    /\ epoch = 0 /\ ~overtaken => \A e \in Endpoints : OrderAt(e)

LEMMA TrackAppend ==
    ASSUME NEW S, NEW s \in Seq(S), NEW a \in S, NEW E, NEW G, NEW v, NEW t
    PROVE  LET r == Append(s, a)
               n == Len(s)
           IN
           /\ \A i \in 0..n : Tracked(E, G, s, i, v, t) => Tracked(E, G, r, i, v, t)
           /\ Tracked(E, G, s, n, v, t) /\ (a \in E => a \in G)
                  => Tracked(E, G, r, n + 1, v, t)
           /\ a \in E /\ a \in G => Tracked(E, G, r, n + 1, v, t)
<1> DEFINE r == Append(s, a)
           n == Len(s)
<1>1. /\ \A i \in 0..n : /\ LastIn(E, G, s, i) => LastIn(E, G, r, i)
                         /\ Quiet(E, r, i) => Quiet(E, s, i)
      /\ LastIn(E, G, s, n) /\ (a \in E => a \in G) => LastIn(E, G, r, n + 1)
      /\ a \in E /\ a \in G => LastIn(E, G, r, n + 1)
      /\ Quiet(E, r, n + 1) => a \notin E /\ Quiet(E, s, n)
  BY AppendSince
<1> HIDE DEF r, n
<1> QED
  BY <1>1 DEF Tracked, r, n

LEMMA TrackTail ==
    ASSUME NEW S, NEW s \in Seq(S), s # <<>>, NEW E, NEW G, NEW i \in 1..Len(s),
           NEW v, NEW w, NEW t, Tracked(E, G, s, i, v, t),
           s[1] \in E /\ s[1] \in G => w = t, s[1] \notin E => w = v
    PROVE  Tracked(E, G, Tail(s), i - 1, w, t)
<1>1. /\ LastIn(E, G, s, i) => LastIn(E, G, Tail(s), i - 1)
      /\ Quiet(E, Tail(s), i - 1) => /\ s[1] \notin E => Quiet(E, s, i)
                                     /\ s[1] \in E /\ LastIn(E, G, s, i) => s[1] \in G
  BY TailSince
<1> QED
  BY <1>1 DEF Tracked

-----------------------------------------------------------------------------
(* What becomes of the records of an endpoint, as far as ConnInv sees them. *)

Key(e) == ensure_peer_for_endpoint(e).key

SameRecords(e) ==
    /\ Len(peers'[e]) = Len(peers[e]) /\ active'[e] = active[e]
    /\ ConnectedRecords(e)' = ConnectedRecords(e)
    /\ \A n \in 1..Len(peers[e]) : Data(peers'[e][n]) = Data(peers[e][n])

\* The record found for e gains data D, and C are the connected records now.
Gains(e, D, C) ==
    /\ Len(peers[e]) <= Len(peers'[e]) /\ Len(peers[e]) \in Nat /\ Len(peers'[e]) \in Nat
    /\ Key(e) \in 1..Len(peers'[e])
    /\ \A n \in 1..Len(peers'[e]) : n # Key(e) =>
           n \in 1..Len(peers[e]) /\ Data(peers'[e][n]) = Data(peers[e][n])
    /\ IF active[e] # 0
       THEN /\ Key(e) = active[e] /\ Key(e) \in 1..Len(peers[e])
            /\ Data(peers'[e][Key(e)]) = Data(peers[e][Key(e)]) \cup D
       ELSE Key(e) = Len(peers[e]) + 1 /\ Data(peers'[e][Key(e)]) = D
    /\ ConnectedRecords(e)' = C

LEMMA StoredGains ==
    ASSUME RecordType, NEW e \in Endpoints, NEW x \in PeerStats, NEW D,
           Data(x) = Data(Peer(e)) \cup D,
           peers'[e] = [ensure_peer_for_endpoint(e).records EXCEPT
                           ![ensure_peer_for_endpoint(e).key] = x]
    PROVE  /\ ~x.saw_connect_alert /\ ~Peer(e).saw_connect_alert
                  => Gains(e, D, ConnectedRecords(e))
           /\ x.saw_connect_alert /\ Peer(e).saw_connect_alert
                  => Gains(e, D, ConnectedRecords(e))
           /\ x.saw_connect_alert => Gains(e, D, ConnectedRecords(e) \cup {Key(e)})
<1> DEFINE k == Key(e)
<1>1. /\ Len(peers[e]) \in Nat /\ Len(peers'[e]) \in Nat
      /\ Len(peers[e]) <= Len(peers'[e])
      /\ k \in 1..Len(peers'[e]) /\ peers'[e][k] = x
      /\ \A n \in 1..Len(peers'[e]) :
             n # k => n \in 1..Len(peers[e]) /\ peers'[e][n] = peers[e][n]
      /\ k \in 1..Len(peers[e]) => Peer(e) = peers[e][k]
      /\ k \notin 1..Len(peers[e]) => Peer(e) = NewPeer
  BY StoredAt DEF Key
<1>2. /\ active[e] # 0 => k = active[e] /\ k \in 1..Len(peers[e])
      /\ active[e] = 0 => k = Len(peers[e]) + 1
  BY <1>1 DEF RecordType, Key, ensure_peer_for_endpoint
<1>3. Data(NewPeer) = {} /\ ~NewPeer.saw_connect_alert
  BY DEF Data, NewPeer
<1> HIDE DEF k
<1>4. IF active[e] # 0
      THEN /\ k = active[e] /\ k \in 1..Len(peers[e])
           /\ Data(peers'[e][k]) = Data(peers[e][k]) \cup D
      ELSE k = Len(peers[e]) + 1 /\ Data(peers'[e][k]) = D
  <2>1. Data(peers'[e][k]) = Data(Peer(e)) \cup D
    BY <1>1
  <2>2. active[e] # 0 => Data(Peer(e)) = Data(peers[e][k])
    BY <1>1, <1>2
  <2>3. active[e] = 0 => Data(Peer(e)) = {}
    <3>1. active[e] = 0 => k \notin 1..Len(peers[e])
      BY <1>1, <1>2
    <3> QED
      BY <1>1, <1>3, <3>1
  <2> QED
    BY <1>2, <2>1, <2>2, <2>3
<1>5. \A n \in 1..Len(peers'[e]) : n # k =>
          n \in 1..Len(peers[e]) /\ Data(peers'[e][n]) = Data(peers[e][n])
  BY <1>1
<1>6. ASSUME NEW C, ConnectedRecords(e)' = C PROVE Gains(e, D, C)
  BY <1>1, <1>4, <1>5, <1>6 DEF Gains, k
<1>7. \A n \in 1..Len(peers[e]) : n \in 1..Len(peers'[e])
  BY <1>1
<1>8. /\ ConnectedRecords(e) = {n \in 1..Len(peers[e]) : peers[e][n].saw_connect_alert}
      /\ ConnectedRecords(e)' = {n \in 1..Len(peers'[e]) : peers'[e][n].saw_connect_alert}
  BY DEF ConnectedRecords
<1>9. ASSUME ~x.saw_connect_alert, ~Peer(e).saw_connect_alert
      PROVE  ConnectedRecords(e)' = ConnectedRecords(e)
  BY <1>1, <1>7, <1>8, <1>9
<1>10. ASSUME x.saw_connect_alert PROVE ConnectedRecords(e)' = ConnectedRecords(e) \cup {k}
  BY <1>1, <1>7, <1>8, <1>10
<1>11. ASSUME x.saw_connect_alert, Peer(e).saw_connect_alert
       PROVE  ConnectedRecords(e)' = ConnectedRecords(e)
  <2>1. k \in ConnectedRecords(e)
    BY <1>1, <1>3, <1>8, <1>11
  <2> QED
    BY <1>10, <1>11, <2>1
<1> QED
  BY <1>6, <1>9, <1>10, <1>11 DEF k

\* What an alert about a peer writes, next to the data of its connection.
LEMMA EventData ==
    ASSUME RecordType, NEW a, a.endpoint \in Endpoints, a.piece \in Pieces, a.tag \in Tag
    PROVE  LET peer == note_peer_event(a)
               old == Peer(a.endpoint)
               Told(r) == Data(r) = Data(old) \cup ({a.tag.conn} \ {0})
               Same(r) == Told(r) /\ r.saw_connect_alert = old.saw_connect_alert
           IN
           /\ old.saw_connect_alert \in BOOLEAN
           /\ Same(peer) /\ Same(Answered(a)) /\ Same(note_disconnect(peer))
           /\ Same([peer EXCEPT !.outstanding_requests[a.piece] = a.tag])
           /\ Told(Connected(a)) /\ Connected(a).saw_connect_alert
<1> DEFINE old == Peer(a.endpoint)
           peer == note_peer_event(a)
           Told(r) == r.alerted = old.alerted \cup ({a.tag.conn} \ {0})
                      /\ r.sampled = old.sampled
           Same(r) == Told(r) /\ r.saw_connect_alert = old.saw_connect_alert
<1>1. old \in PeerStats
  BY EnsureType
<1>2. peer = [old EXCEPT !.alerted = @ \cup ({a.tag.conn} \ {0})]
  BY DEF note_peer_event
<1>3. peer \in PeerStats /\ Same(peer)
  <2> HIDE DEF old, peer
  <2> QED BY <1>1, <1>2 DEF PeerStats, Tag
<1> HIDE DEF old, peer
<1>4. Same([peer EXCEPT !.outstanding_requests[a.piece] = a.tag])
  BY <1>3 DEF PeerStats
<1>5. LET r == [peer EXCEPT !.active_connection = TRUE, !.saw_connect_alert = TRUE]
      IN Told(r) /\ r.saw_connect_alert
  BY <1>3 DEF PeerStats
<1>6. Same([peer EXCEPT !.outstanding_requests[a.piece] = NoTag])
  BY <1>3 DEF PeerStats
<1>7. Same([peer EXCEPT !.active_connection = FALSE,
                        !.outstanding_requests = NothingOutstanding])
  BY <1>3 DEF PeerStats
<1>8. ASSUME NEW r, Told(r) PROVE Data(r) = Data(old) \cup ({a.tag.conn} \ {0})
  BY <1>8 DEF Data
<1>9. old.saw_connect_alert \in BOOLEAN
  BY <1>1 DEF PeerStats
<1> HIDE DEF Told
<1> QED
  BY <1>3, <1>4, <1>5, <1>6, <1>7, <1>8, <1>9 DEF old, peer, Connected, Answered, note_disconnect

\* Requests are forgotten, or a record is closed, with all data kept.
LEMMA ResetSame ==
    ASSUME NEW r \in PeerStats
    PROVE  LET s == [r EXCEPT !.outstanding_requests = NothingOutstanding]
               t == note_disconnect(r)
           IN
           /\ s \in PeerStats /\ s.saw_connect_alert = r.saw_connect_alert
           /\ s.alerted = r.alerted /\ s.sampled = r.sampled
           /\ t \in PeerStats /\ t.saw_connect_alert = r.saw_connect_alert
           /\ t.alerted = r.alerted /\ t.sampled = r.sampled
BY NewPeerType DEF PeerStats, note_disconnect

LEMMA RecordsSame ==
    ASSUME RecordType, NEW e \in Endpoints, peers'[e] = peers[e], active'[e] = active[e]
    PROVE  SameRecords(e)
BY DEF SameRecords, ConnectedRecords

LEMMA MappedSame ==
    ASSUME RecordType, NEW e \in Endpoints, active'[e] = active[e],
           Len(peers'[e]) = Len(peers[e]),
           \A n \in 1..Len(peers[e]) :
               /\ peers'[e][n].saw_connect_alert = peers[e][n].saw_connect_alert
               /\ peers'[e][n].alerted = peers[e][n].alerted
               /\ peers'[e][n].sampled = peers[e][n].sampled
    PROVE  SameRecords(e)
<1>1. ConnectedRecords(e)' = ConnectedRecords(e)
  BY DEF ConnectedRecords
<1> QED
  BY <1>1 DEF SameRecords, Data

LEMMA CreditSameRecords ==
    ASSUME RecordType, KeyType, NEW p \in Pieces, Credit(p), UNCHANGED active,
           NEW e \in Endpoints
    PROVE  SameRecords(e)
<1>1. CASE last_piece[p] = NoPeer
  BY <1>1, RecordsSame DEF Credit
<1>2. CASE last_piece[p] # NoPeer
  <2> DEFINE d == last_piece[p][1]
             m == last_piece[p][2]
             x == [peers[d][m] EXCEPT !.pieces = @ \cup {p}]
             new == [peers[d] EXCEPT ![m] = x]
  <2>1. d \in Endpoints /\ m \in 1..Len(peers[d]) /\ peers[d] \in Seq(PeerStats)
    BY <1>2 DEF KeyType, RecordType
  <2>2. peers[d][m] \in PeerStats
    BY <2>1, ElementOfSeq
  <2>3. peers' = [peers EXCEPT ![d] = new]
    BY <1>2 DEF Credit
  <2>4. /\ x \in PeerStats /\ x.saw_connect_alert = peers[d][m].saw_connect_alert
        /\ x.alerted = peers[d][m].alerted /\ x.sampled = peers[d][m].sampled
    BY <2>2 DEF PeerStats
  <2> HIDE DEF x, d, m
  <2>5. /\ Len(new) = Len(peers[d])
        /\ \A k \in 1..Len(peers[d]) : new[k] = IF k = m THEN x ELSE peers[d][k]
    BY <2>1, <2>4, ChangeOne
  <2> HIDE DEF new
  <2>6. peers'[e] = IF e = d THEN new ELSE peers[e]
    BY <2>1, <2>3 DEF RecordType
  <2>7. CASE e = d
    BY <2>4, <2>5, <2>6, <2>7, MappedSame
  <2>8. CASE e # d
    BY <2>6, <2>8, RecordsSame
  <2> QED
    BY <2>7, <2>8
<1> QED
  BY <1>1, <1>2

\* What handling an alert does to the records of an endpoint.
LEMMA DispatchGains ==
    ASSUME RecordType, KeyType, Table, NEW a \in Alert, Dispatch(a), NEW e \in Endpoints
    PROVE  \/ /\ ~(a.type \in PeerAlerts /\ a.endpoint = e)
              /\ SameRecords(e)
           \/ /\ a.type \in PeerAlerts /\ a.endpoint = e /\ a.tag \in Tag
              /\ Gains(e, {a.tag.conn} \ {0},
                       IF a.type = "connect" THEN ConnectedRecords(e) \cup {Key(e)}
                                             ELSE ConnectedRecords(e))
              /\ active'[e] = IF a.type = "disconnect" THEN 0 ELSE Key(e)
<1>1. CASE a.type \in PeerAlerts
  <2> DEFINE d == a.endpoint
             found == ensure_peer_for_endpoint(d)
             seen == note_peer_event(a)
             asking == [seen EXCEPT !.outstanding_requests[a.piece] = a.tag]
             D == {a.tag.conn} \ {0}
             Told(r) == Data(r) = Data(Peer(d)) \cup D
             Same(r) == Told(r) /\ r.saw_connect_alert = Peer(d).saw_connect_alert
  <2>1. d \in Endpoints /\ a.piece \in Pieces /\ a.tag \in Tag
    BY <1>1, AlertFields
  <2>2. /\ seen \in PeerStats /\ Connected(a) \in PeerStats /\ Answered(a) \in PeerStats
        /\ asking \in PeerStats /\ note_disconnect(seen) \in PeerStats
    BY <2>1, EventType
  <2>3. /\ Peer(d).saw_connect_alert \in BOOLEAN
        /\ Same(seen) /\ Same(Answered(a)) /\ Same(note_disconnect(seen)) /\ Same(asking)
        /\ Told(Connected(a)) /\ Connected(a).saw_connect_alert
    BY <2>1, EventData
  <2> HIDE DEF seen, asking
  <2>4. PICK x : /\ x \in PeerStats /\ Told(x)
                 /\ IF a.type = "connect" THEN x.saw_connect_alert ELSE Same(x)
                 /\ peers' = [peers EXCEPT ![d] = [found.records EXCEPT ![found.key] = x]]
                 /\ active' = [active EXCEPT ![d] = IF a.type = "disconnect" THEN 0
                                                                            ELSE found.key]
    <3> HIDE DEF Same, Told
    <3>1. CASE a.type = "connect"
      BY <2>2, <2>3, <3>1 DEF Dispatch, SetPeer, note_peer_connect
    <3>2. CASE a.type = "disconnect"
      BY <2>2, <2>3, <3>2 DEF Dispatch, note_peer_disconnect, seen, Same
    <3>3. CASE a.type = "error"
      BY <2>2, <2>3, <3>3 DEF Dispatch, SetPeer, note_peer_error, seen, Same
    <3>4. CASE a.type = "request"
      BY <2>2, <2>3, <3>4 DEF Dispatch, SetPeer, note_request_sent, seen, asking, Same
    <3>5. CASE a.type \in {"response", "timeout"}
      BY <2>2, <2>3, <3>5 DEF Dispatch, SetPeer, note_block_response, note_timeout, Same
    <3> QED
      BY <1>1, <3>1, <3>2, <3>3, <3>4, <3>5 DEF PeerAlerts
  <2>5. CASE e = d
    <3>1. /\ peers'[e] = [found.records EXCEPT ![found.key] = x]
          /\ active'[e] = IF a.type = "disconnect" THEN 0 ELSE Key(e)
      BY <2>1, <2>4, <2>5 DEF RecordType, Key
    <3>2. /\ ~x.saw_connect_alert /\ ~Peer(e).saw_connect_alert
                => Gains(e, D, ConnectedRecords(e))
          /\ x.saw_connect_alert /\ Peer(e).saw_connect_alert
                => Gains(e, D, ConnectedRecords(e))
          /\ x.saw_connect_alert => Gains(e, D, ConnectedRecords(e) \cup {Key(e)})
      <4> HIDE DEF D
      <4> QED BY <2>4, <2>5, <3>1, StoredGains
    <3>3. Gains(e, D, IF a.type = "connect" THEN ConnectedRecords(e) \cup {Key(e)}
                                            ELSE ConnectedRecords(e))
      <4> HIDE DEF D
      <4>1. CASE a.type = "connect"
        BY <2>4, <3>2, <4>1
      <4>2. CASE a.type # "connect"
        BY <2>3, <2>4, <2>5, <3>2, <4>2
      <4> QED
        BY <4>1, <4>2
    <3> QED
      BY <1>1, <2>1, <2>5, <3>1, <3>3
  <2>6. CASE e # d
    <3>1. peers'[e] = peers[e] /\ active'[e] = active[e]
      BY <2>4, <2>6 DEF RecordType
    <3> QED
      BY <2>6, <3>1, RecordsSame
  <2> QED
    BY <2>5, <2>6
<1>2. CASE a.type = "piece_finished"
  <2>1. a.piece \in Pieces /\ a.type \notin PeerAlerts
    BY <1>2, AlertFields DEF PeerAlerts
  <2>2. UNCHANGED active /\ (Credit(a.piece) \/ peers' = peers)
    BY <1>2 DEF Dispatch, note_piece_finished
  <2> QED
    BY <2>1, <2>2, CreditSameRecords, RecordsSame
<1>3. CASE a.type = "state_changed"
  BY <1>3, RecordsSame DEF Dispatch, note_torrent_state, PeerAlerts
<1>4. CASE a.type = "alerts_dropped"
  <2>1. peers' = ResetOutstanding /\ UNCHANGED active
    BY <1>4 DEF Dispatch, note_alert_loss
  <2>2. peers[e] \in Seq(PeerStats) /\ DOMAIN peers[e] = 1..Len(peers[e])
    BY LenProperties DEF RecordType
  <2>3. peers'[e] = [n \in DOMAIN peers[e] |->
                        [peers[e][n] EXCEPT !.outstanding_requests = NothingOutstanding]]
    BY <2>1 DEF ResetOutstanding
  <2>4. \A n \in 1..Len(peers[e]) : peers[e][n] \in PeerStats
    BY <2>2, ElementOfSeq
  <2>5. \A n \in 1..Len(peers[e]) :
           /\ peers'[e][n] \in PeerStats
           /\ peers'[e][n].saw_connect_alert = peers[e][n].saw_connect_alert
           /\ peers'[e][n].alerted = peers[e][n].alerted
           /\ peers'[e][n].sampled = peers[e][n].sampled
    BY <2>2, <2>3, <2>4, ResetSame
  <2>6. DOMAIN peers'[e] = DOMAIN peers[e]
        /\ peers'[e] = [n \in DOMAIN peers[e] |-> peers'[e][n]]
    BY <2>3
  <2>7. Len(peers'[e]) = Len(peers[e])
    BY <2>2, <2>5, <2>6, ChangeAll
  <2> QED
    BY <1>4, <2>1, <2>5, <2>7, MappedSame DEF PeerAlerts
<1> QED
  BY <1>1, <1>2, <1>3, <1>4 DEF Dispatch, PeerAlerts

LEMMA OtherGains ==
    ASSUME RecordType, TorrentType, Snapshot \/ finalize, NEW e \in Endpoints
    PROVE  \/ SameRecords(e)
           \/ /\ Snapshot /\ up[e] /\ active'[e] = Key(e)
              /\ Gains(e, {opened[e]}, ConnectedRecords(e))
<1>1. CASE Snapshot /\ up[e]
  <2> DEFINE found == ensure_peer_for_endpoint(e)
             x == [Peer(e) EXCEPT !.sampled = @ \cup {opened[e]}]
             D == {opened[e]}
  <2>1. Peer(e) \in PeerStats
    BY EnsureType
  <2>2. /\ x \in PeerStats /\ x.alerted = Peer(e).alerted
        /\ x.sampled = Peer(e).sampled \cup D
        /\ x.saw_connect_alert = Peer(e).saw_connect_alert
    BY <2>1 DEF PeerStats, TorrentType
  <2>3. peers'[e] = [found.records EXCEPT ![found.key] = x] /\ active'[e] = Key(e)
    BY <1>1 DEF Snapshot, Peer, Key
  <2> HIDE DEF x, D
  <2>4. Data(x) = Data(Peer(e)) \cup D
    BY <2>2 DEF Data
  <2>5. Peer(e).saw_connect_alert \in BOOLEAN
    BY <2>1 DEF PeerStats
  <2>6. Gains(e, D, ConnectedRecords(e))
    BY <2>2, <2>3, <2>4, <2>5, StoredGains
  <2> QED
    BY <1>1, <2>3, <2>6 DEF D
<1>2. CASE Snapshot /\ ~up[e]
  <2>1. peers'[e] = peers[e] /\ active'[e] = active[e]
    BY <1>2 DEF Snapshot
  <2> QED
    BY <2>1, RecordsSame
<1>3. CASE finalize
  <2>1. peers[e] \in Seq(PeerStats) /\ DOMAIN peers[e] = 1..Len(peers[e])
    BY LenProperties DEF RecordType
  <2>2. /\ peers'[e] = [n \in DOMAIN peers[e] |-> IF peers[e][n].active_connection
                                                  THEN note_disconnect(peers[e][n])
                                                  ELSE peers[e][n]]
        /\ active'[e] = active[e]
    BY <1>3 DEF finalize
  <2>3. \A n \in 1..Len(peers[e]) : peers[e][n] \in PeerStats
    BY <2>1, ElementOfSeq
  <2>4. \A n \in 1..Len(peers[e]) :
           /\ peers'[e][n] \in PeerStats
           /\ peers'[e][n].saw_connect_alert = peers[e][n].saw_connect_alert
           /\ peers'[e][n].alerted = peers[e][n].alerted
           /\ peers'[e][n].sampled = peers[e][n].sampled
    BY <2>1, <2>2, <2>3, ResetSame
  <2>5. DOMAIN peers'[e] = DOMAIN peers[e]
        /\ peers'[e] = [n \in DOMAIN peers[e] |-> peers'[e][n]]
    BY <2>2
  <2>6. Len(peers'[e]) = Len(peers[e])
    BY <2>1, <2>4, <2>5, ChangeAll
  <2> QED
    BY <2>2, <2>4, <2>6, MappedSame
<1> QED
  BY <1>1, <1>2, <1>3

LEMMA CountType1 ==
    ASSUME RecordType, NEW e \in Endpoints
    PROVE  /\ Len(peers[e]) \in Nat /\ active[e] \in 0..Len(peers[e])
           /\ ConnectedRecords(e) \subseteq 1..Len(peers[e])
           /\ IsFiniteSet(ConnectedRecords(e)) /\ Count(e) \in Nat
<1>1. Len(peers[e]) \in Nat /\ active[e] \in 0..Len(peers[e])
  BY LenProperties DEF RecordType
<1>2. ConnectedRecords(e) \subseteq 1..Len(peers[e]) /\ IsFiniteSet(1..Len(peers[e]))
  BY <1>1, FS_Interval DEF ConnectedRecords
<1>3. IsFiniteSet(ConnectedRecords(e))
  BY <1>2, FS_Subset
<1> QED
  BY <1>1, <1>2, <1>3, FS_CardinalityType DEF Count

\* A record that was found is connected if and only if the active one was.
LEMMA GainsCount ==
    ASSUME RecordType, NEW e \in Endpoints, NEW D, NEW C, Gains(e, D, C)
    PROVE  /\ C = ConnectedRecords(e) =>
                  /\ Count(e)' = Count(e)
                  /\ active'[e] = Key(e) => Standing(e)' = Standing(e)
                  /\ active'[e] = 0 => Standing(e)' = "down"
           /\ C = ConnectedRecords(e) \cup {Key(e)} =>
                  /\ Standing(e) = "down" => Count(e)' = Count(e) + 1
                  /\ active'[e] = Key(e) => Standing(e)' = "up"
<1>1. /\ Len(peers[e]) \in Nat /\ active[e] \in 0..Len(peers[e])
      /\ ConnectedRecords(e) \subseteq 1..Len(peers[e])
      /\ IsFiniteSet(ConnectedRecords(e)) /\ Count(e) \in Nat
  BY CountType1
<1>2. /\ active[e] # 0 => Key(e) = active[e]
      /\ active[e] = 0 => Key(e) = Len(peers[e]) + 1
      /\ ConnectedRecords(e)' = C
  BY DEF Gains
<1>3. Key(e) \in ConnectedRecords(e) <=> active[e] \in ConnectedRecords(e)
  BY <1>1, <1>2
<1>4. 0 \notin ConnectedRecords(e)
  BY <1>1
<1>5. ASSUME C = ConnectedRecords(e)
      PROVE  /\ Count(e)' = Count(e)
             /\ active'[e] = Key(e) => Standing(e)' = Standing(e)
             /\ active'[e] = 0 => Standing(e)' = "down"
  BY <1>2, <1>3, <1>4, <1>5 DEF Count, Standing
<1>6. ASSUME C = ConnectedRecords(e) \cup {Key(e)}
      PROVE  /\ Standing(e) = "down" => Count(e)' = Count(e) + 1
             /\ active'[e] = Key(e) => Standing(e)' = "up"
  <2>1. active'[e] = Key(e) => Standing(e)' = "up"
    BY <1>2, <1>6 DEF Standing
  <2>2. ASSUME Standing(e) = "down" PROVE Count(e)' = Count(e) + 1
    <3>1. Key(e) \notin ConnectedRecords(e)
      BY <1>3, <2>2 DEF Standing
    <3>2. Cardinality(ConnectedRecords(e) \cup {Key(e)}) = Cardinality(ConnectedRecords(e)) + 1
      BY <1>1, <3>1, FS_AddElement
    <3> QED
      BY <1>2, <1>6, <3>2 DEF Count
  <2> QED
    BY <2>1, <2>2
<1> QED
  BY <1>5, <1>6

LEMMA SameCount ==
    ASSUME NEW e \in Endpoints, SameRecords(e)
    PROVE  Count(e)' = Count(e) /\ Standing(e)' = Standing(e)
BY DEF SameRecords, Count, Standing

LEMMA SameOrder ==
    ASSUME RecordType, NEW e \in Endpoints, SameRecords(e), OrderAt(e)
    PROVE  OrderAt(e)'
<1>1. Count(e)' = Count(e) /\ Standing(e)' = Standing(e)
  BY SameCount
<1>2. DataOf(e)' = DataOf(e)
  BY DEF SameRecords, DataOf
<1> QED
  BY <1>1, <1>2 DEF SameRecords, OrderAt

LEMMA DataOfType ==
    ASSUME NEW e \in Endpoints
    PROVE  /\ RecordType => DataOf(e) \in [1..Len(peers[e]) -> SUBSET Nat]
           /\ RecordType' => DataOf(e)' \in [1..Len(peers'[e]) -> SUBSET Nat]
<1>1. ASSUME NEW r \in PeerStats PROVE Data(r) \in SUBSET Nat
  BY DEF PeerStats, Data
<1>2. RecordType => \A n \in 1..Len(peers[e]) : peers[e][n] \in PeerStats
  BY ElementOfSeq DEF RecordType
<1>3. RecordType' => \A n \in 1..Len(peers'[e]) : peers'[e][n] \in PeerStats
  BY ElementOfSeq DEF RecordType
<1> QED
  BY <1>1, <1>2, <1>3 DEF DataOf

\* Data of the open connection go into its record; that of the next one is new.
LEMMA GainsOrder ==
    ASSUME RecordType, RecordType', NEW e \in Endpoints, OrderAt(e), NEW D, NEW C,
           Gains(e, D, C), active'[e] \in {0, Key(e)},
           \/ C = ConnectedRecords(e) /\ D = {}
           \/ C = ConnectedRecords(e) /\ Standing(e) = "up" /\ D = {Count(e)}
           \/ /\ C = ConnectedRecords(e) \cup {Key(e)} /\ Standing(e) = "down"
              /\ D = {Count(e) + 1}
    PROVE  OrderAt(e)'
<1>1. PICK L, K, f, g, k, N, M, R, b, a :
          /\ L = Len(peers[e]) /\ K = Len(peers'[e]) /\ f = DataOf(e) /\ g = DataOf(e)'
          /\ k = Key(e) /\ N = Count(e) /\ M = Count(e)' /\ R = ConnectedRecords(e)
          /\ b = Standing(e) /\ a = active[e]
  OBVIOUS
<1>2. /\ L \in Nat /\ K \in Nat /\ L <= K /\ N \in Nat /\ R \subseteq 1..L
      /\ f \in [1..L -> SUBSET Nat] /\ g \in [1..K -> SUBSET Nat] /\ a \in 0..L
  BY <1>1, CountType1, DataOfType DEF Gains
<1>3. /\ k \in 1..K
      /\ \A n \in 1..K : n # k => n \in 1..L /\ g[n] = f[n]
      /\ a # 0 => k = a /\ k \in 1..L /\ g[k] = f[k] \cup D
      /\ a = 0 => k = L + 1 /\ g[k] = D
      /\ ConnectedRecords(e)' = C
  <2>1. \A n \in 1..L : f[n] = Data(peers[e][n])
    BY <1>1 DEF DataOf
  <2>2. \A n \in 1..K : g[n] = Data(peers'[e][n])
    BY <1>1 DEF DataOf
  <2> QED
    BY <1>1, <2>1, <2>2 DEF Gains
<1>4. Orderly(f, R, N) /\ (b = "up" => f[a] = {N}) /\ (b = "up" <=> a \in R)
      /\ (b = "down" => b # "up")
  BY <1>1 DEF OrderAt, Standing
<1>5. /\ C = R => M = N /\ (active'[e] = k => Standing(e)' = b)
      /\ C = R \cup {k} /\ b = "down" => M = N + 1
      /\ active'[e] = 0 => Standing(e)' = "down"
  <2>1. /\ C = R => M = N /\ (active'[e] = k => Standing(e)' = b)
        /\ C = R \cup {k} /\ b = "down" => M = N + 1
    BY <1>1, GainsCount
  <2>2. k # 0 /\ 0 \notin C
    BY <1>1, <1>2, <1>3
  <2> QED
    BY <1>3, <2>1, <2>2 DEF Standing
<1>6. \/ C = R /\ D = {}
      \/ C = R /\ b = "up" /\ D = {N}
      \/ C = R \cup {k} /\ b = "down" /\ D = {N + 1}
  BY <1>1
<1>7. b # "up" /\ a # 0 => f[a] = {}
  <2> SUFFICES ASSUME b # "up", a # 0, NEW c \in f[a] PROVE FALSE
    BY <1>2
  <2>1. a \in R
    BY <1>2, <1>4 DEF Orderly
  <2> QED
    BY <1>4, <2>1
<1>8. b = "up" => a # 0 /\ k \in R
  BY <1>2, <1>3, <1>4
<1>9. PICK X : X = g[k]
  OBVIOUS
<1>10. /\ M \in Nat /\ X \subseteq {M} /\ (X # {} => k \in C) /\ N <= M /\ R \subseteq C
       /\ b = "up" => X = {M} /\ M = N
       /\ b # "up" /\ X # {} => M = N + 1
       /\ C # R => X = {M}
  <2>1. CASE b = "up"
    <3>1. g[k] = {N} /\ C = R
      BY <1>3, <1>4, <1>6, <1>8, <2>1
    <3> QED
      BY <1>2, <1>5, <1>8, <1>9, <2>1, <3>1
  <2>2. CASE b # "up"
    <3>1. g[k] = D
      BY <1>3, <1>7, <2>2
    <3> QED
      BY <1>2, <1>5, <1>6, <1>9, <2>2, <3>1
  <2> QED
    BY <2>1, <2>2
<1>11. ASSUME NEW n \in 1..L, n # k, X # {} PROVE M \notin f[n]
  <2>1. CASE b = "up"
    <3>1. N \in f[k] /\ k \in 1..L /\ M = N
      BY <1>2, <1>3, <1>4, <1>8, <1>10, <2>1
    <3> QED
      BY <1>2, <1>4, <1>11, <3>1 DEF Orderly
  <2>2. CASE b # "up"
    <3>1. M = N + 1
      BY <1>10, <1>11, <2>2
    <3> QED
      BY <1>2, <1>4, <3>1 DEF Orderly
  <2> QED
    BY <2>1, <2>2
<1>12. ASSUME NEW n \in 1..K, NEW c \in g[n] PROVE n \in C /\ c <= M
  <2>1. CASE n = k
    BY <1>9, <1>10, <1>12, <2>1
  <2>2. CASE n # k
    <3>1. n \in 1..L /\ c \in f[n] /\ c \in Nat
      BY <1>2, <1>3, <1>12, <2>2
    <3>2. n \in R /\ c <= N
      BY <1>2, <1>4, <3>1 DEF Orderly
    <3> QED
      BY <1>2, <1>10, <3>1, <3>2
  <2> QED
    BY <2>1, <2>2
<1>13. ASSUME NEW m \in 1..K, NEW n \in 1..K, NEW c \in g[m], NEW d \in g[n]
       PROVE  c = d <=> m = n
  <2>1. \A i \in 1..K : i # k => i \in 1..L /\ g[i] = f[i]
    BY <1>3
  <2>2. \A x \in X : x = M
    BY <1>10
  <2>3. CASE m = k /\ n = k
    BY <1>9, <1>13, <2>2, <2>3
  <2>4. CASE m = k /\ n # k
    <3>1. c = M /\ X # {} /\ n \in 1..L /\ d \in f[n]
      BY <1>9, <1>13, <2>1, <2>2, <2>4
    <3> QED
      BY <1>11, <2>4, <3>1
  <2>5. CASE m # k /\ n = k
    <3>1. d = M /\ X # {} /\ m \in 1..L /\ c \in f[m]
      BY <1>9, <1>13, <2>1, <2>2, <2>5
    <3> QED
      BY <1>11, <2>5, <3>1
  <2>6. CASE m # k /\ n # k
    <3>1. m \in 1..L /\ c \in f[m] /\ n \in 1..L /\ d \in f[n]
      BY <1>13, <2>1, <2>6
    <3> QED
      BY <1>2, <1>4, <3>1 DEF Orderly
  <2> QED
    BY <2>3, <2>4, <2>5, <2>6
<1>14. Orderly(g, C, M)
  BY <1>2, <1>12, <1>13 DEF Orderly
<1>15. Standing(e)' = "up" => g[active'[e]] = {M}
  <2> SUFFICES ASSUME Standing(e)' = "up" PROVE active'[e] = k /\ X = {M}
    BY <1>9
  <2>1. active'[e] = k
    BY <1>1, <1>5
  <2>2. CASE C = R
    BY <1>5, <1>10, <2>1, <2>2
  <2>3. CASE C # R
    BY <1>10, <2>1, <2>3
  <2> QED
    BY <2>1, <2>2, <2>3
<1> QED
  BY <1>1, <1>3, <1>14, <1>15 DEF OrderAt


-----------------------------------------------------------------------------
(* The steps.                                                               *)

LEMMA FollowsAppend ==
    ASSUME Pending \in Seq(Alert), NEW a \in Alert, Pending' = Append(Pending, a),
           NEW e \in Endpoints, UNCHANGED <<peers, active>>, NEW t, NEW b,
           NEW n, n = Len(Pending)
    PROVE  /\ \A i \in 0..n : Follows(e, t, b, i) => Follows(e, t, b, i)'
           /\ a \notin Links(e) /\ Follows(e, t, b, n) => Follows(e, t, b, n + 1)'
           /\ a \in Links(e) /\ a.type = "disconnect" /\ Follows(e, t, b, n)
                  => Follows(e, t, "down", n + 1)'
           /\ a \in Links(e) /\ a.type = "connect" /\ a.tag.conn = t
                  => Follows(e, t, "up", n + 1)'
<1>1. PICK s, r, N, S : /\ s = Pending /\ r = Pending' /\ N = Count(e) /\ S = Standing(e)
  OBVIOUS
<1>2. N = Count(e)' /\ S = Standing(e)'
  BY <1>1 DEF Count, Standing, ConnectedRecords
<1>3. s \in Seq(Alert) /\ r = Append(s, a) /\ n = Len(s)
  BY <1>1
<1>4. \A c, i :
         /\ Follows(e, t, c, i) <=> /\ Tracked(Connects(e), Numbered(t), s, i, N, t)
                                    /\ Tracked(Links(e), Leading(c), s, i, S, c)
         /\ Follows(e, t, c, i)' <=> /\ Tracked(Connects(e), Numbered(t), r, i, N, t)
                                     /\ Tracked(Links(e), Leading(c), r, i, S, c)
  BY <1>1, <1>2 DEF Follows
<1>5. ASSUME NEW E, NEW G, NEW v, NEW w
      PROVE  /\ \A i \in 0..n : Tracked(E, G, s, i, v, w) => Tracked(E, G, r, i, v, w)
             /\ Tracked(E, G, s, n, v, w) /\ (a \in E => a \in G)
                    => Tracked(E, G, r, n + 1, v, w)
             /\ a \in E /\ a \in G => Tracked(E, G, r, n + 1, v, w)
  BY <1>3, TrackAppend
<1>6. \A i \in 0..n : Follows(e, t, b, i) => Follows(e, t, b, i)'
  BY <1>4, <1>5
<1>7. a \in Connects(e) <=> a \in Links(e) /\ a.type = "connect"
  BY DEF Connects, Links
<1>8. ASSUME a \notin Links(e), Follows(e, t, b, n) PROVE Follows(e, t, b, n + 1)'
  <2>1. Tracked(Connects(e), Numbered(t), s, n, N, t) /\ Tracked(Links(e), Leading(b), s, n, S, b)
    BY <1>4, <1>8
  <2>2. Tracked(Connects(e), Numbered(t), r, n + 1, N, t)
    BY <1>5, <1>7, <1>8, <2>1
  <2>3. Tracked(Links(e), Leading(b), r, n + 1, S, b)
    BY <1>5, <1>8, <2>1
  <2> QED
    BY <1>4, <2>2, <2>3
<1>9. ASSUME a \in Links(e), a.type = "disconnect", Follows(e, t, b, n)
      PROVE  Follows(e, t, "down", n + 1)'
  <2>1. a \notin Connects(e) /\ a \in Leading("down")
    BY <1>9 DEF Connects, Leading
  <2>2. Tracked(Connects(e), Numbered(t), s, n, N, t)
    BY <1>4, <1>9
  <2>3. Tracked(Connects(e), Numbered(t), r, n + 1, N, t)
    BY <1>5, <2>1, <2>2
  <2>4. Tracked(Links(e), Leading("down"), r, n + 1, S, "down")
    BY <1>5, <1>9, <2>1
  <2> QED
    BY <1>4, <2>3, <2>4
<1>10. ASSUME a \in Links(e), a.type = "connect", a.tag.conn = t
       PROVE  Follows(e, t, "up", n + 1)'
  <2>1. a \in Connects(e) /\ a \in Numbered(t) /\ a \in Leading("up")
    BY <1>10 DEF Connects, Numbered, Leading, Links
  <2>2. Tracked(Connects(e), Numbered(t), r, n + 1, N, t)
    BY <1>5, <2>1
  <2>3. Tracked(Links(e), Leading("up"), r, n + 1, S, "up")
    BY <1>5, <1>10, <2>1
  <2> QED
    BY <1>4, <2>2, <2>3
<1> QED
  BY <1>6, <1>8, <1>9, <1>10

\* A posted alert says what has become of the connection it is about.
LEMMA ConnPost ==
    ASSUME TorrentType, QueueType, ThreadType, StreamInv, ConnInv,
           NEW a \in Alert, Post(a), UNCHANGED <<thread, peers, active, overtaken>>,
           \A e \in Endpoints :
               IF a \in Links(e)
               THEN IF a.type = "connect" THEN opened'[e] = a.tag.conn /\ up'[e]
                                          ELSE opened'[e] = opened[e] /\ ~up'[e]
               ELSE opened'[e] = opened[e] /\ up'[e] = up[e],
           a.type \in PeerAlerts =>
               IF a.type = "connect"
               THEN /\ a.tag.conn # 0 /\ opened[a.endpoint] = a.tag.conn - 1
                    /\ ~up[a.endpoint]
               ELSE a.tag.conn # 0 => opened[a.endpoint] = a.tag.conn /\ up[a.endpoint]
    PROVE  ConnInv'
<1>1. Pending \in Seq(Alert) /\ Len(Pending) \in Nat
  BY PendingType
<1>2. /\ lost' => epoch' # 0
      /\ epoch' = 0 => epoch = 0
      /\ epoch' = 0 => ~lost'
  BY DEF Post, ConnInv, QueueType
<1>3. epoch' = 0 => Pending' = Append(Pending, a)
  BY <1>2, PostStream DEF thread
<1>4. ASSUME epoch' = 0, NEW e \in Endpoints
      PROVE  Follows(e, opened[e], Link(e), Len(Pending))'
  <2>1. PICK t, b, u, c, n : /\ t = opened[e] /\ b = Link(e) /\ n = Len(Pending)
                             /\ u = opened'[e] /\ c = Link(e)'
    OBVIOUS
  <2>2. Len(Pending)' = n + 1
    BY <1>1, <1>3, <1>4, <2>1, AppendProperties
  <2>3. Follows(e, t, b, n)
    BY <1>2, <1>4, <2>1 DEF ConnInv
  <2>4. Follows(e, u, c, n + 1)'
    <3>1. CASE a \notin Links(e)
      <4>1. u = t /\ c = b
        BY <2>1, <3>1 DEF Link
      <4> QED
        BY <1>1, <1>3, <1>4, <2>1, <2>3, <3>1, <4>1, FollowsAppend
    <3>2. CASE a \in Links(e) /\ a.type = "connect"
      <4>1. u = a.tag.conn /\ c = "up"
        BY <2>1, <3>2 DEF Link
      <4> QED
        BY <1>1, <1>3, <1>4, <2>1, <3>2, <4>1, FollowsAppend
    <3>3. CASE a \in Links(e) /\ a.type # "connect"
      <4>1. u = t /\ c = "down" /\ a.type = "disconnect"
        BY <2>1, <3>3 DEF Link, Links
      <4> QED
        BY <1>1, <1>3, <1>4, <2>1, <2>3, <3>3, <4>1, FollowsAppend
    <3> QED
      BY <3>1, <3>2, <3>3
  <2> QED
    BY <2>1, <2>2, <2>4 DEF Follows
<1>5. ASSUME epoch' = 0, NEW i \in 1..Len(Pending')
      PROVE  Announced(Pending[i], i - 1)'
  <2>1. PICK x, n : x = Pending'[i] /\ n = Len(Pending)
    OBVIOUS
  <2>2. /\ Len(Pending') = n + 1 /\ Pending'[n + 1] = a
        /\ \A j \in 1..n : Pending'[j] = Pending[j]
    BY <1>1, <1>3, <1>5, <2>1, AppendProperties
  <2>3. x \in Alert
    BY <1>1, <2>1, <2>2, ElementOfSeq
  <2>4. x.type \in PeerAlerts => x.endpoint \in Endpoints /\ x.tag \in Tag
    BY <2>3, AlertFields
  <2>5. i - 1 \in 0..n /\ n \in Nat
    BY <1>1, <2>1, <2>2
  <2>6. \A d \in Endpoints : \A t, b : Follows(d, t, b, i - 1) => Follows(d, t, b, i - 1)'
    BY <1>1, <1>3, <1>5, <2>1, <2>5, FollowsAppend
  <2>7. Announced(x, i - 1)
    <3>1. CASE i \in 1..n
      <4>1. x = Pending[i] /\ epoch = 0
        BY <1>2, <1>5, <2>1, <2>2, <3>1
      <4> QED
        BY <2>1, <3>1, <4>1 DEF ConnInv
    <3>2. CASE i = n + 1
      <4>1. x = a /\ i - 1 = n
        BY <2>1, <2>2, <2>5, <3>2
      <4>2. \A d \in Endpoints : Follows(d, opened[d], Link(d), n)
        BY <1>2, <1>5, <2>1 DEF ConnInv
      <4> QED
        BY <2>4, <4>1, <4>2 DEF Announced, Link
    <3> QED
      BY <2>1, <2>2, <2>5, <3>1, <3>2
  <2>8. Announced(x, i - 1)'
    BY <2>4, <2>6, <2>7 DEF Announced
  <2> QED
    BY <2>1, <2>8 DEF Announced
<1>6. \A e \in Endpoints : OrderAt(e) => OrderAt(e)'
  BY DEF OrderAt, DataOf, Standing, Count, ConnectedRecords
<1> QED
  BY <1>2, <1>4, <1>5, <1>6 DEF ConnInv

\* Without any alert in between, the records are up to date.
LEMMA FollowsNow ==
    ASSUME NEW e \in Endpoints, NEW t, NEW b, Follows(e, t, b, 0)
    PROVE  Count(e) = t /\ Standing(e) = b
BY DEF Follows, Tracked, Quiet

\* What leaves the alerts on their way and the connected records leaves the rest.
LEMMA ConnSame ==
    ASSUME ConnInv, Pending' = Pending, UNCHANGED <<lost, epoch, opened, up>>,
           overtaken => overtaken',
           \A e \in Endpoints :
               /\ Count(e)' = Count(e) /\ Standing(e)' = Standing(e)
               /\ epoch = 0 /\ ~overtaken' /\ OrderAt(e) => OrderAt(e)',
           \A i \in 1..Len(Pending) :
               Pending[i].type \in PeerAlerts => Pending[i].endpoint \in Endpoints
    PROVE  ConnInv'
<1>1. \A e \in Endpoints : \A t, b, i : Follows(e, t, b, i) => Follows(e, t, b, i)'
  <2> SUFFICES ASSUME NEW e \in Endpoints, NEW t, NEW b, NEW i, Follows(e, t, b, i)
               PROVE  Follows(e, t, b, i)'
    OBVIOUS
  <2>1. Count(e)' = Count(e) /\ Standing(e)' = Standing(e)
    OBVIOUS
  <2> QED
    BY <2>1 DEF Follows
<1>2. ASSUME epoch = 0, NEW e \in Endpoints
      PROVE  Follows(e, opened[e], Link(e), Len(Pending))'
  <2>1. PICK t, b, n : t = opened[e] /\ b = Link(e) /\ n = Len(Pending)
    OBVIOUS
  <2>2. t = opened'[e] /\ b = Link(e)' /\ n = Len(Pending')
    BY <2>1 DEF Link
  <2>3. Follows(e, t, b, n)'
    BY <1>1, <1>2, <2>1 DEF ConnInv
  <2> QED
    BY <2>2, <2>3 DEF Follows
<1>3. ASSUME epoch = 0, NEW i \in 1..Len(Pending)
      PROVE  Announced(Pending[i], i - 1)'
  <2>1. PICK x : x = Pending[i]
    OBVIOUS
  <2>2. Announced(x, i - 1) /\ (x.type \in PeerAlerts => x.endpoint \in Endpoints)
    BY <1>3, <2>1 DEF ConnInv
  <2>3. Announced(x, i - 1)'
    BY <1>1, <2>2 DEF Announced
  <2> QED
    BY <2>1, <2>3 DEF Announced
<1>4. lost' => epoch' # 0
  BY DEF ConnInv
<1>5. ASSUME epoch = 0, ~overtaken', NEW e \in Endpoints PROVE OrderAt(e)'
  BY <1>5 DEF ConnInv
<1> QED
  BY <1>2, <1>3, <1>4, <1>5 DEF ConnInv

\* The handler of an alert brings the records of its endpoint up to date.
LEMMA ConnHandle ==
    ASSUME TorrentType, QueueType, ThreadType, RecordType, RecordType', KeyType, Table,
           ConnInv, Handle
    PROVE  ConnInv'
<1>1. /\ Pending # <<>> /\ Pending' = Tail(Pending) /\ Pending \in Seq(Alert)
      /\ Len(Pending) \in Nat /\ Pending[1] \in Alert /\ Dispatch(Pending[1])
      /\ UNCHANGED <<lost, epoch, up, opened, overtaken>>
  BY HandleStream DEF Handle, torrent, alerts
<1>2. /\ Len(Tail(Pending)) = Len(Pending) - 1 /\ Len(Pending) # 0
      /\ \A i \in 1..(Len(Pending) - 1) : Tail(Pending)[i] = Pending[i + 1]
  BY <1>1, HeadTailProperties, EmptySeq
<1>3. PICK a : a = Pending[1]
  OBVIOUS
<1>4. a \in Alert /\ Dispatch(a) /\ (a.type \in PeerAlerts => a.endpoint \in Endpoints /\ a.tag \in Tag)
  BY <1>1, <1>3, AlertFields
<1>5. ASSUME epoch = 0, a.type \in PeerAlerts
      PROVE  /\ a.type = "connect" => /\ a.tag.conn # 0 /\ Count(a.endpoint) = a.tag.conn - 1
                                      /\ Standing(a.endpoint) = "down"
             /\ a.type # "connect" /\ a.tag.conn # 0 =>
                    Count(a.endpoint) = a.tag.conn /\ Standing(a.endpoint) = "up"
  <2>1. 1 \in 1..Len(Pending) /\ 1 - 1 = 0
    BY <1>1, <1>2
  <2>2. Announced(a, 0)
    BY <1>3, <1>5, <2>1 DEF ConnInv
  <2> QED
    BY <1>4, <1>5, <2>2, FollowsNow DEF Announced
<1>6. ASSUME epoch = 0, NEW e \in Endpoints
      PROVE  /\ a \notin Links(e) => Count(e)' = Count(e) /\ Standing(e)' = Standing(e)
             /\ a \in Connects(e) => Count(e)' = a.tag.conn /\ Standing(e)' = "up"
             /\ a \in Links(e) /\ a.type = "disconnect" =>
                    Count(e)' = Count(e) /\ Standing(e)' = "down"
             /\ OrderAt(e) => OrderAt(e)'
  <2>1. CASE ~(a.type \in PeerAlerts /\ a.endpoint = e) /\ SameRecords(e)
    <3>1. a \notin Links(e) /\ a \notin Connects(e)
      BY <2>1 DEF Links, Connects, PeerAlerts
    <3> QED
      BY <2>1, <3>1, SameCount, SameOrder
  <2>2. ASSUME a.type \in PeerAlerts, a.endpoint = e, a.tag \in Tag,
               NEW D, D = {a.tag.conn} \ {0}, NEW C,
               C = IF a.type = "connect" THEN ConnectedRecords(e) \cup {Key(e)}
                                         ELSE ConnectedRecords(e),
               Gains(e, D, C), active'[e] = IF a.type = "disconnect" THEN 0 ELSE Key(e)
        PROVE  /\ a \notin Links(e) => Count(e)' = Count(e) /\ Standing(e)' = Standing(e)
               /\ a \in Connects(e) => Count(e)' = a.tag.conn /\ Standing(e)' = "up"
               /\ a \in Links(e) /\ a.type = "disconnect" =>
                      Count(e)' = Count(e) /\ Standing(e)' = "down"
               /\ OrderAt(e) => OrderAt(e)'
    <3>1. /\ a \in Links(e) <=> a.type \in {"connect", "disconnect"}
          /\ a \in Connects(e) <=> a.type = "connect"
      BY <1>4, <2>2 DEF Links, Connects
    <3>2. /\ a.tag.conn \in Nat /\ Count(e) \in Nat
      BY <2>2, CountType1 DEF Tag
    <3>3. /\ C = ConnectedRecords(e) =>
                  /\ Count(e)' = Count(e)
                  /\ active'[e] = Key(e) => Standing(e)' = Standing(e)
                  /\ active'[e] = 0 => Standing(e)' = "down"
          /\ C = ConnectedRecords(e) \cup {Key(e)} =>
                  /\ Standing(e) = "down" => Count(e)' = Count(e) + 1
                  /\ active'[e] = Key(e) => Standing(e)' = "up"
      BY <2>2, GainsCount
    <3>4. CASE a.type = "connect"
      <4>1. C = ConnectedRecords(e) \cup {Key(e)} /\ active'[e] = Key(e) /\ Standing(e) = "down"
            /\ D = {Count(e) + 1} /\ a.tag.conn = Count(e) + 1
        BY <1>5, <1>6, <2>2, <3>2, <3>4
      <4>2. OrderAt(e) => OrderAt(e)'
        BY <2>2, <4>1, GainsOrder
      <4> QED
        BY <3>1, <3>3, <3>4, <4>1, <4>2
    <3>5. CASE a.type # "connect"
      <4>1. C = ConnectedRecords(e) /\ active'[e] \in {0, Key(e)}
            /\ (D = {} \/ (Standing(e) = "up" /\ D = {Count(e)}))
        BY <1>5, <1>6, <2>2, <3>2, <3>5
      <4>2. OrderAt(e) => OrderAt(e)'
        BY <2>2, <4>1, GainsOrder
      <4> QED
        BY <2>2, <3>1, <3>3, <3>5, <4>1, <4>2
    <3> QED
      BY <3>4, <3>5
  <2> QED
    BY <1>4, <2>1, <2>2, DispatchGains
<1>7. ASSUME epoch = 0, NEW e \in Endpoints, NEW t, NEW b \in {"up", "down"},
             NEW i \in 1..Len(Pending), Follows(e, t, b, i)
      PROVE  Follows(e, t, b, i - 1)'
  <2>1. PICK v, w, x, y : v = Count(e) /\ w = Count(e)' /\ x = Standing(e) /\ y = Standing(e)'
    OBVIOUS
  <2>2. Tracked(Connects(e), Numbered(t), Tail(Pending), i - 1, w, t)
    <3>1. a \in Connects(e) /\ a \in Numbered(t) => w = t
      BY <1>6, <1>7, <2>1 DEF Connects, Numbered
    <3>2. a \notin Connects(e) => w = v
      BY <1>4, <1>6, <1>7, <2>1 DEF Connects, Links
    <3>3. Tracked(Connects(e), Numbered(t), Pending, i, v, t)
      BY <1>7, <2>1 DEF Follows
    <3> QED
      BY <1>1, <1>3, <3>1, <3>2, <3>3, TrackTail
  <2>3. Tracked(Links(e), Leading(b), Tail(Pending), i - 1, y, b)
    <3>1. a \in Links(e) /\ a \in Leading(b) => y = b
      BY <1>6, <1>7, <2>1 DEF Connects, Links, Leading
    <3>2. a \notin Links(e) => y = x
      BY <1>6, <1>7, <2>1
    <3>3. Tracked(Links(e), Leading(b), Pending, i, x, b)
      BY <1>7, <2>1 DEF Follows
    <3> QED
      BY <1>1, <1>3, <3>1, <3>2, <3>3, TrackTail
  <2> QED
    BY <1>1, <2>1, <2>2, <2>3 DEF Follows
<1>8. ASSUME epoch = 0, NEW e \in Endpoints
      PROVE  Follows(e, opened[e], Link(e), Len(Pending))'
  <2>1. PICK t, b, n : t = opened[e] /\ b = Link(e) /\ n = Len(Pending)
    OBVIOUS
  <2>2. t = opened'[e] /\ b = Link(e)' /\ n - 1 = Len(Pending') /\ n \in 1..Len(Pending)
        /\ b \in {"up", "down"}
    BY <1>1, <1>2, <2>1 DEF Link
  <2>3. Follows(e, t, b, n - 1)'
    BY <1>7, <1>8, <2>1, <2>2 DEF ConnInv
  <2> QED
    BY <2>2, <2>3 DEF Follows
<1>9. ASSUME epoch = 0, NEW i \in 1..Len(Pending')
      PROVE  Announced(Pending[i], i - 1)'
  <2>1. PICK x, j : x = Pending'[i] /\ j = i + 1
    OBVIOUS
  <2>2. j \in 1..Len(Pending) /\ x = Pending[j] /\ j - 1 = i
        /\ j - 1 \in 1..Len(Pending) /\ j - 1 - 1 = i - 1
    BY <1>1, <1>2, <1>9, <2>1
  <2>3. x \in Alert /\ (x.type \in PeerAlerts => x.endpoint \in Endpoints)
    BY <1>1, <2>2, ElementOfSeq, AlertFields
  <2>4. Announced(x, j - 1)
    BY <1>9, <2>2 DEF ConnInv
  <2>5. Announced(x, i - 1)'
    BY <1>7, <1>9, <2>2, <2>3, <2>4 DEF Announced
  <2> QED
    BY <2>1, <2>5 DEF Announced
<1>10. epoch = 0 /\ ~overtaken => \A e \in Endpoints : OrderAt(e)'
  BY <1>6 DEF ConnInv
<1> QED
  BY <1>1, <1>8, <1>9, <1>10 DEF ConnInv

LEMMA ConnPeerPost ==
    ASSUME TorrentType, QueueType, ThreadType, StreamInv, ConnInv,
           UNCHANGED <<thread, peers, active, overtaken>>,
           NEW type \in PeerAlerts, NEW d \in Endpoints, NEW q \in Pieces, NEW conn \in Nat,
           PostPeer(type, d, q, conn),
           \A e \in Endpoints \ {d} : opened'[e] = opened[e] /\ up'[e] = up[e],
           CASE type = "connect" -> /\ conn = opened[d] + 1 /\ opened'[d] = conn
                                    /\ ~up[d] /\ up'[d]
             [] type = "disconnect" -> /\ opened'[d] = opened[d] /\ ~up'[d]
                                       /\ conn # 0 => conn = opened[d] /\ up[d]
             [] OTHER -> /\ opened'[d] = opened[d] /\ up'[d] = up[d]
                         /\ conn # 0 => conn = opened[d] /\ up[d]
    PROVE  ConnInv'
<1> DEFINE tag == [conn |-> conn, epoch |-> epoch]
           a == [type |-> type, endpoint |-> d, piece |-> q, tag |-> tag]
<1>1. tag \in Tag /\ tag.conn = conn
  BY DEF Tag, QueueType
<1>2. Post(a)
  BY DEF PostPeer
<1>3. a.type = type /\ a.endpoint = d /\ a.piece = q /\ a.tag = tag
  OBVIOUS
<1>4. a \in Alert
  <2> HIDE DEF tag
  <2> QED BY <1>1 DEF Alert
<1> HIDE DEF a, tag
<1>5. ASSUME NEW e \in Endpoints
      PROVE  a \in Links(e) <=> e = d /\ type \in {"connect", "disconnect"}
  BY <1>3, <1>4 DEF Links
<1>6. opened[d] \in Nat
  BY DEF TorrentType
<1>7. ASSUME NEW e \in Endpoints
      PROVE  IF a \in Links(e)
             THEN IF a.type = "connect" THEN opened'[e] = a.tag.conn /\ up'[e]
                                        ELSE opened'[e] = opened[e] /\ ~up'[e]
             ELSE opened'[e] = opened[e] /\ up'[e] = up[e]
  BY <1>1, <1>3, <1>5
<1>8. IF a.type = "connect"
      THEN /\ a.tag.conn # 0 /\ opened[a.endpoint] = a.tag.conn - 1
           /\ ~up[a.endpoint]
      ELSE a.tag.conn # 0 => opened[a.endpoint] = a.tag.conn /\ up[a.endpoint]
  BY <1>1, <1>3, <1>6
<1> QED
  BY <1>2, <1>4, <1>7, <1>8, ConnPost

LEMMA ConnTorrent ==
    ASSUME TorrentType, QueueType, ThreadType, LatencyInv, ConnInv, Torrent,
           "error_closes" \notin Troubles
    PROVE  ConnInv'
<1>1. /\ UNCHANGED <<thread, peers, active, overtaken>> /\ StreamInv
      /\ \A e \in Endpoints : \A p \in asked[e] : up[e]
      /\ AnyPiece \in Pieces
      /\ Pending \in Seq(Alert)
  <2>1. AnyPiece \in Pieces
    BY RegistryAssumption DEF AnyPiece
  <2> QED
    BY <2>1, PendingType DEF Torrent, stats, LatencyInv, Asking
<1>2. /\ opened \in [Endpoints -> Nat] /\ up \in [Endpoints -> BOOLEAN]
      /\ asked \in [Endpoints -> SUBSET Pieces]
  BY DEF TorrentType
<1>3. PeerAlerts = {"connect", "disconnect", "error", "request", "response", "timeout"}
  BY DEF PeerAlerts
<1>4. ASSUME NEW e \in Endpoints, Open(e) PROVE ConnInv'
  <2>1. /\ opened' = [opened EXCEPT ![e] = @ + 1] /\ up' = [up EXCEPT ![e] = TRUE] /\ ~up[e]
        /\ PostPeer("connect", e, AnyPiece, opened'[e]) /\ opened'[e] = opened[e] + 1
    BY <1>2, <1>4 DEF Open
  <2>2. PICK conn \in Nat : conn = opened'[e]
    BY <1>2, <2>1
  <2> QED
    BY <1>1, <1>2, <1>3, <2>1, <2>2, ConnPeerPost
<1>5. ASSUME NEW e \in Endpoints, Close(e) PROVE ConnInv'
  <2>1. /\ opened' = opened /\ up' = [up EXCEPT ![e] = FALSE] /\ up[e]
        /\ PostPeer("disconnect", e, AnyPiece, opened[e])
    BY <1>5 DEF Close, Endings
  <2> QED
    BY <1>1, <1>2, <1>3, <2>1, ConnPeerPost
\* An alert that is about the open connection, or about none, changes nothing.
<1>6. ASSUME NEW type \in PeerAlerts \ {"connect", "disconnect"}, NEW e \in Endpoints,
             NEW p \in Pieces, NEW conn \in {0, opened[e]}, conn # 0 => up[e],
             PostPeer(type, e, p, conn), UNCHANGED <<opened, up>>
      PROVE  ConnInv'
  BY <1>1, <1>2, <1>6, ConnPeerPost
<1>7. ASSUME NEW e \in Endpoints, OpenFails(e) PROVE ConnInv'
  <2>1. PICK type \in {"error", "disconnect"} : PostPeer(type, e, AnyPiece, 0)
    BY <1>7 DEF OpenFails
  <2>2. UNCHANGED <<opened, up>> /\ ~up[e]
    BY <1>7 DEF OpenFails, torrent
  <2>3. CASE type = "error"
    BY <1>1, <1>3, <1>6, <2>1, <2>2, <2>3
  <2>4. CASE type = "disconnect"
    BY <1>1, <1>2, <1>3, <2>1, <2>2, <2>4, ConnPeerPost
  <2> QED
    BY <2>1, <2>3, <2>4
<1>8. ASSUME NEW e \in Endpoints, PeerError(e) PROVE ConnInv'
  BY <1>1, <1>3, <1>6, <1>8 DEF PeerError, torrent
<1>9. ASSUME NEW e \in Endpoints, NEW p \in Pieces, Request(e, p) PROVE ConnInv'
  BY <1>3, <1>6, <1>9 DEF Request
<1>10. ASSUME NEW e \in Endpoints, NEW p \in Pieces, Respond(e, p) PROVE ConnInv'
  BY <1>1, <1>3, <1>6, <1>10 DEF Respond
<1>11. ASSUME NEW e \in Endpoints, NEW p \in Pieces, TimeOut(e, p) PROVE ConnInv'
  BY <1>1, <1>3, <1>6, <1>11 DEF TimeOut
<1>12. ASSUME NEW a \in Alert, a.type \in {"piece_finished", "state_changed"},
              Post(a), UNCHANGED <<opened, up>>
       PROVE  ConnInv'
  <2>1. a.type \notin PeerAlerts /\ \A e \in Endpoints : a \notin Links(e)
    BY <1>3, <1>12 DEF Links
  <2> QED
    BY <1>1, <1>12, <2>1, ConnPost
<1>13. ASSUME NEW p \in Pieces, PieceFinished(p) \/ PieceVerified(p) PROVE ConnInv'
  <2> DEFINE a == [type |-> "piece_finished", piece |-> p]
  <2>1. a \in Alert /\ a.type \in {"piece_finished", "state_changed"}
    BY DEF Alert
  <2>2. Post(a) /\ UNCHANGED <<opened, up>>
    BY <1>13 DEF PieceFinished, PieceVerified
  <2> HIDE DEF a
  <2> QED
    BY <1>12, <2>1, <2>2
<1>14. ASSUME NEW p \in Pieces, HashFails(p) PROVE ConnInv'
  <2>1. UNCHANGED <<opened, up, lost, epoch, queue, batch, peers, active, overtaken>>
    BY <1>1, <1>14 DEF HashFails, alerts, thread
  <2>2. Pending' = Pending
    BY <2>1 DEF Pending
  <2>3. \A e \in Endpoints : /\ Count(e)' = Count(e) /\ Standing(e)' = Standing(e)
                             /\ OrderAt(e) => OrderAt(e)'
    BY <2>1 DEF OrderAt, DataOf, Standing, Count, ConnectedRecords
  <2>4. \A i \in 1..Len(Pending) :
            Pending[i].type \in PeerAlerts => Pending[i].endpoint \in Endpoints
    BY <1>1, ElementOfSeq, AlertFields
  <2> QED
    BY <2>1, <2>2, <2>3, <2>4, ConnSame
<1>15. ASSUME StateChanged PROVE ConnInv'
  <2> DEFINE a == [type |-> "state_changed"]
  <2>1. a \in Alert /\ a.type \in {"piece_finished", "state_changed"}
    BY DEF Alert
  <2>2. Post(a) /\ UNCHANGED <<opened, up>>
    BY <1>15 DEF StateChanged
  <2> HIDE DEF a
  <2> QED
    BY <1>12, <2>1, <2>2
<1> QED
  BY <1>4, <1>5, <1>7, <1>8, <1>9, <1>10, <1>11, <1>13, <1>14, <1>15 DEF Torrent

LEMMA ConnStep ==
    ASSUME Registry, Registry', LatencyInv, ConnInv, [Next]_vars,
           "error_closes" \notin Troubles
    PROVE  ConnInv'
<1>1. /\ TorrentType /\ QueueType /\ ThreadType /\ RecordType /\ KeyType
      /\ RecordType' /\ (at # "done" => Table) /\ StreamInv
  BY TypeParts DEF Registry, TypeOK, RecordType, LatencyInv
<1>2. \A i \in 1..Len(Pending) :
          Pending[i].type \in PeerAlerts => Pending[i].endpoint \in Endpoints
  BY <1>1, PendingType, ElementOfSeq, AlertFields
<1>3. CASE Torrent
  BY <1>1, <1>3, ConnTorrent
<1>4. CASE Handle
  BY <1>1, <1>4, ConnHandle DEF Handle
<1>5. ASSUME UNCHANGED <<opened, up, lost, epoch, peers, active>>, overtaken => overtaken',
             Pending' = Pending
      PROVE  ConnInv'
  <2>1. ASSUME NEW e \in Endpoints
        PROVE  /\ Count(e)' = Count(e) /\ Standing(e)' = Standing(e)
               /\ OrderAt(e) => OrderAt(e)'
    BY <1>5 DEF OrderAt, DataOf, Standing, Count, ConnectedRecords
  <2>2. /\ UNCHANGED <<lost, epoch, opened, up>> /\ Pending' = Pending
        /\ overtaken => overtaken'
    BY <1>5
  <2> QED
    BY <1>2, <2>1, <2>2, ConnSame
<1>6. CASE PopAlerts
  <2>1. UNCHANGED <<opened, up, epoch, peers, active, overtaken>> /\ ~lost'
    BY <1>6 DEF PopAlerts, torrent, stats
  <2>2. CASE lost
    BY <2>1, <2>2 DEF ConnInv
  <2>3. CASE ~lost
    <3>1. Pending' = Pending /\ UNCHANGED <<opened, up, lost, epoch, peers, active>>
      BY <1>1, <1>6, <2>1, <2>3, PopStream DEF PopAlerts, QueueType
    <3>2. overtaken => overtaken'
      BY <2>1
    <3> QED
      BY <1>5, <3>1, <3>2
  <2> QED
    BY <2>2, <2>3
<1>7. CASE set_initial_totals \/ Check \/ Drained \/ UNCHANGED vars
  <2>1. Pending' = Pending /\ UNCHANGED <<opened, up, lost, epoch, peers, active>>
    BY <1>7
    DEF set_initial_totals, Check, Drained, vars, torrent, alerts, stats, thread, Pending
  <2>2. overtaken => overtaken'
    BY <1>7 DEF set_initial_totals, Check, Drained, vars
  <2> QED
    BY <1>5, <2>1, <2>2
<1>8. CASE Snapshot \/ finalize
  <2>1. /\ UNCHANGED <<opened, up, lost, epoch, queue, batch>> /\ batch = <<>>
        /\ overtaken => overtaken'
        /\ Snapshot /\ ~overtaken' => queue = <<>>
    <3>1. at # "handle"
      BY <1>8 DEF Snapshot, finalize
    <3>2. batch = <<>> /\ UNCHANGED batch
      BY <1>1, <1>8, <3>1 DEF Snapshot, finalize, StreamInv
    <3>3. UNCHANGED <<opened, up, lost, epoch, queue>>
      BY <1>8 DEF Snapshot, finalize, torrent, alerts
    <3>4. overtaken => overtaken'
      BY <1>8 DEF Snapshot, finalize
    <3>5. Snapshot /\ ~overtaken' => queue = <<>>
      BY DEF Snapshot
    <3> QED
      BY <3>2, <3>3, <3>4, <3>5
  <2>2. Pending' = Pending
    BY <2>1 DEF Pending
  <2>3. ASSUME NEW e \in Endpoints
        PROVE  /\ Count(e)' = Count(e) /\ Standing(e)' = Standing(e)
               /\ epoch = 0 /\ ~overtaken' /\ OrderAt(e) => OrderAt(e)'
    <3>1. CASE SameRecords(e)
      BY <1>1, <3>1, SameCount, SameOrder
    <3>2. ASSUME Snapshot, up[e], active'[e] = Key(e), NEW D, D = {opened[e]},
                 Gains(e, D, ConnectedRecords(e))
          PROVE  /\ Count(e)' = Count(e) /\ Standing(e)' = Standing(e)
                 /\ epoch = 0 /\ ~overtaken' /\ OrderAt(e) => OrderAt(e)'
      <4>1. PICK C : C = ConnectedRecords(e)
        OBVIOUS
      <4>2. Count(e)' = Count(e) /\ Standing(e)' = Standing(e)
        BY <1>1, <3>2, <4>1, GainsCount
      <4>3. ASSUME epoch = 0, ~overtaken', OrderAt(e) PROVE OrderAt(e)'
        <5>1. Len(Pending) = 0
          <6>1. Pending = <<>> \o <<>>
            BY <2>1, <3>2, <4>3 DEF Pending
          <6> QED
            BY <6>1
        <5>2. Follows(e, opened[e], Link(e), 0)
          BY <4>3, <5>1 DEF ConnInv
        <5>3. Count(e) = opened[e] /\ Standing(e) = "up"
          BY <3>2, <5>2, FollowsNow DEF Link
        <5> QED
          BY <1>1, <3>2, <4>1, <4>3, <5>3, GainsOrder
      <4> QED
        BY <4>2, <4>3
    <3> QED
      BY <1>1, <1>8, <3>1, <3>2, OtherGains
  <2> QED
    BY <1>2, <2>1, <2>2, <2>3, ConnSame
<1> QED
  BY <1>3, <1>4, <1>6, <1>7, <1>8 DEF Next, Main

LEMMA ConnInit == Init => ConnInv
<1> SUFFICES ASSUME Init PROVE ConnInv
  OBVIOUS
<1>1. Pending = <<>> \o <<>> /\ epoch = 0 /\ ~lost
  BY DEF Init, Pending
<1>2. Len(Pending) = 0
  BY <1>1
<1>3. ASSUME NEW e \in Endpoints
      PROVE  Follows(e, opened[e], Link(e), 0) /\ OrderAt(e)
  <2>1. opened[e] = 0 /\ ~up[e] /\ active[e] = 0 /\ peers[e] = <<>>
    BY DEF Init
  <2>2. ConnectedRecords(e) = {}
    BY <2>1 DEF ConnectedRecords
  <2>3. Count(e) = 0 /\ Standing(e) = "down" /\ Link(e) = "down"
    BY <2>1, <2>2, FS_EmptySet DEF Count, Standing, Link
  <2>4. Follows(e, opened[e], Link(e), 0)
    BY <2>1, <2>3 DEF Follows, Tracked, LastIn
  <2>5. DOMAIN DataOf(e) = {}
    BY <2>1 DEF DataOf
  <2> QED
    BY <2>3, <2>4, <2>5 DEF OrderAt, Orderly
<1> QED
  BY <1>1, <1>2, <1>3 DEF ConnInv

LEMMA ConnHolds ==
    ASSUME "error_closes" \notin Troubles
    PROVE  Spec => [](Registry /\ LatencyInv /\ ConnInv)
<1>1. Registry /\ Registry' /\ LatencyInv /\ ConnInv /\ [Next]_vars => ConnInv'
  BY ConnStep
<1> QED
  BY <1>1, ConnInit, RegistryHolds, LatencyHolds, PTL DEF Spec

\* peer_stats.cpp:652-726: for any number of peers and any queue, when no alert was
\* lost and all have been handled, each endpoint has one connected record for each of
\* its connections and the open one is the active one, as long as every connection
\* that ends is reported as disconnected.
THEOREM ConnectionsAreRecorded ==
    ASSUME "error_closes" \notin Troubles
    PROVE  Spec => []RecordsAreConnections
<1>1. Registry /\ LatencyInv /\ ConnInv => RecordsAreConnections
  <2> SUFFICES ASSUME Registry, LatencyInv, ConnInv, AllHandled, epoch = 0,
                      NEW e \in Endpoints
               PROVE  /\ Cardinality(ConnectedRecords(e)) = opened[e]
                      /\ up[e] => active[e] \in ConnectedRecords(e)
                      /\ ~up[e] /\ active[e] # 0 => active[e] \notin ConnectedRecords(e)
    BY DEF RecordsAreConnections
  <2>1. Pending = <<>> \o <<>>
    BY DEF AllHandled, Pending
  <2>2. Len(Pending) = 0
    BY <2>1
  <2>3. Follows(e, opened[e], Link(e), 0)
    BY <2>2 DEF ConnInv
  <2>4. Count(e) = opened[e] /\ Standing(e) = Link(e)
    BY <2>3, FollowsNow
  <2> QED
    BY <2>4 DEF Count, Standing, Link
<1> QED
  BY <1>1, ConnHolds, PTL

\* peer_stats.cpp:670-671: for any number of peers and any queue, a record has data of
\* one connection only and no two records of an endpoint share one, as long as every
\* connection that ends is reported as disconnected, and unless alerts were lost or a
\* snapshot has overtaken some.
THEOREM OneConnectionEach ==
    ASSUME "error_closes" \notin Troubles
    PROVE  Spec => []OneConnectionIfInOrder
<1>1. Registry /\ LatencyInv /\ ConnInv => OneConnectionIfInOrder
  <2> SUFFICES ASSUME Registry, ConnInv, epoch = 0, ~overtaken, NEW e \in Endpoints,
                      NEW n \in 1..Len(peers[e])
               PROVE  /\ Cardinality(Data(peers[e][n])) <= 1
                      /\ \A m \in 1..(n - 1) : Data(peers[e][n]) \cap Data(peers[e][m]) = {}
    BY DEF OneConnectionIfInOrder, Data
  <2>1. Len(peers[e]) \in Nat
    BY TypeParts, CountType1 DEF Registry
  <2>2. /\ DOMAIN DataOf(e) = 1..Len(peers[e])
        /\ \A m \in 1..Len(peers[e]) : DataOf(e)[m] = Data(peers[e][m])
    BY DEF DataOf
  <2>3. PICK X : X = Data(peers[e][n])
    OBVIOUS
  <2>4. ASSUME NEW m \in 1..Len(peers[e]), NEW c \in X, NEW d \in Data(peers[e][m])
        PROVE  c = d <=> n = m
    BY <2>2, <2>3, <2>4 DEF ConnInv, OrderAt, Orderly
  <2>5. \A c, d \in X : c = d
    BY <2>3, <2>4
  <2>6. Cardinality(X) <= 1
    <3>1. CASE X = {}
      BY <3>1, FS_EmptySet
    <3>2. ASSUME NEW c \in X PROVE Cardinality(X) = 1
      <4>1. X = {c}
        BY <2>5, <3>2
      <4> QED
        BY <4>1, FS_Singleton
    <3> QED
      BY <3>1, <3>2
  <2>7. ASSUME NEW m \in 1..(n - 1) PROVE X \cap Data(peers[e][m]) = {}
    <3>1. m \in 1..Len(peers[e]) /\ m # n
      BY <2>1
    <3> QED
      BY <2>4, <3>1
  <2> QED
    BY <2>3, <2>6, <2>7
<1> QED
  BY <1>1, ConnHolds, PTL
-----------------------------------------------------------------------------
(* Completions. While nothing is lost or overtaken, a piece that was        *)
(* verified is announced before the state changes, and each piece once: the *)
(* pieces counted are downloads no alert on its way is about.               *)

Downloaded == {p \in have : sender[p] # NoPeer}

Announces(a) == a.type = "piece_finished"
Awaited(s) == {s[i].piece : i \in {j \in 1..Len(s) : Announces(s[j])}}

\* No change of the state is announced by the first i alerts, nor known.
StillChecking(i) == ~latest /\ \A j \in 1..i : Pending[j].type # "state_changed"

\* The piece of alert a, which comes after i others, is announced for the first
\* time, and before the state changes if it was not downloaded.
Timely(a, i) ==
    Announces(a) =>
        /\ a.piece \in have
        /\ \A j \in 1..i : Announces(Pending[j]) => Pending[j].piece # a.piece
        /\ sender[a.piece] = NoPeer => StillChecking(i)

FinishInv ==
    /\ lost => epoch # 0
    /\ epoch = 0 /\ ~overtaken =>
           /\ ~network => StillChecking(Len(Pending))
           /\ \A i \in 1..Len(Pending) : Timely(Pending[i], i - 1)
           /\ completions <= Cardinality(Downloaded \ Awaited(Pending))

LEMMA DownloadedType ==
    ASSUME TorrentType, NEW A
    PROVE  /\ IsFiniteSet(Downloaded) /\ IsFiniteSet(Downloaded \ A)
           /\ Cardinality(Downloaded) \in Nat /\ Cardinality(Downloaded \ A) \in Nat
           /\ Cardinality(Downloaded \ A) <= Cardinality(Downloaded)
<1>1. IsFiniteSet(Downloaded) /\ (Downloaded \ A) \subseteq Downloaded
  BY FS_Subset, RegistryAssumption DEF TorrentType, Downloaded
<1> QED
  BY <1>1, FS_Subset, FS_CardinalityType

\* Downloads that become more cannot make the completions too many.
LEMMA MoreDownloads ==
    ASSUME TorrentType', CountersType, NEW A, NEW B, A = Downloaded \ Awaited(Pending),
           B = Downloaded' \ Awaited(Pending'), A \subseteq B,
           completions <= Cardinality(A), completions' = completions
    PROVE  completions' <= Cardinality(B)
<1>1. Downloaded' = {p \in have' : sender'[p] # NoPeer} /\ have' \subseteq Pieces
  BY DEF Downloaded, TorrentType
<1>2. IsFiniteSet(B)
  BY <1>1, FS_Subset, RegistryAssumption
<1>3. /\ Cardinality(A) \in Nat /\ Cardinality(B) \in Nat
      /\ Cardinality(A) <= Cardinality(B)
  BY <1>2, FS_Subset, FS_CardinalityType
<1> QED
  BY <1>3 DEF CountersType

LEMMA FinishPost ==
    ASSUME TorrentType, TorrentType', QueueType, ThreadType, CountersType, StreamInv,
           FinishInv, NEW a \in Alert, Post(a),
           UNCHANGED <<thread, latest, completions, overtaken>>,
           have \subseteq have', \A p \in have : sender[p] # NoPeer => sender'[p] # NoPeer,
           ~network' => ~network /\ a.type # "state_changed",
           Announces(a) =>
               /\ a.piece \in have' \ have
               /\ sender'[a.piece] = NoPeer => ~network
    PROVE  FinishInv'
<1>1. Pending \in Seq(Alert) /\ Len(Pending) \in Nat
  BY PendingType
<1>2. /\ lost' => epoch' # 0
      /\ epoch' = 0 => epoch = 0 /\ ~lost'
  BY DEF Post, FinishInv, QueueType
<1>3. SUFFICES ASSUME epoch' = 0, ~overtaken
      PROVE  /\ ~network' => StillChecking(Len(Pending))'
             /\ \A i \in 1..Len(Pending') : Timely(Pending[i], i - 1)'
             /\ completions' <= Cardinality(Downloaded' \ Awaited(Pending'))
  BY <1>2 DEF FinishInv
<1>4. PICK n : n = Len(Pending)
  OBVIOUS
<1>5. /\ n \in Nat /\ Len(Pending') = n + 1 /\ Pending'[n + 1] = a
      /\ \A j \in 1..n : Pending'[j] = Pending[j]
  <2>1. Pending' = Append(Pending, a)
    BY <1>2, <1>3, PostStream DEF thread
  <2> QED
    BY <1>1, <1>4, <2>1, AppendProperties
<1>6. /\ ~network => StillChecking(n)
      /\ \A i \in 1..n : Timely(Pending[i], i - 1)
      /\ completions <= Cardinality(Downloaded \ Awaited(Pending))
  BY <1>2, <1>3, <1>4 DEF FinishInv
<1>7. ~network' => StillChecking(Len(Pending))'
  BY <1>5, <1>6 DEF StillChecking
<1>8. ASSUME NEW i \in 1..n PROVE Timely(Pending[i], i - 1)'
  <2>1. i - 1 \in 0..n /\ \A j \in 1..(i - 1) : Pending'[j] = Pending[j]
    BY <1>5
  <2>2. Timely(Pending[i], i - 1) /\ Pending'[i] = Pending[i]
    BY <1>5, <1>6
  <2> QED
    BY <2>1, <2>2 DEF Timely, StillChecking, Announces
<1>9. Timely(Pending[n + 1], n)'
  <2> SUFFICES ASSUME Announces(a)
               PROVE  /\ a.piece \in have'
                      /\ \A j \in 1..n : Announces(Pending[j]) => Pending[j].piece # a.piece
                      /\ sender'[a.piece] = NoPeer =>
                             ~latest' /\ \A j \in 1..n : Pending'[j].type # "state_changed"
    BY <1>5 DEF Timely, StillChecking, Announces
  <2>1. \A j \in 1..n : Announces(Pending[j]) => Pending[j].piece \in have
    BY <1>6 DEF Timely
  <2>2. sender'[a.piece] = NoPeer => StillChecking(n)
    BY <1>6
  <2> QED
    BY <1>5, <2>1, <2>2 DEF StillChecking
<1>10. completions' <= Cardinality(Downloaded' \ Awaited(Pending'))
  <2>1. PICK A, B : A = Downloaded \ Awaited(Pending) /\ B = Downloaded' \ Awaited(Pending')
    OBVIOUS
  <2>2. Downloaded \subseteq Downloaded'
    BY DEF Downloaded
  <2>3. ASSUME NEW x \in A PROVE x \notin Awaited(Pending')
    <3>1. x \in have /\ \A j \in 1..n : Announces(Pending[j]) => Pending[j].piece # x
      BY <1>4, <2>1, <2>3 DEF Downloaded, Awaited
    <3>2. \A j \in 1..(n + 1) : j \in 1..n \/ j = n + 1
      BY <1>5
    <3>3. \A j \in 1..(n + 1) : Announces(Pending'[j]) => Pending'[j].piece # x
      BY <1>5, <3>1, <3>2
    <3> QED
      BY <1>5, <3>3 DEF Awaited
  <2>4. A \subseteq B
    BY <2>1, <2>2, <2>3
  <2> QED
    BY <1>6, <2>1, <2>4, MoreDownloads
<1>11. \A i \in 1..Len(Pending') : Timely(Pending[i], i - 1)'
  <2>1. \A i \in 1..(n + 1) : i \in 1..n \/ (i = n + 1 /\ i - 1 = n)
    BY <1>5
  <2> QED
    BY <1>5, <1>8, <1>9, <2>1
<1> QED
  BY <1>7, <1>10, <1>11

\* What posts and handles nothing: only a snapshot learns of the state, and it
\* overtakes the alerts unless there are none.
LEMMA FinishSame ==
    ASSUME TorrentType', CountersType, FinishInv, Pending' = Pending,
           UNCHANGED <<have, network, completions, epoch>>, lost' => epoch # 0,
           overtaken => overtaken',
           \A p \in have : sender'[p] = sender[p],
           \/ latest' = latest
           \/ latest' = network /\ (~overtaken' => Len(Pending) = 0)
    PROVE  FinishInv'
<1> SUFFICES ASSUME epoch = 0, ~overtaken'
             PROVE  /\ ~network => StillChecking(Len(Pending))'
                    /\ \A i \in 1..Len(Pending) : Timely(Pending[i], i - 1)'
                    /\ completions' <= Cardinality(Downloaded' \ Awaited(Pending'))
  BY DEF FinishInv
<1>1. /\ ~network => StillChecking(Len(Pending))
      /\ \A i \in 1..Len(Pending) : Timely(Pending[i], i - 1)
      /\ completions <= Cardinality(Downloaded \ Awaited(Pending))
  BY DEF FinishInv
<1>2. ~network => StillChecking(Len(Pending))'
  BY <1>1 DEF StillChecking
<1>3. ASSUME NEW i \in 1..Len(Pending) PROVE Timely(Pending[i], i - 1)'
  <2>1. Timely(Pending[i], i - 1)
    BY <1>1
  <2>2. latest' = latest
    BY <1>3
  <2> QED
    BY <2>1, <2>2 DEF Timely, StillChecking
<1>4. completions' <= Cardinality(Downloaded' \ Awaited(Pending'))
  <2>1. PICK A, B : A = Downloaded \ Awaited(Pending) /\ B = Downloaded' \ Awaited(Pending')
    OBVIOUS
  <2>2. A \subseteq B
    BY <2>1 DEF Downloaded
  <2> QED
    BY <1>1, <2>1, <2>2, MoreDownloads
<1> QED
  BY <1>2, <1>3, <1>4

LEMMA DispatchCounts ==
    ASSUME NEW a, Dispatch(a)
    PROVE  /\ ~Announces(a) => completions' = completions
           /\ Announces(a) /\ latest => completions' = completions + 1
           /\ Announces(a) /\ ~latest => completions' = completions
           /\ latest' # latest => a.type = "state_changed"
BY DEF Dispatch, Announces, note_peer_connect, note_peer_disconnect, note_peer_error,
   note_request_sent, note_block_response, note_timeout, note_piece_finished,
   note_torrent_state, note_alert_loss

LEMMA FinishHandle ==
    ASSUME TorrentType, TorrentType', QueueType, ThreadType, CountersType, FinishInv, Handle
    PROVE  FinishInv'
<1>1. /\ Pending # <<>> /\ Pending' = Tail(Pending) /\ Pending \in Seq(Alert)
      /\ Len(Pending) \in Nat /\ Pending[1] \in Alert /\ Dispatch(Pending[1])
      /\ UNCHANGED <<lost, epoch, have, sender, network, overtaken>>
  BY HandleStream DEF Handle, torrent, alerts
<1>2. PICK n, a : n = Len(Pending) /\ a = Pending[1]
  OBVIOUS
<1>3. /\ n \in Nat \ {0} /\ Len(Pending') = n - 1 /\ 1 \in 1..n
      /\ \A i \in 1..(n - 1) : Pending'[i] = Pending[i + 1]
  BY <1>1, <1>2, HeadTailProperties, EmptySeq
<1> SUFFICES ASSUME epoch = 0, ~overtaken
             PROVE  /\ ~network => StillChecking(Len(Pending))'
                    /\ \A i \in 1..Len(Pending') : Timely(Pending[i], i - 1)'
                    /\ completions' <= Cardinality(Downloaded' \ Awaited(Pending'))
  BY <1>1 DEF FinishInv
<1>4. /\ ~network => StillChecking(n)
      /\ \A i \in 1..n : Timely(Pending[i], i - 1)
      /\ completions <= Cardinality(Downloaded \ Awaited(Pending))
  BY <1>2 DEF FinishInv
<1>5. /\ ~Announces(a) => completions' = completions
      /\ Announces(a) /\ latest => completions' = completions + 1
      /\ Announces(a) /\ ~latest => completions' = completions
      /\ latest' # latest => a.type = "state_changed"
  BY <1>1, <1>2, DispatchCounts
<1>6. ASSUME NEW i \in 1..n, StillChecking(i)
      PROVE  ~latest' /\ \A j \in 1..(i - 1) : Pending'[j].type # "state_changed"
  <2>1. ~latest /\ \A j \in 1..i : Pending[j].type # "state_changed"
    BY <1>6 DEF StillChecking
  <2>2. 1 \in 1..i /\ \A j \in 1..(i - 1) : j \in 1..(n - 1) /\ j + 1 \in 1..i
    BY <1>3
  <2>3. ~latest'
    <3>1. a.type # "state_changed"
      BY <1>2, <2>1, <2>2
    <3> QED
      BY <1>5, <2>1, <3>1
  <2> QED
    BY <1>3, <2>1, <2>2, <2>3
<1>7. ~network => StillChecking(Len(Pending))'
  <2>1. n \in 1..n
    BY <1>3
  <2>2. ~network => ~latest' /\ \A j \in 1..(n - 1) : Pending'[j].type # "state_changed"
    BY <1>4, <1>6, <2>1
  <2> QED
    BY <1>1, <1>3, <2>2 DEF StillChecking
<1>8. ASSUME NEW i \in 1..(n - 1) PROVE Timely(Pending[i], i - 1)'
  <2>1. /\ i \in 1..n /\ i + 1 \in 1..n /\ i + 1 - 1 = i /\ Pending'[i] = Pending[i + 1]
        /\ \A j \in 1..(i - 1) : Pending'[j] = Pending[j + 1] /\ j + 1 \in 1..i
    BY <1>3
  <2>2. Timely(Pending[i + 1], i)
    <3>1. Timely(Pending[i + 1], i + 1 - 1)
      BY <1>4, <2>1
    <3> QED
      BY <2>1, <3>1
  <2>3. StillChecking(i) => ~latest' /\ \A j \in 1..(i - 1) : Pending'[j].type # "state_changed"
    BY <1>6, <2>1
  <2> QED
    BY <1>1, <2>1, <2>2, <2>3 DEF Timely, StillChecking, Announces
<1>9. PICK A, B : A = Downloaded \ Awaited(Pending) /\ B = Downloaded' \ Awaited(Pending')
  OBVIOUS
<1>10. A \subseteq B
  <2>1. Downloaded' = Downloaded
    BY <1>1 DEF Downloaded
  <2>2. Awaited(Pending') \subseteq Awaited(Pending)
    <3>1. ASSUME NEW i \in 1..(n - 1), Announces(Pending'[i])
          PROVE  Pending'[i].piece \in Awaited(Pending)
      <4>1. i + 1 \in 1..n /\ Pending'[i] = Pending[i + 1]
        BY <1>3
      <4> QED
        BY <1>2, <3>1, <4>1 DEF Awaited
    <3> QED
      BY <1>3, <3>1 DEF Awaited
  <2> QED
    BY <1>9, <2>1, <2>2
<1>11. completions' <= Cardinality(Downloaded' \ Awaited(Pending'))
  <2>1. CASE completions' = completions
    BY <1>4, <1>9, <1>10, <2>1, MoreDownloads
  <2>2. CASE Announces(a) /\ latest /\ completions' = completions + 1
    <3>1. PICK p : p = a.piece
      OBVIOUS
    <3>2. Timely(a, 0)
      <4>1. Timely(Pending[1], 1 - 1) /\ 1 - 1 = 0
        BY <1>3, <1>4
      <4> QED
        BY <1>2, <4>1
    <3>3. p \in Downloaded /\ p \in Awaited(Pending)
      BY <1>2, <1>3, <2>2, <3>1, <3>2 DEF Timely, StillChecking, Downloaded, Awaited
    <3>4. p \notin Awaited(Pending')
      <4> SUFFICES ASSUME NEW i \in 1..(n - 1), Announces(Pending'[i])
                   PROVE  Pending'[i].piece # p
        BY <1>3 DEF Awaited
      <4>1. i + 1 \in 1..n /\ Pending'[i] = Pending[i + 1] /\ 1 \in 1..(i + 1 - 1)
        BY <1>3
      <4>2. Timely(Pending[i + 1], i + 1 - 1)
        BY <1>4, <4>1
      <4> QED
        BY <1>2, <2>2, <3>1, <4>1, <4>2 DEF Timely
    <3>5. Downloaded' = Downloaded
      BY <1>1 DEF Downloaded
    <3>6. p \in B /\ p \notin A /\ A \cup {p} \subseteq B
      BY <1>9, <1>10, <3>3, <3>4, <3>5
    <3>7. IsFiniteSet(A) /\ IsFiniteSet(B)
      BY <1>9, <3>5, DownloadedType
    <3>8. /\ Cardinality(A \cup {p}) = Cardinality(A) + 1
          /\ Cardinality(A \cup {p}) <= Cardinality(B)
          /\ Cardinality(A) \in Nat /\ Cardinality(B) \in Nat
      <4>1. Cardinality(A \cup {p}) = Cardinality(A) + 1
        BY <3>6, <3>7, FS_AddElement
      <4>2. Cardinality(A \cup {p}) <= Cardinality(B)
        BY <3>6, <3>7, FS_Subset
      <4> QED
        BY <3>7, <4>1, <4>2, FS_CardinalityType
    <3> QED
      BY <1>4, <1>9, <2>2, <3>8 DEF CountersType
  <2> QED
    BY <1>5, <2>1, <2>2
<1> QED
  BY <1>3, <1>7, <1>8, <1>11

LEMMA FinishStep ==
    ASSUME Registry, Registry', LatencyInv, FinishInv, [Next]_vars
    PROVE  FinishInv'
<1>1. /\ TorrentType /\ TorrentType' /\ QueueType /\ ThreadType /\ CountersType /\ StreamInv
      /\ Pending \in Seq(Alert)
  <2>1. TorrentType /\ QueueType /\ ThreadType /\ CountersType /\ StreamInv
    BY TypeParts DEF Registry, LatencyInv, CountersType, CountType, TypeOK
  <2>2. TorrentType'
    BY DEF Registry, TorrentType, TypeOK
  <2> QED
    BY <2>1, <2>2, PendingType
<1>2. CASE Torrent
  <2>1. UNCHANGED <<thread, latest, completions, overtaken>>
    BY <1>2 DEF Torrent, stats
  <2>2. ASSUME NEW a \in Alert, Post(a), ~Announces(a), have' = have,
               \A p \in have : sender[p] # NoPeer => sender'[p] # NoPeer,
               ~network' => ~network /\ a.type # "state_changed"
        PROVE  FinishInv'
    BY <1>1, <2>1, <2>2, FinishPost
  <2>3. ASSUME NEW type \in PeerAlerts, NEW e \in Endpoints, NEW p \in Pieces,
               NEW conn \in Nat, PostPeer(type, e, p, conn), have' = have,
               \A q \in have : sender[q] # NoPeer => sender'[q] # NoPeer,
               network' = network
        PROVE  FinishInv'
    <3> DEFINE tag == [conn |-> conn, epoch |-> epoch]
               a == [type |-> type, endpoint |-> e, piece |-> p, tag |-> tag]
    <3>1. tag \in Tag
      BY <1>1 DEF Tag, QueueType
    <3>2. Post(a)
      BY <2>3 DEF PostPeer
    <3>3. a \in Alert /\ ~Announces(a) /\ a.type # "state_changed"
      <4> HIDE DEF tag
      <4> QED BY <3>1 DEF Alert, PeerAlerts, Announces
    <3> HIDE DEF a
    <3> QED
      BY <2>2, <2>3, <3>2, <3>3
  <2>4. AnyPiece \in Pieces /\ \A e \in Endpoints : opened[e] \in Nat
    BY <1>1, RegistryAssumption DEF AnyPiece, TorrentType
  <2>5. ASSUME NEW e \in Endpoints, Open(e) \/ Close(e) \/ OpenFails(e) \/ PeerError(e)
        PROVE  FinishInv'
    <3>1. PICK type \in PeerAlerts, conn \in Nat : PostPeer(type, e, AnyPiece, conn)
      <4>1. CASE Open(e)
        <5>1. opened'[e] \in Nat
          BY <1>1, <4>1 DEF TorrentType
        <5> QED
          BY <4>1, <5>1 DEF Open, PeerAlerts
      <4>2. CASE Close(e)
        BY <2>4, <4>2 DEF Close, Endings, PeerAlerts
      <4>3. CASE OpenFails(e)
        BY <4>3 DEF OpenFails, PeerAlerts
      <4>4. CASE PeerError(e)
        BY <2>4, <4>4 DEF PeerError, PeerAlerts
      <4> QED
        BY <2>5, <4>1, <4>2, <4>3, <4>4
    <3>2. UNCHANGED <<have, sender, network>>
      BY <2>5 DEF Open, Close, OpenFails, PeerError, torrent
    <3> QED
      BY <2>3, <2>4, <3>1, <3>2
  <2>6. ASSUME NEW e \in Endpoints, NEW p \in Pieces,
               Request(e, p) \/ Respond(e, p) \/ TimeOut(e, p)
        PROVE  FinishInv'
    <3>1. PICK type \in PeerAlerts : PostPeer(type, e, p, opened[e])
      BY <2>6 DEF Request, Respond, TimeOut, PeerAlerts
    <3>2. UNCHANGED <<have, network>>
      BY <2>6 DEF Request, Respond, TimeOut
    <3>3. \A q \in have : sender[q] # NoPeer => sender'[q] # NoPeer
      <4>1. CASE sender' = sender
        BY <4>1
      <4>2. CASE Respond(e, p)
        <5>1. sender' = [sender EXCEPT ![p] = <<e, opened[e]>>] /\ sender[p] = NoPeer
          BY <4>2 DEF Respond
        <5>2. have \subseteq Pieces /\ DOMAIN sender = Pieces
          BY <1>1 DEF TorrentType
        <5> QED
          BY <5>1, <5>2
      <4> QED
        BY <2>6, <4>1, <4>2 DEF Request, TimeOut
    <3> QED
      BY <2>3, <2>4, <3>1, <3>2, <3>3
  <2>7. ASSUME NEW p \in Pieces, PieceFinished(p) \/ PieceVerified(p) PROVE FinishInv'
    <3> DEFINE a == [type |-> "piece_finished", piece |-> p]
    <3>1. a \in Alert /\ a.type # "state_changed" /\ a.piece = p
      BY DEF Alert
    <3>2. /\ Post(a) /\ have' = have \cup {p} /\ p \notin have
          /\ UNCHANGED <<sender, network>> /\ (sender[p] = NoPeer => ~network)
      BY <2>7 DEF PieceFinished, PieceVerified
    <3> HIDE DEF a
    <3> QED
      BY <1>1, <2>1, <3>1, <3>2, FinishPost
  <2>8. ASSUME NEW p \in Pieces, HashFails(p) PROVE FinishInv'
    <3>1. /\ UNCHANGED <<have, network, epoch, lost, queue, batch>> /\ p \notin have
          /\ sender' = [sender EXCEPT ![p] = NoPeer]
      BY <2>1, <2>8 DEF HashFails, alerts, thread
    <3>2. Pending' = Pending /\ \A q \in have : sender'[q] = sender[q]
      BY <1>1, <3>1 DEF Pending, TorrentType
    <3> QED
      BY <1>1, <2>1, <3>1, <3>2, FinishSame DEF FinishInv
  <2>9. ASSUME StateChanged PROVE FinishInv'
    <3> DEFINE a == [type |-> "state_changed"]
    <3>1. a \in Alert /\ ~Announces(a)
      BY DEF Alert, Announces
    <3>2. Post(a) /\ UNCHANGED <<have, sender>> /\ network'
      BY <2>9 DEF StateChanged
    <3> HIDE DEF a
    <3> QED
      BY <2>2, <3>1, <3>2
  <2> QED
    BY <1>2, <2>5, <2>6, <2>7, <2>8, <2>9 DEF Torrent
<1>3. CASE Handle
  BY <1>1, <1>3, FinishHandle
<1>4. CASE PopAlerts
  <2>1. UNCHANGED <<have, network, sender, latest, completions, epoch, overtaken>> /\ ~lost'
    BY <1>4 DEF PopAlerts, torrent, stats
  <2>2. CASE lost
    BY <2>1, <2>2 DEF FinishInv
  <2>3. CASE ~lost
    BY <1>1, <1>4, <2>1, <2>3, PopStream, FinishSame
  <2> QED
    BY <2>2, <2>3
<1>5. CASE Check \/ Drained \/ finalize \/ UNCHANGED vars
  <2>1. UNCHANGED <<torrent, alerts, batch, latest, completions, overtaken>>
    BY <1>5 DEF Check, Drained, finalize, vars, stats, thread
  <2> QED
    BY <1>1, <2>1, FinishSame DEF torrent, alerts, Pending, FinishInv
<1>6. CASE set_initial_totals \/ Snapshot
  <2>1. /\ UNCHANGED <<torrent, alerts, batch, completions>> /\ latest' = network
        /\ overtaken' = (overtaken \/ queue # <<>>) /\ at \in {"added", "snapshot"}
    BY <1>6 DEF set_initial_totals, Snapshot
  <2>2. batch = <<>> /\ Pending' = Pending
    BY <1>1, <2>1 DEF StreamInv, alerts, Pending
  <2>3. ~overtaken' => Len(Pending) = 0
    <3> SUFFICES ASSUME queue = <<>> PROVE Len(Pending) = 0
      BY <2>1
    <3>1. Pending = <<>> \o <<>>
      BY <2>2 DEF Pending
    <3> QED
      BY <3>1
  <2> QED
    BY <1>1, <2>1, <2>2, <2>3, FinishSame DEF torrent, alerts, FinishInv
<1> QED
  BY <1>2, <1>3, <1>4, <1>5, <1>6 DEF Next, Main

LEMMA FinishInit == Init => FinishInv
<1> SUFFICES ASSUME Init PROVE FinishInv
  OBVIOUS
<1>1. Pending = <<>> \o <<>> /\ ~lost /\ completions = 0 /\ (~network => ~latest) /\ have = {}
  BY DEF Init, Pending
<1>2. Len(Pending) = 0
  BY <1>1
<1>3. Downloaded \ Awaited(Pending) = {}
  BY <1>1 DEF Downloaded
<1> QED
  BY <1>1, <1>2, <1>3, FS_EmptySet DEF FinishInv, StillChecking

\* peer_stats.cpp:752-761: for any number of peers and pieces, unless alerts were lost
\* or a snapshot has overtaken some, only downloaded pieces count as completed.
THEOREM OnlyDownloadsComplete == Spec => []CompletionsAreDownloads
<1>1. Registry /\ Registry' /\ LatencyInv /\ FinishInv /\ [Next]_vars => FinishInv'
  BY FinishStep
<1>2. Registry /\ FinishInv => CompletionsAreDownloads
  <2> SUFFICES ASSUME Registry, FinishInv, epoch = 0, ~overtaken
               PROVE  completions <= Cardinality(Downloaded)
    BY DEF CompletionsAreDownloads, Downloaded
  <2>1. TorrentType /\ CountersType
    BY TypeParts DEF Registry, CountersType, CountType, TypeOK
  <2>2. PICK A : A = Awaited(Pending)
    OBVIOUS
  <2>3. completions <= Cardinality(Downloaded \ A)
    BY <2>2 DEF FinishInv
  <2> QED
    BY <2>1, <2>3, DownloadedType DEF CountersType
<1> QED
  BY <1>1, <1>2, FinishInit, RegistryHolds, LatencyHolds, PTL DEF Spec
=============================================================================
