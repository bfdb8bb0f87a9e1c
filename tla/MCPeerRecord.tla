----------------------------- MODULE MCPeerRecord -----------------------------
(***************************************************************************)
(* PeerRecord for TLC. All that may happen to a record at once is too much *)
(* to enumerate, so each behaviour plays one of the scenarios below, with  *)
(* what happens in it, to which blocks, how often and how long.            *)
(***************************************************************************)
EXTENDS PeerRecord

MCEvents == {"request", "cancel", "incoming", "upload", "peer_cancel", "part", "snub",
             "snapshot", "loss", "disconnect"}

Scenarios ==
    [\* libtorrent requests blocks, gives some up, and alerts are lost
     requests |-> [events |-> {"request", "cancel", "loss"},
                   blocks |-> {0, 1}, clock |-> 4, number |-> 3],
     \* the peer requests blocks and takes some back; the last block is short
     uploads  |-> [events |-> {"incoming", "upload", "peer_cancel", "loss"},
                   blocks |-> {1, 2}, clock |-> 5, number |-> 3],
     \* it requests parts of blocks
     parts    |-> [events |-> {"incoming", "upload", "peer_cancel", "part"},
                   blocks |-> {0, 1}, clock |-> 4, number |-> 3],
     \* the peer requests blocks close together or far apart
     bursts   |-> [events |-> {"incoming", "disconnect"},
                   blocks |-> {0}, clock |-> 10, number |-> 5],
     \* the peer becomes active and idle, chokes and unchokes
     activity |-> [events |-> {"incoming", "snapshot", "snub", "disconnect"},
                   blocks |-> {0}, clock |-> 5, number |-> 2]]

VARIABLE scenario

Played == Scenarios[scenario]

MCInit == Init /\ scenario \in DOMAIN Scenarios

\* A step of the scenario.
Play(event, step) ==
    /\ event \in Played.events
    /\ step
    /\ \A s \in Streams : number'[s] <= Played.number
    /\ UNCHANGED scenario

MCNext ==
    \/ Tick /\ clock' <= Played.clock /\ UNCHANGED scenario
    \/ \E b \in Played.blocks :
          \/ Play("request", note_request_sent(b))
          \/ Play("request", note_block_response(b))
          \/ Play("request", note_timeout(b))
          \/ Play("cancel", Cancel(b))
          \/ Play("upload", note_block_uploaded(b))
          \/ Play("peer_cancel", PeerCancel(b))
    \/ \E r \in PeerRequests :
          /\ BlockOf(r) \in Played.blocks /\ (IsWhole(r) \/ "part" \in Played.events)
          /\ Play("incoming", note_incoming_request(r))
    \/ Play("snub", note_snubbed)
    \/ Play("snapshot", ChokeChanges)
    \/ \E active_now \in BOOLEAN : Play("snapshot", update_from_snapshot(active_now))
    \/ /\ Play("loss", note_alert_loss)
       /\ \A b \in Blocks : asked'[b] # asked[b] =>
              "request" \in Played.events /\ b \in Played.blocks
    \/ Play("disconnect", Disconnect)
    \/ finalize /\ UNCHANGED scenario

MCSpec == MCInit /\ [][MCNext]_<<vars, scenario>>
=============================================================================
