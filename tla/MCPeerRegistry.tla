--------------------------- MODULE MCPeerRegistry ----------------------------
(* Symmetry for PeerRegistry: nothing orders its endpoints. *)
EXTENDS PeerRegistry, TLC

EndpointSymmetry == Permutations(Endpoints)
=============================================================================
