----------------------------- MODULE MCPeerListener -----------------------------
(* Two interfaces on separate segments and one neighbour. *)
EXTENDS PeerListener

CONSTANTS e1, e2, n1

MCIfaces == {e1, e2}

MCLinkOf == [i \in MCIfaces |-> i]
=============================================================================
