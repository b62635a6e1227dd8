------------------------------ MODULE MCTunnelGC ------------------------------
(* TunnelGC with two ports; ports are interchangeable, so symmetric. *)
EXTENDS TunnelGC, TLC

CONSTANTS p1, p2

MCPorts == {p1, p2}

MCSymmetry == Permutations(MCPorts)
=============================================================================
