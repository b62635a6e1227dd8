----------------------- MODULE MCAntennaForwardingClient -----------------------
(* Model values for AntennaForwardingClient: two candidate interfaces, the *)
(* antenna x.x.x.1 on e2, x.x.x.2 a free address of its /24.               *)
EXTENDS AntennaForwardingClient

CONSTANTS e1, e2

MCIfaces == {e1, e2}

MCAntennaAt == [o \in Octets |-> IF o = 1 THEN e2 ELSE NoIface]
=============================================================================
