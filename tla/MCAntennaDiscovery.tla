-------------------------- MODULE MCAntennaDiscovery --------------------------
(* Model values and bounds for AntennaDiscovery run on its own: discoveries *)
(* one after another with the kernel tables carried over.  The antenna at  *)
(* x.x.x.1 hangs off e2; x.x.x.2 and x.x.x.3 are free addresses of the /24. *)
EXTENDS AntennaDiscovery

CONSTANTS e1, e2

MCIfaces == {e1, e2}

MCAntennaAt == [o \in Octets |-> IF o = 1 THEN e2 ELSE NoIface]
=============================================================================
