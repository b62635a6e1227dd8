\* The server names two addresses of the same /24 in turn (the second is
\* not an antenna): a probe address left from the first search is answered
\* by the gateway itself in the second.
CONSTANTS
    e1 = e1
    e2 = e2
    NoIface = NoIface
    Ifaces <- MCIfaces
    Octets = {1, 2, 3}
    Targets = {1, 2}
    AntennaAt <- MCAntennaAt
    KernelFaults = FALSE
    RouteRaces = FALSE
INIT DiscInit
NEXT DiscNext
INVARIANT DiscoveredIsAntenna
