\* One antenna, at x.x.x.1 behind e2, and a /32 route to it via e2 already in
\* the table when find_antenna probes e1: the add exits with status 2, not 512.
CONSTANTS
    e1 = e1
    e2 = e2
    NoIface = NoIface
    Ifaces <- MCIfaces
    Octets = {1, 2, 3}
    Targets = {1}
    AntennaAt <- MCAntennaAt
    KernelFaults = FALSE
    RouteRaces = TRUE
INIT DiscInit
NEXT DiscNext
INVARIANT DiscoveredIsAntenna
