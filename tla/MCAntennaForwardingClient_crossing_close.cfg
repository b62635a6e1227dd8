\* The server's ConnectionClose crosses the client's: the worker panics at l.140-142 although every peer followed the protocol.
\* Faults off: the peers and the kernel behave; one checkin.
CONSTANTS
    e1 = e1
    e2 = e2
    NoIface = NoIface
    Ifaces <- MCIfaces
    Octets = {1, 2}
    Targets = {1}
    AntennaAt <- MCAntennaAt
    KernelFaults = FALSE
    RouteRaces = FALSE
    StreamIds = {1}
    IdleLimit = 1
    MaxEvents = 3
    AntennaFaults = FALSE
    MaxCheckins = 1
SPECIFICATION Spec
INVARIANT NoWorkerPanic
CHECK_DEADLOCK FALSE
