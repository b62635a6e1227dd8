\* A session relaying antenna data upstream is closed as idle: l.221 counts only server messages.
\* Faults off: the peers and the kernel behave; one checkin.
CONSTANTS
    e1 = e1
    e2 = e2
    NoIface = NoIface
    Ifaces <- MCIfaces
    Octets = {1, 2}
    Targets = {1}
    AntennaAt <- MCAntennaAt
    KernelFaults = FALSE
    RouteRaces = FALSE
    StreamIds = {1}
    IdleLimit = 1
    MaxEvents = 3
    AntennaFaults = FALSE
    MaxCheckins = 1
SPECIFICATION Spec
INVARIANT IdleTimeoutMeansQuiet
CHECK_DEADLOCK FALSE
