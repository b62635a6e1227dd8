\* Two checkins, two stream ids (their events interleave), three server/antenna events, antenna and
\* kernel faults on: every path of the worker, the panics included.
CONSTANTS
    e1 = e1
    e2 = e2
    NoIface = NoIface
    Ifaces <- MCIfaces
    Octets = {1, 2}
    Targets = {1}
    AntennaAt <- MCAntennaAt
    KernelFaults = TRUE
    RouteRaces = FALSE
    StreamIds = {1, 2}
    IdleLimit = 1
    MaxEvents = 3
    AntennaFaults = TRUE
    MaxCheckins = 2
SPECIFICATION Spec
INVARIANT TypeOK
INVARIANT ClientLogWellFormed
PROPERTY WorkerReturns
PROPERTY DiscoveryImplementsLookup
\* A panic ends the worker thread for good (a bare thread::spawn, l.65):
\* pc = "dead" has no successor.  A stuck worker anywhere else violates
\* WorkerReturns.
CHECK_DEADLOCK FALSE
