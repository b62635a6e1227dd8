\* Two interfaces on separate segments, one neighbour, junk datagrams, and
\* interfaces that may vanish in the middle of ListenInterface::new.
CONSTANTS
    e1 = e1
    e2 = e2
    n1 = n1
    Junk = Junk
    Ifaces <- MCIfaces
    Remote = {n1}
    LinkOf <- MCLinkOf
    IfaceRaces = TRUE
SPECIFICATION Spec
INVARIANT TypeOK
PROPERTY PeersAreHeardNeighbours
PROPERTY ReadyIfaceListened
