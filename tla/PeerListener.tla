------------------------------ MODULE PeerListener ------------------------------
(***************************************************************************)
(* The mesh peer listener, src/rita/src/rita_common/peer_listener/mod.rs: *)
(* a global RwLock<PeerListener> holding the interfaces listened on and    *)
(* the peers heard in the last tick.  tick and unlisten_interface hold the *)
(* write lock for their whole body, so each is one step.  A panic while    *)
(* the write guard is held poisons the lock: every later `.write()` or     *)
(* `.read()` `.unwrap()` panics.                                           *)
(*                                                                         *)
(* An interface's link-local address is named by the interface itself.    *)
(* ImHere datagrams are sets per socket (a repeat is discarded anyway,     *)
(* l.225-231); Junk stands for any datagram that does not decode.  The    *)
(* kernel, the neighbours and the settings' peer_interfaces (edited        *)
(* outside this repository) are the environment.                           *)
(***************************************************************************)
EXTENDS Naturals, FiniteSets

CONSTANTS
    Ifaces,      \* interface names that may appear in peer_interfaces
    Remote,      \* link-local addresses of neighbours
    Junk,        \* model value: a datagram PeerMessage::decode rejects
    LinkOf,      \* LinkOf[i]: the layer-2 segment interface i is on
    IfaceRaces   \* may an interface vanish between l.129 and l.138?

ASSUME Junk \notin Ifaces \cup Remote /\ Ifaces \cap Remote = {}
ASSUME IfaceRaces \in BOOLEAN

VARIABLES
    settings,   \* SETTING.network.peer_interfaces
    link,       \* link[i]: "absent", "tentative" (link-local address not bindable yet) or "ready"
    listen,     \* the keys of peer_listener.interfaces
    inbox,      \* inbox[i]: datagrams queued on i's multicast socket
    peers,      \* peer_listener.peers as a set of [ip, iface] records
    lock        \* "ok" or "poisoned"

vars == <<settings, link, listen, inbox, peers, lock>>

LinkStates == {"absent", "tentative", "ready"}

Datagrams == Ifaces \cup Remote \cup {Junk}

Init ==
    /\ settings \in SUBSET Ifaces
    /\ link \in [Ifaces -> LinkStates]
    /\ listen = {} /\ inbox = [i \in Ifaces |-> {}] /\ peers = {}
    /\ lock = "ok"

(* send_im_here (l.167-185): our ImHere on i's link reaches the multicast  *)
(* sockets of every listened interface on that link, i's own included     *)
(* (multicast loopback).  A send on an absent link fails and is logged.    *)
ImHereSent(j) == IF link[j] = "absent" THEN {} ELSE {i \in listen : LinkOf[i] = LinkOf[j]}

Queued(j) == inbox[j] \cup {i \in listen : j \in ImHereSent(i)}

(* Variant of HeardOn that keeps a datagram that failed to decode (l.212-217). *)
HeardOnNoDecode(i) == Queued(i) \ {i}

(* Variant of HeardOn without the "Got ImHere from myself" check (l.220). *)
HeardOnWithSelf(i) == Queued(i) \ {Junk}

(* receive_im_here, one interface (l.194-235): read until the socket is    *)
(* empty; skip what does not decode and our own address on this interface. *)
HeardOn(i) == Queued(i) \ {Junk, i}

(* l.225-234: over the interfaces in HashMap order (`rank`), the first one *)
(* an address is heard on keeps it.                                        *)
FirstHeardOn(a, rank) ==
    {j \in listen : a \in HeardOn(j) /\ \A k \in listen : a \in HeardOn(k) => rank[j] <= rank[k]}

ReceiveImHere(rank) ==
    UNION {{[ip |-> a, iface |-> i] : i \in FirstHeardOn(a, rank)}
           : a \in UNION {HeardOn(j) : j \in listen}}

(* Variant of ListenCandidates that never retries: only the start listens. *)
ListenCandidatesNone == {}

(* listen_to_available_ifaces (l.65-80): the settings' interfaces not yet  *)
(* listened on.                                                            *)
ListenCandidates == settings \ listen

(* l.70-78: each interface whose ListenInterface::new returned Ok is      *)
(* inserted; an Err is dropped, to be retried on the next tick.           *)
ListenedAfter(out) == listen \cup {i \in ListenCandidates : out[i] = "ok"}

(* ListenInterface::new (l.124-164) on i: "ok"; "err" when the link-local  *)
(* address is missing (l.129) or not bindable (l.149); "panic" at the      *)
(* expect of l.139 when the interface vanished after l.129 (its index then *)
(* reads as 0 and the scoped bind fails).                                  *)
NewOutcomes(i) ==
    CASE link[i] = "absent"    -> {"err"}
      [] link[i] = "tentative" -> {"err"} \cup (IF IfaceRaces THEN {"panic"} ELSE {})
      [] link[i] = "ready"     -> {"ok"} \cup (IF IfaceRaces THEN {"panic"} ELSE {})

(* tick (l.82-91) under the write lock: send, replace the peer table with *)
(* this tick's, then try to listen on the settings' other interfaces.  A   *)
(* panic in ListenInterface::new leaves the peer table written (l.88) and  *)
(* poisons the lock.                                                       *)
Tick ==
    /\ lock = "ok"
    /\ \E rank \in [listen -> 1..Cardinality(listen)] :
          /\ \A j, k \in listen : rank[j] = rank[k] => j = k
          /\ peers' = ReceiveImHere(rank)
    /\ inbox' = [i \in Ifaces |-> IF i \in listen THEN {} ELSE inbox[i]]
    /\ \E out \in [ListenCandidates -> {"ok", "err", "panic"}] :
          /\ \A i \in ListenCandidates : out[i] \in NewOutcomes(i)
          /\ \/ /\ \A i \in ListenCandidates : out[i] # "panic"
                /\ listen' = ListenedAfter(out)
                /\ UNCHANGED lock
             \/ /\ \E i \in ListenCandidates : out[i] = "panic"
                /\ lock' = "poisoned"
                /\ UNCHANGED listen
    /\ UNCHANGED <<settings, link>>

(* unlisten_interface (l.94-107): drop the ListenInterface (its sockets    *)
(* close) and the settings entry; an interface not listened on is only     *)
(* logged, and stays in the settings.                                      *)
Unlisten(i) ==
    /\ lock = "ok"
    /\ \/ /\ i \in listen
          /\ listen' = listen \ {i}
          /\ settings' = settings \ {i}
          /\ inbox' = [inbox EXCEPT ![i] = {}]
          /\ UNCHANGED <<link, peers, lock>>
       \/ /\ i \notin listen
          /\ UNCHANGED vars

(* Environment: an ImHere or junk datagram from the segment arrives on a  *)
(* bound multicast socket.                                                 *)
Hear(i, d) ==
    /\ i \in listen /\ link[i] # "absent"
    /\ d \in (Remote \cup {Junk})
    /\ inbox' = [inbox EXCEPT ![i] = @ \cup {d}]
    /\ UNCHANGED <<settings, link, listen, peers, lock>>

(* Environment: an interface appears, gets its address, or goes away.     *)
SetLink(i, s) ==
    /\ link' = [link EXCEPT ![i] = s]
    /\ UNCHANGED <<settings, listen, inbox, peers, lock>>

(* Environment: the dashboard adds an interface to peer_interfaces. *)
AddPeerInterface(i) ==
    /\ settings' = settings \cup {i}
    /\ UNCHANGED <<link, listen, inbox, peers, lock>>

Next ==
    \/ Tick
    \/ \E i \in Ifaces :
          \/ Unlisten(i) \/ AddPeerInterface(i)
          \/ \E s \in LinkStates : SetLink(i, s)
          \/ \E d \in Datagrams : Hear(i, d)

(* rita_loop calls tick on every iteration: weak fairness on Tick only. *)
Spec == Init /\ [][Next]_vars /\ WF_vars(Tick)

-----------------------------------------------------------------------------
TypeOK ==
    /\ settings \subseteq Ifaces /\ listen \subseteq Ifaces
    /\ link \in [Ifaces -> LinkStates]
    /\ inbox \in [Ifaces -> SUBSET Datagrams]
    /\ peers \subseteq [ip : Remote \cup Ifaces, iface : Ifaces]
    /\ lock \in {"ok", "poisoned"}

(* The peer table a tick publishes (get_peers) is exactly the neighbours   *)
(* heard since the previous tick, each once and on an interface it was     *)
(* heard on: no ImHere is lost to a skipped junk, self or repeated         *)
(* datagram before it (the `continue`s of l.214-231), and none of our own  *)
(* link-local addresses is taken for a neighbour (l.220).                  *)
PeersAreHeardNeighbours ==
    [][Tick =>
         /\ {p.ip : p \in peers'} = Remote \cap UNION {inbox[i] : i \in listen}
         /\ \A p, q \in peers' : p.ip = q.ip => p = q
         /\ \A p \in peers' : p.ip \in inbox[p.iface]]_vars

(* An interface in peer_interfaces whose link-local address is usable is   *)
(* eventually listened on by the ticks (l.90), unless it leaves the        *)
(* settings or the link, or a panic in ListenInterface::new poisoned the   *)
(* lock.                                                                   *)
ReadyIfaceListened ==
    \A i \in Ifaces :
        (i \in settings /\ link[i] = "ready")
            ~> (i \in listen \/ i \notin settings \/ link[i] # "ready" \/ lock = "poisoned")
=============================================================================
