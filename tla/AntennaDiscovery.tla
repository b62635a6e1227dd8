--------------------------- MODULE AntennaDiscovery ---------------------------
(***************************************************************************)
(* The probe lease resolver of src/antenna_forwarding_client/src/lib.rs:   *)
(* setup_networking, find_antenna and get_local_ip.                        *)
(*                                                                         *)
(* Addresses are abstracted to their last octet: the antenna and every     *)
(* probe address share the antenna's /24 (get_local_ip only rewrites the   *)
(* last byte).  The kernel's address table and its main table of /32       *)
(* routes are variables, because find_antenna mutates them and never       *)
(* restores them: what one discovery leaves behind is seen by the next.    *)
(* One loop iteration of find_antenna (one candidate interface) is one     *)
(* step; nothing else touches these tables in this model.                  *)
(***************************************************************************)
EXTENDS Naturals, FiniteSets

CONSTANTS
    Ifaces,        \* interfaces_to_search (a HashSet<String>)
    Octets,        \* last octets of the antenna /24 that can occur
    Targets,       \* antenna IPs the checkin server may name
    AntennaAt,     \* where each address physically answers ICMP: an interface or NoIface
    NoIface,       \* model value: "no interface"
    KernelFaults,  \* may `ip route add` fail to run and the pinger fail to set up?
    RouteRaces     \* may another /32 route to the target be in the table when ours is added?

ASSUME Targets \subseteq Octets /\ Cardinality(Octets) >= 2
ASSUME NoIface \notin Ifaces /\ AntennaAt \in [Octets -> Ifaces \cup {NoIface}]
ASSUME KernelFaults \in BOOLEAN /\ RouteRaces \in BOOLEAN

VARIABLES
    addrs,   \* addrs[i]: the /32 addresses find_antenna has put on interface i
    routes,  \* routes[o]: the device of the main-table /32 route to o, or NoIface
    disc     \* the find_antenna call in progress or the last one's outcome

discVars == <<addrs, routes, disc>>

DiscStates == {"idle", "probing", "found", "notfound", "failed"}

(* Variant of LocalIps without the redraw loop of l.335-337. *)
LocalIpsAnyOctet(t) == Octets

(* get_local_ip (l.325-342): a random last octet, redrawn while it equals  *)
(* the target's.  IPv6 targets are unimplemented!() and never named.       *)
LocalIps(t) == Octets \ {t}

OwnAddresses(a) == UNION {a[i] : i \in Ifaces}

(* The kernel answers an echo to one of its own addresses itself; any     *)
(* other echo leaves by the /32 route, and only the device on that link    *)
(* answers.  Kernel behaviour, not code of this repository.                *)
EchoAnswered(t, a, r) ==
    \/ t \in OwnAddresses(a)
    \/ r[t] # NoIface /\ AntennaAt[t] = r[t]

DiscInit ==
    /\ addrs = [i \in Ifaces |-> {}]
    /\ routes = [o \in Octets |-> NoIface]
    /\ disc = [state |-> "idle", target |-> CHOOSE t \in Targets : TRUE,
               ourIp |-> CHOOSE o \in Octets : TRUE, todo |-> {},
               result |-> NoIface, missed |-> FALSE]

(* setup_networking -> find_antenna entry (l.236, l.254): draw the probe   *)
(* address once for the whole search; every interface is still to try.    *)
(* `missed` is a history variable: a probe was disturbed by a transient    *)
(* failure (lost echo, `ip route add` not run).                            *)
StartDiscovery(t) ==
    /\ disc.state # "probing"
    /\ \E ip \in LocalIps(t) :
          disc' = [state |-> "probing", target |-> t, ourIp |-> ip,
                   todo |-> Ifaces, result |-> NoIface, missed |-> FALSE]
    /\ UNCHANGED <<addrs, routes>>

(* Go on with the next interface (the `continue`s and the fall-through).   *)
NextIface(i, transient) ==
    disc' = [disc EXCEPT !.todo = @ \ {i}, !.missed = @ \/ transient]

(* l.274-285: ip route add <t>/32 dev <i> src <ip>, when the command runs. *)
ProbeRoute(r, t, i) == [r EXCEPT ![t] = i]

(* The route table after the add ran: ours, or, when a route to t/32 via  *)
(* another device is already there (one the del at l.259 did not remove,  *)
(* or one a routing daemon put back since), that one: the add then exits   *)
(* with status 2 ("File exists").  l.290-294 compare the status with 512,  *)
(* which ExitStatus::code() never returns, so the search goes on.          *)
RoutesAfterAdd(r, t, i) ==
    {ProbeRoute(r, t, i)}
        \cup (IF RouteRaces THEN {[r EXCEPT ![t] = j] : j \in Ifaces \ {i}} ELSE {})

(* One iteration of the `for iface in interfaces` loop (l.255-319).        *)
(* HashSet order is arbitrary, so any interface not yet tried may be next. *)
(* The probe address and the route are left in place on every exit.        *)
ProbeInterface(i) ==
    LET t      == disc.target
        ip     == disc.ourIp
        \* l.259: ip route del <t>/32 ; l.260-265: ip addr del <ip> on every interface
        swept  == [j \in Ifaces |-> addrs[j] \ {ip}]
        \* l.266-269: ip addr add <ip>/32 dev <i> (result only logged)
        leased == [swept EXCEPT ![i] = @ \cup {ip}]
    IN
    /\ disc.state = "probing"
    /\ i \in disc.todo
    /\ addrs' = leased
    /\ \/ \* l.298-301: run_command returned Err: the route is gone, try the next one
          /\ KernelFaults
          /\ routes' = [routes EXCEPT ![t] = NoIface]
          /\ NextIface(i, TRUE)
       \/ \* l.286-297: the command ran; no status aborts the search
          \E routed \in RoutesAfterAdd(routes, t, i) :
             /\ routes' = routed
             /\ \/ \* l.304-305: `?` on set_timeout / add_host aborts the whole search
                   /\ KernelFaults
                   /\ disc' = [disc EXCEPT !.state = "failed"]
                \/ \* l.313-317: a response with nothing dropped: this is the interface
                   /\ EchoAnswered(t, leased, routed)
                   /\ disc' = [disc EXCEPT !.state = "found", !.result = i]
                \/ \* l.306-312, l.313-318: send failed, echo dropped or timed out
                   NextIface(i, EchoAnswered(t, leased, routed))

(* l.320: every interface tried without an answer. *)
Exhausted ==
    /\ disc.state = "probing"
    /\ disc.todo = {}
    /\ disc' = [disc EXCEPT !.state = "notfound"]
    /\ UNCHANGED <<addrs, routes>>

DiscNext ==
    \/ \E t \in Targets : StartDiscovery(t)
    \/ \E i \in Ifaces : ProbeInterface(i)
    \/ Exhausted

DiscSpec == DiscInit /\ [][DiscNext]_discVars

-----------------------------------------------------------------------------
DiscTypeOK ==
    /\ addrs \in [Ifaces -> SUBSET Octets]
    /\ routes \in [Octets -> Ifaces \cup {NoIface}]
    /\ disc.state \in DiscStates
    /\ disc.target \in Targets /\ disc.ourIp \in Octets
    /\ disc.todo \subseteq Ifaces /\ disc.result \in Ifaces \cup {NoIface}
    /\ disc.missed \in BOOLEAN

(* find_antenna answers only with an interface the antenna is on: a reply  *)
(* with no drop may come from the kernel itself when the target is one of  *)
(* the gateway's own addresses, e.g. a probe address a previous discovery  *)
(* left on some interface (l.266-269 are never undone).                    *)
DiscoveredIsAntenna ==
    disc.state = "found" => AntennaAt[disc.target] = disc.result

(* Refinement: the search, seen only by its state, target, answer and     *)
(* whether it was disturbed, is a lookup of AntennaLookup.  The probing of *)
(* one interface is a stutter, or a Disturb step when it sets `missed`.    *)
Lookup == INSTANCE AntennaLookup WITH
    lookup <- [state     |-> IF disc.state = "probing" THEN "searching" ELSE disc.state,
               target    |-> disc.target,
               result    |-> disc.result,
               disturbed |-> disc.missed]

(* find_antenna answers only with the interface the antenna is on, and     *)
(* reports "Failed to find Antenna!" (l.320) only when the antenna is on   *)
(* no candidate interface or a probe was disturbed, across consecutive     *)
(* searches that share the kernel tables.                                  *)
ImplementsLookup == Lookup!Spec
=============================================================================
