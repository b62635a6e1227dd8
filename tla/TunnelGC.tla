------------------------------- MODULE TunnelGC -------------------------------
(***************************************************************************)
(* TunnelManager's TriggerGC handler, src/rita/src/rita_common/            *)
(* tunnel_manager/gc.rs.  The teardown of the collected tunnels (unmonitor *)
(* and close_light_client_tunnel, l.66-79) and the port pool live in       *)
(* tunnel_manager/mod.rs, which is not in this repository.                 *)
(*                                                                         *)
(* A tunnel is named by its listen port (its interface is wg<port>), so    *)
(* ports stand for tunnels and interfaces alike.  What the GC decision     *)
(* reads of a tunnel at the time of the message is an observation record:  *)
(* created.elapsed() > tunnel_timeout, babel's view of the interface,      *)
(* last_contact.elapsed() > tunnel_timeout, and the wireguard handshake   *)
(* times (the set of their ages, empty on a kernel error). TunnelManager is*)
(* an actix actor: a handler runs to completion, so TriggerGC is one step. *)
(* Opening tunnels (tunnel_manager/mod.rs, not in this repository) is the  *)
(* environment.                                                            *)
(***************************************************************************)
EXTENDS FiniteSets

CONSTANTS Ports   \* the tunnel port range

VARIABLES
    tunnels,  \* ports of the tunnels in self.tunnels
    obs       \* obs[p]: what tunnel p looks like to the GC right now

vars == <<tunnels, obs>>

BabelStates == {"up", "down", "absent"}

HandshakeAges == {"recent", "stale", "future"}

Obs == {o \in [grace : BOOLEAN, babel : BabelStates, silent : BOOLEAN,
                hsErr : BOOLEAN, hs : SUBSET HandshakeAges] :
           o.hsErr => o.hs = {}}

NewTunnelObs == [grace |-> FALSE, babel |-> "absent", silent |-> FALSE,
                 hsErr |-> FALSE, hs |-> {}]

Init ==
    /\ tunnels = {}
    /\ obs = [p \in Ports |-> NewTunnelObs]

(* into_interfaces_hashmap and tunnel_up (l.180-207): a tunnel babel does  *)
(* not list counts as up.                                                   *)
TunnelUp(o) == o.babel # "down"

(* check_handshake_time (l.154-178): some handshake younger than the       *)
(* timeout, or in the future; false on a kernel error or no handshake.     *)
CheckHandshakeTime(o) == ~o.hsErr /\ o.hs \cap {"recent", "future"} # {}

(* Variant of TunnelShouldBeKept with `||` in the second condition. *)
TunnelShouldBeKeptOr(o) ==
    /\ ~(o.grace /\ ~TunnelUp(o))
    /\ ~(o.silent \/ ~CheckHandshakeTime(o))

(* tunnel_should_be_kept (l.118-137). *)
TunnelShouldBeKept(o) ==
    /\ ~(o.grace /\ ~TunnelUp(o))
    /\ ~(o.silent /\ ~CheckHandshakeTime(o))

(* The handler (l.32-82): split, replace the map, then hand each removed  *)
(* tunnel to its teardown (outside this repository).                       *)
TriggerGC ==
    /\ tunnels' = {p \in tunnels : TunnelShouldBeKept(obs[p])}
    /\ UNCHANGED obs

(* Environment: a new tunnel takes an unused port. *)
OpenTunnel(p) ==
    /\ p \notin tunnels
    /\ tunnels' = tunnels \cup {p}
    /\ obs' = [obs EXCEPT ![p] = NewTunnelObs]

(* Environment: time passes and babel, hellos and handshakes change.  The  *)
(* grace period, once over, stays over.                                    *)
Observe(p) ==
    /\ p \in tunnels
    /\ \E o \in Obs :
          /\ obs[p].grace => o.grace
          /\ obs' = [obs EXCEPT ![p] = o]
    /\ UNCHANGED tunnels

Next ==
    \/ TriggerGC
    \/ \E p \in Ports : OpenTunnel(p) \/ Observe(p)

Spec == Init /\ [][Next]_vars

-----------------------------------------------------------------------------
TypeOK ==
    /\ tunnels \subseteq Ports
    /\ obs \in [Ports -> Obs]

(* A tunnel that babel has up and that handshook recently is never        *)
(* collected, however long its peer's multicast hellos are missing (the    *)
(* sector antenna case of l.112-117).                                      *)
ActiveTunnelKept ==
    [][\A p \in tunnels :
          (obs[p].babel = "up" /\ "recent" \in obs[p].hs)
             => p \in tunnels']_vars

(* The policy the doc comment states (l.85-92): a tunnel is removed only   *)
(* if it is past its grace period and down in babel, or if it has a        *)
(* handshake and that is older than the timeout; one that has never        *)
(* handshaked but is up is never removed.                                  *)
GCFollowsPolicy ==
    [][\A p \in tunnels \ tunnels' :
          \/ obs[p].grace /\ obs[p].babel = "down"
          \/ obs[p].silent /\ ~obs[p].hsErr /\ obs[p].hs # {}
                           /\ obs[p].hs \cap {"recent", "future"} = {}]_vars
=============================================================================
