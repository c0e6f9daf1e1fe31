---------------------------- MODULE ClientRoutes ----------------------------
(***************************************************************************)
(* The routes a client session puts into the host's table and takes out     *)
(* again: the VPN routes and their guards (net/device.rs: add_routes,       *)
(* RouteGuard) and the host routes that keep the tunnel's own transport off *)
(* the tunnel (tunnel/client.rs: BypassRouteManager; net/device.rs:         *)
(* add_bypass_route, BypassRouteGuard).  Which addresses those are is partly *)
(* the server's word (tunnel/server.rs: server_candidate_addrs).            *)
(*                                                                          *)
(* A prefix is the sequence of its leading bits, an address a prefix of     *)
(* full length.  The kernel's table is a set of [dst, dev]; it routes by    *)
(* the longest prefix.  A process that is started to add a route does so    *)
(* even when the future that waits for it is dropped, and a route that      *)
(* cannot be removed is logged and stays.                                   *)
(***************************************************************************)
EXTENDS Naturals, Sequences, SequencesExt, FiniteSets

CONSTANTS
  Addresses,      \* the addresses there are, those of relays and server among them
  Private,        \* those of private scope
  Relays,         \* what the relays' names resolve to
  ServerAddrs,    \* what iroh enumerates on the server, every interface of it
  HandshakeAddrs, \* what it had found of that by the handshake
  LocalOnly,      \* loopback, unspecified and link-local addresses
  Overlay,        \* the server's VPN network, a prefix
  Gateways,       \* the advertised networks: the server's host prefixes in it
  Configurations, \* lists of routes the client may be configured with
  Devices,        \* the host's own network devices
  SysRoutes,      \* the table before the client runs
  SERVER_ADDR_CHANNEL_SIZE,
  MaxSessions     \* bound: sessions of the process

ASSUME SysAssumption ==
  /\ "eth0" \in Devices /\ "tun" \notin Devices
  /\ SysRoutes \subseteq [dst : Seq({0, 1}), dev : Devices]
  /\ \E r \in SysRoutes : r.dst = <<>>
  /\ \A r, q \in SysRoutes : r.dst = q.dst => r = q

\* Addresses are of one length, and a relay is no address of the VPN's own.
\* Gateways are.
ASSUME AddressAssumption ==
  /\ Relays \cup ServerAddrs \cup HandshakeAddrs \subseteq Addresses
  /\ Addresses \subseteq Seq({0, 1}) \ {<<>>} /\ Overlay \in Seq({0, 1})
  /\ \A a, b \in Addresses : IsPrefix(a, b) => a = b
  /\ \A a \in Relays : ~IsPrefix(Overlay, a)
  /\ Gateways \in Seq(Seq({0, 1}))
  /\ \A g \in ToSet(Gateways) : g # <<>> /\ IsPrefix(Overlay, g)

ASSUME RoutesAssumption == Configurations \subseteq Seq(Seq({0, 1}))

VARIABLES
  routes,     \* the configured routes, in order
  table,      \* the kernel's routes
  pc,         \* connect: "down", "boot", "install", "running", "stopping", "exiting"
  gw,         \* an underlay gateway was captured
  mgr,        \* the manager: "none", "idle", "work", "add", "commit"
  todo,       \* to_add: addresses its update has still to do
  cur,        \* the route it is adding: [dst, dev, owned]
  active,     \* active_routes: its guards, as [dst, dev, owned]
  chan,       \* address sets waiting for it
  vtodo,      \* VPN routes still to add
  added,      \* routes the VPN guards own
  failed,     \* history: addresses whose last bypass failed
  orphaned,   \* history: bypasses left behind, whose command outlived its future
              \* or whose removal failed
  sessions

vars == <<routes, table, pc, gw, mgr, todo, cur, active, chan, vtodo, added, failed,
          orphaned, sessions>>
fixed == <<routes, orphaned>>

NoRoute == [dst |-> <<>>, dev |-> "none", owned |-> FALSE]

Init ==
  /\ routes \in Configurations /\ orphaned = {}
  /\ table = SysRoutes /\ pc = "down" /\ gw = FALSE /\ mgr = "none"
  /\ todo = {} /\ cur = NoRoute /\ active = {} /\ chan = <<>> /\ vtodo = <<>>
  /\ added = {} /\ failed = {} /\ sessions = 0

-----------------------------------------------------------------------------
(* The kernel's table. *)

\* Where traffic to an address goes.
Lookup(a) ==
  CHOOSE r \in table :
    /\ IsPrefix(r.dst, a)
    /\ \A q \in table : IsPrefix(q.dst, a) => Len(q.dst) <= Len(r.dst)

Exists(dst) == \E r \in table : r.dst = dst

Pin(g) == [dst |-> g.dst, dev |-> g.dev]

Without(guards) == table \ {Pin(g) : g \in guards}

\* A slip: the default route itself is replaced.
ExpandNothing(route) == <<route>>

\* A default route becomes its two halves.
expand_default_route(route) ==
  IF route = <<>> THEN <<<<0>>, <<1>>>> ELSE <<route>>

\* What connect asks add_routes for: the gateways, then the configured routes.
VpnRoutes ==
  Gateways \o FlattenSeq([i \in 1..Len(routes) |-> expand_default_route(routes[i])])

-----------------------------------------------------------------------------
(* The server's candidate addresses. *)

is_routable_underlay(a) == a \notin LocalOnly

ip_in_overlay(a) == IsPrefix(Overlay, a)

\* A slip: every address of the server is a candidate.
CandidatesUnfiltered(addrs) == {a \in addrs : is_routable_underlay(a)}

\* What the server tells of the addresses it has: its own TUN device is among
\* the interfaces but no way to reach it.
server_candidate_addrs(addrs) ==
  {a \in addrs : ~ip_in_overlay(a) /\ is_routable_underlay(a)}

Published == server_candidate_addrs(ServerAddrs)

\* collect_relay_ips, and the handshake's server_addrs.
Bootstrap == Relays \cup server_candidate_addrs(HandshakeAddrs)

-----------------------------------------------------------------------------
(* BypassRouteManager. *)

ip_covered_by_vpn_routes(a) == \E i \in 1..Len(routes) : IsPrefix(routes[i], a)

Required(ips) == {a \in ips : a \notin Private /\ ip_covered_by_vpn_routes(a)}

\* The start of update: what is required and not yet active.
BeginUpdate(ips) ==
  /\ todo' = Required(ips) \ {g.dst : g \in active}
  /\ mgr' = "work"

\* A slip: the tunnel is an interface like any other.
ResolveIgnoresTunnel(dev, gateway) ==
  CASE gateway -> dev
    [] ~gateway /\ gw -> "eth0"
    [] OTHER -> "none"

\* The device to pin an address to: what the lookup found, unless that is the
\* tunnel or has no next hop; then the captured gateway, if there is one.
resolve_bypass_route_info(dev, gateway) ==
  CASE dev # "tun" /\ gateway -> dev
    [] ~(dev # "tun" /\ gateway) /\ gw -> "eth0"
    [] OTHER -> "none"

\* A slip: one address that cannot be bypassed ends the update.
SkipRest(a) ==
  /\ todo' = {} /\ failed' = failed \cup {a}
  /\ mgr' = "work" /\ UNCHANGED cur

\* Log and skip: the other addresses are unaffected.
Skip(a) ==
  /\ todo' = todo \ {a} /\ failed' = failed \cup {a}
  /\ mgr' = "work" /\ UNCHANGED cur

\* What the lookup command may answer: the device, perhaps no next hop.
query_route_for_ip(a) == [dev : {Lookup(a).dev}, gateway : BOOLEAN]

\* add_bypass_route up to its command: the lookup may fail, the answer may be
\* of no use.
QueryRoute ==
  /\ mgr = "work"
  /\ \E a \in todo :
       \/ Skip(a)
       \/ \E route_info \in query_route_for_ip(a) :
            LET dev == resolve_bypass_route_info(route_info.dev, route_info.gateway)
            IN  IF dev = "none" THEN Skip(a)
                ELSE /\ cur' = [dst |-> a, dev |-> dev, owned |-> FALSE]
                     /\ mgr' = "add" /\ UNCHANGED <<todo, failed>>
  /\ UNCHANGED <<table, pc, gw, active, chan, vtodo, added, sessions, fixed>>

\* A slip: a route that was there before is owned too.
AddOwnsAll ==
  /\ mgr = "add"
  /\ table' = IF Exists(cur.dst) THEN table ELSE table \cup {Pin(cur)}
  /\ cur' = [cur EXCEPT !.owned = TRUE] /\ mgr' = "commit"
  /\ UNCHANGED <<todo, failed, pc, gw, active, chan, vtodo, added, sessions, fixed>>

\* add_bypass_route_impl: the command adds the route, finds one there, or fails.
AddRoute ==
  /\ mgr = "add"
  /\ \/ Exists(cur.dst) /\ mgr' = "commit" /\ UNCHANGED <<table, cur, todo, failed>>
     \/ /\ ~Exists(cur.dst)
        /\ table' = table \cup {Pin(cur)}
        /\ cur' = [cur EXCEPT !.owned = TRUE] /\ mgr' = "commit"
        /\ UNCHANGED <<todo, failed>>
     \/ Skip(cur.dst) /\ UNCHANGED table
  /\ UNCHANGED <<pc, gw, active, chan, vtodo, added, sessions, fixed>>

\* The guard joins active_routes.
Commit ==
  /\ mgr = "commit"
  /\ active' = active \cup {cur}
  /\ todo' = todo \ {cur.dst} /\ failed' = failed \ {cur.dst} /\ mgr' = "work"
  /\ UNCHANGED <<table, pc, gw, cur, chan, vtodo, added, sessions, fixed>>

\* update returns: to the setup that goes on with the VPN routes, or to recv.
UpdateDone ==
  /\ mgr = "work" /\ todo = {}
  /\ mgr' = "idle"
  /\ pc' = IF pc = "boot" THEN "install" ELSE pc
  /\ UNCHANGED <<table, gw, todo, cur, active, chan, vtodo, added, failed, sessions, fixed>>

\* A slip: the sets are received but only recorded.
RecvIgnored ==
  /\ mgr = "idle" /\ chan # <<>>
  /\ chan' = Tail(chan)
  /\ UNCHANGED <<table, pc, gw, mgr, todo, cur, active, vtodo, added, failed, sessions, fixed>>

Recv ==
  /\ mgr = "idle" /\ chan # <<>> /\ pc = "running"
  /\ chan' = Tail(chan) /\ BeginUpdate(Head(chan))
  /\ UNCHANGED <<table, pc, gw, cur, active, vtodo, added, failed, sessions, fixed>>

-----------------------------------------------------------------------------
(* connect and run_tunnel. *)

\* The default route's next hop is found or it is not.
capture_underlay_gateway == BOOLEAN

\* The TUN device is made, on some hosts with a route to its peer, the underlay
\* gateway captured if there is one to be found, and the bootstrap update begun.
Start ==
  /\ pc = "down" /\ sessions < MaxSessions
  /\ sessions' = sessions + 1
  /\ gw' \in capture_underlay_gateway
  /\ BeginUpdate(Bootstrap)
  /\ pc' = "boot"
  /\ vtodo' = VpnRoutes
  /\ failed' = {}
  /\ \E peers \in SUBSET {d \in ToSet(Gateways) : ~Exists(d)} :
       table' = table \cup {[dst |-> d, dev |-> "tun"] : d \in peers}
  /\ UNCHANGED <<cur, active, chan, added, fixed>>

\* add_routes, one route at a time; a failure rolls back as far as the removals
\* succeed and ends connect.
InstallRoute ==
  /\ pc = "install" /\ vtodo # <<>>
  /\ \/ Exists(Head(vtodo)) /\ vtodo' = Tail(vtodo) /\ UNCHANGED <<table, added, pc>>
     \/ /\ ~Exists(Head(vtodo))
        /\ LET r == [dst |-> Head(vtodo), dev |-> "tun"]
           IN  table' = table \cup {r} /\ added' = added \cup {r}
        /\ vtodo' = Tail(vtodo) /\ UNCHANGED pc
     \/ /\ \E removed \in SUBSET added : table' = Without(removed)
        /\ added' = {} /\ vtodo' = <<>> /\ pc' = "exiting"
  /\ UNCHANGED <<gw, mgr, todo, cur, active, chan, failed, sessions, fixed>>

RunTunnel ==
  /\ pc = "install" /\ vtodo = <<>>
  /\ pc' = "running"
  /\ UNCHANGED <<table, gw, mgr, todo, cur, active, chan, vtodo, added, failed, sessions, fixed>>

\* The control task hands a publication to the manager, or drops it.  Nothing
\* is published while the server knows no address.
Publish ==
  /\ pc = "running" /\ Published # {}
  /\ chan' = IF Len(chan) < SERVER_ADDR_CHANNEL_SIZE THEN Append(chan, Published) ELSE chan
  /\ UNCHANGED <<table, pc, gw, mgr, todo, cur, active, vtodo, added, failed, sessions, fixed>>

\* One task of the tunnel has ended; run_tunnel aborts the others.
TunnelEnds ==
  /\ pc = "running"
  /\ pc' = "stopping" /\ chan' = <<>>
  /\ UNCHANGED <<table, gw, mgr, todo, cur, active, vtodo, added, failed, sessions, fixed>>

\* A shutdown signal drops the future; the runtime then drops every task.
Shutdown ==
  /\ pc \in {"boot", "install", "running"}
  /\ pc' = "exiting" /\ chan' = <<>>
  /\ UNCHANGED <<table, gw, mgr, todo, cur, active, vtodo, added, failed, sessions, fixed>>

\* Drop for BypassRouteGuard, for every guard of the manager: a route that
\* cannot be removed stays, and so does that of a command running on.
DropGuards(late) ==
  \E stuck \in SUBSET {g \in active : g.owned} :
    /\ table' = Without({g \in active : g.owned} \ stuck) \cup late
    /\ orphaned' = orphaned \cup late \cup {Pin(g) : g \in stuck}

\* The manager's task, or its future, is dropped where it waits.
ManagerDropped ==
  /\ pc \in {"stopping", "exiting"} /\ mgr \notin {"none", "add", "commit"}
  /\ DropGuards({})
  /\ mgr' = "none" /\ active' = {} /\ todo' = {}
  /\ UNCHANGED <<routes, pc, gw, cur, chan, vtodo, added, failed, sessions>>

\* The same while it waits for a command, which runs on: the route has been or
\* will yet be added, and nothing is left that would remove it.
ManagerDroppedMidAdd ==
  /\ pc \in {"stopping", "exiting"} /\ mgr \in {"add", "commit"}
  /\ \E late \in SUBSET {Pin(cur)} :
       /\ IF mgr = "commit" THEN late = {} <=> ~cur.owned
                            ELSE Exists(cur.dst) => late = {}
       /\ DropGuards(late)
  /\ mgr' = "none" /\ active' = {} /\ todo' = {}
  /\ UNCHANGED <<routes, pc, gw, cur, chan, vtodo, added, failed, sessions>>

\* Drop for RouteGuard and Route6Guard, whose removals may fail too; the device
\* goes, and with it every route into it.
DropVpnGuards ==
  /\ table' = {r \in table : r.dev # "tun"}
  /\ added' = {} /\ vtodo' = <<>>

\* connect returns: run_tunnel has waited for the manager.
ConnectReturns ==
  /\ pc = "stopping" /\ mgr = "none"
  /\ DropVpnGuards
  /\ pc' = "down"
  /\ UNCHANGED <<gw, mgr, todo, cur, active, chan, failed, sessions, fixed>>

\* The process ends the same way, the manager dropped before or after.
Exits ==
  /\ pc = "exiting" /\ (added # {} \/ mgr = "none")
  /\ DropVpnGuards
  /\ pc' = IF mgr = "none" THEN "exited" ELSE pc
  /\ UNCHANGED <<gw, mgr, todo, cur, active, chan, failed, sessions, fixed>>

Manager == QueryRoute \/ AddRoute \/ Commit \/ UpdateDone \/ Recv

Done ==
  /\ pc = "exited" \/ (pc = "down" /\ sessions = MaxSessions)
  /\ UNCHANGED vars

Next ==
  \/ Manager \/ Start \/ InstallRoute \/ RunTunnel \/ Publish \/ TunnelEnds
  \/ Shutdown \/ ManagerDropped \/ ManagerDroppedMidAdd \/ ConnectReturns
  \/ Exits \/ Done

\* The manager's task is polled when it can go on, and the server publishes
\* again and again.
Spec == Init /\ [][Next]_vars /\ WF_vars(Manager) /\ WF_vars(Publish)

-----------------------------------------------------------------------------
(* Properties. *)

\* What the guards are for: between sessions and after the last one every route
\* of the host's own is there, however the session ended, and no route of the
\* VPN.  What else is there is a bypass whose removal failed or whose command
\* was running when its future was dropped: a route to a transport address that
\* needed one, off the tunnel.
TableRestored ==
  pc \in {"down", "exited"} =>
    /\ SysRoutes \subseteq table
    /\ \A r \in table \ SysRoutes :
         r \in orphaned /\ r.dev # "tun" /\ r.dst \in Required(Bootstrap \cup Published)

\* A host route of the manager never leads into the tunnel, also when it is
\* added long after the VPN routes went up and the lookup follows them.  The
\* exception is an address that is by itself a configured route: a bypass that
\* comes later takes that route for one that was there and does not own it.
PinsOffTunnel ==
  \A g \in active :
    Lookup(g.dst).dev # "tun" \/ (~g.owned /\ g.dst \in ToSet(VpnRoutes))

\* Once the VPN routes are in, every bootstrap address they cover is reached off
\* the tunnel, or its own bypass failed: one address that cannot be bypassed
\* does not cost the others theirs.  The exception is that of PinsOffTunnel.
BootstrapProtected ==
  (pc \in {"install", "running"}) =>
    \A a \in Required(Bootstrap) \ ToSet(VpnRoutes) : a \in failed \/ Lookup(a).dev # "tun"

\* What a configured route promises, a full tunnel included: while the tunnel
\* runs, an address it covers goes into the tunnel, or by a route of the host's
\* own, or by a bypass of just this address.  That route is more specific than
\* every configured one that covers the address, or is equal to one and was
\* there first; the host's default route is neither.  Addresses of the VPN, the
\* gateways among them, have no bypass.
CoveredIsTunnelled ==
  pc = "running" =>
    \A a \in Addresses :
      LET r == Lookup(a)
          covering == {p \in ToSet(routes) \cup ToSet(Gateways) : IsPrefix(p, a)}
      IN  \/ covering = {}
          \/ r.dev = "tun"
          \/ /\ r \in SysRoutes \/ (r.dst = a /\ ~ip_in_overlay(a))
             /\ \A p \in covering : Len(p) < Len(r.dst) \/ (p = r.dst /\ p # <<>>)

\* What the server publishes is tried, although a full channel drops
\* publications: while the tunnel stays up each covered address ends up off the
\* tunnel or has failed.  The exception is that of PinsOffTunnel.
PublishedTried ==
  (pc = "running") ~>
    \/ pc # "running"
    \/ \A a \in Required(Published) \ ToSet(VpnRoutes) :
         a \in failed \/ Lookup(a).dev # "tun"
=============================================================================
