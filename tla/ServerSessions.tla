--------------------------- MODULE ServerSessions ---------------------------
(***************************************************************************)
(* The life of client sessions on the server (tunnel/server.rs,             *)
(* handle_connection and handle_connection_inner).  Every accepted          *)
(* connection has a handler task; the handlers run concurrently on a        *)
(* multi-threaded runtime and share the two address pools (each behind a    *)
(* lock), three concurrent maps and two atomic counters.  An action is the  *)
(* code between two accesses to shared state, so every interleaving of map, *)
(* pool and counter operations is a behaviour.                              *)
(***************************************************************************)
EXTENDS IpPool, FiniteSets

CONSTANTS
  Conns,           \* incoming connections, each used once
  MaxClients,      \* config.max_clients
  HasV4, HasV6,    \* which pools are configured
  Size4, Size6,    \* number of addresses of each network
  Server4, Server6, \* the server's own addresses
  Strategy6,       \* config.ip6_strategy
  Overlapping,     \* may a client reconnect before its old handler has ended?
  NoKey, NoSession

ASSUME ServerAssumption ==
  /\ MaxClients \in Nat /\ HasV4 \in BOOLEAN /\ HasV6 \in BOOLEAN
  /\ HasV4 \/ HasV6
  /\ Size4 \in Nat \ {0} /\ Size6 \in Nat \ {0}
  /\ Strategy6 \in Strategies /\ Server4 \in Nat /\ Server6 \in Nat
  /\ Overlapping \in BOOLEAN
  /\ NoKey \notin Keys
  /\ IsFiniteSet(Conns)

VARIABLES
  ip_pool, ip6_pool,   \* IpPool, Ip6Pool
  clients,             \* key -> registered ClientState
  ip_to_endpoint,      \* address -> key, the reverse maps for routing
  ip6_to_endpoint,
  active_connections,  \* AtomicUsize
  next_session_id,     \* AtomicU64
  pc,                  \* where each handler is
  h                    \* each handler's locals

vars == <<ip_pool, ip6_pool, clients, ip_to_endpoint, ip6_to_endpoint,
          active_connections, next_session_id, pc, h>>

Addr4 == 0..(Size4 - 1)
Addr6 == 0..(Size6 - 1)

\* The steps of a handler.  A handler at a step of Counted has been added to
\* active_connections and not yet taken off; one at a step of Admitted has also
\* passed the max_clients check.
Admitted == {"allocate4", "allocate6", "respond", "take_id", "insert", "map4",
             "map6", "live", "remove", "unmap4", "unmap6", "release4", "release6",
             "leave"}
Counted == Admitted \cup {"full"}
Steps == Counted \cup {"idle", "count", "done"}

\* What became of the response that accepts the client; a rejection, written or
\* not, changes nothing and is not recorded.
Responses == {"none", "accepted", "write_failed"}

Locals == [key : Keys \cup {NoKey}, assigned_ip : Nat \cup {NoIp},
           assigned_ip6 : Nat \cup {NoIp}, session_id : Nat,
           response : Responses]

ClientState == [session_id : Nat, assigned_ip : Nat \cup {NoIp},
                assigned_ip6 : Nat \cup {NoIp}]

ASSUME SessionAssumption == NoSession \notin ClientState

Init ==
  /\ ip_pool = NewPool("sequential", Size4, Server4)
  /\ ip6_pool = NewPool(Strategy6, Size6, Server6)
  /\ clients = [k \in Keys |-> NoSession]
  /\ ip_to_endpoint = [a \in Addr4 |-> NoKey]
  /\ ip6_to_endpoint = [a \in Addr6 |-> NoKey]
  /\ active_connections = 0
  /\ next_session_id = 1
  /\ pc = [c \in Conns |-> "idle"]
  /\ h = [c \in Conns |-> [key |-> NoKey, assigned_ip |-> NoIp,
                           assigned_ip6 |-> NoIp, session_id |-> 0,
                           response |-> "none"]]

Go(c, from, to) == pc[c] = from /\ pc' = [pc EXCEPT ![c] = to]

maps == <<clients, ip_to_endpoint, ip6_to_endpoint>>
pools == <<ip_pool, ip6_pool>>
counters == <<active_connections, next_session_id>>

-----------------------------------------------------------------------------
(* handle_connection: accept, authenticate, admit. *)

\* The connection is accepted, the handshake read and the credential verified.
\* A client that waits for its old handler to end is Overlapping = FALSE.
Accept(c, k) ==
  /\ Go(c, "idle", "count")
  /\ Overlapping \/ \A d \in Conns : h[d].key = k => pc[d] = "done"
  /\ h' = [h EXCEPT ![c].key = k]
  /\ UNCHANGED <<maps, pools, counters>>

\* The connection, its stream or its handshake fails, or authentication does
\* (the client then gets a rejection, unless writing it fails too).
HandshakeFails(c) ==
  /\ Go(c, "idle", "done")
  /\ UNCHANGED <<maps, pools, counters, h>>

\* A slip: only handlers that stay are counted, yet all are taken off.
CountAfterCheck(c) ==
  /\ Go(c, "count", IF active_connections >= MaxClients THEN "full"
                                                        ELSE "allocate4")
  /\ UNCHANGED <<maps, pools, counters, h>>

\* A slip: the limit itself is admitted too.
CountOffByOne(c) ==
  /\ Go(c, "count", IF active_connections > MaxClients THEN "full"
                                                       ELSE "allocate4")
  /\ active_connections' = active_connections + 1
  /\ UNCHANGED <<maps, pools, next_session_id, h>>

\* fetch_add, then compare the previous count with max_clients.
Count(c) ==
  /\ Go(c, "count", IF active_connections >= MaxClients THEN "full"
                                                        ELSE "allocate4")
  /\ active_connections' = active_connections + 1
  /\ UNCHANGED <<maps, pools, next_session_id, h>>

RejectFull(c) ==
  /\ Go(c, "full", "done")
  /\ active_connections' = active_connections - 1
  /\ UNCHANGED <<maps, pools, next_session_id, h>>

\* "Always decrement on exit (success or failure)"; the locals are gone, and only
\* whose connection it was and what became of the response are remembered.
Leave(c) ==
  /\ Go(c, "leave", "done")
  /\ active_connections' = active_connections - 1
  /\ h' = [h EXCEPT ![c] = [key |-> h[c].key, assigned_ip |-> NoIp,
                            assigned_ip6 |-> NoIp, session_id |-> 0,
                            response |-> h[c].response]]
  /\ UNCHANGED <<maps, pools, next_session_id>>

-----------------------------------------------------------------------------
(* handle_connection_inner: allocate, respond, register. *)

\* An exhausted pool is fatal only when the other family is not configured; the
\* handler then leaves without answering the client.
Allocate4(c) ==
  LET p == IF HasV4 THEN Allocate(ip_pool, h[c].key) ELSE ip_pool
      ip == p.in_use[h[c].key]
  IN /\ Go(c, "allocate4", IF ip = NoIp /\ ~HasV6 THEN "leave" ELSE "allocate6")
     /\ ip_pool' = p
     /\ h' = [h EXCEPT ![c].assigned_ip = ip]
     /\ UNCHANGED <<maps, ip6_pool, counters>>

Allocate6(c) ==
  LET p == IF HasV6 THEN Allocate(ip6_pool, h[c].key) ELSE ip6_pool
      ip6 == p.in_use[h[c].key]
  IN /\ Go(c, "allocate6", IF ip6 = NoIp /\ h[c].assigned_ip = NoIp
                           THEN "leave" ELSE "respond")
     /\ ip6_pool' = p
     /\ h' = [h EXCEPT ![c].assigned_ip6 = ip6]
     /\ UNCHANGED <<maps, ip_pool, counters>>

Respond(c) ==
  /\ Go(c, "respond", "take_id")
  /\ h' = [h EXCEPT ![c].response = "accepted"]
  /\ UNCHANGED <<maps, pools, counters>>

\* `write_message(..).await?` fails: the error returns before anything is
\* registered, and what was allocated stays in the pools.
RespondFails(c) ==
  /\ Go(c, "respond", "leave")
  /\ h' = [h EXCEPT ![c].response = "write_failed"]
  /\ UNCHANGED <<maps, pools, counters>>

\* fetch_add on next_session_id.
TakeSessionId(c) ==
  /\ Go(c, "take_id", "insert")
  /\ next_session_id' = next_session_id + 1
  /\ h' = [h EXCEPT ![c].session_id = next_session_id]
  /\ UNCHANGED <<maps, pools, active_connections>>

\* A slip: the counter is read again instead of the id that was taken.
InsertRereadsCounter(c) ==
  /\ Go(c, "insert", "map4")
  /\ clients' = [clients EXCEPT ![h[c].key] =
                   [session_id |-> next_session_id,
                    assigned_ip |-> h[c].assigned_ip,
                    assigned_ip6 |-> h[c].assigned_ip6]]
  /\ UNCHANGED <<ip_to_endpoint, ip6_to_endpoint, pools, counters, h>>

\* clients.insert; handlers of one key may insert in another order than they
\* took their ids.
InsertClient(c) ==
  /\ Go(c, "insert", "map4")
  /\ clients' = [clients EXCEPT ![h[c].key] =
                   [session_id |-> h[c].session_id,
                    assigned_ip |-> h[c].assigned_ip,
                    assigned_ip6 |-> h[c].assigned_ip6]]
  /\ UNCHANGED <<ip_to_endpoint, ip6_to_endpoint, pools, counters, h>>

\* Entry a of a reverse map set to v; "no address" has no entry.
SetEntry(m, a, v) == [x \in DOMAIN m |-> IF x = a THEN v ELSE m[x]]

\* A slip: the IPv4 map is given the IPv6 address.
Map4WrongFamily(c) ==
  /\ Go(c, "map4", "map6")
  /\ ip_to_endpoint' = SetEntry(ip_to_endpoint, h[c].assigned_ip6, h[c].key)
  /\ UNCHANGED <<clients, ip6_to_endpoint, pools, counters, h>>

Map4(c) ==
  /\ Go(c, "map4", "map6")
  /\ ip_to_endpoint' = SetEntry(ip_to_endpoint, h[c].assigned_ip, h[c].key)
  /\ UNCHANGED <<clients, ip6_to_endpoint, pools, counters, h>>

Map6(c) ==
  /\ Go(c, "map6", "live")
  /\ ip6_to_endpoint' = SetEntry(ip6_to_endpoint, h[c].assigned_ip6, h[c].key)
  /\ UNCHANGED <<clients, ip_to_endpoint, pools, counters, h>>

-----------------------------------------------------------------------------
(* The session ends and is cleaned up. *)

\* handle_client_data returns (the client is gone, or a writer failed).
SessionEnds(c) ==
  /\ Go(c, "live", "remove")
  /\ UNCHANGED <<maps, pools, counters, h>>

\* A slip: any registration of the key counts, whatever its session id.
RegisteredByKey(c) == clients[h[c].key] # NoSession

Registered(c) == /\ clients[h[c].key] # NoSession
                 /\ clients[h[c].key].session_id = h[c].session_id

\* clients.remove_if(session_id matches); otherwise nothing else is cleaned up.
RemoveClient(c) ==
  /\ Go(c, "remove", IF Registered(c) THEN "unmap4" ELSE "leave")
  /\ clients' = IF Registered(c) THEN [clients EXCEPT ![h[c].key] = NoSession]
                                 ELSE clients
  /\ UNCHANGED <<ip_to_endpoint, ip6_to_endpoint, pools, counters, h>>

\* The entry of address a is removed if it points to key k.
DropEntry(m, a, k) ==
  [x \in DOMAIN m |-> IF x = a /\ m[x] = k THEN NoKey ELSE m[x]]

Unmap4(c) ==
  /\ Go(c, "unmap4", "unmap6")
  /\ ip_to_endpoint' = DropEntry(ip_to_endpoint, h[c].assigned_ip, h[c].key)
  /\ UNCHANGED <<clients, ip6_to_endpoint, pools, counters, h>>

Unmap6(c) ==
  /\ Go(c, "unmap6", "release4")
  /\ ip6_to_endpoint' = DropEntry(ip6_to_endpoint, h[c].assigned_ip6, h[c].key)
  /\ UNCHANGED <<clients, ip_to_endpoint, pools, counters, h>>

Release4(c) ==
  /\ Go(c, "release4", "release6")
  /\ ip_pool' = IF h[c].assigned_ip # NoIp THEN Release(ip_pool, h[c].key)
                                           ELSE ip_pool
  /\ UNCHANGED <<maps, ip6_pool, counters, h>>

\* A slip: IPv6 is released only for clients without IPv4.
Release6ElseIf(c) ==
  /\ Go(c, "release6", "leave")
  /\ ip6_pool' = IF h[c].assigned_ip = NoIp THEN Release(ip6_pool, h[c].key)
                                            ELSE ip6_pool
  /\ UNCHANGED <<maps, ip_pool, counters, h>>

Release6(c) ==
  /\ Go(c, "release6", "leave")
  /\ ip6_pool' = IF h[c].assigned_ip6 # NoIp THEN Release(ip6_pool, h[c].key)
                                             ELSE ip6_pool
  /\ UNCHANGED <<maps, ip_pool, counters, h>>

Handler(c) ==
  \/ Count(c) \/ RejectFull(c) \/ Allocate4(c) \/ Allocate6(c)
  \/ Respond(c) \/ RespondFails(c) \/ TakeSessionId(c) \/ InsertClient(c)
  \/ Map4(c) \/ Map6(c)
  \/ RemoveClient(c) \/ Unmap4(c) \/ Unmap6(c) \/ Release4(c) \/ Release6(c)
  \/ Leave(c)

\* Every connection has been served.
Finished == (\A c \in Conns : pc[c] = "done") /\ UNCHANGED vars

Next ==
  \/ \E c \in Conns : \/ HandshakeFails(c) \/ SessionEnds(c) \/ Handler(c)
                      \/ \E k \in Keys : Accept(c, k)
  \/ Finished

Spec == Init /\ [][Next]_vars

-----------------------------------------------------------------------------
(* Properties. *)

\* The types of the shared maps, the pools and the handlers' locals; the counter of
\* active connections is never below zero.
TypeOK ==
  /\ ip_pool \in PoolType /\ ip6_pool \in PoolType
  /\ clients \in [Keys -> ClientState \cup {NoSession}]
  /\ ip_to_endpoint \in [Addr4 -> Keys \cup {NoKey}]
  /\ ip6_to_endpoint \in [Addr6 -> Keys \cup {NoKey}]
  /\ active_connections \in Nat /\ next_session_id \in Nat
  /\ pc \in [Conns -> Steps]
  /\ h \in [Conns -> Locals]
  /\ \A c \in Conns : pc[c] \in Counted \cup {"count"} => h[c].key \in Keys

\* Whatever the handlers do to them, the pools never hold one address under two
\* keys, never offer an address that is held, never hand out the network's or
\* the server's address, and never lose one (IpPool and Ip6Pool).
PoolsSound == PoolSound(ip_pool) /\ PoolSound(ip6_pool)

\* The tenant of each address under a pool.
TenantOf(p, addrs) ==
  [a \in addrs |-> IF \E k \in Keys : p.in_use[k] = a
                   THEN CHOOSE k \in Keys : p.in_use[k] = a ELSE NoKey]

Leases4 == INSTANCE AddressLeases
             WITH Addresses <- Addr4, NotForClients <- {0, Server4},
                  Tenants <- Keys, NoTenant <- NoKey,
                  tenant <- TenantOf(ip_pool, Addr4)

Leases6 == INSTANCE AddressLeases
             WITH Addresses <- Addr6, NotForClients <- {0, Server6},
                  Tenants <- Keys, NoTenant <- NoKey,
                  tenant <- TenantOf(ip6_pool, Addr6)

\* Each pool, driven by any interleaving of handlers, implements AddressLeases:
\* an allocation grants one free address to a tenant without one, or nothing.
ImplementsLeases == Leases4!LeaseSpec /\ Leases6!LeaseSpec

\* active_connections counts exactly the handlers between fetch_add and
\* fetch_sub, and at most max_clients of them got past the check, however the
\* increments, the comparisons and the give-backs of rejected ones interleave.
AdmissionSound ==
  /\ active_connections = Cardinality({c \in Conns : pc[c] \in Counted})
  /\ Cardinality({c \in Conns : pc[c] \in Admitted}) <= MaxClients

\* Two registered clients never share an address (the server's core promise,
\* "dynamically assigning non-overlapping client IPs").
UniqueClientIps ==
  \A k, l \in Keys :
    k # l /\ clients[k] # NoSession /\ clients[l] # NoSession =>
      /\ \/ clients[k].assigned_ip = NoIp
         \/ clients[k].assigned_ip # clients[l].assigned_ip
      /\ \/ clients[k].assigned_ip6 = NoIp
         \/ clients[k].assigned_ip6 # clients[l].assigned_ip6

\* The registration of key k was made by handler c and by no other.
MadeBy(k, c) ==
  /\ h[c].key = k /\ h[c].session_id = clients[k].session_id
  /\ \A d \in Conns \ {c} : h[d].session_id # h[c].session_id

\* How one step may change the registration of key k.
RegistrationStep(k) ==
  clients[k] # NoSession /\ clients'[k] # clients[k] =>
    IF clients'[k] = NoSession
    THEN \E c \in Conns : pc[c] = "remove" /\ pc'[c] = "unmap4" /\ MadeBy(k, c)
    ELSE \E c \in Conns : /\ pc[c] = "insert" /\ pc'[c] = "map4" /\ MadeBy(k, c)'
                          /\ clients'[k].session_id # clients[k].session_id

\* The session_id check of the cleanup: a registration is only ever removed by
\* the one handler that made it, or replaced by a handler of the same key that
\* registers another session.
OnlyOwnerUnregisters == [][\A k \in Keys : RegistrationStep(k)]_vars

\* However reconnects overlap and in whatever order their handlers insert, no
\* registration is left behind: the handler that made it is still serving the
\* session and has its own cleanup, the only one that matches, before it.
RegistrationsOwned ==
  \A k \in Keys : clients[k] # NoSession =>
    \E c \in Conns : MadeBy(k, c) /\ pc[c] \in {"map4", "map6", "live", "remove"}

\* Handlers that still hold what they allocated, or will release it.
Holding == {"allocate6", "respond", "take_id", "insert", "map4", "map6", "live",
            "remove", "unmap4", "unmap6", "release4", "release6"}

\* An address stays taken only while a handler of its key is going to release
\* it, or after a handshake response to that key could not be written: that
\* error path of handle_connection_inner keeps what it allocated.  When the last
\* handler has ended no registration, routing entry or counted connection is left.
NothingLeaks ==
  /\ \A k \in Keys :
       ip_pool.in_use[k] # NoIp \/ ip6_pool.in_use[k] # NoIp =>
         \E c \in Conns : /\ h[c].key = k
                          /\ pc[c] \in Holding \/ h[c].response = "write_failed"
  /\ (\A c \in Conns : pc[c] \in {"idle", "done"}) =>
       /\ active_connections = 0
       /\ \A k \in Keys : clients[k] = NoSession
       /\ \A a \in Addr4 : ip_to_endpoint[a] = NoKey
       /\ \A a \in Addr6 : ip6_to_endpoint[a] = NoKey
=============================================================================
