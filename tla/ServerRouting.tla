--------------------------- MODULE ServerRouting ----------------------------
(***************************************************************************)
(* The server's data plane over the sessions of ServerSessions: the TUN     *)
(* reader, which finds the session of a packet in two lookups               *)
(* (run_tun_reader), and the inbound task of each session, which checks a   *)
(* client's packet in two lookups and passes it on (handle_client_data,     *)
(* tunnel/server.rs).  Sessions come, go and clean up between the lookups.  *)
(*                                                                          *)
(* A packet is [fam, src, dst]; its address is an offset, or Outside for    *)
(* one the server never assigns; packets that cannot be parsed, from a      *)
(* link-local source or of iroh's own ports are dropped before any lookup   *)
(* and left out.  Queues and writers are DatagramPath and TunWriter.        *)
(***************************************************************************)
EXTENDS ServerSessions

CONSTANTS Outside, NoConn

ASSUME RoutingAssumption == Outside \notin Int /\ NoConn \notin Conns

VARIABLES
  reader,   \* the TUN reader
  inbound   \* the inbound task of one session at a time: these tasks only read
            \* shared state, so they do not affect each other

rvars == <<reader, inbound>>
allvars == <<vars, rvars>>

Families == (IF HasV4 THEN {4} ELSE {}) \cup (IF HasV6 THEN {6} ELSE {})
Assigned(c, fam) == IF fam = 4 THEN h[c].assigned_ip ELSE h[c].assigned_ip6
Addr(fam) == IF fam = 4 THEN Addr4 ELSE Addr6

\* ip_to_endpoint.get or ip6_to_endpoint.get.
Owner(fam, a) ==
  CASE a = Outside -> NoKey
    [] a # Outside /\ fam = 4 -> ip_to_endpoint[a]
    [] OTHER -> ip6_to_endpoint[a]

\* The session that is up and owns an address (history: what the reader should
\* find), while it stays up.
Holder(fam, a) ==
  IF \E c \in Conns : pc[c] = "live" /\ Assigned(c, fam) = a
  THEN CHOOSE c \in Conns : pc[c] = "live" /\ Assigned(c, fam) = a ELSE NoConn

\* No packet in hand: what is left of the last one is what became of it, and for
\* one with a holder the session it was queued for.
ReaderDone(outcome, to, holder) ==
  [at |-> "idle", fam |-> 4, dst |-> Outside, key |-> NoKey, holder |-> holder,
   outcome |-> outcome, to |-> IF holder = NoConn THEN 0 ELSE to]
InboundDone(outcome, dst) ==
  [at |-> "idle", conn |-> NoConn, fam |-> 4, dst |-> dst, outcome |-> outcome]

RoutingInit ==
  /\ Init
  /\ reader = ReaderDone("none", 0, NoConn)
  /\ inbound = InboundDone("none", Outside)

-----------------------------------------------------------------------------
(* run_tun_reader. *)

\* A frame with a readable destination; one without is dropped and counted.
ReadFrame ==
  /\ reader.at = "idle"
  /\ \E fam \in Families : \E a \in Addr(fam) :
       reader' = [at |-> "lookup", fam |-> fam, dst |-> a, key |-> NoKey,
                  holder |-> Holder(fam, a), outcome |-> "none", to |-> 0]
  /\ UNCHANGED <<vars, inbound>>

LookupEndpoint ==
  /\ reader.at = "lookup"
  /\ LET k == Owner(reader.fam, reader.dst)
     IN  reader' = IF k = NoKey
                   THEN ReaderDone("no_route", 0, reader.holder)
                   ELSE [reader EXCEPT !.at = "client", !.key = k]
  /\ UNCHANGED <<vars, inbound>>

\* The client's connection and queue, and the packet goes there.
LookupClient ==
  /\ reader.at = "client"
  /\ LET s == clients[reader.key]
     IN  reader' = IF s = NoSession THEN ReaderDone("no_route", 0, reader.holder)
                   ELSE ReaderDone("queued", s.session_id, reader.holder)
  /\ UNCHANGED <<vars, inbound>>

-----------------------------------------------------------------------------
(* The inbound task of a session. *)

\* A slip: a source that belongs to nobody is taken for another's.
CheckSourceOwnOnly(c) ==
  /\ pc[c] = "live" /\ inbound.at = "idle"
  /\ \E fam \in Families : \E src \in {Outside, Assigned(c, fam)} \ {NoIp},
                              dst \in {Outside} \cup Addr(fam) :
       LET ok == Owner(fam, src) = h[c].key
       IN  inbound' = IF ok THEN [at |-> "dest", conn |-> c, fam |-> fam,
                                  dst |-> dst, outcome |-> "none"]
                      ELSE InboundDone("spoofed", dst)
  /\ UNCHANGED <<vars, reader>>

\* A packet arrives from the client; its source belongs to nobody or to the
\* client itself, or it is dropped.
CheckSource(c) ==
  /\ pc[c] = "live" /\ inbound.at = "idle"
  /\ \E fam \in Families : \E src \in {Outside, Assigned(c, fam)} \ {NoIp},
                              dst \in {Outside} \cup Addr(fam) :
       LET ok == Owner(fam, src) \in {NoKey, h[c].key}
       IN  inbound' = IF ok THEN [at |-> "dest", conn |-> c, fam |-> fam,
                                  dst |-> dst, outcome |-> "none"]
                      ELSE InboundDone("spoofed", dst)
  /\ UNCHANGED <<vars, reader>>

\* A packet for an address of a client, the sender included, is not passed on.
CheckDest ==
  /\ inbound.at = "dest"
  /\ inbound' = InboundDone(IF Owner(inbound.fam, inbound.dst) = NoKey
                            THEN "written" ELSE "blocked", inbound.dst)
  /\ UNCHANGED <<vars, reader>>

-----------------------------------------------------------------------------

\* A step of a handler: its inbound task is aborted when the session ends, and
\* the history forgets a holder that is no longer up.
Sessions ==
  /\ Next
  /\ reader' = IF reader.holder = NoConn \/ pc'[reader.holder] = "live" THEN reader
               ELSE [reader EXCEPT !.holder = NoConn, !.to = 0]
  /\ inbound' = IF inbound.conn # NoConn /\ pc'[inbound.conn] # "live"
                THEN InboundDone("none", Outside) ELSE inbound

RoutingNext ==
  \/ Sessions \/ ReadFrame \/ LookupEndpoint \/ LookupClient
  \/ CheckDest \/ \E c \in Conns : CheckSource(c)

RoutingSpec == RoutingInit /\ [][RoutingNext]_allvars

-----------------------------------------------------------------------------
(* Properties. *)

\* A packet for a session that is up from the moment the reader takes it until
\* it has looked the session up is queued for exactly that session, whatever
\* other sessions do in between.
LiveReachable ==
  reader.outcome # "none" /\ reader.holder # NoConn =>
    /\ reader.outcome = "queued"
    /\ reader.to = h[reader.holder].session_id

\* A client's own packets to the outside are never taken for another's and are
\* passed on: no entry of an earlier tenant of its address stands in the way.
OwnTrafficAccepted ==
  /\ inbound.outcome # "spoofed"
  /\ inbound.outcome = "blocked" => inbound.dst # Outside

=============================================================================
