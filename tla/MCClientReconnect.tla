------------------------- MODULE MCClientReconnect --------------------------
(* Instances of ClientReconnect: a dual-stack server that reassigns addresses, *)
(* loses its IPv6 pool, or comes back with another network; and servers of     *)
(* another build: one of an older version, and four of this version that       *)
(* answer with another version, an oversized message, no gateway for an        *)
(* address, or a network without an address.                                   *)
EXTENDS ClientReconnect

Assigned(ip, net, ip6, net6) ==
  [assigned_ip |-> ip, network |-> net, server_ip |-> net,
   assigned_ip6 |-> ip6, network6 |-> net6, server_ip6 |-> net6]

MCParams ==
  {Assigned("a", "n", "a6", "n6"), Assigned("b", "n", "a6", "n6"),
   Assigned("a", "n", None, None), Assigned("a", "m", "a6", "n6")}

Reply(version, len, p) ==
  [len |-> len,
   object |-> Encode([Accepted(p, Fields4 \cup Fields6) EXCEPT !.version = version])]

MCOtherBuilds ==
  LET V == VPN_PROTOCOL_VERSION
      good == Assigned("a", "n", "a6", "n6")
  IN  {[version |-> V - 1, message |-> Reply(V - 1, MessageSize, good)],
       [version |-> V, message |-> Reply(V - 1, MessageSize, good)],
       [version |-> V, message |-> Reply(V, MAX_HANDSHAKE_SIZE + 1, good)],
       [version |-> V, message |->
          Reply(V, MessageSize, [good EXCEPT !.server_ip = None])],
       [version |-> V, message |->
          Reply(V, MessageSize, [good EXCEPT !.assigned_ip6 = None])]}
=============================================================================
