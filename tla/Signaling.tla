----------------------------- MODULE Signaling ------------------------------
(***************************************************************************)
(* The two messages of the handshake (tunnel/signaling.rs): what a peer     *)
(* writes, and what its counterpart makes of it.                            *)
(*                                                                          *)
(* A message on the wire is a length and a JSON object.  The object is a    *)
(* function on the names of the fields that are present: an Option that is  *)
(* None is left out by the writer and filled in by the reader.  The lists   *)
(* of underlay addresses belong to ClientRoutes.                            *)
(***************************************************************************)
EXTENDS Naturals

CONSTANTS
  None,
  VPN_PROTOCOL_VERSION,
  MAX_HANDSHAKE_SIZE,
  MessageSize       \* the length of a message that this build writes

ASSUME SizeAssumption == MessageSize <= MAX_HANDSHAKE_SIZE

Fields4 == {"assigned_ip", "network", "server_ip"}
Fields6 == {"assigned_ip6", "network6", "server_ip6"}

\* write_message: the prefix is the length of what follows.
write_message(object) == [len |-> MessageSize, object |-> object]

\* read_message: a prefix beyond the maximum is refused before anything is read.
Readable(message) == message.len <= MAX_HANDSHAKE_SIZE

-----------------------------------------------------------------------------
(* VpnHandshake. *)

VpnHandshake == [version |-> VPN_PROTOCOL_VERSION]

\* decode, by a peer that speaks the given version.
RequestDecodes(request, version) == request.version = version

-----------------------------------------------------------------------------
(* VpnHandshakeResponse. *)

Family(r, fields) == \A f \in fields : r[f] # None
NoFamily(r, fields) == \A f \in fields : r[f] = None

rejected ==
  [f \in {"version", "accepted"} \cup Fields4 \cup Fields6 |->
     CASE f = "version" -> VPN_PROTOCOL_VERSION
       [] f = "accepted" -> FALSE
       [] OTHER -> None]

\* accepted, accepted_ipv6_only and accepted_dual_stack: the families of p.
Accepted(p, fields) ==
  [f \in DOMAIN rejected |->
     CASE f \in fields -> p[f]
       [] f = "accepted" -> TRUE
       [] OTHER -> rejected[f]]

is_valid(r) ==
  r.accepted =>
    /\ r.assigned_ip # None \/ r.assigned_ip6 # None
    /\ r.assigned_ip # None => r.network # None /\ r.server_ip # None
    /\ r.assigned_ip6 # None => r.network6 # None /\ r.server_ip6 # None

\* encode: to_vec skips what is None.
Encode(r) == [f \in {g \in DOMAIN r : r[g] # None} |-> r[f]]

\* from_slice: version and accepted have no default.
Parses(object) == {"version", "accepted"} \subseteq DOMAIN object
Parsed(object) ==
  [f \in DOMAIN rejected |-> IF f \in DOMAIN object THEN object[f] ELSE None]

\* decode succeeds.
Decodes(object) ==
  /\ Parses(object)
  /\ object.version = VPN_PROTOCOL_VERSION
  /\ is_valid(Parsed(object))
=============================================================================
