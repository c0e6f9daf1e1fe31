--------------------------- MODULE MCClientRoutes ---------------------------
(* Instances of ClientRoutes: three-bit addresses, a host with a default route   *)
(* and one host route of its own.                                                *)
EXTENDS ClientRoutes

MCOverlay == <<1, 0>>
MCGateways == <<<<1, 0, 1>>>>
MCServerAddrs == {<<0, 0, 0>>, <<0, 1, 0>>, <<1, 1, 1>>, <<1, 0, 1>>, <<0, 0, 1>>}
MCHandshakeAddrs == {<<0, 0, 0>>, <<0, 1, 0>>, <<1, 0, 1>>}
MCRelays == {<<0, 1, 0>>, <<1, 1, 0>>}
MCAddresses == {<<x, y, z>> : x, y, z \in {0, 1}}
MCPrivate == {<<0, 0, 0>>}
MCLocalOnly == {<<0, 0, 1>>}
\* A full tunnel, two routes, or two addresses: a relay the host has a route to and
\* an address the server publishes late.
MCConfigurations == {<<<<>>>>, <<<<1>>, <<0>>>>, <<<<1, 1, 0>>, <<1, 1, 1>>>>}
MCSys == {[dst |-> <<>>, dev |-> "eth0"], [dst |-> <<1, 1, 0>>, dev |-> "eth0"]}
=============================================================================
