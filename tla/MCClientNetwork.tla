-------------------------- MODULE MCClientNetwork ---------------------------
(* ClientNetwork on the host of MCOverlapWatch.  Abroad it reaches the server  *)
(* over another VPN's overlay, which is excluded and whose addresses appear    *)
(* mapped into IPv6, over two public addresses and the relay; around home the  *)
(* public addresses, at home only the overlay and the relay, offline nothing.  *)
EXTENDS ClientNetwork, MCOverlapWatch

Remote(kind, net) == [kind |-> kind, net |-> net]
Overlay == Remote("mapped", "overlay")
Public == {Remote("ip4", "wan"), Remote("ip6", "wan")}
Relay == Remote("relay", "none")

MCPaths == Public \cup {Overlay, Relay}
MCExcluded == {[family |-> "ip4", net |-> "overlay"]}

MCReach ==
  [nets \in MCLocalSets |->
     CASE nets = MCAbroad -> MCPaths
       [] nets = MCWide -> Public
       [] nets = MCHome -> {Overlay, Relay}
       [] OTHER -> {}]
=============================================================================
