--------------------------- MODULE MCOverlapWatch ---------------------------
(* Instances of OverlapWatch: a routed subnet, a default route; a host that is *)
(* abroad, at home inside or around the routed subnet, or offline.             *)
EXTENDS OverlapWatch

Prefix(f, b) == [family |-> f, bits |-> b]
Attached(i, n) == [interface |-> i, net |-> n]

MCRoutes == {Prefix("v4", <<1, 0, 1>>), Prefix("v6", <<0>>)}

MCAbroad == {Attached("en0", Prefix("v4", <<1, 1>>)), Attached("en0", Prefix("v6", <<0, 1>>))}
MCHome == {Attached("en0", Prefix("v4", <<1, 0, 1, 1>>))}
MCOwnTun == {Attached("tun0", Prefix("v4", <<1, 0, 1>>))}
MCWide == {Attached("en0", Prefix("v4", <<1, 0>>))}

MCLocalSets == {MCAbroad, MCHome, MCWide, {}}
=============================================================================
