--------------------------- MODULE AddressLeases ----------------------------
(***************************************************************************)
(* What an address pool promises, with no free list, no high-water mark and *)
(* no handlers: each address has at most one tenant and each tenant at most *)
(* one address, a tenant keeps its address until it gives it up, and the    *)
(* addresses that are not for clients are never leased.                     *)
(***************************************************************************)
CONSTANTS Addresses, NotForClients, Tenants, NoTenant

VARIABLE tenant

LeaseInit == tenant = [a \in Addresses |-> NoTenant]

Grant(a, t) ==
  /\ tenant[a] = NoTenant
  /\ a \notin NotForClients
  /\ \A b \in Addresses : tenant[b] # t
  /\ tenant' = [tenant EXCEPT ![a] = t]

Revoke(a) ==
  /\ tenant[a] # NoTenant
  /\ tenant' = [tenant EXCEPT ![a] = NoTenant]

LeaseNext == \E a \in Addresses : Revoke(a) \/ \E t \in Tenants : Grant(a, t)

LeaseSpec == LeaseInit /\ [][LeaseNext]_tenant
=============================================================================
