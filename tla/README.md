# ezvpn: a TLA+ model of the tunnel, its server and its clients

ezvpn is an IP-over-QUIC VPN. A server owns a TUN device and one or two address pools;
clients connect over iroh, are authenticated, get addresses and exchange IP packets as
QUIC datagrams. This directory models the parts of the program in which state is
shared between tasks, threads, processes or hosts, checks them with TLC on small
instances, and proves with TLAPS, for instances of any size, the safety properties of
all of them, some under a condition that is named. Source paths below are relative to
the repository.

    tlc -workers 2 -config ServerRouting.cfg MCServerRouting   # one run
    tlapm ServerProofs.tla                                     # the proofs of a module

`PROJECT.json` lists the runs, the source lines of every definition (`map`), the
hazards with the properties that cover them, and for each property a *slip*: an
operator next to the original one that changes it as a plausible bug would, and
under which TLC finds the property violated. A definition whose comment starts
with "A slip" is not part of any specification.

## The system and its parts

| Part | Source | State | Operations | Module |
|---|---|---|---|---|
| Address pools | `src/tunnel/server.rs` | `next_ip`, `released`, `in_use` | allocate (in turn, by node id), release | `IpPool`, `AddressLeases` |
| Session handlers | `src/tunnel/server.rs` | `clients`, two reverse maps, two atomics, pools | accept, count, allocate, respond, register, map, serve, clean up | `ServerSessions` |
| Server routing | `src/tunnel/server.rs` | reads the maps above | TUN reader's two lookups; a client packet's source and destination checks | `ServerRouting` |
| Datagram queue and writer | `src/tunnel/server.rs`, `src/tunnel/stream.rs` | queue, `queued_bytes`, statistics | reserve, push, drain, send a batch, wait for room | `DatagramPath` |
| TCP segmentation and coalescing | `src/tunnel/offload.rs` | none (pure) | split a super-frame, plan and assemble write groups | `TcpOffload` |
| TUN writer | `src/net/device.rs`, `server.rs`, `client.rs` | channel, batch, failure count | enqueue, receive many, write a group, drain on exit | `TunWriter` |
| Heartbeat, address publication | `src/tunnel/client.rs`, `server.rs` | deadlines, control queue, pong channel | ping, pong, publish, time out | `Heartbeat` |
| Connect and reconnect loop | `src/tunnel/client.rs`, `src/control.rs` | attempt, delay, baseline, status | connect's phases, handshake, check parameters, back off, give up | `ClientReconnect` |
| Handshake messages | `src/tunnel/signaling.rs` | none (pure) | write, read, encode, decode, validate | `Signaling` |
| Overlap watch | `src/tunnel/client.rs`, `src/net/local_networks.rs` | baseline, recorded refusal | check at connect, poll, refuse | `OverlapWatch`, `ClientNetwork` |
| Path selector | `src/transport/path_selector.rs` | current path | choose among candidates | `PathSelector`, `ClientNetwork` |
| Routes and bypass routes | `src/net/device.rs`, `src/tunnel/client.rs`, `server.rs` | guards, kernel table, published addresses | choose candidates, add, resolve, pin, drop guards | `ClientRoutes` |
| Mobile session and Apple FFI | `src/tunnel/mobile.rs`, `src/ffi.rs` | handle, `stopped`, connection | connect, run, call back, reconnect in place, stop | `MobileSession` |
| Instance lock, status socket, stop, Windows FFI | `src/runtime.rs`, `src/control.rs`, `src/main.rs`, `src/ffi_windows.rs` | lock file, PID, socket or pipe, handle | acquire, listen, run, tear down, query, stop | `Instances` |
| Frame encoding, authentication, configuration, arguments | rest of `src/` | none | conversions and I/O | no |

How they interact: the handlers drive the pools and maps that routing reads
(`ServerRouting` extends `ServerSessions`, which extends `IpPool`); routing feeds
the datagram queue of one client; datagrams are what segmentation produces and
what the writer at the other end coalesces (`TunWriter` extends `TcpOffload`); the
heartbeat ends sessions, so handlers clean up and the reconnect loop starts over;
the server's published addresses reach the client's bypass-route manager
(`ClientRoutes` has both ends); the overlap watcher closes a connection with an
error that the reconnect loop treats as final, on the same changes of network that
move the connection to other paths (`ClientNetwork` extends `OverlapWatch` and
`PathSelector`); what the server answers in the handshake becomes the baseline of the
reconnect loop (`ClientReconnect` extends `Signaling`); a stop from outside ends that
loop, and the process with it (`Instances`).

What is hard in this code: handlers of an old and a new session of one client
overlap; a lookup in one map is used after another map has changed; a byte charge
has to be given back on each of several error paths; an MTU read before a send has
changed at the send; a queue is full when the pong wants in; a future is dropped
between starting a route command and remembering the route; a flag is read before
a callback and set during it; a PID is read from a file whose writer may be gone.

## The modules and the code

**IpPool** has both pools as one value with a `strategy`. An address is its offset
in its network. `reserved` is only used by tests and is left out.

**AddressLeases** is the abstract specification of a pool: each address has at most
one tenant, each tenant at most one address, some addresses are never leased.
`ServerSessions` instantiates it twice with a refinement mapping (the key under
which `in_use` holds an address is its tenant).

**ServerSessions** has one handler per connection; `pc` is its place in
`handle_connection`, and an action is the code between two accesses to shared
state: `Count` (fetch_add and compare), `Allocate4`, `Allocate6`, `Respond` or
`RespondFails`, `TakeSessionId`, `InsertClient` (between which another handler of the
key may do both), `Map4`, `Map6`, then the session, then `RemoveClient` (only if the
session id matches), `Unmap4`, `Unmap6`, `Release4`, `Release6`, `Leave`.
`Overlapping` says whether a client may come back under the
same key while an old handler of it has not ended.

**ServerRouting** adds a TUN reader and the inbound task of the sessions, each
with two lookups that other handlers' steps may separate.

**DatagramPath** has a producer that reserves bytes, sends on the channel or gives the
reservation back, and the writer that drains up to a batch, tries `send_datagram`,
waits for room, drops what no longer fits, and releases the charge afterwards.

**TcpOffload** and **TunWriter** follow a packet from one host's TUN device to the
other's. A packet's payload is a sequence of bytes that know their place in their
stream; lengths and sequence numbers keep their limits (`LENMAX`, `SEQ`), scaled down.
Segments are lost and reordered on the way. The kernel that takes a written
super-frame splits it again, as its virtio header says.

**Heartbeat** is in discrete time: `Tick` passes one unit and nothing that is due
waits for it. It begins when the server has written its response: the responder arms
its deadline and the publisher starts, while the client is in `"setup"` (overlap check,
devices, relay names, route commands; on a phone until the app calls run) for any length
of time, counted in `setup`. `StartHeartbeat` ends it; only then is there a ping, and
only then are frames of the stream read. The stream delivers within `MaxDelay` until it
is cut; either side may
also end for a reason of its own, and its close may be lost. A ping is written inside
the arm of the `select!` that also polls the deadline: `STREAM_WINDOW` pings that the
server has not read block it. `WindowAssumption` says what window keeps that harmless
(`QUIC_WINDOW_SIZE` is 8 MiB, a ping 13 bytes; a timeout needs room for five).

**ClientReconnect** follows `run_with_reconnect` through the phases of `connect`. The
server's answer (a parameter set, down, full, exhausted, or that of another build)
changes at any time. **Signaling** has the messages: an object is a function on the
fields that are present, and reading it checks length, presence, version and
`is_valid` as the code does, before `perform_handshake` checks each family's fields
again and more strictly.
Counters saturate or overflow at `U32MAX` and `U64MAX` where the code's do.

**OverlapWatch** has the check of `connect`, the watcher's baseline and its polls,
with sweeps that fail, over the real prefix comparison on short bit sequences.
**PathSelector** is `choose` over any candidates and round-trip times, with what it
left and by which margin as history. **ClientNetwork** puts both on one host: where
it is decides which local networks it sees and which paths work.

**ClientRoutes** has VPN routes (the gateways' host routes first, then the configured
ones), bypass routes and their guards over a kernel table with longest-prefix routing.
A command is an atomic effect that may fail, to add as well as to remove: a guard's
drop, a rollback and the drop of the VPN guards remove what they can and go on. Routes
into the tunnel go with its device, a bypass whose removal failed stays. A command
whose future is dropped still takes effect. The addresses to bypass are the relays'
and those the server tells, in the handshake and afterwards, out of all that iroh
enumerates on it (`server_candidate_addrs`).

**MobileSession** is one handle: the app's thread, the session's task and the
thread that closes the endpoint. A callback runs under the lock of `stopped`.

**Instances** has the processes of one instance on one machine, one action per system
call: open, try to lock, truncate, write the PID, remove a stale socket, bind, run,
and the teardown in the order in which Rust drops the guards; a process may be killed
at each of them. A command (`stop`, `status`, `list`) connects, reads, reads the PID
and signals, in as many steps. On Windows there are worker threads with handles too,
and a named pipe in place of the socket file. Inodes have an identity of their own,
so that a lock on a file that is no longer at the path would be seen.

An `MC...` module holds the model values and inputs of an instance, nothing else.

## What is checked

| Run | Instance | Properties | Shows |
|---|---|---|---|
| `ServerRouting` | 2 clients, 3 connections, 2 places, IPv4 in turn and one IPv6 address that both clients derive, symmetry of clients and connections | `TypeOK`, `UniqueClientIps`, `NothingLeaks`, `LiveReachable`, `OwnTrafficAccepted` | clients that return after their old handler ended have unique addresses, pass both lookups in both directions, and leave nothing behind |
| `ServerSessions_reconnect` | 2 clients, 3 connections, 2 places, 2 addresses, overlapping | `PoolsSound`, `AdmissionSound`, `OnlyOwnerUnregisters`, `ImplementsLeases`, `RegistrationsOwned` | what holds whatever overlaps |
| `ServerSessions_duplicate` | the same | `UniqueClientIps` (violated) | see Findings |
| `DatagramPath` | a budget of three small datagrams, a send buffer of one, batches of two, two MTUs | `InOrder`, `EveryDatagramCounted`, `ChargeExact`, `BatchEnds` | order, accounting and budget through full queues, shrinking MTUs and a lost connection |
| `Heartbeat` | timeout = 3 intervals as in the code, delay up to 1 unit of 3, a window of 5 pings, a setup of any length | `NoFalseAlarm`, `DeadPeerNoticed` | neither side gives up on a live peer whose setup was not too slow, each gives up on a dead one in time |
| `ClientReconnect` | no cap and a cap of 2; 12 as the largest 32-bit value; 4 parameter sets, 5 answers of other builds | `CapIsPerOutage`, `BackoffSchedule`, `TunIdentity`, `StatusHonest`, `ComesBack` | the cap, the backoff, the device's addresses, the published status; the tunnel comes back |
| `ClientNetwork` | 4-bit addresses; inside, around and apart from a routed subnet, and a default route; an excluded path, two direct ones and the relay | `ConflictNoticed`, `RefusalSurfaces`, `PathPolicy` | a conflict is noticed within a poll, one more per failed sweep, and reported as what it is; the path is an allowed one and does not flap |
| `OverlapWatch_setup` | the network may change during setup | `ConflictNoticed` (violated) | see Findings |
| `ClientRoutes` | 3-bit addresses, an overlay of 2 with a gateway; a full tunnel, its two halves, or two single addresses; two sessions; a channel of 2 | `TableRestored`, `PinsOffTunnel`, `BootstrapProtected`, `CoveredIsTunnelled`, `PublishedTried` | sessions that end at any step leave the host's own routes, and beside them at most a needed bypass whose removal failed, and route neither the transport into the tunnel nor the VPN's own network out of it |
| `TunWriter` | sequence numbers modulo 8, frames of 4 bytes, batches of 3, channel of 4; server, client, no offload | `SegmentsSurvive`, `DrainedOnExit`, `WriterEnds` | coalescing never corrupts, reorders or loses what was enqueued |
| `MobileSession` | 3 connections, an address and a route set that change | `SilentAfterStop`, `AppViewHonest`, `StopReleases` | no callback after stop, the app's picture is right, stop ends everything |
| `Instances` | 2 processes, on unix and on Windows; stop polls twice | `OneHolder`, `RunningReachable`, `StopSpares`, `StoppedMeansDown`, `StopReturns` | one process runs the instance and can be found, stop reaches no bystander and returns, and what it says is so |

Why the bounds are enough to reach the cases: three connections are one more than
`MaxClients`, so the count passes its limit and comes back, and with two clients
they let one client overlap with itself while another takes the freed address. The
IPv4 network of four has two client addresses, so exhaustion and reuse happen; the
one of five in `ServerRouting` does not run out, which separates the IPv6 refusals
of two clients that derive one address. The queue's
budget holds three small datagrams or one and a half large ones, so both "fits" and
"full" happen with a batch in hand. Three intervals to a timeout is the code's own
ratio. 12 as the widest integer lets the exponential backoff and the attempt
counter saturate within one outage. Payloads of eleven bytes over sequence numbers
modulo 8 wrap. Two sessions let the second find what the first left; so do two
processes, one of which may still be tearing down or have crashed when the other
starts, with a command between them (the lock and the socket are also proved for any
number). Round-trip times of 4, 10 and 16 ms lie on either side of the threshold of
5 ms with the IPv6 advantage of 3 ms and without it.

Fairness: a task that is ready is polled (`WF` on writers, the bypass manager, the loop; a process's start and teardown and a command in `Instances`);
timers fire; a connection that has data to send sends it or is
lost (its idle timeout); handlers drop their senders when the server shuts down
(`SendersGone`). Nothing obliges a client to connect, a tunnel to end or a
peer to answer. `MobileSession` assumes strong fairness for stop taking the lock of
`stopped`: callbacks that hold it are at least a backoff of a second apart, so a
waiting thread is not overtaken forever. `ComesBack` is about a server that
eventually stays up. Deadlock is checked everywhere except in `DatagramPath` and
`Heartbeat`, which really stop (no packet left; both sides down).

## What is proved

The proofs of a component are in the module `...Proofs` that extends it.
`ServerProofs` has those of the pools, the sessions and the routing,
`ConnectionProofs` those of the heartbeat and the reconnect loop, `ControlProofs` those of
the instances and the mobile session.
`ProofFacts` holds what several of them need: induction over the naturals and over the
subsets of a finite set, stated for a set instead of a property so that the provers can
instantiate it, what `SumFunction` and `Min` compute, and that a function recursive
along a sequence exists and is what its equations say.
A leaf that needs no arithmetic names `Zenon`; the others are left to the SMT solver.

`ServerProofs` proves that `Allocate` and `Release` keep `PoolInv` (a well-typed pool
that is `PoolSound`, with what the induction needs of its bounds) for every network
size, server address, strategy, set of clients and derived suffixes. Fresh, freed
and derived addresses are lemmas of their own: a fresh one lies above all handed
out so far, a freed one is on the free list only once, a derived one was compared
with all addresses in use.

It proves of the sessions, for any finite set of connections, any clients,
any `max_clients`, either family or both, overlapping or not:

- `TypeCorrect`: `Spec => []TypeOK`;
- `PoolsAlwaysSound`: `Spec => []PoolsSound`;
- `AdmissionAlwaysSound`: `Spec => []AdmissionSound`.

The inductive invariant is `Inv == TypeOK /\ PoolInv of both pools /\ AdmissionSound`.
`TypeOK` needs the pools, because the addresses a handler keeps and registers are what
a pool handed out. `PoolSound` alone is not inductive: without the relation between
`next_ip` and `server_ip` a fresh address could be the server's, and without an empty
free list in node-id mode a derived one could be on it. `AdmissionSound` is inductive
with both its conjuncts: the number of handlers past the check is bounded only because
the counter is exactly the number of handlers between the increment and the decrement,
so a handler that sees fewer than `max_clients` really is one of at most that many.
The proof reduces each action to "one handler moves from one step to another"
(`Moves`, `MovesCount`) and uses the library's facts on cardinalities. The assumptions
are the `ASSUME`s of `IpPool` and `ServerSessions`, which the runs evaluate.

`ServerProofs` goes on from `Inv`:

- `LeasesImplemented`: `Spec => ImplementsLeases`, step by step. `AllocateGrants` and
  `ReleaseRevokes` say that one call changes one key's lease and to
  what; every other step of a handler leaves the leases alone.
- `OnlyOwnersUnregister`: the action property `OnlyOwnerUnregisters`, and
  `RegistrationsAlwaysOwned`: `[]RegistrationsOwned`. Both rest on no two handlers
  having one session id (`SessionIds`), so a cleanup that
  matches a registration is that of the handler that made it. They do not say that the
  later id stays: a handler that took its id first may insert last.

For the routing it assumes `~Overlapping` (with overlap `UniqueClientIps` is false,
see Findings) and proves `ClientIpsUnique`, `NeverLeaks` (of `Spec`),
`LiveAlwaysReachable` and `OwnTrafficAlwaysAccepted` (of `RoutingSpec`). A handler's own
note of its addresses, its key's entry in the pools, the registration and the reverse
maps are copies of one fact, written and erased at different steps. `SoloInv` says which
of them agree at which step; it is inductive because a key has one handler at a time
(`Alone`) and an address one key. `RoutingInv` adds what the reader and the inbound task
have looked up so far.

`ControlProofs` proves of the instances, for any set of processes, on either platform:

- `OneHolderAlways`: `Spec => []OneHolder`;
- `RunningAlwaysReachable`: `Spec => []RunningReachable`.

`OneHolder` is about program counters and is not inductive: `LockInv` adds that there
is one inode, the one at the path, because no step removes or replaces the file, and
that the holder the kernel knows is exactly the process whose program is past the
lock. `ReachInv` rests on it: the process that removes a stale socket and binds its own
holds the lock, so between the two no other can bind, and a predecessor removed its
socket before it let go of the lock. `CmdInv` types the command, whose signal may
kill a process that has no handler yet.

The argument about stopping is that a program only moves forward (`Forward`). On Unix
the socket leads to a listener only while its client holds the lock (`SockInv`), so
from the answer on, `cmd.held` contains every holder and the PID in the file is one of
theirs (`StopInv`). That PID is in the file because its writer wrote it under the lock.
From this follow `StopAlwaysSpares` (`[]StopSpares`) and, with what each step of the
teardown has already dropped (`ProcInv`), `StoppedAlwaysDown` (`[]StoppedMeansDown`).

`ControlProofs` proves of the mobile session `AlwaysSilentAfterStop` and
`AppViewAlwaysHonest` for any parameters and any number of connections: the lock is
held exactly during a callback (`QuietInv`), and at every step between two callbacks
what the task is about to report is what is so (`ViewInv`).

`ConnectionProofs` proves of the heartbeat, for any times, queue sizes and window within
`UnitsAssumption`, `TimeoutAssumption` and `WindowAssumption`:

- `AlwaysDeadPeerNoticed`: `[]DeadPeerNoticed`. The danger is the ping that waits for the
  window, because its own deadline is then not polled. `BeatInv` shows that it never
  waits (`NeverBlocked`): unread pings are an interval apart (`Spaced`), so they span no
  more than the silence so far and what was under way (`Window`), and the deadline
  passes before they fill the window. Nothing is under way before the heartbeat starts
  (`Before`). No frame is late or younger than the silence of
  its sender (`InTime`), so a deadline is re-armed only within `MaxDelay` of its
  beginning (`Quiet`).
- `AlwaysNoFalseAlarm`: `HeartbeatSpec /\ []RoomForPong => []NoFalseAlarm`. `RoomForPong`
  says that publications alone do not fill the control queue when a ping waits; a pong
  may still be dropped behind another one. Wherever the answer to the next ping is (not
  yet sent, under way, in the server's queue, on the stream, in the client's channel),
  its age bounds what has passed of the deadline (`NextPong`; `NextPing` for the server,
  whose first deadline is what setup has left of it). A server that times out a client
  that is there is excepted only for `SlowSetup`: setup and the first ping's way take as
  long as the timeout.
  Without a condition on the queue the property is not true of all constants: enough
  address changes in a row could drop every pong. `PublicationsLeaveRoom` proves the
  condition for a queue longer than `MaxChanges + 1` (the code's holds 1024) and a
  publisher's interval above `MaxDelay`; `SessionNeverTimedOut` is the server's half,
  which needs none. The case between, one pong lost to a full queue of publications, is
  checked by the run.

`ConnectionProofs` proves of the reconnect loop, for any servers, caps, backoff
constants and integer widths `CapAlwaysPerOutage` (the counter and the retries made
agree at every attempt, `CountInv`), `BackoffAlwaysScheduled` (the saturating
operations compute what exact ones do, up to the cap), `TunAlwaysIdentified`
(`ParamsInv`: from the check on the baseline is the session's own) and
`StatusAlwaysHonest`.

`ClientNetworkProofs` proves for any paths, round-trip times, routes and networks:

- `PolicyAlwaysKept` and `PolicyKeptInSession`: `[]PathPolicy` of the selector called on
  its own and in a session. The margin by which a path was left is at least the
  threshold (`MarginInv`), and so is that of the switch back. That a relay or an
  excluded path is left needs a best candidate to exist (`BestExists`), which is the
  least element of a set of naturals.
- `RefusalAlwaysSurfaces`: the refusal is recorded before the connection is closed
  (`RefusalInv`). That the refused network really is cut off is a lemma on prefixes:
  one contains the other exactly if some address lies in both (`OverlapIsShared`).
- `ConflictAlwaysNoticed`, under two hypotheses: the host's networks do not change
  while connect sets up (`~SetupChanges`; otherwise it is false, see Findings) and the
  sweep of the connect-time check does not fail. What a sleeping watcher last saw cuts
  nothing off, so a conflict that is there is news at its next look (`NoticeInv`).

`ClientRoutesProofs` proves for any configured routes, gateways, addresses, devices and
host table `TableAlwaysRestored`, `PinsAlwaysOffTunnel`, `BootstrapAlwaysProtected` and
`CoveredAlwaysTunnelled`. `TableInv` says that the host's routes are in the table at all
times, that every other route is an orphaned bypass, one of the manager's guards or one
into the tunnel to a gateway or a configured route, that no two routes have one
destination, and that every bypass is to a transport address that needed one;
`PinInv` that every guard, also that of a command which has just returned, stands for a
route off the tunnel or for a configured one it does not own; `SetupInv` that setup
forgets neither a bootstrap address nor a route. The longest-prefix lookup (`LookupIs`)
and what flattening the expanded routes yields (`FlattenIs`) are lemmas by descent to a
least counterexample.

`DatagramPathProofs` proves for any packets, budget, batch size, MTUs and send buffer:

- `ChargeAlwaysExact` and `EveryDatagramAlwaysCounted`, for any finite set of producers.
  The counter is the charge of the queue and the batch and what each producer holds
  (`ChargeInv`). That what is held stays within the budget is not inductive: a
  reservation is granted against the counter, so what other producers were granted and
  have not pushed yet belongs to it (`WithinBudget`). That the counters and what is on
  its way sum to what was numbered is. `ChargeIs` and `FittingIs` say what the two
  recursive operators compute, `SumDiffers` what a step of one producer does to a sum
  over all.
- `AlwaysInOrder`, for one producer, as there is one TUN reader. What was handed over,
  the rest of the batch, the queue and the pending datagrams form one line in ascending
  order (`Line`), which every step shortens or prolongs at an end.

`TunWriterProofs` proves `SegmentsAlwaysSurvive` and `AlwaysDrainedOnExit` for any
frames, modulus of the sequence numbers, header and frame length, batch and channel.
`TunInv` says that each packet under way, queued, drained or written is a piece of a
frame that was sent, that the planned groups cover the rest of the batch without a gap
and each is a run that `can_chain`, and that what was enqueued is what was written,
dropped, queued or left. The core is about the algorithms of `offload.rs`: all packets
of a run but the last are as long as the first, and their numbers follow each other
modulo `SEQ`, so the joined payload (`Joined`) is cut where it was joined, and cutting
it gives as many packets as the group has, with the same numbers and payloads.

Assumptions on the constants are `ASSUME`s of the models that the runs evaluate:
sessions and errors are not mistaken for the value that means "none"
(`SessionAssumption`, `ErrorAssumption`), an accepting server has parameters
(`InfoAssumption`), networks are bit sequences no longer than an address and only the
session's own device has its name (`HostAssumption`); in `ClientRoutes`, the host has a
default route, no two routes to one destination and none through the tunnel
(`SysAssumption`), addresses are of one length, relays lie outside the VPN and gateways inside
(`AddressAssumption`), and routes are bit sequences (`RoutesAssumption`). `PathAssumption`, `SetupAssumption` and `UnitsAssumption` type the
constants of the datagram path, the TUN writer and the heartbeat; the second also says
that a frame read from a TUN device is no longer than its length field can say.

Only model-checked:

- Liveness (`BatchEnds`, `ComesBack`, `PublishedTried`,
  `WriterEnds`, `StopReleases`, `StopReturns`): fairness and `ENABLED` are beyond the
  prover.
- `NoFalseAlarm` where publications fill the control queue before a ping (see above).

## Findings and known gaps of the code

1. `ServerSessions_duplicate`. The old handler of a client that reconnects removes
   its registration, and only afterwards releases the addresses *by key*. A new
   handler of the same client that allocates before that release is given the same
   addresses (the pool still has them under the key). If it registers only after the
   old registration is gone, the session-id check has nothing to compare with: the
   old handler releases the addresses of the new session, and the pool hands them
   to another client. Two live clients have one address. In
   another order of the same steps the old handler removes the reverse entries of the
   new session, which has the same key and addresses: it is live and not routed.
2. `OverlapWatch_setup`. The watcher's baseline is taken when the watcher starts, not
   when `connect` checked. A network that appears between the two is in the
   baseline, so the watcher never reports it.

Behaviours the models include, which no property forbids because the code accepts
them: the TUN reader may hand a packet to a session that has just been replaced; a
failed handshake response keeps the address it allocated until the client comes
back (`NothingLeaks` states it); a bypass command that outlives its future leaves
its route in the table, and so does a bypass whose removal fails, which is only logged
(`TableRestored` says what such a route can be); a bypass that comes after the VPN
routes, to an address that is by itself a configured route, finds that route and takes
it for its own way, so that address stays in the tunnel (`PinsOffTunnel` names it); a
route of the host that is equal to a configured one is tolerated and keeps its traffic
off the tunnel (`CoveredIsTunnelled` names it); a client whose setup takes as long as
the heartbeat timeout is closed by the server before its first ping (`NoFalseAlarm`
names it), and its reconnect loop starts over; datagrams found in the
queue after the connection closed are not counted as dropped; the answer "server is
full" ends the client's loop instead of being retried; packets counted as received
from clients may still be lost to a failed TUN write. A server whose IPv6 pool is
exhausted when a dual-stack client comes back answers with IPv4 only, which the
client takes for a changed configuration and gives up. One failed `accept` ends the
status listener of a client for good, and on Windows a client may meet the pipe of a
predecessor that is not quite gone; either runs without being found (`RunningReachable`
names both). A `stop` whose last query fails reports an error although the client
stopped.

Seen while modelling, and outside the models: on a signal the tunnel's tasks are
detached and keep the TUN device until the runtime is dropped, which is after the
lock has been released (`StoppedMeansDown` therefore promises the device only of
`ezvpn_stop`, which joins); a status waits up to three seconds for a relay's health
check (`src/transport/paths.rs`) while the query gives up after two
(`src/control.rs`), so with an unresponsive relay of one's own `client stop` may fail
before it signals; the kernel may give a PID out again between the query and the
signal, where the model's PIDs are unique.

## What is not modelled, and why

- Cryptography, key files, JSON, configuration, argument parsing, logging: pure
  conversions and I/O; authentication is a free choice of the handler.
- QUIC, iroh, the kernel: external, as the code uses them (a bounded send buffer, a
  reliable stream, lossy datagrams, a routing table, a segmentation offload).
- Header layouts and checksums in the offload code; the width of addresses.
- The client's outbound task: it reads, filters and sends without shared state.
- Observation and logging of paths and relays (`src/transport/paths.rs`).
- The failover of the home relay: a task of an external crate that the server starts.
- Length prefix and type byte of control frames: a frame is one unit of the stream.
- Reserving addresses in a pool: compiled for tests only.

## Plan

What would be next:

1. *Composition*: the reconnect loop with the server's handlers, so that the overlap
   of sessions follows from the client's timeouts instead of a constant.
2. *Proofs*: `NoFalseAlarm` with one pong lost to publications, which needs a bound on
   how many of them fall between two pings.
