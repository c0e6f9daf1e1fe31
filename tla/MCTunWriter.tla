---------------------------- MODULE MCTunWriter -----------------------------
(* Instances of TunWriter: a burst that wraps around the sequence numbers, a     *)
(* FIN, packets that are no TCP or have no payload, and a malformed frame.       *)
EXTENDS TunWriter

Stream(flow, from, n) == [i \in 1..n |-> <<flow, from + i - 1>>]

Frame(flow, from, n, size, tcp, psh, fin) ==
  [flow |-> flow, seq |-> from % SEQ, data |-> Stream(flow, from, n), tcp |-> tcp,
   psh |-> psh, fin |-> fin, gso_size |-> size, bad |-> FALSE]

MCBurstAndFin ==
  {Frame("f", 4, 4, 2, TRUE, TRUE, FALSE), Frame("f", 8, 3, 1, TRUE, FALSE, TRUE)}
MCBurst == {Frame("f", 4, 4, 2, TRUE, TRUE, FALSE), Frame("g", 0, 0, 0, TRUE, FALSE, FALSE)}
MCMixed ==
  {Frame("f", 7, 2, 1, TRUE, FALSE, FALSE), Frame("g", 0, 1, 0, TRUE, FALSE, FALSE),
   [Frame("g", 1, 1, 0, FALSE, FALSE, FALSE) EXCEPT !.bad = TRUE],
   Frame("u", 0, 1, 0, FALSE, FALSE, FALSE)}

MCByte == {"f", "g", "u"} \X (0..10)

Setup(frames, offload_enabled, client) ==
  [frames |-> frames, offload_enabled |-> offload_enabled, client |-> client]

\* The server's writer, the client's, and a device without offload.
MCSetups == {Setup(MCBurstAndFin, TRUE, FALSE), Setup(MCMixed, TRUE, TRUE),
             Setup(MCBurst, FALSE, FALSE)}
=============================================================================
