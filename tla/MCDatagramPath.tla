--------------------------- MODULE MCDatagramPath ---------------------------
(***************************************************************************)
(* Small packets, full-size packets, and a super-frame of two segments.     *)
(***************************************************************************)
EXTENDS DatagramPath

MCPackets == {<<1>>, <<2>>, <<2, 1>>}
=============================================================================
