--------------------------- MODULE MCPacketBuffer ---------------------------
(* Model checking of PacketBufferSpec on a small ring.                     *)
EXTENDS PacketBufferSpec
=============================================================================
