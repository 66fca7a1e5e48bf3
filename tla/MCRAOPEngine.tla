---------------------------- MODULE MCRAOPEngine ----------------------------
(* Model checking of RAOPEngine: two devices, one with an encrypted        *)
(* stream, and counters that wrap after a few packets.                     *)
EXTENDS RAOPEngine

MCPacket == DataPacket
MCZeroed == ZeroedPacket
=============================================================================
