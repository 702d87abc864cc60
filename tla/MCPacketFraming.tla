--------------------------- MODULE MCPacketFraming ---------------------------
(* Instances of PacketFraming for TLC.                                     *)
EXTENDS PacketFraming
=============================================================================
