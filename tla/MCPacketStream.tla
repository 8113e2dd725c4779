---- MODULE MCPacketStream ----
(* Two threads write packets with and without payload and checksum. *)
EXTENDS PacketStream

MCLength == [id \in Ids |-> CASE id = 1 -> 1 [] id = 2 -> 2 [] id = 3 -> 0]
====
