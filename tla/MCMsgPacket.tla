---- MODULE MCMsgPacket ----
(* Two packets with a string and a negative number, or with one number. *)
EXTENDS MsgPacket

MCScripts ==
  {<<[kind |-> "String", value |-> <<1>>], [kind |-> "S16", value |-> -1]>>,
   <<[kind |-> "U16", value |-> 2]>>}

Symmetry == Permutations(Packets)
====
