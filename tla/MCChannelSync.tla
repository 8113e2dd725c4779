---- MODULE MCChannelSync ----
(* Two jobs and the setup, with the channels of a small list. *)
EXTENDS ChannelSync, TLC

Symmetry == Permutations(Jobs) \union Permutations(Numbers)
====
