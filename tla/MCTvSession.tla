---- MODULE MCTvSession ----
(* Two channels, the stream's loader and one that openSync() has left behind. *)
EXTENDS TvSession
====
