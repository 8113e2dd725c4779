------------------------------ MODULE MCMsgServer ------------------------------
(***************************************************************************)
(* Small instances of MsgServer.                                           *)
(***************************************************************************)
EXTENDS MsgServer, TLC

\* the addresses of clients are interchangeable; ports are not, the server
\* starts on one of them
Symmetry == Permutations(Clients)
===============================================================================
