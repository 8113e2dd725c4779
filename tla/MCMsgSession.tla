----------------------------- MODULE MCMsgSession -----------------------------
(***************************************************************************)
(* Small instances of MsgSession.                                          *)
(***************************************************************************)
EXTENDS MsgSession, TLC

\* the addresses of the heap are interchangeable; the application threads
\* are not, one of them calls Terminate()
Symmetry == Permutations(Addrs)
===============================================================================
