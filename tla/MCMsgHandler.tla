----------------------------- MODULE MCMsgHandler -----------------------------
(***************************************************************************)
(* Small instances of MsgHandler.                                          *)
(***************************************************************************)
EXTENDS MsgHandler
===============================================================================
