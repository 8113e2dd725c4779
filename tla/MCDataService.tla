----------------------------- MODULE MCDataService -----------------------------
(***************************************************************************)
(* Small instances of DataService.                                         *)
(***************************************************************************)
EXTENDS DataService
===============================================================================
