------------------------------- MODULE MCVldp -------------------------------
(***************************************************************************)
(* Small instances of Vldp and the properties checked on them.             *)
(***************************************************************************)
EXTENDS Vldp
=============================================================================
