--------------------------- MODULE MCServiceRunner ---------------------------
(***************************************************************************)
(* Small instances of ServiceRunner: two concurrent executions on accepted *)
(* and refused contracts, of one request or of two with the same           *)
(* destinations.                                                           *)
(***************************************************************************)
EXTENDS ServiceRunner, MCContracts

AllContracts == {Good, Old, Rival, SameDestination} \cup Refused
=============================================================================
