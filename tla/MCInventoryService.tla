------------------------- MODULE MCInventoryService -------------------------
(***************************************************************************)
(* The instance of InventoryService for TLC: one network more than there   *)
(* are permits of the service, one that is not eligible, and one permit of *)
(* the validator for all of them.  One client of three is reachable, one   *)
(* has no host name and one no endpoint.                                   *)
(***************************************************************************)
EXTENDS InventoryService
=============================================================================
