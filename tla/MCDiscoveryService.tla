------------------------- MODULE MCDiscoveryService -------------------------
(***************************************************************************)
(* Instances of DiscoveryService for TLC.  Two providers that can report   *)
(* the same key are enough for answers that overwrite each other, for one  *)
(* that fails while the other succeeds and for one that answers after the  *)
(* collector gave up.  Two runs and a channel of one slot let a result wait *)
(* behind an upload, or find the channel full and be discarded.            *)
(***************************************************************************)
EXTENDS DiscoveryService
=============================================================================
