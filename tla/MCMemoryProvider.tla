-------------------------- MODULE MCMemoryProvider --------------------------
(***************************************************************************)
(* Instances of MemoryProvider for TLC.  Four versions of the file let one *)
(* notification stand for several updates and let the consumer read the    *)
(* networks of one version and the clients of a later one.                 *)
(***************************************************************************)
EXTENDS MemoryProvider
=============================================================================
