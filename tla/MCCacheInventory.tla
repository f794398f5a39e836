-------------------------- MODULE MCCacheInventory --------------------------
(***************************************************************************)
(* Small instances of CacheInventory for TLC.                              *)
(***************************************************************************)
EXTENDS CacheInventory, MCImageCache

CONSTANT l1
=============================================================================
