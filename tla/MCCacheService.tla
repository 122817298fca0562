---------------------------- MODULE MCCacheService ----------------------------
(* CacheService for the model checker.                                     *)
EXTENDS CacheService
=============================================================================
