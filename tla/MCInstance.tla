---------------------------- MODULE MCInstance ----------------------------
(* One thread sets, as the workers of the server do one at a time; others  *)
(* get and sync.                                                           *)
EXTENDS InstanceLock
=============================================================================
