------------------------------ MODULE MCCache ------------------------------
(* A file of two slots, a cache of one or two instances.                   *)
EXTENDS Cache

MCTime == 0..3
=============================================================================
