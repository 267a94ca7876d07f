--------------------------- MODULE MCFileSharing ---------------------------
(* A buffer of three slots, and instants enough to go round it.     *)
EXTENDS FileSharing
=============================================================================
