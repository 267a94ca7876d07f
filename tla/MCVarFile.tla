----------------------------- MODULE MCVarFile -----------------------------
(* A file of four slots and instants enough to go round it twice, or to   *)
(* jump over all of it.                                                    *)
EXTENDS VarFile

MCTime == 0..9
=============================================================================
