---------------------------- MODULE MCSkedXRSW ----------------------------
(* Two readers and two writers, or one writer for the counterexample.      *)
EXTENDS SkedXRSW
=============================================================================
