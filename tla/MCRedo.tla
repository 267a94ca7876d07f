------------------------------- MODULE MCRedo -------------------------------
(* Two clients extend a simulation that runs: X and Y share the first      *)
(* timestep, which may end before the second of them is declared and then  *)
(* has a second object; B reads X, C reads X and B.                        *)
EXTENDS JobsProperties

CONSTANTS X, Y, B, C

MCStepOf == [i \in DI |-> CASE i = B -> 2 [] i = C -> 3 [] OTHER -> 1]
MCInitArgs == [i \in DI |-> {}]
MCUsualArgs == [i \in DI |-> CASE i = B -> {X} [] i = C -> {X, B} [] OTHER -> {}]
MCFileValue == [i \in DI |-> 0]

MCCompute(q, val) ==
  CASE q = <<"usual", B>> -> val[X]
    [] q = <<"usual", C>> -> val[B]
    [] OTHER              -> 1
=============================================================================
