------------------------------ MODULE MCRelax ------------------------------
(* Two timesteps: X alone in the first, which another program may fill     *)
(* with the value its rule computes; in the second W, first set by an init *)
(* that waits for X and then read from X, and U and V that read each other *)
(* and W.                                                                  *)
EXTENDS JobsProperties

CONSTANTS X, W, U, V

MCStepOf == [d \in DI |-> IF d = X THEN 1 ELSE 2]
MCInitArgs == [d \in DI |-> IF d = W THEN {X} ELSE {}]
MCUsualArgs == [d \in DI |-> CASE d = W -> {X} [] d = U -> {W, V} [] d = V -> {U} [] OTHER -> {}]
MCFileValue == [d \in DI |-> 2]

Larger(a, b) == IF a < b THEN b ELSE a

MCCompute(q, val) ==
  CASE q = <<"init", W>>  -> 1
    [] q = <<"usual", X>> -> 2
    [] q = <<"usual", W>> -> val[X]
    [] q = <<"usual", U>> -> Larger(val[W], val[V])
    [] q = <<"usual", V>> -> val[U]
    [] OTHER              -> 0
=============================================================================
