----------------------------- MODULE MCUnbound -----------------------------
(* Rules that mention instances nobody computes: E, in the timestep of P   *)
(* and Q, and F, alone in its timestep, are filled by another program; P   *)
(* reads E and Q, Q reads P and F.                                         *)
EXTENDS JobsProperties

CONSTANTS E, F, P, Q

MCStepOf == [i \in DI |-> IF i = F THEN 2 ELSE 1]
MCInitArgs == [i \in DI |-> {}]
MCUsualArgs == [i \in DI |-> CASE i = P -> {E, Q} [] i = Q -> {P, F} [] OTHER -> {}]
MCFileValue == [i \in DI |-> IF i = E THEN 1 ELSE 2]

Larger(a, b) == IF a < b THEN b ELSE a

MCCompute(u, val) ==
  CASE u = <<"usual", P>> -> Larger(val[E], val[Q])
    [] u = <<"usual", Q>> -> Larger(val[F], val[P])
    [] OTHER              -> 0
=============================================================================
