------------------------------- MODULE Symbols -------------------------------
(***************************************************************************)
(* The names of the simulation (cxsomSymbols.hpp, cxsomJobRule.hpp): a     *)
(* data instance is a variable of a timeline at an instant, and the        *)
(* arguments of a pattern are dated from the instant the pattern is        *)
(* realized at.                                                            *)
(***************************************************************************)
EXTENDS Integers

(* symbol::pattern::time: the date of an argument.                         *)
absolute(n) == [kind |-> "absolute", n |-> n]
relative(n) == [kind |-> "relative", n |-> n]
scaled(n)   == [kind |-> "scaled",   n |-> n]

(* ArgInstance::at: the instant a date stands for when the pattern is      *)
(* realized at t; a negative one raises negative_time.                     *)
Date(p, t) ==
  CASE p.kind = "absolute" -> p.n
    [] p.kind = "relative" -> t + p.n
    [] p.kind = "scaled"   -> t * p.n

negative_time(p, t) == Date(p, t) < 0

(* An argument is a variable and a date; pattern::at(Function) realizes    *)
(* them all, or raises negative_time.                                      *)
Instances(args, t) == {<<a.var, Date(a.t, t)>> : a \in args}

Realizable(args, t) == \A a \in args : ~negative_time(a.t, t)
=============================================================================
