------------------------------ MODULE MCMinMax ------------------------------
EXTENDS Operations

MCRule == {[op |-> "min", res |-> Scalar, args |-> <<Scalar, Scalar>>]}

(* An argument of the timestep of the result, one of another timestep. *)
MCKinds(r) == {<<"in", "out">>}

MCContents(t) == {<<0>>, <<64>>, <<128>>}
=============================================================================
