----------------------------- MODULE MCPatterns -----------------------------
(* Two timelines: A and B relax together and read the weight W of the      *)
(* instant before.  All three start from static rules; what A and B relax  *)
(* to depends on the order of the jobs.                                    *)
EXTENDS Patterns

CONSTANTS A, B, W

MCDI == Variable \X (0..Horizon)
MCWithInit == {<<A, 0>>, <<A, 1>>}
MCStatic == {<<A, 0>>, <<B, 0>>, <<W, 0>>}
MCTimeline == [v \in Variable |-> IF v = W THEN 2 ELSE 1]
MCStepOf == [d \in DI |-> (MCTimeline[d[1]] - 1) * (Horizon + 1) + d[2] + 1]
MCInitPattern == [v \in Variable |-> {}]
MCUsualPattern ==
  [v \in Variable |->
     CASE v = A -> {[var |-> B, t |-> relative(0)], [var |-> W, t |-> relative(-1)]}
       [] v = B -> {[var |-> A, t |-> relative(0)]}
       [] v = W -> {[var |-> W, t |-> relative(-1)], [var |-> A, t |-> relative(0)]}]
MCWalltime == [v \in Variable |-> Horizon]
MCInitArgs == [d \in DI |-> {}]
MCUsualArgs ==
  [d \in DI |-> IF d = <<A, 0>> THEN {<<B, 0>>}
                ELSE IF Realizable(MCUsualPattern[d[1]], d[2])
                THEN Instances(MCUsualPattern[d[1]], d[2])
                ELSE {}]
MCFileValue == [d \in DI |-> 0]

MCCompute(q, val) ==
  LET v == q[2][1]
      t == q[2][2]
  IN CASE q[1] = "init" \/ (t = 0 /\ v = W) -> 1
       [] v = B -> val[<<A, t>>]
       [] v = A /\ t = 0 -> val[<<B, 0>>]
       [] v = A -> IF val[<<W, t - 1>>] = 0 THEN 0 ELSE val[<<B, t>>]
       [] OTHER -> val[<<A, t>>]
=============================================================================
