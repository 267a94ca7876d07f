---------------------------- MODULE MCOperations ----------------------------
EXTENDS Operations

Line2 == Map1D(Scalar, 2)
Line3 == Map1D(Scalar, 3)
Line8 == Map1D(Scalar, 8)
Square2 == Map2D(Scalar, 2)
Square8 == Map2D(Scalar, 8)

(* The rules that are evaluated, each with its arguments of all kinds but  *)
(* for min and max, of one kind.                                           *)
MCEvaluated ==
  {[op |-> "copy",           res |-> Square2, args |-> <<Square2>>],
   [op |-> "min",            res |-> Scalar,  args |-> <<Scalar, Scalar>>],
   [op |-> "max",            res |-> Scalar,  args |-> <<Scalar, Scalar>>],
   [op |-> "average",        res |-> Line2,   args |-> <<Line2, Line2>>],
   [op |-> "average",        res |-> Line2,   args |-> <<Line2, Line2, Line2>>],
   [op |-> "random",         res |-> Pos2D,   args |-> <<>>],
   [op |-> "random-when",    res |-> Pos1D,   args |-> <<Scalar>>],
   [op |-> "converge",       res |-> Scalar,  args |-> <<Scalar>>],
   [op |-> "clear",          res |-> Line2,   args |-> <<>>],
   [op |-> "merge",          res |-> Line2,   args |-> <<Line2, Line2>>],
   [op |-> "match-triangle", res |-> Line2,   args |-> <<Pos2D, Map1D(Pos2D, 2)>>],
   [op |-> "match-gaussian", res |-> Square2, args |-> <<Scalar, Square2>>],
   [op |-> "learn-triangle", res |-> Line2,   args |-> <<Scalar, Line2, Pos1D>>],
   [op |-> "learn-gaussian", res |-> Line3,   args |-> <<Scalar, Line3, Pos1D>>],
   [op |-> "argmax",         res |-> Pos1D,   args |-> <<Line3>>],
   [op |-> "argmax",         res |-> Pos1D,   args |-> <<Line8>>],
   [op |-> "argmax",         res |-> Pos2D,   args |-> <<Square2>>],
   [op |-> "argmax",         res |-> Pos2D,   args |-> <<Square8>>],
   [op |-> "conv-argmax",    res |-> Pos2D,   args |-> <<Square2>>],
   [op |-> "toward-argmax",  res |-> Pos1D,   args |-> <<Line3, Pos1D>>],
   [op |-> "toward-conv-argmax", res |-> Pos2D, args |-> <<Square2, Pos2D>>],
   [op |-> "pair",           res |-> Pos2D,   args |-> <<Pos1D, Pos1D>>],
   [op |-> "first",          res |-> Pos1D,   args |-> <<Pos2D>>],
   [op |-> "second",         res |-> Pos1D,   args |-> <<Pos2D>>],
   [op |-> "value-at",       res |-> Scalar,  args |-> <<Square2, Pos2D>>],
   [op |-> "value-at",       res |-> Pos2D,   args |-> <<Map1D(Pos2D, 2), Pos1D>>]}

(* Types as they are written, some of which do not parse: the contents,    *)
(* and lines and squares of some.                                          *)
MCWritten ==
  [word : {"Scalar"}, n : {1}, dim : {0}, side : {1}]
    \cup [word : {"Pos"}, n : 1..3, dim : {0}, side : {1}]
    \cup [word : {"Scalar"}, n : {1}, dim : {1}, side : {0, 2, 3}]
    \cup [word : {"Scalar"}, n : {1}, dim : {2, 3}, side : {2}]
    \cup [word : {"Pos", "Array"}, n : {2}, dim : {1}, side : {2}]
    \cup [word : {"Array"}, n : {0, 2}, dim : {0}, side : {1}]

MCType == {make(w) : w \in {w \in MCWritten : parses(w)}}

MCRule ==
  MCEvaluated
    \cup [op : Operation \cup {"toward_bmu"}, res : MCType,
          args : UNION {[1..n -> MCType] : n \in 0..3}]

(* Activities that are high in the cells of a set. *)
Peaks(n, cells) == [i \in 1..n |-> IF i - 1 \in cells THEN 128 ELSE 0]

(* Values with one maximum or several, apart or within the tolerance, in   *)
(* all orders; on 8 cells, one is that whose position is rounded down.     *)
MCContents(t) ==
  CASE nb_of_doubles(t) <= 2 -> [1..nb_of_doubles(t) -> {0, 64, 128}]
    [] t = Line3 -> {<<0, 0, 0>>, <<128, 0, 128>>, <<0, 108, 128>>, <<128, 64, 0>>, <<64, 0, 0>>}
    [] t = Line8 -> {Peaks(8, cells) : cells \in {{}, {1, 4}, {5}, {7}}}
    [] t = Square8 -> {Peaks(64, cells) : cells \in {{29}, {42}, {45, 63}}}
    [] OTHER     -> {<<0, 0, 0, 0>>, <<128, 0, 0, 0>>, <<0, 128, 0, 128>>, <<0, 0, 108, 128>>, <<64, 128, 0, 0>>}

MCKinds(r) ==
  LET n == Len(r.args)
  IN  IF r \notin MCEvaluated THEN {}
      ELSE IF r.op \in Extremum THEN {[k \in 1..n |-> "in"], [k \in 1..n |-> "out"]}
      ELSE IF r.op \in Towards THEN {<<"in", "self">>, <<"out", "self">>}
      ELSE [1..n -> {"in", "out"}]
=============================================================================
