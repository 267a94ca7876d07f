-------------------------------- MODULE Types --------------------------------
(***************************************************************************)
(* The types of the values (cxsomData.hpp) and the typing of the           *)
(* operations the server knows (cxsomOperation.hpp).  A type is a content  *)
(* of some width, in doubles, alone (dim 0) or repeated over a line or a   *)
(* square of a given side; two types are the same when they have the same  *)
(* name.                                                                   *)
(***************************************************************************)
EXTENDS Integers, Sequences

Scalar   == [dim |-> 0, content |-> "Scalar", width |-> 1, side |-> 1]
Pos1D    == [dim |-> 0, content |-> "Pos1D",  width |-> 1, side |-> 1]
Pos2D    == [dim |-> 0, content |-> "Pos2D",  width |-> 2, side |-> 1]
Array(n) == [dim |-> 0, content |-> "Array",  width |-> n, side |-> 1]

Map1D(c, s) == [c EXCEPT !.dim = 1, !.side = s]
Map2D(c, s) == [c EXCEPT !.dim = 2, !.side = s]

is_Map(t)     == t.dim > 0
content(t)    == [t EXCEPT !.dim = 0, !.side = 1]
is_MapOf(t, c) == is_Map(t) /\ content(t) = c

(* The elements of a value, and the doubles it is stored in. *)
size(t)          == CASE t.dim = 0 -> 1 [] t.dim = 1 -> t.side [] t.dim = 2 -> t.side * t.side
nb_of_doubles(t) == size(t) * t.width

Position(dim) == IF dim = 1 THEN Pos1D ELSE Pos2D

(* type::make on a type as it is written: the word, the dimension of a     *)
(* position or the size of an array, and of a map its dimension and side.  *)
(* The grammar has no dimension but 1D and 2D and no size 0; a type that   *)
(* does not parse raises type_parsing.                                     *)
parses(w) ==
  /\ w.word = "Pos" => w.n \in 1..2
  /\ w.word = "Array" => w.n > 0
  /\ w.dim \in 0..2
  /\ w.dim > 0 => w.side > 0

make(w) ==
  LET c == CASE w.word = "Scalar" -> Scalar
             [] w.word = "Pos"    -> Position(w.n)
             [] w.word = "Array"  -> Array(w.n)
  IN  IF w.dim = 0 THEN c ELSE [c EXCEPT !.dim = w.dim, !.side = w.side]

(* What is made of what parses. *)
DataType == [dim : 0..2, content : STRING, width : Nat \ {0}, side : Nat \ {0}]

-----------------------------------------------------------------------------
(* The type checkers: what each requires of the type r of the result and   *)
(* the types a of the arguments; bad_typing is raised otherwise.           *)

check_types_copy(r, a) == Len(a) = 1 /\ a[1] = r

check_types_min_max(r, a) == r = Scalar /\ Len(a) > 0 /\ \A i \in DOMAIN a : a[i] = Scalar

check_types_average(r, a) == \A i \in DOMAIN a : a[i] = r

check_types_random(r, a) == a = <<>>

check_types_random_when(r, a) == a # <<>>

check_types_converge(r, a) == r = Scalar

check_types_clear(r, a) == a = <<>>

check_types_merge(r, a) == Len(a) = 2 /\ is_MapOf(r, Scalar) /\ a[1] = r /\ a[2] = r

(* Variant of check_types_match: the side of the weights is not looked at. *)
match_any_side(r, a) == Len(a) = 2 /\ is_MapOf(r, Scalar) /\ is_MapOf(a[2], a[1]) /\ r.dim = a[2].dim

check_types_match(r, a) ==
  /\ Len(a) = 2
  /\ is_MapOf(r, Scalar)
  /\ is_MapOf(a[2], a[1])
  /\ r.dim = a[2].dim
  /\ r.side = a[2].side

check_types_learn(r, a) ==
  /\ Len(a) = 3
  /\ r = a[2]
  /\ is_Map(r)
  /\ is_MapOf(a[2], a[1])
  /\ a[3] = Position(a[2].dim)

check_types_argmax(r, a) == Len(a) = 1 /\ is_MapOf(a[1], Scalar) /\ r = Position(a[1].dim)

check_types_toward_argmax(r, a) ==
  /\ Len(a) = 2
  /\ is_MapOf(a[1], Scalar)
  /\ r = Position(a[1].dim)
  /\ r = a[2]

(* The same tests, written again in the source. *)
check_types_toward_conv_argmax(r, a) == check_types_toward_argmax(r, a)

(* The first argument is tested twice, the second never. *)
check_types_pair(r, a) == r = Pos2D /\ Len(a) = 2 /\ a[1] = Pos1D

check_types_first(r, a) == r = Pos1D /\ Len(a) = 1 /\ a[1] = Pos2D

check_types_second(r, a) == r = Pos1D /\ Len(a) = 1 /\ a[1] = Pos2D

check_types_value_at(r, a) ==
  /\ Len(a) = 2
  /\ is_Map(a[1])
  /\ a[2] = Position(a[1].dim)
  /\ content(a[1]) = r

(* fill(TypeChecker): the operations of the server. *)
Operation ==
  {"copy", "min", "max", "average", "random", "random-when", "converge", "clear", "merge",
   "match-triangle", "match-gaussian", "learn-triangle", "learn-gaussian", "argmax", "conv-argmax",
   "toward-argmax", "toward-conv-argmax", "pair", "first", "second", "value-at"}

(* TypeChecker::operator(): an operation that is not known is an error     *)
(* too, as for UpdateFactory::operator().                                  *)
WellTyped(op, r, a) ==
  CASE op = "copy"                                  -> check_types_copy(r, a)
    [] op \in {"min", "max"}                        -> check_types_min_max(r, a)
    [] op = "average"                               -> check_types_average(r, a)
    [] op = "random"                                -> check_types_random(r, a)
    [] op = "random-when"                           -> check_types_random_when(r, a)
    [] op = "converge"                              -> check_types_converge(r, a)
    [] op = "clear"                                 -> check_types_clear(r, a)
    [] op = "merge"                                 -> check_types_merge(r, a)
    [] op \in {"match-triangle", "match-gaussian"}  -> check_types_match(r, a)
    [] op \in {"learn-triangle", "learn-gaussian"}  -> check_types_learn(r, a)
    [] op \in {"argmax", "conv-argmax"}             -> check_types_argmax(r, a)
    [] op = "toward-argmax"                         -> check_types_toward_argmax(r, a)
    [] op = "toward-conv-argmax"                    -> check_types_toward_conv_argmax(r, a)
    [] op = "pair"                                  -> check_types_pair(r, a)
    [] op = "first"                                 -> check_types_first(r, a)
    [] op = "second"                                -> check_types_second(r, a)
    [] op = "value-at"                              -> check_types_value_at(r, a)
    [] OTHER                                        -> FALSE
=============================================================================
