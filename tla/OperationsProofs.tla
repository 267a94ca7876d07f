-------------------------- MODULE OperationsProofs --------------------------
(***************************************************************************)
(* The checks of types keep an update inside the values it reads and       *)
(* writes, a change that counts is told, the result is the operation       *)
(* applied to the arguments as they are, and the operations agree on where *)
(* a cell is but for the rounding, for rules on any types and any number   *)
(* of arguments.  What the loops compute is proved by an induction over    *)
(* indices, that < being well-founded gives for a set (Induction).         *)
(***************************************************************************)
EXTENDS Operations, SequenceTheorems, NaturalsInduction, WellFoundedInduction, TLAPS

LEMMA SizeType == ASSUME NEW t \in DataType PROVE size(t) \in Nat \ {0}
<1>1. t.side \in Nat /\ t.side > 0 /\ t.dim \in {0, 1, 2}
  BY DEF DataType
<1>2. CASE t.dim = 0
  BY <1>2 DEF size
<1>3. CASE t.dim = 1
  BY <1>1, <1>3 DEF size
<1>4. CASE t.dim = 2
  <2>1. size(t) = t.side * t.side
    BY <1>4 DEF size
  <2>2. t.side * t.side > 0
    BY <1>1
  <2> QED
    BY <1>1, <2>1, <2>2
<1> QED
  BY <1>1, <1>2, <1>3, <1>4

(* Types of one dimension and one side have as many elements. *)
LEMMA SameSize ==
  ASSUME NEW t, NEW u, t.side = u.side, t.dim = u.dim
  PROVE  size(t) = size(u)
BY DEF size

(* A value of scalars is stored in one double per element. *)
LEMMA ScalarSize ==
  ASSUME NEW t \in DataType, is_MapOf(t, Scalar)
  PROVE  nb_of_doubles(t) = size(t)
<1>1. t.width = 1
  BY DEF is_MapOf, content, Scalar, DataType
<1> QED
  BY <1>1, SizeType DEF nb_of_doubles

(* The width of a map is that of its content. *)
LEMMA MapWidth ==
  ASSUME NEW t \in DataType, NEW c, is_MapOf(t, c)
  PROVE  c.width = t.width /\ t.dim \in 1..2
<1>1. c = [t EXCEPT !.dim = 0, !.side = 1] /\ t.dim > 0
  BY DEF is_MapOf, is_Map, content
<1>2. c.width = t.width
  BY <1>1 DEF DataType
<1>3. t.dim \in 0..2
  BY DEF DataType
<1> QED
  BY <1>1, <1>2, <1>3

LEMMA PositionWidth ==
  ASSUME NEW d \in 1..2
  PROVE  Position(d).width = d
BY DEF Position, Pos1D, Pos2D

(* The checks and the accesses, operation by operation. *)
LEMMA AcceptedFits ==
  ASSUME NEW op \in STRING, NEW r \in DataType, NEW a \in Seq(DataType),
         op \notin {"average", "pair"}, WellTyped(op, r, a)
  PROVE  Fits(op, r, a)
<1>a. \A i \in DOMAIN a : a[i] \in DataType
  OBVIOUS
<1>b. Len(a) \in Nat /\ DOMAIN a = 1..Len(a)
  OBVIOUS
<1> USE DEF Fits, WellTyped, Extremum, Argmaxes, Towards
<1>1. CASE op = "copy"
  <2>1. a[1] = r
    BY <1>1 DEF check_types_copy
  <2> QED
    BY <1>1, <2>1
<1>2. CASE op \in {"min", "max"}
  <2>1. \A i \in DOMAIN a : a[i] = Scalar
    BY <1>2 DEF check_types_min_max
  <2> QED
    BY <1>2, <2>1
<1>3. CASE op = "merge"
  <2>1. is_MapOf(r, Scalar) /\ a[1] = r /\ a[2] = r
    BY <1>3 DEF check_types_merge
  <2>2. nb_of_doubles(r) = size(r)
    BY <2>1, ScalarSize
  <2> QED
    BY <1>3, <2>1, <2>2
<1>4. CASE op \in {"match-triangle", "match-gaussian"}
  <2>1. /\ Len(a) = 2 /\ is_MapOf(r, Scalar) /\ is_MapOf(a[2], a[1])
        /\ r.dim = a[2].dim /\ r.side = a[2].side
    BY <1>4 DEF check_types_match
  <2>2. a[2] \in DataType
    BY <1>a, <1>b, <2>1
  <2>3. nb_of_doubles(r) = size(a[2])
    BY <2>1, ScalarSize, SameSize
  <2>4. a[1].width = a[2].width
    BY <2>1, <2>2, MapWidth
  <2>5. nb_of_doubles(a[2]) = size(a[2]) * a[2].width
    BY DEF nb_of_doubles
  <2>6. nb_of_doubles(r) * a[1].width = nb_of_doubles(a[2])
    BY <2>3, <2>4, <2>5
  <2> QED
    BY <1>4, <2>6
<1>5. CASE op \in {"learn-triangle", "learn-gaussian"}
  <2>1. Len(a) = 3 /\ r = a[2] /\ is_MapOf(a[2], a[1]) /\ a[3] = Position(a[2].dim)
    BY <1>5 DEF check_types_learn
  <2>2. a[2] \in DataType
    BY <1>a, <1>b, <2>1
  <2>3. a[1].width = a[2].width /\ a[2].dim \in 1..2
    BY <2>1, <2>2, MapWidth
  <2>4. size(a[2]) * a[1].width = nb_of_doubles(a[2])
    BY <2>3 DEF nb_of_doubles
  <2>5. a[3].width = a[2].dim
    BY <2>1, <2>3, PositionWidth
  <2> QED
    BY <1>5, <2>1, <2>4, <2>5
<1>6. CASE op \in {"argmax", "conv-argmax"}
  <2>1. Len(a) = 1 /\ is_MapOf(a[1], Scalar) /\ r = Position(a[1].dim)
    BY <1>6 DEF check_types_argmax
  <2>2. a[1] \in DataType
    BY <1>a, <1>b, <2>1
  <2>3. nb_of_doubles(a[1]) = size(a[1])
    BY <2>1, <2>2, ScalarSize
  <2>4. r.width = a[1].dim
    BY <2>1, <2>2, MapWidth, PositionWidth
  <2> QED
    BY <1>6, <2>3, <2>4
<1>7. CASE op \in {"toward-argmax", "toward-conv-argmax"}
  <2>1. Len(a) = 2 /\ is_MapOf(a[1], Scalar) /\ r = Position(a[1].dim) /\ r = a[2]
    BY <1>7 DEF check_types_toward_argmax, check_types_toward_conv_argmax
  <2>2. a[1] \in DataType
    BY <1>a, <1>b, <2>1
  <2>3. nb_of_doubles(a[1]) = size(a[1])
    BY <2>1, <2>2, ScalarSize
  <2>4. r.width = a[1].dim
    BY <2>1, <2>2, MapWidth, PositionWidth
  <2> QED
    BY <1>7, <2>1, <2>3, <2>4
<1>8. CASE op \in {"first", "second"}
  <2>1. a[1] = Pos2D
    BY <1>8 DEF check_types_first, check_types_second
  <2>2. a[1].width = 2
    BY <2>1 DEF Pos2D
  <2> QED
    BY <1>8, <2>2
<1>9. CASE op = "value-at"
  <2>1. Len(a) = 2 /\ is_Map(a[1]) /\ a[2] = Position(a[1].dim) /\ content(a[1]) = r
    BY <1>9 DEF check_types_value_at
  <2>2. a[1] \in DataType
    BY <1>a, <1>b, <2>1
  <2>3. r.width = a[1].width /\ a[1].dim \in 1..2
    BY <2>1, <2>2, MapWidth DEF is_MapOf
  <2>4. size(a[1]) * r.width = nb_of_doubles(a[1])
    BY <2>3 DEF nb_of_doubles
  <2>5. a[2].width = a[1].dim
    BY <2>1, <2>3, PositionWidth
  <2> QED
    BY <1>9, <2>4, <2>5
<1>10. CASE op \in {"random", "random-when", "converge", "clear"}
  BY <1>10
<1> QED
  BY <1>1, <1>2, <1>3, <1>4, <1>5, <1>6, <1>7, <1>8, <1>9, <1>10

(* A rule whose types are accepted stays inside the values it reads and    *)
(* writes, whatever the contents, their widths, the sides of the maps and  *)
(* the number of the arguments.                                            *)
THEOREM AcceptedIsSafe == Spec => []TypeSafe
<1> DEFINE Known == rule \in Rule
<1>1. Init => Known
  BY DEF Init
<1>2. Known /\ [Next]_vars => Known'
  BY DEF Next, Receive, Evaluate, MoveIn, OutReady, vars
<1>3. Known => TypeSafe
  <2> SUFFICES ASSUME rule \in Rule, rule.op \notin {"average", "pair"},
                      WellTyped(rule.op, rule.res, rule.args)
               PROVE  Fits(rule.op, rule.res, rule.args)
    BY DEF TypeSafe
  <2>1. rule.op \in STRING /\ rule.res \in DataType /\ rule.args \in Seq(DataType)
    BY RuleAssumption
  <2> QED
    BY <2>1, AcceptedFits
<1> QED
  BY <1>1, <1>2, <1>3, PTL DEF Spec

(* A change that counts is told, by what each operation says of what it    *)
(* wrote: the first write, or a difference beyond the tolerance before the *)
(* deadline.                                                               *)
LEMMA SignificantTold ==
  ASSUME NEW op, NEW kinds, NEW m, NEW v, NEW w, op # "value-at", v # w, difference(v, w) > Epsilon,
         NEW changed \in significant(op, kinds, m, v, w)
  PROVE  changed = TRUE \/ (op \in Argmaxes \cup Towards /\ expired(m))
<1> DEFINE differs == difference(v, w) > Epsilon
<1>1. differs = TRUE
  OBVIOUS
<1> HIDE DEF differs
<1>2. CASE op = "copy"
  BY <1>2, v # w DEF significant
<1>3. CASE op \in Argmaxes
  <2>1. significant(op, kinds, m, v, w) = {~expired(m) /\ (m.from_out \/ differs)}
    BY <1>3 DEF significant, Argmaxes, differs
  <2> QED
    BY <1>1, <1>3, <2>1
<1>4. CASE op \in Towards
  <2>1. significant(op, kinds, m, v, w) = {~expired(m) /\ differs}
    BY <1>4 DEF significant, Argmaxes, Towards, differs
  <2> QED
    BY <1>1, <1>4, <2>1
<1>5. CASE op \in {"random", "random-when", "clear", "converge"}
  BY <1>5 DEF significant, Argmaxes, Towards
<1>6. CASE op \in {"pair", "first", "second"}
  BY <1>6, v # w DEF significant, Argmaxes, Towards
<1>7. CASE op \notin {"copy", "random", "random-when", "clear", "converge", "pair", "first", "second", "value-at"}
                     \cup Argmaxes \cup Towards
  <2>1. significant(op, kinds, m, v, w) = {differs}
    BY <1>7 DEF significant, differs
  <2> QED
    BY <1>1, <2>1
<1> QED
  BY <1>2, <1>3, <1>4, <1>5, <1>6, <1>7

(* The rules that read a value are told that it moved more than the        *)
(* tolerance, for any operation, contents and number of arguments          *)
(* (update::Base::operator(), on_write_result).                            *)
THEOREM ChangeIsTold == Spec => NoSilentChange
<1>1. [Next]_vars =>
        [rule.op # "value-at" /\ res.val # res'.val /\ difference(res.val, res'.val) > Epsilon =>
           \/ report' \in {"Updated", "Done"}
           \/ rule.op \in Argmaxes \cup Towards /\ expired(mem')]_vars
  <2> SUFFICES ASSUME Next, rule.op # "value-at", res.val # res'.val,
                      difference(res.val, res'.val) > Epsilon
               PROVE  \/ report' \in {"Updated", "Done"}
                      \/ rule.op \in Argmaxes \cup Towards /\ expired(mem')
    OBVIOUS
  <2> DEFINE m == ReadIns(ReadOuts(Start))
             kinds == [k \in DOMAIN args |-> args[k].kind]
  <2>1. Evaluate
    BY DEF Next, Receive, MoveIn, OutReady
  <2>2. Write(m)
    BY <2>1 DEF Evaluate
  <2> HIDE DEF m
  <2>3. PICK v \in written(rule, m, res.val) :
        \E changed \in significant(rule.op, kinds, after_writing(rule.op, m), res.val, v) :
          LET updated == ~updated_once \/ changed
              done == \A k \in DOMAIN args : args[k].kind \in {"in", "self"} => args[k].kind = "in" /\ args[k].ready
          IN  /\ mem' = after_writing(rule.op, m)
              /\ res' = [val |-> v, ready |-> done]
              /\ report' = IF done THEN "Done" ELSE IF updated THEN "Updated" ELSE "UpToDate"
    BY <2>2 DEF Write
  <2>4. PICK changed \in significant(rule.op, kinds, after_writing(rule.op, m), res.val, v) :
          LET updated == ~updated_once \/ changed
              done == \A k \in DOMAIN args : args[k].kind \in {"in", "self"} => args[k].kind = "in" /\ args[k].ready
          IN  /\ mem' = after_writing(rule.op, m)
              /\ res' = [val |-> v, ready |-> done]
              /\ report' = IF done THEN "Done" ELSE IF updated THEN "Updated" ELSE "UpToDate"
    BY <2>3
  <2>5. res'.val = v
    BY <2>4
  <2>6. changed = TRUE \/ (rule.op \in Argmaxes \cup Towards /\ expired(after_writing(rule.op, m)))
    BY <2>4, <2>5, SignificantTold
  <2>7. CASE changed = TRUE
    BY <2>4, <2>7
  <2>8. CASE rule.op \in Argmaxes \cup Towards /\ expired(after_writing(rule.op, m))
    BY <2>4, <2>8
  <2> QED
    BY <2>6, <2>7, <2>8
<1> QED
  BY <1>1, PTL DEF Spec, NoSilentChange

-----------------------------------------------------------------------------
(* Induction over the indices of a sequence. *)
Inductive(T, n) == 0 \in T /\ \A k \in 1..n : k - 1 \in T => k \in T

LEMMA Induction ==
  ASSUME NEW n \in Nat, NEW T, Inductive(T, n)
  PROVE  \A k \in 0..n : k \in T
<1> DEFINE B == {k \in 0..n : k \notin T}
           R == OpToRel(<, Nat)
<1> SUFFICES ASSUME B # {} PROVE FALSE
  OBVIOUS
<1>1. B \subseteq Nat
  OBVIOUS
<1>2. PICK b \in B : \A y \in B : <<y, b>> \notin R
  <2>1. IsWellFoundedOn(R, Nat)
    BY NatLessThanWellFounded, Zenon
  <2> HIDE DEF R, B
  <2> QED
    BY <1>1, <2>1, WFMin
<1>3. \A y \in B : ~(y < b)
  BY <1>1, <1>2, Zenon DEF OpToRel
<1> HIDE DEF R
<1>4. b \in 1..n
  BY DEF Inductive
<1>5. b - 1 \notin B
  <2> SUFFICES ASSUME b - 1 \in B PROVE FALSE
    OBVIOUS
  <2>1. ~(b - 1 < b)
    BY <1>3
  <2> QED
    BY <1>4, <2>1
<1> QED
  BY <1>4, <1>5 DEF Inductive

(* The values g that F gives one after the other from base. *)
Iterates(g, F, base, S, n) ==
  g \in [0..n -> S] /\ g[0] = base /\ \A k \in 1..n : g[k] = F[k][g[k - 1]]

LEMMA Recursion ==
  ASSUME NEW n \in Nat, NEW S, NEW base \in S, NEW F \in [1..n -> [S -> S]]
  PROVE  \E g : Iterates(g, F, base, S, n)
<1> DEFINE T == {m \in 0..n : \E g : Iterates(g, F, base, S, m)}
<1>1. 0 \in T
  <2> DEFINE g0 == [k \in 0..0 |-> base]
  <2>1. Iterates(g0, F, base, S, 0)
    BY DEF Iterates
  <2> QED
    BY <2>1
<1>2. ASSUME NEW m \in 1..n, m - 1 \in T PROVE m \in T
  <2>1. PICK g : Iterates(g, F, base, S, m - 1)
    BY <1>2
  <2>2. /\ g \in [0..(m - 1) -> S] /\ g[0] = base
        /\ \A k \in 1..(m - 1) : g[k] = F[k][g[k - 1]]
    BY <2>1 DEF Iterates
  <2> DEFINE h == [k \in 0..m |-> IF k = m THEN F[m][g[m - 1]] ELSE g[k]]
  <2>3. h \in [0..m -> S]
    <3>1. g[m - 1] \in S
      BY <2>2
    <3>2. F[m][g[m - 1]] \in S
      BY <3>1
    <3>3. ASSUME NEW k \in 0..m, k # m PROVE g[k] \in S
      BY <2>2, <3>3
    <3> QED
      BY <3>2, <3>3
  <2>4. h[0] = base
    BY <2>2
  <2>5. ASSUME NEW k \in 1..m PROVE h[k] = F[k][h[k - 1]]
    <3>1. CASE k = m
      <4>1. h[k - 1] = g[m - 1] /\ h[k] = F[m][g[m - 1]]
        BY <3>1
      <4> QED
        BY <3>1, <4>1
    <3>2. CASE k # m
      <4>1. k \in 1..(m - 1) /\ h[k] = g[k] /\ h[k - 1] = g[k - 1]
        BY <3>2
      <4> QED
        BY <2>2, <4>1
    <3> QED
      BY <3>1, <3>2
  <2> HIDE DEF h
  <2>6. Iterates(h, F, base, S, m)
    BY <2>3, <2>4, <2>5 DEF Iterates
  <2> QED
    BY <2>6
<1>3. n \in T
  <2> HIDE DEF T
  <2> QED
    <3>1. Inductive(T, n)
      BY <1>1, <1>2 DEF Inductive
    <3> QED
      BY <3>1, Induction
<1> QED
  BY <1>3

LEMMA Iterated ==
  ASSUME NEW n \in Nat, NEW S, NEW base, NEW F, NEW g, Iterates(g, F, base, S, n)
  PROVE  /\ g \in [0..n -> S] /\ g[0] = base
         /\ \A k \in 1..n : g[k - 1] \in S /\ g[k] = F[k][g[k - 1]]
BY DEF Iterates

-----------------------------------------------------------------------------
(* What the loops of an update compute: sums, and readings one argument    *)
(* after the other.                                                        *)
LEMMA LenIs ==
  ASSUME NEW n \in Nat, NEW X, NEW f \in [1..n -> X]
  PROVE  Len(f) = n
OBVIOUS

LEMMA TotalIs ==
  ASSUME NEW n \in Nat, NEW f \in [1..n -> Int]
  PROVE  \E s \in [0..n -> Int] :
           /\ s[0] = 0
           /\ Total(f) = s[n]
           /\ \A k \in 1..n : s[k] = s[k - 1] + f[k]
<1> DEFINE sum[k \in 0..n] == IF k = 0 THEN 0 ELSE sum[k - 1] + f[k]
           S == Int
           F == [k \in 1..n |-> [x \in S |-> x + f[k]]]
<1>1. PICK s : Iterates(s, F, 0, S, n)
  <2>1. F \in [1..n -> [S -> S]] /\ 0 \in S
    OBVIOUS
  <2> HIDE DEF F, S
  <2> QED
    BY <2>1, Recursion
<1>2. /\ s \in [0..n -> S] /\ s[0] = 0
      /\ \A k \in 1..n : s[k - 1] \in S /\ s[k] = F[k][s[k - 1]]
  <2> HIDE DEF F, S
  <2> QED
    BY <1>1, Iterated
<1>3. ASSUME NEW k \in 1..n PROVE s[k] = s[k - 1] + f[k]
  <2>1. s[k - 1] \in S /\ s[k] = F[k][s[k - 1]]
    BY <1>2
  <2> QED
    BY <2>1
<1>4. s = [k \in 0..n |-> IF k = 0 THEN 0 ELSE s[k - 1] + f[k]]
  <2>1. \A k \in 0..n : s[k] = IF k = 0 THEN 0 ELSE s[k - 1] + f[k]
    BY <1>2, <1>3
  <2> QED
    BY <1>2, <2>1
<1>5. sum = [k \in 0..n |-> IF k = 0 THEN 0 ELSE sum[k - 1] + f[k]]
  BY <1>4
<1>6. \A k \in 0..n : sum[k] = IF k = 0 THEN 0 ELSE sum[k - 1] + f[k]
  BY <1>5
<1>7. sum \in [0..n -> Int]
  <2> DEFINE T == {k \in 0..n : sum[k] \in Int}
  <2>1. Inductive(T, n)
    <3>1. 0 \in T
      BY <1>6
    <3>2. ASSUME NEW k \in 1..n, k - 1 \in T PROVE k \in T
      BY <1>6, <3>2
    <3> HIDE DEF T
    <3> QED
      BY <3>1, <3>2 DEF Inductive
  <2>2. \A k \in 0..n : k \in T
    <3> HIDE DEF T
    <3> QED
      BY <2>1, Induction
  <2> HIDE DEF sum
  <2> QED
    BY <1>5, <2>2
<1>8. Total(f) = sum[n]
  BY LenIs DEF Total
<1>9. sum[0] = 0 /\ \A k \in 1..n : sum[k] = sum[k - 1] + f[k]
  BY <1>6
<1> HIDE DEF sum
<1> QED
  <2> WITNESS sum \in [0..n -> Int]
  <2> QED
    BY <1>8, <1>9

(* The out-arguments that an evaluation reads when it has not read them    *)
(* all: those before the first that is busy.                               *)
Given(k) == args[k].kind = "out" /\ \A j \in 1..k : args[j].kind = "out" => args[j].ready

(* S is left by no reading of an in-argument, of an out-argument.          *)
InsStay(S, n) ==
  \A x \in S, k \in 1..n : args[k].kind # "out" => on_read_in_arg(rule.op, x, k, Read(k)) \in S

OutsStay(S, n) ==
  \A x \in S, k \in 1..n : Given(k) => on_read_out_arg(rule.op, x, k, Read(k)) \in S

(* g is what is gathered from m, one argument after the other. *)
ReadingIns(g, m, S, n) ==
  /\ g \in [0..n -> S]
  /\ g[0] = m
  /\ ReadIns(m) = g[n]
  /\ \A k \in 1..n :
       g[k] = IF args[k].kind # "out" THEN on_read_in_arg(rule.op, g[k - 1], k, Read(k)) ELSE g[k - 1]

ReadingOuts(g, m, S, n) ==
  /\ g \in [0..n -> S]
  /\ g[0] = m
  /\ ReadOuts(m) = g[n]
  /\ \A k \in 1..n :
       g[k] = IF Given(k) THEN on_read_out_arg(rule.op, g[k - 1], k, Read(k)) ELSE g[k - 1]

LEMMA ReadInsIs ==
  ASSUME NEW n \in Nat, Len(args) = n, NEW S, NEW m \in S, InsStay(S, n)
  PROVE  \E g : ReadingIns(g, m, S, n)
<1> DEFINE read[k \in 0..n] ==
             IF k = 0 THEN m
             ELSE IF args[k].kind # "out" THEN on_read_in_arg(rule.op, read[k - 1], k, Read(k)) ELSE read[k - 1]
           next(k, x) == IF args[k].kind # "out" THEN on_read_in_arg(rule.op, x, k, Read(k)) ELSE x
           F == [k \in 1..n |-> [x \in S |-> next(k, x)]]
<1>0. \A x \in S, k \in 1..n : next(k, x) \in S
  BY DEF InsStay
<1>1. PICK s : Iterates(s, F, m, S, n)
  <2>1. F \in [1..n -> [S -> S]]
    <3> HIDE DEF next
    <3> QED
      BY <1>0
  <2> HIDE DEF F
  <2> QED
    BY <2>1, Recursion
<1>2. /\ s \in [0..n -> S] /\ s[0] = m
      /\ \A k \in 1..n : s[k - 1] \in S /\ s[k] = F[k][s[k - 1]]
  <2> HIDE DEF F
  <2> QED
    BY <1>1, Iterated
<1>3. ASSUME NEW k \in 1..n PROVE s[k] = next(k, s[k - 1])
  <2>1. s[k - 1] \in S /\ s[k] = F[k][s[k - 1]]
    BY <1>2
  <2> HIDE DEF next
  <2> QED
    BY <2>1
<1>4. s = [k \in 0..n |-> IF k = 0 THEN m ELSE next(k, s[k - 1])]
  <2> HIDE DEF next
  <2>1. \A k \in 0..n : s[k] = IF k = 0 THEN m ELSE next(k, s[k - 1])
    BY <1>2, <1>3
  <2> QED
    BY <1>2, <2>1
<1>5. read = [k \in 0..n |-> IF k = 0 THEN m ELSE next(k, read[k - 1])]
  BY <1>4
<1>6. ReadIns(m) = read[n]
  BY DEF ReadIns
<1> HIDE DEF read, next, F
<1>7. \A k \in 0..n : read[k] = IF k = 0 THEN m ELSE next(k, read[k - 1])
  BY <1>5
<1>8. read \in [0..n -> S]
  <2> DEFINE T == {k \in 0..n : read[k] \in S}
  <2>1. Inductive(T, n)
    <3>1. 0 \in T
      BY <1>7
    <3>2. ASSUME NEW k \in 1..n, k - 1 \in T PROVE k \in T
      BY <1>0, <1>7, <3>2
    <3> HIDE DEF T
    <3> QED
      BY <3>1, <3>2 DEF Inductive
  <2>2. \A k \in 0..n : k \in T
    <3> HIDE DEF T
    <3> QED
      BY <2>1, Induction
  <2> QED
    BY <1>5, <2>2
<1>9. read[0] = m /\ \A k \in 1..n : read[k] = next(k, read[k - 1])
  BY <1>7
<1> QED
  <2>1. ReadingIns(read, m, S, n)
    BY <1>6, <1>8, <1>9 DEF next, ReadingIns
  <2> QED
    BY <2>1

LEMMA ReadOutsIs ==
  ASSUME NEW n \in Nat, Len(args) = n, NEW S, NEW m \in S, ~out_ok, OutsStay(S, n)
  PROVE  \E g : ReadingOuts(g, m, S, n)
<1> DEFINE read[k \in 0..n] ==
             IF k = 0 THEN m
             ELSE IF Given(k) THEN on_read_out_arg(rule.op, read[k - 1], k, Read(k)) ELSE read[k - 1]
           next(k, x) == IF Given(k) THEN on_read_out_arg(rule.op, x, k, Read(k)) ELSE x
           F == [k \in 1..n |-> [x \in S |-> next(k, x)]]
<1>0. \A x \in S, k \in 1..n : next(k, x) \in S
  BY DEF OutsStay
<1>1. PICK s : Iterates(s, F, m, S, n)
  <2>1. F \in [1..n -> [S -> S]]
    <3> HIDE DEF next
    <3> QED
      BY <1>0
  <2> HIDE DEF F
  <2> QED
    BY <2>1, Recursion
<1>2. /\ s \in [0..n -> S] /\ s[0] = m
      /\ \A k \in 1..n : s[k - 1] \in S /\ s[k] = F[k][s[k - 1]]
  <2> HIDE DEF F
  <2> QED
    BY <1>1, Iterated
<1>3. ASSUME NEW k \in 1..n PROVE s[k] = next(k, s[k - 1])
  <2>1. s[k - 1] \in S /\ s[k] = F[k][s[k - 1]]
    BY <1>2
  <2> HIDE DEF next
  <2> QED
    BY <2>1
<1>4. s = [k \in 0..n |-> IF k = 0 THEN m ELSE next(k, s[k - 1])]
  <2> HIDE DEF next
  <2>1. \A k \in 0..n : s[k] = IF k = 0 THEN m ELSE next(k, s[k - 1])
    BY <1>2, <1>3
  <2> QED
    BY <1>2, <2>1
<1>5. read = [k \in 0..n |-> IF k = 0 THEN m ELSE next(k, read[k - 1])]
  BY <1>4
<1>6. ReadOuts(m) = read[n]
  BY DEF ReadOuts, Given
<1> HIDE DEF read, next, F
<1>7. \A k \in 0..n : read[k] = IF k = 0 THEN m ELSE next(k, read[k - 1])
  BY <1>5
<1>8. read \in [0..n -> S]
  <2> DEFINE T == {k \in 0..n : read[k] \in S}
  <2>1. Inductive(T, n)
    <3>1. 0 \in T
      BY <1>7
    <3>2. ASSUME NEW k \in 1..n, k - 1 \in T PROVE k \in T
      BY <1>0, <1>7, <3>2
    <3> HIDE DEF T
    <3> QED
      BY <3>1, <3>2 DEF Inductive
  <2>2. \A k \in 0..n : k \in T
    <3> HIDE DEF T
    <3> QED
      BY <2>1, Induction
  <2> QED
    BY <1>5, <2>2
<1>9. read[0] = m /\ \A k \in 1..n : read[k] = next(k, read[k - 1])
  BY <1>7
<1> QED
  <2>1. ReadingOuts(read, m, S, n)
    BY <1>6, <1>8, <1>9 DEF next, ReadingOuts
  <2> QED
    BY <2>1

-----------------------------------------------------------------------------
(* Sums. *)
LEMMA TotalTyped ==
  ASSUME NEW n \in Nat, NEW f \in [1..n -> Int]
  PROVE  Total(f) \in Int
<1>1. PICK s \in [0..n -> Int] : s[0] = 0 /\ Total(f) = s[n] /\ \A k \in 1..n : s[k] = s[k - 1] + f[k]
  BY TotalIs
<1> QED
  BY <1>1

LEMMA TotalAdds ==
  ASSUME NEW n \in Nat, NEW f \in [1..n -> Int], NEW h \in [1..n -> Int]
  PROVE  Total([k \in 1..n |-> f[k] + h[k]]) = Total(f) + Total(h)
<1> DEFINE e == [k \in 1..n |-> f[k] + h[k]]
<1>1. e \in [1..n -> Int] /\ \A k \in 1..n : e[k] = f[k] + h[k]
  OBVIOUS
<1> HIDE DEF e
<1>2. PICK s \in [0..n -> Int] : s[0] = 0 /\ Total(f) = s[n] /\ \A k \in 1..n : s[k] = s[k - 1] + f[k]
  BY TotalIs
<1>3. PICK u \in [0..n -> Int] : u[0] = 0 /\ Total(h) = u[n] /\ \A k \in 1..n : u[k] = u[k - 1] + h[k]
  BY TotalIs
<1>4. PICK w \in [0..n -> Int] : w[0] = 0 /\ Total(e) = w[n] /\ \A k \in 1..n : w[k] = w[k - 1] + e[k]
  BY <1>1, TotalIs
<1> DEFINE T == {k \in 0..n : w[k] = s[k] + u[k]}
<1>5. Inductive(T, n)
  <2>1. 0 \in T
    BY <1>2, <1>3, <1>4
  <2>2. ASSUME NEW k \in 1..n, k - 1 \in T PROVE k \in T
    <3>1. w[k - 1] = s[k - 1] + u[k - 1] /\ s[k - 1] \in Int /\ u[k - 1] \in Int /\ f[k] \in Int /\ h[k] \in Int
      BY <2>2
    <3>2. w[k] = w[k - 1] + (f[k] + h[k]) /\ s[k] = s[k - 1] + f[k] /\ u[k] = u[k - 1] + h[k]
      BY <1>1, <1>2, <1>3, <1>4
    <3>3. w[k] = s[k] + u[k]
      BY <3>1, <3>2
    <3> QED
      BY <3>3
  <2> HIDE DEF T
  <2> QED
    BY <2>1, <2>2 DEF Inductive
<1>6. n \in T
  <2> HIDE DEF T
  <2> QED
    BY <1>5, Induction
<1> QED
  BY <1>2, <1>3, <1>4, <1>6 DEF e

LEMMA TotalOfOnes ==
  ASSUME NEW n \in Nat
  PROVE  Total([k \in 1..n |-> 1]) = n
<1> DEFINE f == [k \in 1..n |-> 1]
<1>1. f \in [1..n -> Int] /\ \A k \in 1..n : f[k] = 1
  OBVIOUS
<1> HIDE DEF f
<1>2. PICK s \in [0..n -> Int] : s[0] = 0 /\ Total(f) = s[n] /\ \A k \in 1..n : s[k] = s[k - 1] + f[k]
  BY <1>1, TotalIs
<1> DEFINE T == {k \in 0..n : s[k] = k}
<1>3. Inductive(T, n)
  <2>1. 0 \in T
    BY <1>2
  <2>2. ASSUME NEW k \in 1..n, k - 1 \in T PROVE k \in T
    BY <1>1, <1>2, <2>2
  <2> HIDE DEF T
  <2> QED
    BY <2>1, <2>2 DEF Inductive
<1>4. n \in T
  <2> HIDE DEF T
  <2> QED
    BY <1>3, Induction
<1> QED
  BY <1>2, <1>4 DEF f

(* A sum of naturals is none of them less. *)
LEMMA TotalBounds ==
  ASSUME NEW n \in Nat, NEW f \in [1..n -> Nat]
  PROVE  Total(f) \in Nat /\ \A k \in 1..n : f[k] <= Total(f)
<1>1. f \in [1..n -> Int]
  OBVIOUS
<1>2. PICK s \in [0..n -> Int] : s[0] = 0 /\ Total(f) = s[n] /\ \A k \in 1..n : s[k] = s[k - 1] + f[k]
  BY <1>1, TotalIs
<1> DEFINE T == {k \in 0..n : s[k] \in Nat /\ \A j \in 1..k : f[j] <= s[k]}
<1>3. Inductive(T, n)
  <2>1. 0 \in T
    BY <1>2
  <2>2. ASSUME NEW k \in 1..n, k - 1 \in T PROVE k \in T
    <3>1. s[k - 1] \in Nat /\ (\A j \in 1..(k - 1) : f[j] <= s[k - 1]) /\ f[k] \in Nat /\ s[k] = s[k - 1] + f[k]
      BY <1>2, <2>2
    <3>2. ASSUME NEW j \in 1..k PROVE f[j] <= s[k]
      <4>1. CASE j = k
        BY <3>1, <4>1
      <4>2. CASE j \in 1..(k - 1)
        <5>1. f[j] \in Nat /\ f[j] <= s[k - 1]
          BY <3>1, <4>2
        <5> QED
          BY <3>1, <5>1
      <4> QED
        BY <4>1, <4>2
    <3> QED
      BY <3>1, <3>2
  <2> HIDE DEF T
  <2> QED
    BY <2>1, <2>2 DEF Inductive
<1>4. n \in T
  <2> HIDE DEF T
  <2> QED
    BY <1>3, Induction
<1> QED
  BY <1>2, <1>4

LEMMA TotalOfZeros ==
  ASSUME NEW n \in Nat, NEW f \in [1..n -> Int], \A k \in 1..n : f[k] = 0
  PROVE  Total(f) = 0
<1>2. PICK s \in [0..n -> Int] : s[0] = 0 /\ Total(f) = s[n] /\ \A k \in 1..n : s[k] = s[k - 1] + f[k]
  BY TotalIs
<1> DEFINE T == {k \in 0..n : s[k] = 0}
<1>3. Inductive(T, n)
  <2>1. 0 \in T
    BY <1>2
  <2>2. ASSUME NEW k \in 1..n, k - 1 \in T PROVE k \in T
    BY <1>2, <2>2
  <2> HIDE DEF T
  <2> QED
    BY <2>1, <2>2 DEF Inductive
<1>4. n \in T
  <2> HIDE DEF T
  <2> QED
    BY <1>3, Induction
<1> QED
  BY <1>2, <1>4

(* The better of two values. *)
LEMMA BetterIs ==
  ASSUME NEW op \in Extremum, NEW x \in Int, NEW y \in Int
  PROVE  /\ Better(op, x, y) \in {x, y}
         /\ op = "min" => Better(op, x, y) <= x /\ Better(op, x, y) <= y
         /\ op # "min" => x <= Better(op, x, y) /\ y <= Better(op, x, y)
<1>1. op = "min" => Better(op, x, y) = CHOOSE z \in {x, y} : \A w \in {x, y} : w >= z
  BY DEF Better, Min
<1>2. op # "min" => Better(op, x, y) = CHOOSE z \in {x, y} : \A w \in {x, y} : z >= w
  BY DEF Better, Max
<1>3. (\E z \in {x, y} : \A w \in {x, y} : w >= z) /\ (\E z \in {x, y} : \A w \in {x, y} : z >= w)
  BY x <= y \/ y <= x
<1> QED
  BY <1>1, <1>2, <1>3

-----------------------------------------------------------------------------
(* The rule, its arguments and its result, as they are while it runs. *)
Arity == Len(rule.args)

Vals(t) == [1..nb_of_doubles(t) -> (-Big)..Big]

KindOf == [k \in 1..Arity |-> args[k].kind]

RuleOK == rule \in Rule /\ WellTyped(rule.op, rule.res, rule.args)

ArgsOK ==
  /\ args \in [1..Arity -> [kind : {"in", "out", "self"}, val : Seq(Int), ready : BOOLEAN, fresh : BOOLEAN]]
  /\ KindOf \in Kinds(rule)
  /\ \A k \in 1..Arity : args[k].val \in Vals(rule.args[k])

ResOK ==
  /\ rule.op = "average" => res.val \in [1..nb_of_doubles(rule.res) -> Int]
  /\ rule.op \in Extremum => res.val \in [1..1 -> (-Big)..Big]

(* The three ways to keep what is read. *)
Adds    == rule.op = "average"
Keeps   == rule.op \notin Extremum \cup {"average"}

Width == nb_of_doubles(rule.res)

ExtremumMemory == [value_out : Int, value_in : Int]

AverageMemory ==
  [sum_out : [1..Width -> Int], nb_out : Int, sum_in : [1..Width -> Int], nb_in : Int, sum_out_computed : BOOLEAN]

LastRead(m) ==
  /\ m \in [read : {m.read}, from_out : {m.from_out}, ticks : {m.ticks}]
  /\ m.read = [k \in 1..Arity |-> m.read[k]]

LEMMA Typed ==
  ASSUME RuleOK
  PROVE  /\ rule.op \in STRING /\ rule.res \in DataType /\ rule.args \in Seq(DataType)
         /\ Arity \in Nat /\ DOMAIN rule.args = 1..Arity
         /\ Width \in Nat
         /\ Big \in Nat
<1>1. rule \in [op : STRING, res : DataType, args : Seq(DataType)]
  BY RuleAssumption DEF RuleOK
<1>2. rule.op \in STRING /\ rule.res \in DataType /\ rule.args \in Seq(DataType)
  BY <1>1
<1>3. Big \in Nat
  <2>1. One \in Nat
    BY OperationsAssumption
  <2> QED
    BY <2>1 DEF Big
<1>4. Arity \in Nat /\ DOMAIN rule.args = 1..Arity
  BY <1>2 DEF Arity
<1>5. Width \in Nat
  <2>1. rule.res.width \in Nat /\ size(rule.res) \in Nat
    BY <1>2, SizeType DEF DataType
  <2> QED
    BY <2>1 DEF Width, nb_of_doubles
<1> QED
  BY <1>2, <1>3, <1>4, <1>5

(* What is read has the type of what an operation gathers. *)
LEMMA ReadTyped ==
  ASSUME RuleOK, ArgsOK, ResOK, NEW k \in 1..Arity
  PROVE  /\ Adds => Read(k) \in [1..Width -> Int]
         /\ rule.op \in Extremum => Read(k)[1] \in (-Big)..Big
<1>1. Arity \in Nat /\ DOMAIN rule.args = 1..Arity /\ Big \in Nat /\ Width \in Nat
  BY Typed
<1>2. args[k].val \in [1..nb_of_doubles(rule.args[k]) -> (-Big)..Big]
  BY DEF ArgsOK, Vals
<1>3. ASSUME Adds PROVE Read(k) \in [1..Width -> Int]
  <2>1. rule.args[k] = rule.res
    <3>1. WellTyped("average", rule.res, rule.args)
      BY <1>3 DEF Adds, RuleOK
    <3>2. \A i \in DOMAIN rule.args : rule.args[i] = rule.res
      BY <3>1 DEF WellTyped, check_types_average
    <3> QED
      BY <1>1, <3>2
  <2>2. args[k].val \in [1..Width -> Int]
    BY <1>1, <1>2, <2>1 DEF Width
  <2>3. res.val \in [1..Width -> Int]
    BY <1>3 DEF ResOK, Adds, Width
  <2> QED
    BY <2>2, <2>3 DEF Read
<1>4. ASSUME rule.op \in Extremum PROVE Read(k)[1] \in (-Big)..Big
  <2>1. rule.args[k] = Scalar
    <3>1. check_types_min_max(rule.res, rule.args)
      BY <1>4 DEF Extremum, RuleOK, WellTyped
    <3> QED
      BY <1>1, <3>1 DEF check_types_min_max
  <2>2. nb_of_doubles(Scalar) = 1
    BY DEF nb_of_doubles, size, Scalar
  <2>3. args[k].val[1] \in (-Big)..Big
    BY <1>2, <2>1, <2>2
  <2>4. res.val[1] \in (-Big)..Big
    <3>1. res.val \in [1..1 -> (-Big)..Big]
      BY <1>4 DEF ResOK
    <3> QED
      BY <3>1
  <2> QED
    BY <2>3, <2>4 DEF Read
<1> QED
  BY <1>3, <1>4

-----------------------------------------------------------------------------
(* Readings: what x is after the arguments of the indices K have been      *)
(* gathered one after the other.                                           *)
Keeping(x, c, K, X, n) ==
  /\ K \subseteq 1..n
  /\ c \in [1..n -> X]
  /\ x \in [0..n -> [1..n -> X]]
  /\ \A k \in 1..n : x[k] = IF k \in K THEN [x[k - 1] EXCEPT ![k] = c[k]] ELSE x[k - 1]

LEMMA Kept ==
  ASSUME NEW n \in Nat, NEW X, NEW K, NEW c, NEW x, Keeping(x, c, K, X, n)
  PROVE  \A k \in 1..n : x[n][k] = IF k \in K THEN c[k] ELSE x[0][k]
<1> USE DEF Keeping
<1> DEFINE T == {j \in 0..n : \A k \in 1..n : x[j][k] = IF k \in K /\ k <= j THEN c[k] ELSE x[0][k]}
<1>1. Inductive(T, n)
  <2>1. 0 \in T
    OBVIOUS
  <2>2. ASSUME NEW j \in 1..n, j - 1 \in T PROVE j \in T
    <3>1. ASSUME NEW k \in 1..n PROVE x[j][k] = IF k \in K /\ k <= j THEN c[k] ELSE x[0][k]
      <4>1. x[j - 1][k] = IF k \in K /\ k <= j - 1 THEN c[k] ELSE x[0][k]
        BY <2>2
      <4>2. x[j - 1] \in [1..n -> X]
        BY <2>2
      <4>3. CASE j \notin K
        <5>1. x[j] = x[j - 1]
          BY <4>3
        <5>2. k \in K /\ k <= j <=> k \in K /\ k <= j - 1
          BY <4>3
        <5> QED
          BY <4>1, <5>1, <5>2
      <4>4. CASE j \in K
        <5>1. x[j] = [x[j - 1] EXCEPT ![j] = c[j]]
          BY <4>4
        <5>2. CASE k = j
          BY <4>2, <4>4, <5>1, <5>2
        <5>3. CASE k # j
          <6>1. x[j][k] = x[j - 1][k]
            BY <4>2, <5>1, <5>3
          <6>2. k <= j <=> k <= j - 1
            BY <5>3
          <6> QED
            BY <4>1, <6>1, <6>2
        <5> QED
          BY <5>2, <5>3
      <4> QED
        BY <4>3, <4>4
    <3> QED
      BY <3>1
  <2> HIDE DEF T
  <2> QED
    BY <2>1, <2>2 DEF Inductive
<1>2. n \in T
  <2> HIDE DEF T
  <2> QED
    BY <1>1, Induction
<1> QED
  BY <1>2

Summing(x, c, K, n) ==
  /\ K \subseteq 1..n
  /\ c \in [1..n -> Int]
  /\ x \in [0..n -> Int]
  /\ \A k \in 1..n : x[k] = IF k \in K THEN x[k - 1] + c[k] ELSE x[k - 1]

Chosen(c, K, n) == [k \in 1..n |-> IF k \in K THEN c[k] ELSE 0]

LEMMA Summed ==
  ASSUME NEW n \in Nat, NEW K, NEW c, NEW x, Summing(x, c, K, n)
  PROVE  x[n] = x[0] + Total(Chosen(c, K, n))
<1> USE DEF Summing, Chosen
<1> DEFINE f == [k \in 1..n |-> IF k \in K THEN c[k] ELSE 0]
<1>1. f \in [1..n -> Int] /\ \A k \in 1..n : f[k] = IF k \in K THEN c[k] ELSE 0
  OBVIOUS
<1> HIDE DEF f
<1>2. PICK s \in [0..n -> Int] : s[0] = 0 /\ Total(f) = s[n] /\ \A k \in 1..n : s[k] = s[k - 1] + f[k]
  BY <1>1, TotalIs
<1> DEFINE T == {k \in 0..n : x[k] = x[0] + s[k]}
<1>3. Inductive(T, n)
  <2>1. 0 \in T
    BY <1>2
  <2>2. ASSUME NEW k \in 1..n, k - 1 \in T PROVE k \in T
    <3>1. x[k - 1] = x[0] + s[k - 1] /\ x[0] \in Int /\ s[k - 1] \in Int /\ c[k] \in Int
      BY <2>2
    <3>2. s[k] = s[k - 1] + f[k] /\ f[k] = IF k \in K THEN c[k] ELSE 0
      BY <1>1, <1>2
    <3>3. x[k] = IF k \in K THEN x[k - 1] + c[k] ELSE x[k - 1]
      OBVIOUS
    <3>4. CASE k \in K
      <4>1. x[k] = x[k - 1] + c[k] /\ s[k] = s[k - 1] + c[k]
        BY <3>2, <3>3, <3>4
      <4>2. x[k] = x[0] + s[k]
        BY <3>1, <4>1
      <4> QED
        BY <4>2
    <3>5. CASE k \notin K
      <4>1. x[k] = x[k - 1] /\ s[k] = s[k - 1] + 0
        BY <3>2, <3>3, <3>5
      <4>2. x[k] = x[0] + s[k]
        BY <3>1, <4>1
      <4> QED
        BY <4>2
    <3> QED
      BY <3>4, <3>5
  <2> HIDE DEF T
  <2> QED
    BY <2>1, <2>2 DEF Inductive
<1>4. n \in T
  <2> HIDE DEF T
  <2> QED
    BY <1>3, Induction
<1> QED
  BY <1>2, <1>4 DEF f

(* x is at least as good as y. *)
Beyond(op, x, y) == IF op = "min" THEN x <= y ELSE y <= x

Bettering(op, x, c, K, n) ==
  /\ K \subseteq 1..n
  /\ c \in [1..n -> Int]
  /\ x \in [0..n -> Int]
  /\ \A k \in 1..n : x[k] = IF k \in K THEN Better(op, x[k - 1], c[k]) ELSE x[k - 1]

LEMMA Best ==
  ASSUME NEW op \in Extremum, NEW n \in Nat, NEW K, NEW c, NEW x, Bettering(op, x, c, K, n)
  PROVE  /\ x[n] = x[0] \/ \E k \in K : x[n] = c[k]
         /\ Beyond(op, x[n], x[0])
         /\ \A k \in K : Beyond(op, x[n], c[k])
<1> USE DEF Bettering
<1> DEFINE Q(j) == /\ x[j] = x[0] \/ \E k \in K : x[j] = c[k]
                   /\ Beyond(op, x[j], x[0])
                   /\ \A k \in K : k <= j => Beyond(op, x[j], c[k])
           T == {j \in 0..n : Q(j)}
<1>1. Inductive(T, n)
  <2>1. 0 \in T
    BY DEF Beyond
  <2>2. ASSUME NEW j \in 1..n, j - 1 \in T PROVE j \in T
    <3>1. x[j - 1] \in Int /\ c[j] \in Int /\ x[0] \in Int /\ x[j] \in Int
      BY <2>2
    <3>2. CASE j \notin K
      <4>1. x[j] = x[j - 1]
        BY <3>2
      <4>2. \A k \in K : k <= j => k <= j - 1
        BY <3>2
      <4> QED
        BY <2>2, <4>1, <4>2
    <3>3. CASE j \in K
      <4>1. x[j] = Better(op, x[j - 1], c[j])
        BY <3>3
      <4>2. x[j] \in {x[j - 1], c[j]} /\ Beyond(op, x[j], x[j - 1]) /\ Beyond(op, x[j], c[j])
        BY <3>1, <4>1, BetterIs DEF Beyond
      <4>3. Q(j - 1)
        BY <2>2
      <4>4. Beyond(op, x[j], x[0])
        BY <3>1, <4>2, <4>3 DEF Beyond
      <4>5. ASSUME NEW k \in K, k <= j PROVE Beyond(op, x[j], c[k])
        <5>1. c[k] \in Int
          OBVIOUS
        <5>2. CASE k = j
          BY <4>2, <5>2
        <5>3. CASE k # j
          <6>1. Beyond(op, x[j - 1], c[k])
            BY <4>3, <4>5, <5>3
          <6> QED
            BY <3>1, <4>2, <5>1, <6>1 DEF Beyond
        <5> QED
          BY <5>2, <5>3
      <4>6. x[j] = x[0] \/ \E k \in K : x[j] = c[k]
        BY <3>3, <4>2, <4>3
      <4> QED
        BY <4>4, <4>5, <4>6
    <3> QED
      BY <3>2, <3>3
  <2> HIDE DEF T
  <2> QED
    BY <2>1, <2>2 DEF Inductive
<1>2. n \in T
  <2> HIDE DEF T
  <2> QED
    BY <1>1, Induction
<1> QED
  BY <1>2

-----------------------------------------------------------------------------
(* What an evaluation reads, operation by operation. *)
Ins == {k \in 1..Arity : args[k].kind # "out"}

Givens == {k \in 1..Arity : Given(k)}

LEMMA ArgsTyped ==
  ASSUME RuleOK, ArgsOK
  PROVE  /\ \E Y : args \in [1..Arity -> Y]
         /\ Arity \in Nat /\ DOMAIN args = 1..Arity /\ Len(args) = Arity
<1>1. Arity \in Nat
  BY Typed
<1>2. args \in [1..Arity -> [kind : {"in", "out", "self"}, val : Seq(Int), ready : BOOLEAN, fresh : BOOLEAN]]
  BY DEF ArgsOK
<1>3. Len(args) = Arity
  BY <1>1, <1>2, LenIs
<1> QED
  BY <1>1, <1>2, <1>3

(* The memories of the last values read. *)
Memory(X, B, D) == [read : [1..Arity -> X], from_out : {TRUE, FALSE, B}, ticks : {D}]

LEMMA KeepIn ==
  ASSUME Keeps, NEW X, NEW B, NEW D, NEW m \in Memory(X, B, D), NEW k \in 1..Arity, NEW c \in X
  PROVE  /\ on_read_in_arg(rule.op, m, k, c) \in Memory(X, B, D)
         /\ on_read_in_arg(rule.op, m, k, c).read = [m.read EXCEPT ![k] = c]
<1>1. on_read_in_arg(rule.op, m, k, c)
        = [m EXCEPT !.read[k] = c, !.from_out = IF rule.op \in Argmaxes THEN FALSE ELSE m.from_out]
  BY DEF on_read_in_arg, Keeps
<1>2. m \in [read : [1..Arity -> X], from_out : {TRUE, FALSE, B}, ticks : {D}]
  BY DEF Memory
<1>3. (IF rule.op \in Argmaxes THEN FALSE ELSE m.from_out) \in {TRUE, FALSE, B}
  BY <1>2
<1>4. [m.read EXCEPT ![k] = c] \in [1..Arity -> X]
  BY <1>2
<1> QED
  BY <1>1, <1>2, <1>3, <1>4 DEF Memory

LEMMA KeepOut ==
  ASSUME Keeps, NEW X, NEW B, NEW D, NEW m \in Memory(X, B, D), NEW k \in 1..Arity, NEW c \in X
  PROVE  /\ on_read_out_arg(rule.op, m, k, c) \in Memory(X, B, D)
         /\ on_read_out_arg(rule.op, m, k, c).read = [m.read EXCEPT ![k] = c]
<1>1. on_read_out_arg(rule.op, m, k, c) = [m EXCEPT !.read[k] = c, !.from_out = TRUE]
  BY DEF on_read_out_arg, Keeps
<1>2. m \in [read : [1..Arity -> X], from_out : {TRUE, FALSE, B}, ticks : {D}]
  BY DEF Memory
<1>4. [m.read EXCEPT ![k] = c] \in [1..Arity -> X]
  BY <1>2
<1> QED
  BY <1>1, <1>2, <1>4 DEF Memory

LEMMA ReadOfMemory ==
  ASSUME NEW X, NEW B, NEW D, NEW m \in Memory(X, B, D)
  PROVE  m.read \in [1..Arity -> X] /\ LastRead(m)
BY DEF Memory, LastRead

LEMMA KeepsIns ==
  ASSUME RuleOK, ArgsOK, Keeps, NEW m, LastRead(m)
  PROVE  /\ LastRead(ReadIns(m))
         /\ \A k \in 1..Arity : ReadIns(m).read[k] = IF k \in Ins THEN Read(k) ELSE m.read[k]
<1> DEFINE X == {m.read[k] : k \in 1..Arity} \cup {Read(k) : k \in 1..Arity}
           S == Memory(X, m.from_out, m.ticks)
<1>1. Len(args) = Arity
  BY ArgsTyped
<1>2. Arity \in Nat
  BY ArgsTyped
<1>3. m \in S
  <2>1. m.read \in [1..Arity -> X]
    BY DEF LastRead
  <2>2. m \in [read : {m.read}, from_out : {m.from_out}, ticks : {m.ticks}]
    BY DEF LastRead
  <2> HIDE DEF X
  <2> QED
    BY <2>1, <2>2 DEF Memory
<1>4. \A k \in 1..Arity : Read(k) \in X
  OBVIOUS
<1> HIDE DEF X
<1>6. ASSUME NEW x \in S, NEW k \in 1..Arity
      PROVE  /\ on_read_in_arg(rule.op, x, k, Read(k)) \in S
             /\ on_read_in_arg(rule.op, x, k, Read(k)).read = [x.read EXCEPT ![k] = Read(k)]
  <2>1. Read(k) \in X
    BY <1>4
  <2> QED
    BY <2>1, KeepIn
<1>7. InsStay(S, Arity)
  <2> HIDE DEF S
  <2> QED
    BY <1>6 DEF InsStay
<1>8. PICK g : ReadingIns(g, m, S, Arity)
  <2> HIDE DEF S
  <2> QED
    BY <1>1, <1>2, <1>3, <1>7, ReadInsIs
<1>g. /\ g \in [0..Arity -> S]
      /\ g[0] = m
      /\ ReadIns(m) = g[Arity]
      /\ \A k \in 1..Arity :
           g[k] = IF args[k].kind # "out" THEN on_read_in_arg(rule.op, g[k - 1], k, Read(k)) ELSE g[k - 1]
  BY <1>8 DEF ReadingIns
<1> DEFINE x == [k \in 0..Arity |-> g[k].read]
           c == [k \in 1..Arity |-> Read(k)]
<1>9. /\ x \in [0..Arity -> [1..Arity -> X]]
      /\ \A k \in 0..Arity : x[k] = g[k].read
      /\ c \in [1..Arity -> X]
      /\ \A k \in 1..Arity : c[k] = Read(k)
  <2>1. ASSUME NEW k \in 0..Arity PROVE g[k].read \in [1..Arity -> X]
    <3>1. g[k] \in Memory(X, m.from_out, m.ticks)
      BY <1>g
    <3> QED
      BY <3>1, ReadOfMemory
  <2> HIDE DEF S
  <2> QED
    BY <1>4, <2>1
<1> HIDE DEF S, x, c
<1>10. ASSUME NEW k \in 1..Arity
       PROVE  x[k] = IF k \in Ins THEN [x[k - 1] EXCEPT ![k] = c[k]] ELSE x[k - 1]
  <2>1. k \in 0..Arity /\ k - 1 \in 0..Arity
    BY <1>2
  <2>2. x[k] = g[k].read /\ x[k - 1] = g[k - 1].read /\ g[k - 1] \in S
    BY <1>g, <1>9, <2>1
  <2>3. k \in Ins <=> args[k].kind # "out"
    BY DEF Ins
  <2>4. g[k] = IF args[k].kind # "out" THEN on_read_in_arg(rule.op, g[k - 1], k, Read(k)) ELSE g[k - 1]
    BY <1>g
  <2>5. CASE args[k].kind # "out"
    <3>1. on_read_in_arg(rule.op, g[k - 1], k, Read(k)).read = [g[k - 1].read EXCEPT ![k] = Read(k)]
      BY <1>6, <2>2
    <3>2. g[k].read = [g[k - 1].read EXCEPT ![k] = Read(k)]
      BY <2>4, <2>5, <3>1
    <3> QED
      BY <1>9, <2>2, <2>3, <2>5, <3>2
  <2>6. CASE ~(args[k].kind # "out")
    BY <2>2, <2>3, <2>4, <2>6
  <2> QED
    BY <2>5, <2>6
<1>11. \A k \in 1..Arity : x[Arity][k] = IF k \in Ins THEN c[k] ELSE x[0][k]
  <2>1. Ins \subseteq 1..Arity
    BY DEF Ins
  <2>2. Keeping(x, c, Ins, X, Arity)
    BY <1>9, <1>10, <2>1 DEF Keeping
  <2> QED
    BY <1>2, <2>2, Kept
<1>12. x[Arity] = ReadIns(m).read /\ x[0] = m.read /\ ReadIns(m) \in S
  BY <1>2, <1>g, <1>9
<1>13. LastRead(ReadIns(m))
  BY <1>12, ReadOfMemory DEF S
<1> QED
  BY <1>9, <1>11, <1>12, <1>13

LEMMA KeepsOuts ==
  ASSUME RuleOK, ArgsOK, Keeps, NEW m, LastRead(m), ~out_ok
  PROVE  /\ LastRead(ReadOuts(m))
         /\ \A k \in 1..Arity : ReadOuts(m).read[k] = IF k \in Givens THEN Read(k) ELSE m.read[k]
<1> DEFINE X == {m.read[k] : k \in 1..Arity} \cup {Read(k) : k \in 1..Arity}
           S == Memory(X, m.from_out, m.ticks)
<1>1. Len(args) = Arity
  BY ArgsTyped
<1>2. Arity \in Nat
  BY ArgsTyped
<1>3. m \in S
  <2>1. m.read \in [1..Arity -> X]
    BY DEF LastRead
  <2>2. m \in [read : {m.read}, from_out : {m.from_out}, ticks : {m.ticks}]
    BY DEF LastRead
  <2> HIDE DEF X
  <2> QED
    BY <2>1, <2>2 DEF Memory
<1>4. \A k \in 1..Arity : Read(k) \in X
  OBVIOUS
<1> HIDE DEF X
<1>6. ASSUME NEW x \in S, NEW k \in 1..Arity
      PROVE  /\ on_read_out_arg(rule.op, x, k, Read(k)) \in S
             /\ on_read_out_arg(rule.op, x, k, Read(k)).read = [x.read EXCEPT ![k] = Read(k)]
  <2>1. Read(k) \in X
    BY <1>4
  <2> QED
    BY <2>1, KeepOut
<1>7. OutsStay(S, Arity)
  <2> HIDE DEF S
  <2> QED
    BY <1>6 DEF OutsStay
<1>8. PICK g : ReadingOuts(g, m, S, Arity)
  <2> HIDE DEF S
  <2> QED
    BY <1>1, <1>2, <1>3, <1>7, ReadOutsIs
<1>g. /\ g \in [0..Arity -> S]
      /\ g[0] = m
      /\ ReadOuts(m) = g[Arity]
      /\ \A k \in 1..Arity :
           g[k] = IF Given(k) THEN on_read_out_arg(rule.op, g[k - 1], k, Read(k)) ELSE g[k - 1]
  BY <1>8 DEF ReadingOuts
<1> DEFINE x == [k \in 0..Arity |-> g[k].read]
           c == [k \in 1..Arity |-> Read(k)]
<1>9. /\ x \in [0..Arity -> [1..Arity -> X]]
      /\ \A k \in 0..Arity : x[k] = g[k].read
      /\ c \in [1..Arity -> X]
      /\ \A k \in 1..Arity : c[k] = Read(k)
  <2>1. ASSUME NEW k \in 0..Arity PROVE g[k].read \in [1..Arity -> X]
    <3>1. g[k] \in Memory(X, m.from_out, m.ticks)
      BY <1>g
    <3> QED
      BY <3>1, ReadOfMemory
  <2> HIDE DEF S
  <2> QED
    BY <1>4, <2>1
<1> HIDE DEF S, x, c
<1>10. ASSUME NEW k \in 1..Arity
       PROVE  x[k] = IF k \in Givens THEN [x[k - 1] EXCEPT ![k] = c[k]] ELSE x[k - 1]
  <2>1. k \in 0..Arity /\ k - 1 \in 0..Arity
    BY <1>2
  <2>2. x[k] = g[k].read /\ x[k - 1] = g[k - 1].read /\ g[k - 1] \in S
    BY <1>g, <1>9, <2>1
  <2>3. k \in Givens <=> Given(k)
    BY DEF Givens
  <2>4. g[k] = IF Given(k) THEN on_read_out_arg(rule.op, g[k - 1], k, Read(k)) ELSE g[k - 1]
    BY <1>g
  <2>5. CASE Given(k)
    <3>1. on_read_out_arg(rule.op, g[k - 1], k, Read(k)).read = [g[k - 1].read EXCEPT ![k] = Read(k)]
      BY <1>6, <2>2
    <3>2. g[k].read = [g[k - 1].read EXCEPT ![k] = Read(k)]
      BY <2>4, <2>5, <3>1
    <3> QED
      BY <1>9, <2>2, <2>3, <2>5, <3>2
  <2>6. CASE ~(Given(k))
    BY <2>2, <2>3, <2>4, <2>6
  <2> QED
    BY <2>5, <2>6
<1>11. \A k \in 1..Arity : x[Arity][k] = IF k \in Givens THEN c[k] ELSE x[0][k]
  <2>1. Givens \subseteq 1..Arity
    BY DEF Givens
  <2>2. Keeping(x, c, Givens, X, Arity)
    BY <1>9, <1>10, <2>1 DEF Keeping
  <2> QED
    BY <1>2, <2>2, Kept
<1>12. x[Arity] = ReadOuts(m).read /\ x[0] = m.read /\ ReadOuts(m) \in S
  BY <1>2, <1>g, <1>9
<1>13. LastRead(ReadOuts(m))
  BY <1>12, ReadOfMemory DEF S
<1> QED
  BY <1>9, <1>11, <1>12, <1>13

-----------------------------------------------------------------------------
(* The sum of the component i of the arguments of indices K, their number. *)
SumOf(K, i) == Total([k \in 1..Arity |-> IF k \in K THEN Read(k)[i] ELSE 0])

Count(K) == Total([k \in 1..Arity |-> IF k \in K THEN 1 ELSE 0])

SameOuts(x, m) == x.sum_out = m.sum_out /\ x.nb_out = m.nb_out /\ x.sum_out_computed = m.sum_out_computed

SameIns(x, m) == x.sum_in = m.sum_in /\ x.nb_in = m.nb_in /\ x.sum_out_computed = m.sum_out_computed

LEMMA Sum2Typed ==
  ASSUME NEW w, NEW c \in [1..w -> Int], NEW d \in [1..w -> Int]
  PROVE  Sum2(c, d) \in [1..w -> Int] /\ \A i \in 1..w : Sum2(c, d)[i] = c[i] + d[i]
BY DEF Sum2

LEMMA AverageIn ==
  ASSUME Adds, NEW m \in AverageMemory, NEW k, NEW c \in [1..Width -> Int]
  PROVE  LET x == on_read_in_arg(rule.op, m, k, c)
         IN  /\ x \in AverageMemory
             /\ SameOuts(x, m)
             /\ x.nb_in = m.nb_in + 1
             /\ x.sum_in = Sum2(m.sum_in, c)
<1>1. on_read_in_arg(rule.op, m, k, c) = [m EXCEPT !.sum_in = Sum2(m.sum_in, c), !.nb_in = m.nb_in + 1]
  BY DEF on_read_in_arg, Adds, Extremum
<1>2. m.sum_in \in [1..Width -> Int]
  BY DEF AverageMemory
<1>3. Sum2(m.sum_in, c) \in [1..Width -> Int]
  BY <1>2, Sum2Typed
<1> DEFINE x == on_read_in_arg(rule.op, m, k, c)
<1>4. x = [sum_out |-> m.sum_out, nb_out |-> m.nb_out, sum_in |-> Sum2(m.sum_in, c), nb_in |-> m.nb_in + 1,
           sum_out_computed |-> m.sum_out_computed]
  <2>1. m = [sum_out |-> m.sum_out, nb_out |-> m.nb_out, sum_in |-> m.sum_in, nb_in |-> m.nb_in,
             sum_out_computed |-> m.sum_out_computed]
    BY DEF AverageMemory
  <2> HIDE DEF x
  <2> QED
    BY <1>1, <2>1 DEF x
<1>5. x \in AverageMemory
  <2>1. /\ m.nb_in \in Int /\ m.nb_out \in Int /\ m.sum_out_computed \in BOOLEAN
        /\ m.sum_in \in [1..Width -> Int] /\ m.sum_out \in [1..Width -> Int]
    BY DEF AverageMemory
  <2>2. m.nb_in + 1 \in Int /\ m.nb_out + 1 \in Int
    BY <2>1
  <2> HIDE DEF x
  <2> QED
    BY <1>3, <1>4, <2>1, <2>2 DEF AverageMemory
<1> HIDE DEF x
<1> QED
  BY <1>4, <1>5 DEF x, SameOuts

LEMMA AverageOut ==
  ASSUME Adds, NEW m \in AverageMemory, NEW k, NEW c \in [1..Width -> Int]
  PROVE  LET x == on_read_out_arg(rule.op, m, k, c)
         IN  /\ x \in AverageMemory
             /\ SameIns(x, m)
             /\ x.nb_out = m.nb_out + 1
             /\ x.sum_out = Sum2(m.sum_out, c)
<1>1. on_read_out_arg(rule.op, m, k, c) = [m EXCEPT !.sum_out = Sum2(m.sum_out, c), !.nb_out = m.nb_out + 1]
  BY DEF on_read_out_arg, Adds, Extremum
<1>2. m.sum_out \in [1..Width -> Int]
  BY DEF AverageMemory
<1>3. Sum2(m.sum_out, c) \in [1..Width -> Int]
  BY <1>2, Sum2Typed
<1> DEFINE x == on_read_out_arg(rule.op, m, k, c)
<1>4. x = [sum_out |-> Sum2(m.sum_out, c), nb_out |-> m.nb_out + 1, sum_in |-> m.sum_in, nb_in |-> m.nb_in,
           sum_out_computed |-> m.sum_out_computed]
  <2>1. m = [sum_out |-> m.sum_out, nb_out |-> m.nb_out, sum_in |-> m.sum_in, nb_in |-> m.nb_in,
             sum_out_computed |-> m.sum_out_computed]
    BY DEF AverageMemory
  <2> HIDE DEF x
  <2> QED
    BY <1>1, <2>1 DEF x
<1>5. x \in AverageMemory
  <2>1. /\ m.nb_in \in Int /\ m.nb_out \in Int /\ m.sum_out_computed \in BOOLEAN
        /\ m.sum_in \in [1..Width -> Int] /\ m.sum_out \in [1..Width -> Int]
    BY DEF AverageMemory
  <2>2. m.nb_in + 1 \in Int /\ m.nb_out + 1 \in Int
    BY <2>1
  <2> HIDE DEF x
  <2> QED
    BY <1>3, <1>4, <2>1, <2>2 DEF AverageMemory
<1> HIDE DEF x
<1> QED
  BY <1>4, <1>5 DEF x, SameIns

LEMMA AveragesIns ==
  ASSUME RuleOK, ArgsOK, ResOK, Adds, NEW m \in AverageMemory
  PROVE  /\ ReadIns(m) \in AverageMemory
         /\ SameOuts(ReadIns(m), m)
         /\ ReadIns(m).nb_in = m.nb_in + Count(Ins)
         /\ \A i \in 1..Width : ReadIns(m).sum_in[i] = m.sum_in[i] + SumOf(Ins, i)
<1> DEFINE S == {x \in AverageMemory : SameOuts(x, m)}
<1>1. Len(args) = Arity /\ Arity \in Nat
  BY ArgsTyped
<1>2. m \in S
  BY DEF SameOuts
<1>3. ASSUME NEW x \in S, NEW k \in 1..Arity
      PROVE  /\ on_read_in_arg(rule.op, x, k, Read(k)) \in S
             /\ on_read_in_arg(rule.op, x, k, Read(k)).nb_in = x.nb_in + 1
             /\ on_read_in_arg(rule.op, x, k, Read(k)).sum_in = Sum2(x.sum_in, Read(k))
  <2>1. x \in AverageMemory /\ Read(k) \in [1..Width -> Int]
    BY ReadTyped
  <2> QED
    BY <2>1, AverageIn DEF SameOuts
<1>4. InsStay(S, Arity)
  <2> HIDE DEF S
  <2> QED
    BY <1>3 DEF InsStay
<1>5. PICK g : ReadingIns(g, m, S, Arity)
  <2> HIDE DEF S
  <2> QED
    BY <1>1, <1>2, <1>4, ReadInsIs
<1>6. /\ g \in [0..Arity -> S]
      /\ g[0] = m
      /\ ReadIns(m) = g[Arity]
      /\ \A k \in 1..Arity :
           g[k] = IF args[k].kind # "out" THEN on_read_in_arg(rule.op, g[k - 1], k, Read(k)) ELSE g[k - 1]
  BY <1>5 DEF ReadingIns
<1>7. ASSUME NEW k \in 0..Arity
      PROVE  g[k] \in S /\ g[k].nb_in \in Int /\ g[k].sum_in \in [1..Width -> Int]
  <2>1. g[k] \in S
    BY <1>6
  <2> QED
    BY <2>1 DEF AverageMemory
<1>8. Ins \subseteq 1..Arity /\ \A k \in 1..Arity : k \in Ins <=> args[k].kind # "out"
  BY DEF Ins
<1>9. ASSUME NEW k \in 1..Arity
      PROVE  /\ k \in Ins => g[k].nb_in = g[k - 1].nb_in + 1 /\ g[k].sum_in = Sum2(g[k - 1].sum_in, Read(k))
             /\ k \notin Ins => g[k] = g[k - 1]
  <2>1. k - 1 \in 0..Arity
    BY <1>1
  <2>2. g[k - 1] \in S
    BY <1>7, <2>1
  <2>3. g[k] = IF args[k].kind # "out" THEN on_read_in_arg(rule.op, g[k - 1], k, Read(k)) ELSE g[k - 1]
    BY <1>6
  <2> HIDE DEF S
  <2> QED
    BY <1>3, <1>8, <2>2, <2>3
<1> HIDE DEF S
<1>10. ReadIns(m).nb_in = m.nb_in + Count(Ins)
  <2> DEFINE x == [k \in 0..Arity |-> g[k].nb_in]
             c == [k \in 1..Arity |-> 1]
  <2>1. /\ x \in [0..Arity -> Int] /\ c \in [1..Arity -> Int]
        /\ \A k \in 0..Arity : x[k] = g[k].nb_in
        /\ \A k \in 1..Arity : c[k] = 1
    BY <1>7
  <2>2. Chosen(c, Ins, Arity) = [k \in 1..Arity |-> IF k \in Ins THEN 1 ELSE 0]
    BY DEF Chosen
  <2> HIDE DEF x, c
  <2>3. ASSUME NEW k \in 1..Arity PROVE x[k] = IF k \in Ins THEN x[k - 1] + c[k] ELSE x[k - 1]
    <3>1. k \in 0..Arity /\ k - 1 \in 0..Arity
      BY <1>1
    <3>2. x[k] = g[k].nb_in /\ x[k - 1] = g[k - 1].nb_in /\ c[k] = 1
      BY <2>1, <3>1
    <3> QED
      BY <1>9, <3>2
  <2>4. Summing(x, c, Ins, Arity)
    BY <1>8, <2>1, <2>3 DEF Summing
  <2>5. x[Arity] = x[0] + Total(Chosen(c, Ins, Arity))
    BY <1>1, <2>4, Summed
  <2>6. x[Arity] = ReadIns(m).nb_in /\ x[0] = m.nb_in
    BY <1>1, <1>6, <2>1
  <2> QED
    BY <2>2, <2>5, <2>6 DEF Count
<1>11. ASSUME NEW i \in 1..Width
       PROVE  ReadIns(m).sum_in[i] = m.sum_in[i] + SumOf(Ins, i)
  <2> DEFINE x == [k \in 0..Arity |-> g[k].sum_in[i]]
             c == [k \in 1..Arity |-> Read(k)[i]]
  <2>0. \A k \in 1..Arity : Read(k) \in [1..Width -> Int]
    BY ReadTyped
  <2>1. /\ x \in [0..Arity -> Int] /\ c \in [1..Arity -> Int]
        /\ \A k \in 0..Arity : x[k] = g[k].sum_in[i]
        /\ \A k \in 1..Arity : c[k] = Read(k)[i]
    BY <1>7, <2>0
  <2>2. Chosen(c, Ins, Arity) = [k \in 1..Arity |-> IF k \in Ins THEN Read(k)[i] ELSE 0]
    BY DEF Chosen
  <2> HIDE DEF x, c
  <2>3. ASSUME NEW k \in 1..Arity PROVE x[k] = IF k \in Ins THEN x[k - 1] + c[k] ELSE x[k - 1]
    <3>1. k \in 0..Arity /\ k - 1 \in 0..Arity
      BY <1>1
    <3>2. x[k] = g[k].sum_in[i] /\ x[k - 1] = g[k - 1].sum_in[i] /\ c[k] = Read(k)[i]
      BY <2>1, <3>1
    <3>3. CASE k \in Ins
      <4>1. g[k].sum_in = Sum2(g[k - 1].sum_in, Read(k))
        BY <1>9, <3>3
      <4>2. g[k - 1].sum_in \in [1..Width -> Int] /\ Read(k) \in [1..Width -> Int]
        BY <1>7, <2>0, <3>1
      <4>3. g[k].sum_in[i] = g[k - 1].sum_in[i] + Read(k)[i]
        BY <4>1, <4>2 DEF Sum2
      <4> QED
        BY <3>2, <3>3, <4>3
    <3>4. CASE k \notin Ins
      BY <1>9, <3>2, <3>4
    <3> QED
      BY <3>3, <3>4
  <2>4. Summing(x, c, Ins, Arity)
    BY <1>8, <2>1, <2>3 DEF Summing
  <2>5. x[Arity] = x[0] + Total(Chosen(c, Ins, Arity))
    BY <1>1, <2>4, Summed
  <2>6. x[Arity] = ReadIns(m).sum_in[i] /\ x[0] = m.sum_in[i]
    BY <1>1, <1>6, <2>1
  <2> QED
    BY <2>2, <2>5, <2>6 DEF SumOf
<1>12. ReadIns(m) \in AverageMemory /\ SameOuts(ReadIns(m), m)
  BY <1>1, <1>6 DEF S
<1> QED
  BY <1>10, <1>11, <1>12

LEMMA AveragesOuts ==
  ASSUME RuleOK, ArgsOK, ResOK, Adds, NEW m \in AverageMemory, ~out_ok
  PROVE  /\ ReadOuts(m) \in AverageMemory
         /\ SameIns(ReadOuts(m), m)
         /\ ReadOuts(m).nb_out = m.nb_out + Count(Givens)
         /\ \A i \in 1..Width : ReadOuts(m).sum_out[i] = m.sum_out[i] + SumOf(Givens, i)
<1> DEFINE S == {x \in AverageMemory : SameIns(x, m)}
<1>1. Len(args) = Arity /\ Arity \in Nat
  BY ArgsTyped
<1>2. m \in S
  BY DEF SameIns
<1>3. ASSUME NEW x \in S, NEW k \in 1..Arity
      PROVE  /\ on_read_out_arg(rule.op, x, k, Read(k)) \in S
             /\ on_read_out_arg(rule.op, x, k, Read(k)).nb_out = x.nb_out + 1
             /\ on_read_out_arg(rule.op, x, k, Read(k)).sum_out = Sum2(x.sum_out, Read(k))
  <2>1. x \in AverageMemory /\ Read(k) \in [1..Width -> Int]
    BY ReadTyped
  <2> QED
    BY <2>1, AverageOut DEF SameIns
<1>4. OutsStay(S, Arity)
  <2> HIDE DEF S
  <2> QED
    BY <1>3 DEF OutsStay
<1>5. PICK g : ReadingOuts(g, m, S, Arity)
  <2> HIDE DEF S
  <2> QED
    BY <1>1, <1>2, <1>4, ReadOutsIs
<1>6. /\ g \in [0..Arity -> S]
      /\ g[0] = m
      /\ ReadOuts(m) = g[Arity]
      /\ \A k \in 1..Arity :
           g[k] = IF Given(k) THEN on_read_out_arg(rule.op, g[k - 1], k, Read(k)) ELSE g[k - 1]
  BY <1>5 DEF ReadingOuts
<1>7. ASSUME NEW k \in 0..Arity
      PROVE  g[k] \in S /\ g[k].nb_out \in Int /\ g[k].sum_out \in [1..Width -> Int]
  <2>1. g[k] \in S
    BY <1>6
  <2> QED
    BY <2>1 DEF AverageMemory
<1>8. Givens \subseteq 1..Arity /\ \A k \in 1..Arity : k \in Givens <=> Given(k)
  BY DEF Givens
<1>9. ASSUME NEW k \in 1..Arity
      PROVE  /\ k \in Givens => g[k].nb_out = g[k - 1].nb_out + 1 /\ g[k].sum_out = Sum2(g[k - 1].sum_out, Read(k))
             /\ k \notin Givens => g[k] = g[k - 1]
  <2>1. k - 1 \in 0..Arity
    BY <1>1
  <2>2. g[k - 1] \in S
    BY <1>7, <2>1
  <2>3. g[k] = IF Given(k) THEN on_read_out_arg(rule.op, g[k - 1], k, Read(k)) ELSE g[k - 1]
    BY <1>6
  <2> HIDE DEF S
  <2> QED
    BY <1>3, <1>8, <2>2, <2>3
<1> HIDE DEF S
<1>10. ReadOuts(m).nb_out = m.nb_out + Count(Givens)
  <2> DEFINE x == [k \in 0..Arity |-> g[k].nb_out]
             c == [k \in 1..Arity |-> 1]
  <2>1. /\ x \in [0..Arity -> Int] /\ c \in [1..Arity -> Int]
        /\ \A k \in 0..Arity : x[k] = g[k].nb_out
        /\ \A k \in 1..Arity : c[k] = 1
    BY <1>7
  <2>2. Chosen(c, Givens, Arity) = [k \in 1..Arity |-> IF k \in Givens THEN 1 ELSE 0]
    BY DEF Chosen
  <2> HIDE DEF x, c
  <2>3. ASSUME NEW k \in 1..Arity PROVE x[k] = IF k \in Givens THEN x[k - 1] + c[k] ELSE x[k - 1]
    <3>1. k \in 0..Arity /\ k - 1 \in 0..Arity
      BY <1>1
    <3>2. x[k] = g[k].nb_out /\ x[k - 1] = g[k - 1].nb_out /\ c[k] = 1
      BY <2>1, <3>1
    <3> QED
      BY <1>9, <3>2
  <2>4. Summing(x, c, Givens, Arity)
    BY <1>8, <2>1, <2>3 DEF Summing
  <2>5. x[Arity] = x[0] + Total(Chosen(c, Givens, Arity))
    BY <1>1, <2>4, Summed
  <2>6. x[Arity] = ReadOuts(m).nb_out /\ x[0] = m.nb_out
    BY <1>1, <1>6, <2>1
  <2> QED
    BY <2>2, <2>5, <2>6 DEF Count
<1>11. ASSUME NEW i \in 1..Width
       PROVE  ReadOuts(m).sum_out[i] = m.sum_out[i] + SumOf(Givens, i)
  <2> DEFINE x == [k \in 0..Arity |-> g[k].sum_out[i]]
             c == [k \in 1..Arity |-> Read(k)[i]]
  <2>0. \A k \in 1..Arity : Read(k) \in [1..Width -> Int]
    BY ReadTyped
  <2>1. /\ x \in [0..Arity -> Int] /\ c \in [1..Arity -> Int]
        /\ \A k \in 0..Arity : x[k] = g[k].sum_out[i]
        /\ \A k \in 1..Arity : c[k] = Read(k)[i]
    BY <1>7, <2>0
  <2>2. Chosen(c, Givens, Arity) = [k \in 1..Arity |-> IF k \in Givens THEN Read(k)[i] ELSE 0]
    BY DEF Chosen
  <2> HIDE DEF x, c
  <2>3. ASSUME NEW k \in 1..Arity PROVE x[k] = IF k \in Givens THEN x[k - 1] + c[k] ELSE x[k - 1]
    <3>1. k \in 0..Arity /\ k - 1 \in 0..Arity
      BY <1>1
    <3>2. x[k] = g[k].sum_out[i] /\ x[k - 1] = g[k - 1].sum_out[i] /\ c[k] = Read(k)[i]
      BY <2>1, <3>1
    <3>3. CASE k \in Givens
      <4>1. g[k].sum_out = Sum2(g[k - 1].sum_out, Read(k))
        BY <1>9, <3>3
      <4>2. g[k - 1].sum_out \in [1..Width -> Int] /\ Read(k) \in [1..Width -> Int]
        BY <1>7, <2>0, <3>1
      <4>3. g[k].sum_out[i] = g[k - 1].sum_out[i] + Read(k)[i]
        BY <4>1, <4>2 DEF Sum2
      <4> QED
        BY <3>2, <3>3, <4>3
    <3>4. CASE k \notin Givens
      BY <1>9, <3>2, <3>4
    <3> QED
      BY <3>3, <3>4
  <2>4. Summing(x, c, Givens, Arity)
    BY <1>8, <2>1, <2>3 DEF Summing
  <2>5. x[Arity] = x[0] + Total(Chosen(c, Givens, Arity))
    BY <1>1, <2>4, Summed
  <2>6. x[Arity] = ReadOuts(m).sum_out[i] /\ x[0] = m.sum_out[i]
    BY <1>1, <1>6, <2>1
  <2> QED
    BY <2>2, <2>5, <2>6 DEF SumOf
<1>12. ReadOuts(m) \in AverageMemory /\ SameIns(ReadOuts(m), m)
  BY <1>1, <1>6 DEF S
<1> QED
  BY <1>10, <1>11, <1>12

-----------------------------------------------------------------------------
(* The best of what was read. *)
LEMMA ExtremumIn ==
  ASSUME RuleOK, rule.op \in Extremum, NEW m \in ExtremumMemory, NEW k, NEW c, c[1] \in Int
  PROVE  LET x == on_read_in_arg(rule.op, m, k, c)
         IN  x \in ExtremumMemory /\ x.value_out = m.value_out /\ x.value_in = Better(rule.op, m.value_in, c[1])
<1>1. on_read_in_arg(rule.op, m, k, c) = [m EXCEPT !.value_in = Better(rule.op, m.value_in, c[1])]
  BY DEF on_read_in_arg, Extremum
<1>2. m.value_in \in Int
  BY DEF ExtremumMemory
<1>3. Better(rule.op, m.value_in, c[1]) \in {m.value_in, c[1]}
  BY <1>2, BetterIs
<1> QED
  BY <1>1, <1>2, <1>3 DEF ExtremumMemory

LEMMA ExtremumOut ==
  ASSUME RuleOK, rule.op \in Extremum, NEW m \in ExtremumMemory, NEW k, NEW c, c[1] \in Int
  PROVE  LET x == on_read_out_arg(rule.op, m, k, c)
         IN  x \in ExtremumMemory /\ x.value_in = m.value_in /\ x.value_out = Better(rule.op, m.value_out, c[1])
<1>1. on_read_out_arg(rule.op, m, k, c) = [m EXCEPT !.value_out = Better(rule.op, m.value_out, c[1])]
  BY DEF on_read_out_arg, Extremum
<1>2. m.value_out \in Int
  BY DEF ExtremumMemory
<1>3. Better(rule.op, m.value_out, c[1]) \in {m.value_out, c[1]}
  BY <1>2, BetterIs
<1> QED
  BY <1>1, <1>2, <1>3 DEF ExtremumMemory

LEMMA BestOfIns ==
  ASSUME RuleOK, ArgsOK, ResOK, rule.op \in Extremum, NEW m \in ExtremumMemory
  PROVE  LET x == ReadIns(m)
         IN  /\ x \in ExtremumMemory
             /\ x.value_out = m.value_out
             /\ x.value_in = m.value_in \/ \E k \in Ins : x.value_in = Read(k)[1]
             /\ Beyond(rule.op, x.value_in, m.value_in)
             /\ \A k \in Ins : Beyond(rule.op, x.value_in, Read(k)[1])
<1> DEFINE S == {x \in ExtremumMemory : x.value_out = m.value_out}
<1>1. Len(args) = Arity /\ Arity \in Nat
  BY ArgsTyped
<1>2. m \in S
  OBVIOUS
<1>a. \A k \in 1..Arity : Read(k)[1] \in Int
  BY ReadTyped, Typed
<1>3. ASSUME NEW x \in S, NEW k \in 1..Arity
      PROVE  /\ on_read_in_arg(rule.op, x, k, Read(k)) \in S
             /\ on_read_in_arg(rule.op, x, k, Read(k)).value_in = Better(rule.op, x.value_in, Read(k)[1])
  <2>1. x \in ExtremumMemory /\ Read(k)[1] \in Int
    BY <1>a
  <2> QED
    BY <2>1, ExtremumIn
<1>4. InsStay(S, Arity)
  <2> HIDE DEF S
  <2> QED
    BY <1>3 DEF InsStay
<1>5. PICK g : ReadingIns(g, m, S, Arity)
  <2> HIDE DEF S
  <2> QED
    BY <1>1, <1>2, <1>4, ReadInsIs
<1>6. /\ g \in [0..Arity -> S]
      /\ g[0] = m
      /\ ReadIns(m) = g[Arity]
      /\ \A k \in 1..Arity :
           g[k] = IF args[k].kind # "out" THEN on_read_in_arg(rule.op, g[k - 1], k, Read(k)) ELSE g[k - 1]
  BY <1>5 DEF ReadingIns
<1>7. ASSUME NEW k \in 0..Arity
      PROVE  g[k] \in S /\ g[k].value_in \in Int
  <2>1. g[k] \in S
    BY <1>6
  <2> QED
    BY <2>1 DEF ExtremumMemory
<1>8. Ins \subseteq 1..Arity /\ \A k \in 1..Arity : k \in Ins <=> args[k].kind # "out"
  BY DEF Ins
<1> DEFINE x == [k \in 0..Arity |-> g[k].value_in]
           c == [k \in 1..Arity |-> Read(k)[1]]
<1>9. /\ x \in [0..Arity -> Int] /\ c \in [1..Arity -> Int]
      /\ \A k \in 0..Arity : x[k] = g[k].value_in
      /\ \A k \in 1..Arity : c[k] = Read(k)[1]
  BY <1>a, <1>7
<1> HIDE DEF x, c
<1>10. ASSUME NEW k \in 1..Arity
       PROVE  x[k] = IF k \in Ins THEN Better(rule.op, x[k - 1], c[k]) ELSE x[k - 1]
  <2>1. k \in 0..Arity /\ k - 1 \in 0..Arity
    BY <1>1
  <2>2. x[k] = g[k].value_in /\ x[k - 1] = g[k - 1].value_in /\ c[k] = Read(k)[1]
    BY <1>9, <2>1
  <2>3. g[k - 1] \in S
    BY <1>7, <2>1
  <2>4. g[k] = IF args[k].kind # "out" THEN on_read_in_arg(rule.op, g[k - 1], k, Read(k)) ELSE g[k - 1]
    BY <1>6
  <2> HIDE DEF S
  <2> QED
    BY <1>3, <1>8, <2>2, <2>3, <2>4
<1>11. Bettering(rule.op, x, c, Ins, Arity)
  BY <1>8, <1>9, <1>10 DEF Bettering
<1>12. /\ x[Arity] = x[0] \/ \E k \in Ins : x[Arity] = c[k]
       /\ Beyond(rule.op, x[Arity], x[0])
       /\ \A k \in Ins : Beyond(rule.op, x[Arity], c[k])
  BY <1>1, <1>11, Best
<1>13. x[Arity] = ReadIns(m).value_in /\ x[0] = m.value_in /\ ReadIns(m) \in S
  BY <1>1, <1>6, <1>7, <1>9
<1>14. \A k \in Ins : c[k] = Read(k)[1]
  BY <1>8, <1>9
<1> QED
  BY <1>12, <1>13, <1>14

LEMMA BestOfOuts ==
  ASSUME RuleOK, ArgsOK, ResOK, rule.op \in Extremum, NEW m \in ExtremumMemory, ~out_ok
  PROVE  LET x == ReadOuts(m)
         IN  /\ x \in ExtremumMemory
             /\ x.value_in = m.value_in
             /\ x.value_out = m.value_out \/ \E k \in Givens : x.value_out = Read(k)[1]
             /\ Beyond(rule.op, x.value_out, m.value_out)
             /\ \A k \in Givens : Beyond(rule.op, x.value_out, Read(k)[1])
<1> DEFINE S == {x \in ExtremumMemory : x.value_in = m.value_in}
<1>1. Len(args) = Arity /\ Arity \in Nat
  BY ArgsTyped
<1>2. m \in S
  OBVIOUS
<1>a. \A k \in 1..Arity : Read(k)[1] \in Int
  BY ReadTyped, Typed
<1>3. ASSUME NEW x \in S, NEW k \in 1..Arity
      PROVE  /\ on_read_out_arg(rule.op, x, k, Read(k)) \in S
             /\ on_read_out_arg(rule.op, x, k, Read(k)).value_out = Better(rule.op, x.value_out, Read(k)[1])
  <2>1. x \in ExtremumMemory /\ Read(k)[1] \in Int
    BY <1>a
  <2> QED
    BY <2>1, ExtremumOut
<1>4. OutsStay(S, Arity)
  <2> HIDE DEF S
  <2> QED
    BY <1>3 DEF OutsStay
<1>5. PICK g : ReadingOuts(g, m, S, Arity)
  <2> HIDE DEF S
  <2> QED
    BY <1>1, <1>2, <1>4, ReadOutsIs
<1>6. /\ g \in [0..Arity -> S]
      /\ g[0] = m
      /\ ReadOuts(m) = g[Arity]
      /\ \A k \in 1..Arity :
           g[k] = IF Given(k) THEN on_read_out_arg(rule.op, g[k - 1], k, Read(k)) ELSE g[k - 1]
  BY <1>5 DEF ReadingOuts
<1>7. ASSUME NEW k \in 0..Arity
      PROVE  g[k] \in S /\ g[k].value_out \in Int
  <2>1. g[k] \in S
    BY <1>6
  <2> QED
    BY <2>1 DEF ExtremumMemory
<1>8. Givens \subseteq 1..Arity /\ \A k \in 1..Arity : k \in Givens <=> Given(k)
  BY DEF Givens
<1> DEFINE x == [k \in 0..Arity |-> g[k].value_out]
           c == [k \in 1..Arity |-> Read(k)[1]]
<1>9. /\ x \in [0..Arity -> Int] /\ c \in [1..Arity -> Int]
      /\ \A k \in 0..Arity : x[k] = g[k].value_out
      /\ \A k \in 1..Arity : c[k] = Read(k)[1]
  BY <1>a, <1>7
<1> HIDE DEF x, c
<1>10. ASSUME NEW k \in 1..Arity
       PROVE  x[k] = IF k \in Givens THEN Better(rule.op, x[k - 1], c[k]) ELSE x[k - 1]
  <2>1. k \in 0..Arity /\ k - 1 \in 0..Arity
    BY <1>1
  <2>2. x[k] = g[k].value_out /\ x[k - 1] = g[k - 1].value_out /\ c[k] = Read(k)[1]
    BY <1>9, <2>1
  <2>3. g[k - 1] \in S
    BY <1>7, <2>1
  <2>4. g[k] = IF Given(k) THEN on_read_out_arg(rule.op, g[k - 1], k, Read(k)) ELSE g[k - 1]
    BY <1>6
  <2> HIDE DEF S
  <2> QED
    BY <1>3, <1>8, <2>2, <2>3, <2>4
<1>11. Bettering(rule.op, x, c, Givens, Arity)
  BY <1>8, <1>9, <1>10 DEF Bettering
<1>12. /\ x[Arity] = x[0] \/ \E k \in Givens : x[Arity] = c[k]
       /\ Beyond(rule.op, x[Arity], x[0])
       /\ \A k \in Givens : Beyond(rule.op, x[Arity], c[k])
  BY <1>1, <1>11, Best
<1>13. x[Arity] = ReadOuts(m).value_out /\ x[0] = m.value_out /\ ReadOuts(m) \in S
  BY <1>1, <1>6, <1>7, <1>9
<1>14. \A k \in Givens : c[k] = Read(k)[1]
  BY <1>8, <1>9
<1> QED
  BY <1>12, <1>13, <1>14

-----------------------------------------------------------------------------
(* The maximum of a map is found. *)
LEMMA MaxIs ==
  ASSUME NEW n \in Nat \ {0}, NEW c \in [1..n -> Int]
  PROVE  \E i \in 1..n : c[i] = Max({c[j] : j \in 1..n}) /\ \A j \in 1..n : c[j] <= c[i]
<1> DEFINE T == {k \in 0..n : k = 0 \/ \E i \in 1..k : \A j \in 1..k : c[j] <= c[i]}
<1>1. Inductive(T, n)
  <2>1. 0 \in T
    OBVIOUS
  <2>2. ASSUME NEW k \in 1..n, k - 1 \in T PROVE k \in T
    <3>1. CASE k = 1
      <4>1. 1 \in 1..1 /\ \A j \in 1..1 : c[j] <= c[1]
        BY <3>1
      <4> QED
        BY <3>1, <4>1
    <3>2. CASE k # 1
      <4>1. PICK i \in 1..(k - 1) : \A j \in 1..(k - 1) : c[j] <= c[i]
        BY <2>2, <3>2
      <4>2. i \in 1..k /\ c[i] \in Int /\ c[k] \in Int /\ k \in 1..k
        OBVIOUS
      <4>3. CASE c[k] <= c[i]
        <5>1. \A j \in 1..k : c[j] <= c[i]
          BY <4>1, <4>3
        <5> QED
          BY <4>2, <5>1
      <4>4. CASE c[i] < c[k]
        <5>1. \A j \in 1..k : c[j] <= c[k]
          <6> SUFFICES ASSUME NEW j \in 1..k PROVE c[j] <= c[k]
            OBVIOUS
          <6>1. c[j] \in Int
            OBVIOUS
          <6>2. CASE j = k
            BY <6>1, <6>2
          <6>3. CASE j # k
            <7>1. c[j] <= c[i]
              BY <4>1, <6>3
            <7> QED
              BY <4>2, <4>4, <6>1, <7>1
          <6> QED
            BY <6>2, <6>3
        <5> QED
          BY <4>2, <5>1
      <4> QED
        BY <4>2, <4>3, <4>4
    <3> QED
      BY <3>1, <3>2
  <2> HIDE DEF T
  <2> QED
    BY <2>1, <2>2 DEF Inductive
<1>2. n \in T
  <2> HIDE DEF T
  <2> QED
    BY <1>1, Induction
<1>3. PICK i \in 1..n : \A j \in 1..n : c[j] <= c[i]
  BY <1>2
<1> DEFINE V == {c[j] : j \in 1..n}
           top == Max(V)
<1>4. c[i] \in V /\ \A y \in V : c[i] >= y
  BY <1>3
<1>5. top \in V /\ \A y \in V : top >= y
  <2> HIDE DEF V
  <2> QED
    BY <1>4 DEF Max
<1>6. top = c[i]
  <2>1. c[i] \in Int /\ V \subseteq Int
    OBVIOUS
  <2> HIDE DEF V, top
  <2> QED
    BY <1>4, <1>5, <2>1
<1> QED
  BY <1>3, <1>6

(* What find_argmax has after the first i values. *)
Drawn(c, s, i) ==
  IF s.bmus = {} \/ c[i] > s.max + ArgmaxTol THEN [max |-> c[i], bmus |-> {i - 1}]
  ELSE IF c[i] > s.max - ArgmaxTol THEN [s EXCEPT !.bmus = s.bmus \cup {i - 1}]
  ELSE s

Draws(n) == [max : Int, bmus : SUBSET (0..(n - 1))]

LEMMA DrawnTyped ==
  ASSUME NEW n \in Nat, NEW c \in [1..n -> Int], NEW s \in Draws(n), NEW i \in 1..n
  PROVE  Drawn(c, s, i) \in Draws(n)
<1>1. c[i] \in Int /\ i - 1 \in 0..(n - 1) /\ s.bmus \in SUBSET (0..(n - 1)) /\ s.max \in Int
  BY DEF Draws
<1>2. s.bmus \cup {i - 1} \in SUBSET (0..(n - 1)) /\ {i - 1} \in SUBSET (0..(n - 1))
  BY <1>1
<1> QED
  BY <1>1, <1>2 DEF Drawn, Draws

(* The winners are close to the maximum of what was seen. *)
Close(c, s, i) ==
  /\ i > 0 => s.bmus # {}
  /\ \A j \in 1..i : s.bmus # {} /\ c[j] <= s.max + ArgmaxTol
  /\ \A b \in s.bmus : b + 1 \in 1..i /\ c[b + 1] >= s.max - ArgmaxTol

LEMMA DrawnClose ==
  ASSUME NEW n \in Nat, NEW c \in [1..n -> Int], NEW s \in Draws(n), NEW i \in 1..n, Close(c, s, i - 1)
  PROVE  Close(c, Drawn(c, s, i), i)
<1>1. c[i] \in Int /\ s.max \in Int /\ s.bmus \subseteq 0..(n - 1) /\ ArgmaxTol \in Nat
  BY OperationsAssumption DEF Draws
<1>2. \A j \in 1..n : c[j] \in Int
  OBVIOUS
<1>3. CASE s.bmus = {} \/ c[i] > s.max + ArgmaxTol
  <2>1. Drawn(c, s, i) = [max |-> c[i], bmus |-> {i - 1}]
    BY <1>3 DEF Drawn
  <2>2. ASSUME NEW j \in 1..i PROVE c[j] <= c[i] + ArgmaxTol
    <3>1. CASE j = i
      BY <1>1, <3>1
    <3>2. CASE j # i
      <4>1. j \in 1..(i - 1) /\ c[j] \in Int
        BY <3>2
      <4>2. s.bmus # {} /\ c[j] <= s.max + ArgmaxTol
        BY <4>1 DEF Close
      <4>3. s.max + ArgmaxTol < c[i]
        BY <1>1, <1>3, <4>2
      <4>4. c[j] <= c[i]
        BY <1>1, <4>1, <4>2, <4>3
      <4> QED
        BY <1>1, <4>1, <4>4
    <3> QED
      BY <3>1, <3>2
  <2>3. i - 1 + 1 = i /\ c[i] >= c[i] - ArgmaxTol
    BY <1>1
  <2> QED
    BY <2>1, <2>2, <2>3 DEF Close
<1>4. CASE ~(s.bmus = {} \/ c[i] > s.max + ArgmaxTol)
  <2>1. c[i] <= s.max + ArgmaxTol /\ s.bmus # {}
    BY <1>1, <1>4
  <2>2. \A j \in 1..i : c[j] <= s.max + ArgmaxTol
    <3> SUFFICES ASSUME NEW j \in 1..i PROVE c[j] <= s.max + ArgmaxTol
      OBVIOUS
    <3>1. CASE j = i
      BY <2>1, <3>1
    <3>2. CASE j # i
      <4>1. j \in 1..(i - 1)
        BY <3>2
      <4> QED
        BY <4>1 DEF Close
    <3> QED
      BY <3>1, <3>2
  <2>3. ASSUME NEW b \in s.bmus PROVE b + 1 \in 1..i /\ c[b + 1] >= s.max - ArgmaxTol
    <3>1. b + 1 \in 1..(i - 1) /\ c[b + 1] >= s.max - ArgmaxTol
      BY DEF Close
    <3> QED
      BY <3>1
  <2>4. CASE c[i] > s.max - ArgmaxTol
    <3>1. Drawn(c, s, i) = [s EXCEPT !.bmus = s.bmus \cup {i - 1}]
      BY <1>4, <2>4 DEF Drawn
    <3>2. Drawn(c, s, i).max = s.max /\ Drawn(c, s, i).bmus = s.bmus \cup {i - 1}
      BY <3>1 DEF Draws
    <3>3. \A b \in s.bmus \cup {i - 1} : b + 1 \in 1..i /\ c[b + 1] >= s.max - ArgmaxTol
      BY <1>1, <2>3, <2>4
    <3> HIDE DEF Drawn
    <3> QED
      BY <2>2, <3>2, <3>3 DEF Close
  <2>5. CASE ~(c[i] > s.max - ArgmaxTol)
    <3>1. Drawn(c, s, i) = s
      BY <1>4, <2>5 DEF Drawn
    <3> QED
      BY <2>1, <2>2, <2>3, <3>1 DEF Close
  <2> QED
    BY <2>4, <2>5
<1> QED
  BY <1>3, <1>4

(* find_argmax gives winners, the first or those within the tolerance. *)
LEMMA ArgmaxWins ==
  ASSUME NEW n \in Nat \ {0}, NEW c \in [1..n -> Int]
  PROVE  find_argmax(c) \subseteq Winners(c)
<1> DEFINE V == {c[j] : j \in 1..n}
           top == Max(V)
           first == Min({i \in 1..n : \A j \in 1..n : c[j] <= c[i]}) - 1
           drawn[i \in 0..n] == IF i = 0 THEN [max |-> 0, bmus |-> {}] ELSE Drawn(c, drawn[i - 1], i)
<1>1. PICK w \in 1..n : c[w] = top /\ \A j \in 1..n : c[j] <= c[w]
  BY MaxIs
<1>2. Len(c) = n /\ DOMAIN c = 1..n /\ \A j \in 1..n : c[j] \in Int
  BY LenIs
<1>3. find_argmax(c) = IF RandomBmu THEN drawn[n].bmus ELSE {first}
  BY <1>2 DEF find_argmax, Drawn
<1>4. Winners(c) = IF RandomBmu THEN {i - 1 : i \in {j \in 1..n : c[j] >= top - 2 * ArgmaxTol}}
                                ELSE {Min({i \in 1..n : c[i] = top}) - 1}
  BY <1>2 DEF Winners
<1>5. {i \in 1..n : \A j \in 1..n : c[j] <= c[i]} = {i \in 1..n : c[i] = top}
  <2> HIDE DEF top
  <2>1. ASSUME NEW i \in 1..n, \A j \in 1..n : c[j] <= c[i] PROVE c[i] = top
    <3>1. c[w] <= c[i] /\ c[i] <= c[w] /\ c[i] \in Int /\ c[w] \in Int
      BY <1>1, <1>2, <2>1
    <3> QED
      BY <1>1, <3>1
  <2>2. ASSUME NEW i \in 1..n, c[i] = top PROVE \A j \in 1..n : c[j] <= c[i]
    BY <1>1, <2>2
  <2> QED
    BY <2>1, <2>2
<1>6. CASE ~RandomBmu
  BY <1>3, <1>4, <1>5, <1>6
<1>7. CASE RandomBmu
  <2> DEFINE S == Draws(n)
             s0 == [max |-> 0, bmus |-> {}]
             F == [i \in 1..n |-> [s \in S |-> Drawn(c, s, i)]]
  <2>1. F \in [1..n -> [S -> S]] /\ s0 \in S
    <3>1. \A i \in 1..n, s \in S : Drawn(c, s, i) \in S
      BY DrawnTyped
    <3>2. s0 \in S
      BY DEF Draws
    <3> HIDE DEF S, s0
    <3> QED
      BY <3>1, <3>2
  <2>2. PICK g : Iterates(g, F, s0, S, n)
    <3> HIDE DEF F, S, s0
    <3> QED
      BY <2>1, Recursion
  <2>3. /\ g \in [0..n -> S] /\ g[0] = s0
        /\ \A i \in 1..n : g[i - 1] \in S /\ g[i] = F[i][g[i - 1]]
    <3> HIDE DEF F, S, s0
    <3> QED
      BY <2>2, Iterated
  <2>4. \A i \in 1..n : g[i - 1] \in S /\ g[i] = Drawn(c, g[i - 1], i)
    <3> HIDE DEF S, s0
    <3> QED
      BY <2>3
  <2>5. g = [i \in 0..n |-> IF i = 0 THEN s0 ELSE Drawn(c, g[i - 1], i)]
    <3> HIDE DEF S, s0
    <3>1. \A i \in 0..n : g[i] = IF i = 0 THEN s0 ELSE Drawn(c, g[i - 1], i)
      BY <2>3, <2>4
    <3> QED
      BY <2>3, <3>1
  <2>6. drawn = [i \in 0..n |-> IF i = 0 THEN s0 ELSE Drawn(c, drawn[i - 1], i)]
    BY <2>5
  <2> HIDE DEF drawn
  <2>7. \A i \in 0..n : drawn[i] = IF i = 0 THEN s0 ELSE Drawn(c, drawn[i - 1], i)
    BY <2>6
  <2> DEFINE T == {i \in 0..n : drawn[i] \in S /\ Close(c, drawn[i], i)}
  <2>8. Inductive(T, n)
    <3>1. 0 \in T
      <4>1. drawn[0] = s0
        BY <2>7
      <4>2. Close(c, s0, 0)
        BY DEF Close
      <4> QED
        BY <2>1, <4>1, <4>2
    <3>2. ASSUME NEW i \in 1..n, i - 1 \in T PROVE i \in T
      <4>1. drawn[i] = Drawn(c, drawn[i - 1], i)
        BY <2>7
      <4>2. drawn[i - 1] \in Draws(n) /\ Close(c, drawn[i - 1], i - 1)
        BY <3>2
      <4>3. drawn[i] \in Draws(n)
        BY <4>1, <4>2, DrawnTyped
      <4>4. Close(c, drawn[i], i)
        BY <4>1, <4>2, DrawnClose
      <4> QED
        BY <4>3, <4>4
    <3> HIDE DEF T
    <3> QED
      BY <3>1, <3>2 DEF Inductive
  <2>9. n \in T
    <3> HIDE DEF T
    <3> QED
      BY <2>8, Induction
  <2> DEFINE d == drawn[n]
  <2>10. d \in Draws(n) /\ Close(c, d, n)
    BY <2>9
  <2> HIDE DEF d
  <2>11. ASSUME NEW b \in d.bmus PROVE b \in Winners(c)
    <3>1. b + 1 \in 1..n /\ c[b + 1] >= d.max - ArgmaxTol /\ b \in Int
      BY <2>10 DEF Close, Draws
    <3>2. c[w] <= d.max + ArgmaxTol
      BY <2>10 DEF Close
    <3>3. d.max \in Int /\ ArgmaxTol \in Nat /\ c[w] \in Int /\ c[b + 1] \in Int
      BY <1>2, <2>10, <3>1, OperationsAssumption DEF Draws
    <3>4. c[b + 1] >= top - 2 * ArgmaxTol
      <4> HIDE DEF top
      <4> QED
        BY <1>1, <3>1, <3>2, <3>3
    <3>5. b = (b + 1) - 1
      BY <3>1
    <3> HIDE DEF top
    <3> QED
      BY <1>4, <1>7, <3>1, <3>4, <3>5
  <2>12. find_argmax(c) = d.bmus
    BY <1>3, <1>7 DEF d
  <2> QED
    BY <2>11, <2>12
<1> QED
  BY <1>6, <1>7

-----------------------------------------------------------------------------
(* What is written is what the operation is said to compute, o being the   *)
(* previous result and v the one that is written.                          *)
Referred(r, a, o, v) ==
  LET n == Len(a)
      all == {a[k][1] : k \in DOMAIN a}
  IN  CASE r.op = "min" -> {<<Min(all)>>}
        [] r.op = "max" -> {<<Max(all)>>}
        [] r.op = "average" /\ n = 0 -> {o}
        [] r.op = "average" /\ n # 0 ->
             {[i \in DOMAIN o |-> Total([k \in 1..n |-> a[k][i]]) \div n]}
        [] r.op = "argmax" -> {BmuAt(r.args[1], i) : i \in Winners(a[1])}
        [] r.op = "conv-argmax" -> {BmuAt(r.args[1], i) : i \in Winners(Convolve(a[1], r.args[1]))}
        [] r.op = "converge" -> {v}
        [] OTHER -> computed(r, a)

Actual == [k \in 1..Arity |-> Read(k)]

Outs == {k \in 1..Arity : args[k].kind = "out"}

LEMMA ConvolveTyped ==
  ASSUME NEW n \in Nat, NEW c \in [1..n -> Int], NEW t
  PROVE  Convolve(c, t) \in [1..n -> Int]
<1> DEFINE row(j) == (j - 1) \div t.side
           close(j, k) == j - k \in {t.side, -t.side} \/ (row(j) = row(k) /\ j - k \in {1, -1})
           f(j) == [k \in 1..n |-> IF close(j, k) THEN c[k] ELSE 0]
<1>1. Len(c) = n
  BY LenIs
<1>2. Convolve(c, t) = [j \in 1..n |-> 2 * c[j] + Total(f(j))]
  BY <1>1 DEF Convolve
<1>3. ASSUME NEW j \in 1..n PROVE 2 * c[j] + Total(f(j)) \in Int
  <2> DEFINE e == f(j)
  <2>1. e \in [1..n -> Int]
    <3> HIDE DEF close
    <3> QED
      OBVIOUS
  <2> HIDE DEF e
  <2>2. Total(e) \in Int
    BY <2>1, TotalTyped
  <2>3. 2 * c[j] + Total(e) \in Int
    BY <2>2
  <2> QED
    BY <2>3 DEF e
<1> HIDE DEF f
<1> QED
  BY <1>2, <1>3

(* The activities of an argmax are those of a map, with cells. *)
LEMMA MapRead ==
  ASSUME RuleOK, ArgsOK, rule.op \in Argmaxes
  PROVE  /\ 1 \in 1..Arity
         /\ args[1].kind # "self"
         /\ Read(1) = args[1].val
         /\ is_MapOf(rule.args[1], Scalar)
         /\ rule.args[1] \in DataType
         /\ size(rule.args[1]) \in Nat \ {0}
         /\ Read(1) \in [1..size(rule.args[1]) -> Int]
<1>1. Len(rule.args) = 1 /\ is_MapOf(rule.args[1], Scalar) /\ rule.res = Position(rule.args[1].dim)
  BY DEF RuleOK, WellTyped, Argmaxes, check_types_argmax
<1>2. 1 \in 1..Arity /\ DOMAIN rule.args = 1..Arity /\ rule.args[1] \in DataType /\ Big \in Nat
  BY <1>1, Typed DEF Arity
<1>3. size(rule.args[1]) \in Nat \ {0} /\ nb_of_doubles(rule.args[1]) = size(rule.args[1])
  BY <1>1, <1>2, SizeType, ScalarSize
<1>4. args[1].kind # "self"
  <2>1. rule.res.dim = 0 /\ rule.args[1].dim > 0
    BY <1>1 DEF Position, Pos1D, Pos2D, is_MapOf, is_Map
  <2>2. rule.args[1] # rule.res
    BY <2>1
  <2>3. KindOf[1] = "self" => rule.args[1] = rule.res
    BY <1>2, KindsAssumption DEF ArgsOK, RuleOK
  <2>4. KindOf[1] = args[1].kind
    BY <1>2 DEF KindOf
  <2> QED
    BY <2>2, <2>3, <2>4
<1>5. args[1].val \in [1..size(rule.args[1]) -> Int]
  <2>1. args[1].val \in [1..size(rule.args[1]) -> (-Big)..Big]
    BY <1>2, <1>3 DEF ArgsOK, Vals
  <2> QED
    BY <1>2, <2>1
<1> QED
  BY <1>1, <1>2, <1>3, <1>4, <1>5 DEF Read

LEMMA KeepsComputes ==
  ASSUME RuleOK, ArgsOK, Keeps, NEW m, m.read = Actual, NEW o, NEW w, NEW v \in written(rule, m, w)
  PROVE  v \in Referred(rule, Actual, o, v)
<1>0. rule.op \notin {"min", "max", "average"}
  BY DEF Keeps, Extremum
<1>1. CASE rule.op = "converge"
  BY <1>1 DEF Referred
<1>2. CASE rule.op # "converge"
  <2>1. v \in computed(rule, Actual)
    BY <1>0, <1>2 DEF written, Extremum
  <2>2. CASE rule.op \notin Argmaxes
    <3>1. Referred(rule, Actual, o, v) = computed(rule, Actual)
      BY <1>0, <1>2, <2>2 DEF Referred, Argmaxes
    <3> QED
      BY <2>1, <3>1
  <2>3. CASE rule.op \in Argmaxes
    <3> DEFINE n == size(rule.args[1])
    <3>1. Actual[1] \in [1..n -> Int] /\ n \in Nat \ {0}
      BY <2>3, MapRead DEF Actual
    <3>2. CASE rule.op = "argmax"
      <4>1. computed(rule, Actual) = argmax(rule, Actual)
        BY <3>2 DEF computed
      <4>2. Referred(rule, Actual, o, v) = {BmuAt(rule.args[1], i) : i \in Winners(Actual[1])}
        BY <3>2 DEF Referred
      <4>3. find_argmax(Actual[1]) \subseteq Winners(Actual[1])
        BY <3>1, ArgmaxWins
      <4> QED
        BY <2>1, <4>1, <4>2, <4>3 DEF argmax
    <3>3. CASE rule.op = "conv-argmax"
      <4> DEFINE c == Convolve(Actual[1], rule.args[1])
      <4>1. computed(rule, Actual) = conv_argmax(rule, Actual)
        BY <3>3 DEF computed
      <4>2. Referred(rule, Actual, o, v) = {BmuAt(rule.args[1], i) : i \in Winners(c)}
        BY <3>3 DEF Referred
      <4>3. c \in [1..n -> Int]
        BY <3>1, ConvolveTyped
      <4>4. find_argmax(c) \subseteq Winners(c)
        <5> HIDE DEF c
        <5> QED
          BY <3>1, <4>3, ArgmaxWins
      <4> QED
        BY <2>1, <4>1, <4>2, <4>4 DEF conv_argmax
    <3> QED
      BY <2>3, <3>2, <3>3 DEF Argmaxes
  <2> QED
    BY <2>2, <2>3
<1> QED
  BY <1>1, <1>2

(* The best of the values is their minimum or their maximum. *)
LEMMA BestIs ==
  ASSUME NEW op \in Extremum, NEW V \in SUBSET Int, NEW x \in V, \A y \in V : Beyond(op, x, y)
  PROVE  /\ op = "min" => Min(V) = x
         /\ op = "max" => Max(V) = x
<1>1. ASSUME op = "min" PROVE Min(V) = x
  <2>1. Min(V) \in V /\ \A y \in V : Min(V) <= y
    BY <1>1 DEF Min, Beyond
  <2>2. \A y \in V : x <= y
    BY <1>1 DEF Beyond
  <2> DEFINE z == Min(V)
  <2>3. z \in V /\ x \in Int /\ z \in Int /\ x <= z /\ z <= x
    BY <2>1, <2>2
  <2> HIDE DEF z
  <2>4. z = x
    BY <2>3
  <2> QED
    BY <2>4 DEF z
<1>2. ASSUME op = "max" PROVE Max(V) = x
  <2>1. Max(V) \in V /\ \A y \in V : Max(V) >= y
    BY <1>2 DEF Max, Beyond
  <2>2. \A y \in V : x >= y
    BY <1>2 DEF Beyond
  <2> DEFINE z == Max(V)
  <2>3. z \in V /\ x \in Int /\ z \in Int /\ x >= z /\ z >= x
    BY <2>1, <2>2
  <2> HIDE DEF z
  <2>4. z = x
    BY <2>3
  <2> QED
    BY <2>4 DEF z
<1> QED
  BY <1>1, <1>2

(* No value is worse than NoBound. *)
LEMMA NoBoundIs ==
  ASSUME RuleOK, rule.op \in Extremum, NEW x \in (-Big)..Big
  PROVE  /\ NoBound(rule.op) \in Int
         /\ Beyond(rule.op, x, NoBound(rule.op))
         /\ Better(rule.op, x, NoBound(rule.op)) = x
         /\ Better(rule.op, NoBound(rule.op), x) = x
         /\ Beyond(rule.op, NoBound(rule.op), x) => x = NoBound(rule.op)
<1> DEFINE b == NoBound(rule.op)
<1>1. Big \in Nat /\ x \in Int
  BY Typed
<1>2. b \in Int /\ (rule.op = "min" => b = Big) /\ (rule.op # "min" => b = -Big)
  BY <1>1 DEF NoBound
<1>3. Beyond(rule.op, x, b) /\ (Beyond(rule.op, b, x) => x = b)
  BY <1>1, <1>2 DEF Beyond
<1> HIDE DEF b
<1>4. Better(rule.op, x, b) = x
  <2>1. Better(rule.op, x, b) \in {x, b} /\ Beyond(rule.op, Better(rule.op, x, b), x)
    BY <1>1, <1>2, BetterIs DEF Beyond
  <2> QED
    BY <1>3, <2>1
<1>5. Better(rule.op, b, x) = x
  <2>1. Better(rule.op, b, x) \in {x, b} /\ Beyond(rule.op, Better(rule.op, b, x), x)
    BY <1>1, <1>2, BetterIs DEF Beyond
  <2> QED
    BY <1>3, <2>1
<1> QED
  BY <1>2, <1>3, <1>4, <1>5 DEF b

(* The best of all the arguments, x, starting from NoBound. *)
LEMMA ExtremumComputes ==
  ASSUME RuleOK, ArgsOK, ResOK, rule.op \in Extremum, NEW o, NEW x,
         x = NoBound(rule.op) \/ \E k \in 1..Arity : x = Read(k)[1],
         \A k \in 1..Arity : Beyond(rule.op, x, Read(k)[1])
  PROVE  <<x>> \in Referred(rule, Actual, o, <<x>>) /\ x \in (-Big)..Big
<1> DEFINE V == {Read(k)[1] : k \in 1..Arity}
<1>1. \A k \in 1..Arity : Read(k)[1] \in (-Big)..Big
  BY ReadTyped
<1>2. Arity \in Nat /\ Big \in Nat
  BY Typed
<1>3. 1 \in 1..Arity
  <2>1. check_types_min_max(rule.res, rule.args)
    BY DEF Extremum, RuleOK, WellTyped
  <2> QED
    BY <1>2, <2>1 DEF check_types_min_max, Arity
<1>4. x \in V
  <2>1. CASE x = NoBound(rule.op)
    <3>1. Beyond(rule.op, x, Read(1)[1]) /\ Read(1)[1] \in (-Big)..Big
      BY <1>1, <1>3
    <3>2. Read(1)[1] = x
      BY <2>1, <3>1, NoBoundIs
    <3> QED
      BY <1>3, <3>2
  <2>2. CASE \E k \in 1..Arity : x = Read(k)[1]
    BY <2>2
  <2> QED
    BY <2>1, <2>2
<1>5. V \subseteq Int /\ \A y \in V : Beyond(rule.op, x, y)
  BY <1>1, <1>2
<1>6. {Actual[k][1] : k \in DOMAIN Actual} = V
  BY DEF Actual
<1> HIDE DEF V
<1>7. CASE rule.op = "min"
  <2>1. Referred(rule, Actual, o, <<x>>) = {<<Min(V)>>}
    BY <1>6, <1>7 DEF Referred
  <2>2. Min(V) = x
    BY <1>4, <1>5, <1>7, BestIs
  <2>3. x \in (-Big)..Big
    BY <1>1, <1>4 DEF V
  <2> QED
    BY <2>1, <2>2, <2>3
<1>8. CASE rule.op = "max"
  <2>1. Referred(rule, Actual, o, <<x>>) = {<<Max(V)>>}
    BY <1>6, <1>8 DEF Referred
  <2>2. Max(V) = x
    BY <1>4, <1>5, <1>8, BestIs
  <2>3. x \in (-Big)..Big
    BY <1>1, <1>4 DEF V
  <2> QED
    BY <2>1, <2>2, <2>3
<1> QED
  BY <1>7, <1>8 DEF Extremum

(* Counting the arguments of two disjoint sets that are all of them. *)
LEMMA CountAll ==
  ASSUME RuleOK, ArgsOK
  PROVE  /\ Count(Ins) \in Nat /\ Count(Outs) \in Nat /\ Count(Ins) + Count(Outs) = Arity
         /\ Count(Ins) = 0 => Ins = {}
         /\ Count(Outs) = 0 => Outs = {}
<1>1. Arity \in Nat
  BY ArgsTyped
<1> DEFINE f == [k \in 1..Arity |-> IF k \in Ins THEN 1 ELSE 0]
           h == [k \in 1..Arity |-> IF k \in Outs THEN 1 ELSE 0]
           e == [k \in 1..Arity |-> f[k] + h[k]]
<1>2. f \in [1..Arity -> Nat] /\ h \in [1..Arity -> Nat]
  OBVIOUS
<1>3. \A k \in 1..Arity : f[k] + h[k] = 1
  BY DEF Ins, Outs
<1>4. e = [k \in 1..Arity |-> 1]
  <2> HIDE DEF f, h
  <2> QED
    BY <1>3
<1>5. \A k \in 1..Arity : (k \in Ins => f[k] = 1) /\ (k \in Outs => h[k] = 1)
  OBVIOUS
<1>6. Count(Ins) = Total(f) /\ Count(Outs) = Total(h)
  BY DEF Count
<1> HIDE DEF f, h
<1>7. Total(e) = Total(f) + Total(h)
  <2>1. f \in [1..Arity -> Int] /\ h \in [1..Arity -> Int]
    BY <1>2
  <2> QED
    BY <1>1, <2>1, TotalAdds
<1>8. Total(e) = Arity
  BY <1>1, <1>4, TotalOfOnes
<1>9. Total(f) \in Nat /\ (\A k \in 1..Arity : f[k] <= Total(f))
  BY <1>1, <1>2, TotalBounds
<1>10. Total(h) \in Nat /\ (\A k \in 1..Arity : h[k] <= Total(h))
  BY <1>1, <1>2, TotalBounds
<1>11. Total(f) = 0 => Ins = {}
  <2>1. \A k \in Ins : k \in 1..Arity
    BY DEF Ins
  <2> QED
    BY <1>5, <1>9, <2>1
<1>12. Total(h) = 0 => Outs = {}
  <2>1. \A k \in Outs : k \in 1..Arity
    BY DEF Outs
  <2> QED
    BY <1>5, <1>10, <2>1
<1> QED
  BY <1>6, <1>7, <1>8, <1>9, <1>10, <1>11, <1>12

(* So are their values added. *)
LEMMA SumAll ==
  ASSUME RuleOK, ArgsOK, ResOK, Adds, NEW i \in 1..Width
  PROVE  /\ SumOf(Ins, i) \in Int /\ SumOf(Outs, i) \in Int
         /\ Total([k \in 1..Arity |-> Actual[k][i]]) = SumOf(Ins, i) + SumOf(Outs, i)
         /\ Ins = {} => SumOf(Ins, i) = 0
         /\ Outs = {} => SumOf(Outs, i) = 0
<1>1. Arity \in Nat
  BY ArgsTyped
<1>2. \A k \in 1..Arity : Read(k)[i] \in Int
  BY ReadTyped
<1> DEFINE f == [k \in 1..Arity |-> IF k \in Ins THEN Read(k)[i] ELSE 0]
           h == [k \in 1..Arity |-> IF k \in Outs THEN Read(k)[i] ELSE 0]
           e == [k \in 1..Arity |-> f[k] + h[k]]
<1>3. f \in [1..Arity -> Int] /\ h \in [1..Arity -> Int]
  BY <1>2
<1>4. \A k \in 1..Arity : f[k] + h[k] = Actual[k][i]
  <2> SUFFICES ASSUME NEW k \in 1..Arity PROVE f[k] + h[k] = Actual[k][i]
    OBVIOUS
  <2>1. Actual[k][i] = Read(k)[i] /\ (k \in Ins <=> k \notin Outs)
    BY DEF Actual, Ins, Outs
  <2>2. f[k] = (IF k \in Ins THEN Read(k)[i] ELSE 0) /\ h[k] = (IF k \in Outs THEN Read(k)[i] ELSE 0)
    OBVIOUS
  <2> HIDE DEF f, h
  <2> QED
    BY <1>2, <2>1, <2>2
<1>5. e = [k \in 1..Arity |-> Actual[k][i]]
  <2> HIDE DEF f, h
  <2> QED
    BY <1>4
<1>6. SumOf(Ins, i) = Total(f) /\ SumOf(Outs, i) = Total(h)
  BY DEF SumOf
<1>7. (Ins = {} => \A k \in 1..Arity : f[k] = 0) /\ (Outs = {} => \A k \in 1..Arity : h[k] = 0)
  OBVIOUS
<1> HIDE DEF f, h
<1>8. Total(e) = Total(f) + Total(h)
  BY <1>1, <1>3, TotalAdds
<1>9. Total(f) \in Int /\ Total(h) \in Int
  BY <1>1, <1>3, TotalTyped
<1>10. (Ins = {} => Total(f) = 0) /\ (Outs = {} => Total(h) = 0)
  BY <1>1, <1>3, <1>7, TotalOfZeros
<1> QED
  BY <1>5, <1>6, <1>8, <1>9, <1>10

(* What an average has gathered from all its arguments. *)
AllAdded(m) ==
  /\ m \in AverageMemory
  /\ m.nb_in = Count(Ins) /\ m.nb_out = Count(Outs)
  /\ \A i \in 1..Width : m.sum_in[i] = SumOf(Ins, i) /\ m.sum_out[i] = SumOf(Outs, i)

LEMMA AverageComputes ==
  ASSUME RuleOK, ArgsOK, ResOK, Adds, NEW m, AllAdded(m), NEW o \in [1..Width -> Int], NEW w
  PROVE  /\ averaged(m, o) \in Referred(rule, Actual, o, w)
         /\ averaged(m, o) \in [1..Width -> Int]
<1> DEFINE sum == IF m.nb_in = 0 THEN m.sum_out
                  ELSE IF m.nb_out = 0 THEN m.sum_in ELSE Sum2(m.sum_in, m.sum_out)
           total(i) == Total([k \in 1..Arity |-> Actual[k][i]])
<1>1. /\ m.nb_in = Count(Ins) /\ m.nb_out = Count(Outs) /\ m.nb_in + m.nb_out = Arity
      /\ m.nb_in \in Nat /\ m.nb_out \in Nat /\ Arity \in Nat
  BY CountAll, ArgsTyped DEF AllAdded
<1>2. Len(Actual) = Arity
  BY <1>1, LenIs DEF Actual
<1>3. m.sum_in \in [1..Width -> Int] /\ m.sum_out \in [1..Width -> Int]
  BY DEF AllAdded, AverageMemory
<1>4. CASE Arity = 0
  <2>1. averaged(m, o) = o
    BY <1>1, <1>4 DEF averaged
  <2>2. Referred(rule, Actual, o, w) = {o}
    BY <1>2, <1>4 DEF Referred, Adds
  <2> QED
    BY <2>1, <2>2
<1>5. CASE Arity # 0
  <2>1. averaged(m, o) = [i \in DOMAIN sum |-> sum[i] \div Arity]
    BY <1>1, <1>5 DEF averaged
  <2>2. Referred(rule, Actual, o, w) = {[i \in 1..Width |-> total(i) \div Arity]}
    BY <1>2, <1>5 DEF Referred, Adds
  <2>3. sum \in [1..Width -> Int]
    <3>1. Sum2(m.sum_in, m.sum_out) \in [1..Width -> Int]
      BY <1>3, Sum2Typed
    <3> QED
      BY <1>3, <3>1
  <2>4. ASSUME NEW i \in 1..Width PROVE sum[i] = total(i) /\ sum[i] \div Arity \in Int
    <3>1. /\ SumOf(Ins, i) \in Int /\ SumOf(Outs, i) \in Int
          /\ total(i) = SumOf(Ins, i) + SumOf(Outs, i)
          /\ Ins = {} => SumOf(Ins, i) = 0
          /\ Outs = {} => SumOf(Outs, i) = 0
      BY SumAll
    <3>2. m.sum_in[i] = SumOf(Ins, i) /\ m.sum_out[i] = SumOf(Outs, i)
      BY DEF AllAdded
    <3>3. Sum2(m.sum_in, m.sum_out)[i] = m.sum_in[i] + m.sum_out[i]
      BY <1>3 DEF Sum2
    <3>4. (m.nb_in = 0 => Ins = {}) /\ (m.nb_out = 0 => Outs = {})
      BY <1>1, CountAll
    <3> HIDE DEF total
    <3>5. sum[i] = total(i)
      BY <3>1, <3>2, <3>3, <3>4
    <3>6. sum[i] \div Arity \in Int
      BY <1>1, <1>5, <3>1, <3>5
    <3> QED
      BY <3>5, <3>6
  <2> HIDE DEF sum, total
  <2>5. [i \in DOMAIN sum |-> sum[i] \div Arity] = [i \in 1..Width |-> total(i) \div Arity]
    BY <2>3, <2>4
  <2>6. [i \in DOMAIN sum |-> sum[i] \div Arity] \in [1..Width -> Int]
    BY <2>3, <2>4
  <2> QED
    BY <2>1, <2>2, <2>5, <2>6
<1> QED
  BY <1>4, <1>5

-----------------------------------------------------------------------------
(* What an operation has, when the out-arguments have been read or not,    *)
(* and what it has of them.                                                *)
MemoryOK(m, ok) ==
  /\ rule.op \in Extremum => m \in ExtremumMemory
  /\ Adds => m \in AverageMemory /\ m.sum_out_computed = ok
  /\ Keeps => LastRead(m)

OutsIn(m) ==
  /\ Adds => m.nb_out = Count(Outs) /\ \A i \in 1..Width : m.sum_out[i] = SumOf(Outs, i)
  /\ Keeps => \A k \in Outs : m.read[k] = Read(k)

LEMMA ThreeWays ==
  /\ rule.op \in Extremum \/ Adds \/ Keeps
  /\ ~(rule.op \in Extremum /\ Adds) /\ ~(rule.op \in Extremum /\ Keeps) /\ ~(Adds /\ Keeps)
BY DEF Adds, Keeps, Extremum

LEMMA StartKeeps ==
  ASSUME Keeps, LastRead(mem)
  PROVE  LastRead(Start) /\ Start.read = mem.read
<1>1. Start = mem \/ Start = [mem EXCEPT !.from_out = FALSE]
  BY DEF Start, on_computation_start, Keeps
<1>2. mem \in [read : {mem.read}, from_out : {mem.from_out}, ticks : {mem.ticks}]
  BY DEF LastRead
<1>3. mem.read = [k \in 1..Arity |-> mem.read[k]]
  BY DEF LastRead
<1>4. CASE Start = mem
  BY <1>4
<1>5. CASE Start = [mem EXCEPT !.from_out = FALSE]
  <2>1. /\ Start \in [read : {mem.read}, from_out : {FALSE}, ticks : {mem.ticks}]
        /\ Start.read = mem.read /\ Start.from_out = FALSE /\ Start.ticks = mem.ticks
    BY <1>2, <1>5
  <2> QED
    BY <1>3, <2>1 DEF LastRead
<1> QED
  BY <1>1, <1>4, <1>5

LEMMA StartExtremum ==
  ASSUME RuleOK, rule.op \in Extremum
  PROVE  /\ Start \in ExtremumMemory
         /\ Start.value_in = NoBound(rule.op) /\ Start.value_out = NoBound(rule.op)
<1>1. Start = [value_out |-> NoBound(rule.op), value_in |-> NoBound(rule.op)]
  BY DEF Start, on_computation_start, Extremum
<1>2. NoBound(rule.op) \in Int
  BY Typed DEF NoBound
<1> QED
  BY <1>1, <1>2 DEF ExtremumMemory

LEMMA ZerosTyped ==
  ASSUME RuleOK
  PROVE  Zeros(rule.res) \in [1..Width -> Int] /\ \A i \in 1..Width : Zeros(rule.res)[i] = 0
BY DEF Zeros, Width

LEMMA StartAdds ==
  ASSUME RuleOK, Adds, mem \in AverageMemory
  PROVE  /\ Start \in AverageMemory
         /\ Start.nb_in = 0 /\ Start.sum_in = Zeros(rule.res) /\ Start.sum_out_computed = TRUE
         /\ Start.nb_out = IF mem.sum_out_computed THEN mem.nb_out ELSE 0
         /\ Start.sum_out = IF mem.sum_out_computed THEN mem.sum_out ELSE Zeros(rule.res)
<1>1. /\ mem.nb_in \in Int /\ mem.nb_out \in Int /\ mem.sum_out_computed \in BOOLEAN
      /\ mem.sum_in \in [1..Width -> Int] /\ mem.sum_out \in [1..Width -> Int]
      /\ mem = [sum_out |-> mem.sum_out, nb_out |-> mem.nb_out, sum_in |-> mem.sum_in, nb_in |-> mem.nb_in,
                sum_out_computed |-> mem.sum_out_computed]
  BY DEF AverageMemory
<1> DEFINE sum == IF mem.sum_out_computed THEN mem.sum_out ELSE Zeros(rule.res)
           nb == IF mem.sum_out_computed THEN mem.nb_out ELSE 0
<1>2. sum \in [1..Width -> Int] /\ nb \in Int /\ Zeros(rule.res) \in [1..Width -> Int]
  BY <1>1, ZerosTyped
<1>3. Start = [mem EXCEPT !.sum_in = Zeros(rule.res), !.nb_in = 0, !.sum_out_computed = TRUE,
                          !.sum_out = sum, !.nb_out = nb]
  BY DEF Start, on_computation_start, Adds, Extremum
<1> HIDE DEF sum, nb
<1>4. Start = [sum_out |-> sum, nb_out |-> nb, sum_in |-> Zeros(rule.res), nb_in |-> 0, sum_out_computed |-> TRUE]
  BY <1>1, <1>3
<1>5. Start \in AverageMemory
  BY <1>2, <1>4 DEF AverageMemory
<1> QED
  BY <1>4, <1>5 DEF sum, nb

(* When they are all ready, the out-arguments are all read. *)
LEMMA GivensAre ==
  ASSUME RuleOK, ArgsOK, OutsReady, ~out_ok
  PROVE  Givens = Outs
<1>1. Arity \in Nat /\ DOMAIN args = 1..Arity
  BY ArgsTyped
<1>2. \A k \in 1..Arity : args[k].kind = "out" => args[k].ready
  BY <1>1 DEF OutsReady
<1>3. \A k \in 1..Arity : \A j \in 1..k : j \in 1..Arity
  BY <1>1
<1> QED
  BY <1>2, <1>3 DEF Givens, Outs, Given

LEMMA OutsOrIns ==
  ASSUME NEW k \in 1..Arity PROVE k \in Ins <=> k \notin Outs
BY DEF Ins, Outs

(* What has been gathered when the result is written. *)
LEMMA GatheredKeeps ==
  ASSUME RuleOK, ArgsOK, Keeps, LastRead(mem), OutsReady, out_ok => OutsIn(mem)
  PROVE  LastRead(ReadIns(ReadOuts(Start))) /\ ReadIns(ReadOuts(Start)).read = Actual
<1> DEFINE s == ReadOuts(Start)
           m == ReadIns(s)
<1>1. LastRead(Start) /\ Start.read = mem.read
  BY StartKeeps
<1>2. LastRead(s) /\ \A k \in Outs : s.read[k] = Read(k)
  <2>1. CASE out_ok
    <3>1. s = Start
      BY <2>1 DEF ReadOuts
    <3> HIDE DEF s
    <3> QED
      BY <1>1, <2>1, <3>1 DEF OutsIn
  <2>2. CASE ~out_ok
    <3>1. LastRead(s) /\ \A k \in 1..Arity : s.read[k] = IF k \in Givens THEN Read(k) ELSE Start.read[k]
      BY <1>1, <2>2, KeepsOuts
    <3>2. \A k \in Outs : k \in 1..Arity /\ k \in Givens
      BY <2>2, GivensAre DEF Outs
    <3> HIDE DEF s
    <3> QED
      BY <3>1, <3>2
  <2> QED
    BY <2>1, <2>2
<1> HIDE DEF s
<1>3. LastRead(m) /\ \A k \in 1..Arity : m.read[k] = IF k \in Ins THEN Read(k) ELSE s.read[k]
  BY <1>2, KeepsIns
<1> HIDE DEF m
<1>4. \A k \in 1..Arity : m.read[k] = Read(k)
  BY <1>2, <1>3, OutsOrIns
<1>5. m.read = [k \in 1..Arity |-> m.read[k]]
  BY <1>3 DEF LastRead
<1>6. m.read = Actual
  BY <1>4, <1>5 DEF Actual
<1> QED
  BY <1>3, <1>6 DEF m, s

LEMMA GatheredAdds ==
  ASSUME RuleOK, ArgsOK, ResOK, Adds, mem \in AverageMemory, OutsReady, mem.sum_out_computed = out_ok,
         out_ok \in BOOLEAN, out_ok => OutsIn(mem)
  PROVE  AllAdded(ReadIns(ReadOuts(Start))) /\ ReadIns(ReadOuts(Start)).sum_out_computed = TRUE
<1> DEFINE s == ReadOuts(Start)
           m == ReadIns(s)
<1>1. /\ Start \in AverageMemory
      /\ Start.nb_in = 0 /\ Start.sum_in = Zeros(rule.res) /\ Start.sum_out_computed = TRUE
      /\ Start.nb_out = IF mem.sum_out_computed THEN mem.nb_out ELSE 0
      /\ Start.sum_out = IF mem.sum_out_computed THEN mem.sum_out ELSE Zeros(rule.res)
  BY StartAdds
<1>z. \A i \in 1..Width : Zeros(rule.res)[i] = 0
  BY ZerosTyped
<1>t. Count(Outs) \in Int /\ Count(Ins) \in Int /\ \A i \in 1..Width : SumOf(Outs, i) \in Int /\ SumOf(Ins, i) \in Int
  <2>1. Count(Outs) \in Int /\ Count(Ins) \in Int
    BY CountAll
  <2>2. \A i \in 1..Width : SumOf(Outs, i) \in Int /\ SumOf(Ins, i) \in Int
    BY SumAll
  <2> QED
    BY <2>1, <2>2
<1>2. /\ s \in AverageMemory
      /\ SameIns(s, Start)
      /\ s.nb_out = Count(Outs)
      /\ \A i \in 1..Width : s.sum_out[i] = SumOf(Outs, i)
  <2>1. CASE out_ok
    <3>1. s = Start
      BY <2>1 DEF ReadOuts
    <3>2. Start.nb_out = mem.nb_out /\ Start.sum_out = mem.sum_out
      BY <1>1, <2>1
    <3> HIDE DEF s
    <3> QED
      BY <1>1, <2>1, <3>1, <3>2 DEF OutsIn, SameIns
  <2>2. CASE ~out_ok
    <3>1. /\ s \in AverageMemory
          /\ SameIns(s, Start)
          /\ s.nb_out = Start.nb_out + Count(Givens)
          /\ \A i \in 1..Width : s.sum_out[i] = Start.sum_out[i] + SumOf(Givens, i)
      BY <1>1, <2>2, AveragesOuts
    <3>2. Givens = Outs
      BY <2>2, GivensAre
    <3>3. Start.nb_out = 0 /\ Start.sum_out = Zeros(rule.res)
      BY <1>1, <2>2
    <3> HIDE DEF s
    <3> QED
      BY <1>z, <1>t, <3>1, <3>2, <3>3
  <2> QED
    BY <2>1, <2>2
<1> HIDE DEF s
<1>3. /\ m \in AverageMemory
      /\ SameOuts(m, s)
      /\ m.nb_in = s.nb_in + Count(Ins)
      /\ \A i \in 1..Width : m.sum_in[i] = s.sum_in[i] + SumOf(Ins, i)
  BY <1>2, AveragesIns
<1> HIDE DEF m
<1>4. s.nb_in = 0 /\ s.sum_in = Zeros(rule.res) /\ s.sum_out_computed = TRUE
  BY <1>1, <1>2 DEF SameIns
<1>5. m.nb_in = Count(Ins) /\ \A i \in 1..Width : m.sum_in[i] = SumOf(Ins, i)
  BY <1>z, <1>t, <1>3, <1>4
<1>6. m.nb_out = Count(Outs) /\ (\A i \in 1..Width : m.sum_out[i] = SumOf(Outs, i)) /\ m.sum_out_computed = TRUE
  BY <1>2, <1>3, <1>4 DEF SameOuts
<1>7. AllAdded(m)
  BY <1>3, <1>5, <1>6 DEF AllAdded
<1> QED
  BY <1>6, <1>7 DEF m, s

LEMMA GatheredExtremum ==
  ASSUME RuleOK, ArgsOK, ResOK, rule.op \in Extremum, OutsReady,
         Outs = {} \/ (Ins = {} /\ ~out_ok)
  PROVE  LET m == ReadIns(ReadOuts(Start))
             x == Better(rule.op, m.value_in, m.value_out)
         IN  /\ m \in ExtremumMemory
             /\ x = NoBound(rule.op) \/ \E k \in 1..Arity : x = Read(k)[1]
             /\ \A k \in 1..Arity : Beyond(rule.op, x, Read(k)[1])
<1> DEFINE s == ReadOuts(Start)
           m == ReadIns(s)
           b == NoBound(rule.op)
           x == Better(rule.op, m.value_in, m.value_out)
<1>1. Start \in ExtremumMemory /\ Start.value_in = b /\ Start.value_out = b
  BY StartExtremum
<1>b. b \in (-Big)..Big /\ \A k \in 1..Arity : Read(k)[1] \in (-Big)..Big
  BY Typed, ReadTyped DEF NoBound
<1>2. /\ s \in ExtremumMemory
      /\ s.value_in = b
      /\ s.value_out = b \/ \E k \in Outs : s.value_out = Read(k)[1]
      /\ Outs # {} => \A k \in Outs : Beyond(rule.op, s.value_out, Read(k)[1])
  <2>1. CASE out_ok
    <3>1. s = Start
      BY <2>1 DEF ReadOuts
    <3> HIDE DEF s
    <3> QED
      BY <1>1, <2>1, <3>1
  <2>2. CASE ~out_ok
    <3>1. Givens = Outs
      BY <2>2, GivensAre
    <3>2. /\ s \in ExtremumMemory
          /\ s.value_in = Start.value_in
          /\ s.value_out = Start.value_out \/ \E k \in Givens : s.value_out = Read(k)[1]
          /\ \A k \in Givens : Beyond(rule.op, s.value_out, Read(k)[1])
      BY <1>1, <2>2, BestOfOuts
    <3> HIDE DEF s
    <3> QED
      BY <1>1, <3>1, <3>2
  <2> QED
    BY <2>1, <2>2
<1> HIDE DEF s
<1>3. /\ m \in ExtremumMemory
      /\ m.value_out = s.value_out
      /\ m.value_in = s.value_in \/ \E k \in Ins : m.value_in = Read(k)[1]
      /\ \A k \in Ins : Beyond(rule.op, m.value_in, Read(k)[1])
  BY <1>2, BestOfIns
<1> HIDE DEF m
<1>4. /\ Ins \subseteq 1..Arity /\ Outs \subseteq 1..Arity
      /\ \A k \in 1..Arity : k \in Ins \/ k \in Outs
  BY DEF Ins, Outs
<1>5. CASE Outs = {}
  <2>1. m.value_out = b /\ m.value_in \in (-Big)..Big
    BY <1>b, <1>2, <1>3, <1>4, <1>5
  <2>2. x = m.value_in
    BY <2>1, NoBoundIs
  <2> HIDE DEF x, b
  <2> QED
    BY <1>2, <1>3, <1>4, <1>5, <2>2 DEF x, m, s, b
<1>6. CASE Ins = {} /\ ~out_ok
  <2>1. m.value_in = b /\ m.value_out = s.value_out /\ m.value_out \in (-Big)..Big
    BY <1>b, <1>2, <1>3, <1>4, <1>6
  <2>2. x = m.value_out
    BY <2>1, NoBoundIs
  <2> HIDE DEF x, b
  <2> QED
    BY <1>2, <1>3, <1>4, <1>6, <2>1, <2>2 DEF x, m, s, b
<1> QED
  BY <1>5, <1>6

-----------------------------------------------------------------------------
(* A rule that runs: what it has of its arguments, and what its result is. *)
Running ==
  /\ RuleOK /\ ArgsOK /\ ResOK
  /\ MemoryOK(mem, out_ok)
  /\ out_ok \in BOOLEAN /\ updated_once = out_ok
  /\ out_ok => \A k \in Outs : args[k].ready
  /\ out_ok => OutsIn(mem)
  /\ rule.op \in Extremum /\ updated_once /\ Ins = {} => res.ready
  /\ updated_once /\ (\A k \in 1..Arity : args[k].fresh => args[k].kind = "self")
       => res.val \in Reference(rule, Seen)

Waiting ==
  /\ rule \in Rule
  /\ args = <<>>
  /\ mem = NewMemory(rule)
  /\ out_ok = FALSE /\ updated_once = FALSE
  /\ res.val = Zeros(rule.res)

OperationsInv ==
  /\ phase \in {"declared", "refused", "running"}
  /\ phase = "running" => Running
  /\ phase # "running" => Waiting

(* The arguments of a min or a max are all of them read once, or none is.  *)
OneKind ==
  \A r \in Rule : r.op \in Extremum =>
    \A kinds \in Kinds(r) :
      (\A k \in DOMAIN r.args : kinds[k] = "out") \/ (\A k \in DOMAIN r.args : kinds[k] # "out")

LEMMA ZerosAreVals ==
  ASSUME NEW t \in DataType, Big \in Nat
  PROVE  Zeros(t) \in Vals(t) /\ Zeros(t) \in Seq(Int)
<1>1. nb_of_doubles(t) \in Nat
  <2>1. size(t) \in Nat /\ t.width \in Nat
    BY SizeType DEF DataType
  <2> QED
    BY <2>1 DEF nb_of_doubles
<1> QED
  BY <1>1 DEF Zeros, Vals

(* What does not move with the in-arguments. *)
LEMMA SameArgs ==
  ASSUME rule' = rule, Len(args) = Arity, Arity \in Nat,
         \A k \in 1..Arity : args'[k].kind = args[k].kind,
         \A k \in Outs : args'[k].val = args[k].val
  PROVE  /\ Ins' = Ins /\ Outs' = Outs
         /\ Count(Outs)' = Count(Outs)
         /\ \A i : SumOf(Outs, i)' = SumOf(Outs, i)
         /\ \A k \in Outs : Read(k)' = Read(k)
<1>1. Arity' = Arity
  BY DEF Arity
<1>2. Ins' = Ins /\ Outs' = Outs
  BY <1>1 DEF Ins, Outs
<1>3. \A k \in Outs : Read(k)' = Read(k)
  BY <1>2 DEF Read, Outs
<1>4. Count(Outs)' = Count(Outs)
  BY <1>1, <1>2 DEF Count
<1>5. ASSUME NEW i PROVE SumOf(Outs, i)' = SumOf(Outs, i)
  <2> DEFINE f == [k \in 1..Arity |-> IF k \in Outs THEN Read(k)[i] ELSE 0]
  <2>1. f' = f
    BY <1>1, <1>2, <1>3
  <2> HIDE DEF f
  <2>2. Total(f)' = Total(f)
    BY <2>1
  <2> QED
    BY <2>2 DEF SumOf, f
<1> QED
  BY <1>2, <1>3, <1>4, <1>5

LEMMA SameOutsIn ==
  ASSUME rule' = rule, Len(args) = Arity, Arity \in Nat, OutsIn(mem),
         \A k \in 1..Arity : args'[k].kind = args[k].kind,
         \A k \in Outs : args'[k].val = args[k].val,
         Adds => mem'.nb_out = mem.nb_out /\ mem'.sum_out = mem.sum_out,
         Keeps => \A k \in Outs : mem'.read[k] = mem.read[k]
  PROVE  OutsIn(mem)'
<1>1. /\ Outs' = Outs
      /\ Count(Outs)' = Count(Outs)
      /\ \A i : SumOf(Outs, i)' = SumOf(Outs, i)
      /\ \A k \in Outs : Read(k)' = Read(k)
  BY SameArgs
<1>2. Adds' = Adds /\ Keeps' = Keeps /\ Width' = Width
  BY DEF Adds, Keeps, Width
<1>3. Adds => (mem.nb_out = Count(Outs) /\ \A i \in 1..Width : mem.sum_out[i] = SumOf(Outs, i))'
  BY <1>1, <1>2 DEF OutsIn
<1>4. Keeps => (\A k \in Outs : mem.read[k] = Read(k))'
  BY <1>1 DEF OutsIn
<1> QED
  BY <1>2, <1>3, <1>4 DEF OutsIn

(* The memory is typed whatever the rule reads. *)
LEMMA MemoryOKSame ==
  ASSUME rule' = rule, NEW m, NEW ok, MemoryOK(m, ok), mem' = m, out_ok' = ok
  PROVE  MemoryOK(mem, out_ok)'
BY DEF MemoryOK, Adds, Keeps, ExtremumMemory, AverageMemory, Width, LastRead, Arity

LEMMA InitInv == Init => OperationsInv
BY DEF Init, OperationsInv, Waiting

LEMMA ReceiveInv == OperationsInv /\ Receive => OperationsInv'
<1> SUFFICES ASSUME OperationsInv, Receive PROVE OperationsInv'
  OBVIOUS
<1>1. Waiting
  BY DEF OperationsInv, Receive
<1>2. UNCHANGED <<rule, mem, out_ok, updated_once, res, report, old, moves>>
  BY DEF Receive
<1>3. CASE phase' = "refused" /\ UNCHANGED args
  BY <1>1, <1>2, <1>3 DEF OperationsInv, Waiting
<1>4. CASE /\ WellTyped(rule.op, rule.res, rule.args)
           /\ phase' = "running"
           /\ \E kinds \in Kinds(rule) :
                args' = [k \in DOMAIN kinds |->
                           [kind |-> kinds[k], val |-> Zeros(rule.args[k]), ready |-> FALSE, fresh |-> FALSE]]
  <2>1. RuleOK
    BY <1>1, <1>4 DEF RuleOK, Waiting
  <2>2. /\ rule.res \in DataType /\ rule.args \in Seq(DataType)
        /\ Arity \in Nat /\ DOMAIN rule.args = 1..Arity /\ Width \in Nat /\ Big \in Nat
    BY <2>1, Typed
  <2>3. PICK kinds \in Kinds(rule) :
          args' = [k \in DOMAIN kinds |->
                     [kind |-> kinds[k], val |-> Zeros(rule.args[k]), ready |-> FALSE, fresh |-> FALSE]]
    BY <1>4
  <2>4. kinds \in [1..Arity -> {"in", "out", "self"}]
    BY <2>1, <2>2, KindsAssumption DEF RuleOK
  <2>5. rule' = rule /\ Arity' = Arity /\ Width' = Width
    BY <1>2 DEF Arity, Width
  <2>6. \A k \in 1..Arity : Zeros(rule.args[k]) \in Vals(rule.args[k]) /\ Zeros(rule.args[k]) \in Seq(Int)
    BY <2>2, ZerosAreVals
  <2>7. args' = [k \in 1..Arity |->
                   [kind |-> kinds[k], val |-> Zeros(rule.args[k]), ready |-> FALSE, fresh |-> FALSE]]
    BY <2>3, <2>4
  <2>8. ArgsOK'
    <3>1. args' \in [1..Arity -> [kind : {"in", "out", "self"}, val : Seq(Int), ready : BOOLEAN, fresh : BOOLEAN]]
      BY <2>4, <2>6, <2>7
    <3>2. KindOf' = kinds
      BY <2>4, <2>5, <2>7 DEF KindOf
    <3>3. \A k \in 1..Arity : args'[k].val \in Vals(rule.args[k])
      BY <2>6, <2>7
    <3> QED
      BY <2>3, <2>5, <3>1, <3>2, <3>3 DEF ArgsOK
  <2>9. RuleOK'
    BY <1>2, <2>1 DEF RuleOK
  <2>10. ResOK'
    <3>1. Zeros(rule.res) \in [1..Width -> (-Big)..Big]
      BY <2>2 DEF Zeros, Width
    <3>2. rule.op = "average" => Zeros(rule.res) \in [1..Width -> Int]
      BY <2>1, ZerosTyped
    <3>3. rule.op \in Extremum => Width = 1
      <4>1. rule.op \in Extremum => rule.res = Scalar
        BY <2>1 DEF Extremum, RuleOK, WellTyped, check_types_min_max
      <4>2. nb_of_doubles(Scalar) = 1
        BY DEF nb_of_doubles, size, Scalar
      <4> QED
        BY <4>1, <4>2 DEF Width
    <3>4. res'.val = Zeros(rule.res) /\ rule' = rule /\ Width = nb_of_doubles(rule.res)
      BY <1>1, <1>2 DEF Waiting, Width
    <3> QED
      BY <3>1, <3>2, <3>3, <3>4 DEF ResOK
  <2>11. MemoryOK(mem, out_ok)
    <3>1. mem = NewMemory(rule) /\ out_ok = FALSE
      BY <1>1 DEF Waiting
    <3>2. ASSUME rule.op \in Extremum PROVE mem \in ExtremumMemory
      <4>1. mem = [value_out |-> NoBound(rule.op), value_in |-> NoBound(rule.op)]
        BY <3>1, <3>2 DEF NewMemory, Extremum
      <4> QED
        BY <2>2, <4>1 DEF ExtremumMemory, NoBound
    <3>3. ASSUME Adds PROVE mem \in AverageMemory /\ mem.sum_out_computed = FALSE
      <4>1. mem = [sum_out |-> Zeros(rule.res), nb_out |-> 0, sum_in |-> Zeros(rule.res), nb_in |-> 0,
                   sum_out_computed |-> FALSE]
        BY <3>1, <3>3 DEF NewMemory, Adds, Extremum
      <4>2. Zeros(rule.res) \in [1..Width -> Int]
        BY <2>1, ZerosTyped
      <4> QED
        BY <4>1, <4>2 DEF AverageMemory
    <3>4. ASSUME Keeps PROVE LastRead(mem)
      <4>1. mem = [read |-> [k \in 1..Arity |-> Zeros(rule.args[k])], from_out |-> FALSE, ticks |-> 0]
        BY <2>2, <3>1, <3>4 DEF NewMemory, Keeps
      <4> QED
        BY <4>1 DEF LastRead
    <3> QED
      BY <3>1, <3>2, <3>3, <3>4 DEF MemoryOK
  <2>12. MemoryOK(mem, out_ok)'
    BY <1>2, <2>5, <2>11, MemoryOKSame
  <2>13. out_ok' = FALSE /\ updated_once' = FALSE
    BY <1>1, <1>2 DEF Waiting
  <2>14. Running'
    BY <2>8, <2>9, <2>10, <2>12, <2>13 DEF Running
  <2> QED
    BY <1>4, <2>14 DEF OperationsInv
<1> QED
  BY <1>3, <1>4 DEF Receive

LEMMA MoveInInv == ASSUME OperationsInv, NEW k \in DOMAIN args, MoveIn(k) PROVE OperationsInv'
<1>1. phase = "running" /\ Running
  <2>1. ~Waiting
    BY DEF Waiting
  <2> QED
    BY <2>1 DEF OperationsInv
<1>2. UNCHANGED <<rule, phase, mem, out_ok, updated_once, res, report, old>>
  BY DEF MoveIn
<1>3. PICK v \in Contents(rule.args[k]), ready \in BOOLEAN :
        args' = [args EXCEPT ![k].val = v, ![k].ready = ready, ![k].fresh = TRUE]
  BY DEF MoveIn
<1>4. args[k].kind = "in"
  BY DEF MoveIn
<1>5. /\ args \in [1..Arity -> [kind : {"in", "out", "self"}, val : Seq(Int), ready : BOOLEAN, fresh : BOOLEAN]]
      /\ KindOf \in Kinds(rule) /\ \A j \in 1..Arity : args[j].val \in Vals(rule.args[j])
  BY <1>1 DEF Running, ArgsOK
<1>6. k \in 1..Arity /\ Arity \in Nat /\ DOMAIN rule.args = 1..Arity /\ Len(args) = Arity /\ Big \in Nat
      /\ rule.args \in Seq(DataType)
  BY <1>1, <1>5, Typed, ArgsTyped DEF Running
<1>7. v \in Vals(rule.args[k]) /\ v \in Seq(Int)
  <2>1. v \in [1..nb_of_doubles(rule.args[k]) -> (-Big)..Big]
    BY <1>1, <1>5, <1>6, KindsAssumption DEF Running, RuleOK
  <2>2. size(rule.args[k]) \in Nat /\ rule.args[k].width \in Nat
    <3>1. rule.args[k] \in DataType
      BY <1>6
    <3> QED
      BY <3>1, SizeType DEF DataType
  <2>3. nb_of_doubles(rule.args[k]) \in Nat
    BY <2>2 DEF nb_of_doubles
  <2> QED
    BY <1>6, <2>1, <2>3 DEF Vals
<1>8. ASSUME NEW j \in 1..Arity
      PROVE  /\ args'[j].kind = args[j].kind
             /\ j # k => args'[j] = args[j]
             /\ j = k => args'[j].val = v /\ args'[j].fresh = TRUE
  BY <1>3, <1>5, <1>6
<1>9. ArgsOK'
  <2>1. Arity' = Arity
    BY <1>2 DEF Arity
  <2>2. args' \in [1..Arity -> [kind : {"in", "out", "self"}, val : Seq(Int), ready : BOOLEAN, fresh : BOOLEAN]]
    <3> DEFINE R == [kind : {"in", "out", "self"}, val : Seq(Int), ready : BOOLEAN, fresh : BOOLEAN]
               a == args[k]
               x == [a EXCEPT !.val = v, !.ready = ready, !.fresh = TRUE]
    <3>1. a \in R
      BY <1>5, <1>6
    <3>2. x \in R
      <4> HIDE DEF a
      <4> QED
        BY <1>7, <3>1
    <3>3. args' = [args EXCEPT ![k] = x]
      BY <1>3, <1>5, <1>6
    <3> HIDE DEF x, R
    <3> QED
      BY <1>5, <1>6, <3>2, <3>3 DEF R
  <2>3. KindOf' = KindOf
    BY <1>8, <2>1 DEF KindOf
  <2>4. \A j \in 1..Arity : args'[j].val \in Vals(rule.args[j])
    BY <1>5, <1>7, <1>8
  <2> QED
    BY <1>2, <1>5, <2>1, <2>2, <2>3, <2>4 DEF ArgsOK
<1>10. RuleOK' /\ ResOK' /\ MemoryOK(mem, out_ok)'
  <2>1. MemoryOK(mem, out_ok)'
    BY <1>1, <1>2, MemoryOKSame DEF Running
  <2> QED
    BY <1>1, <1>2, <2>1 DEF Running, RuleOK, ResOK
<1>11. \A j \in Outs : j # k /\ j \in 1..Arity
  BY <1>4 DEF Outs
<1>12. Ins' = Ins /\ Outs' = Outs /\ Arity' = Arity
  <2>1. \A j \in Outs : args'[j].val = args[j].val
    BY <1>8, <1>11
  <2>2. Ins' = Ins /\ Outs' = Outs
    BY <1>2, <1>6, <1>8, <2>1, SameArgs
  <2> QED
    BY <1>2, <2>2 DEF Arity
<1>13. out_ok => OutsIn(mem)'
  <2>1. \A j \in Outs : args'[j].val = args[j].val
    BY <1>8, <1>11
  <2>2. ASSUME out_ok PROVE OutsIn(mem)'
    <3>1. OutsIn(mem)
      BY <1>1, <2>2 DEF Running
    <3> QED
      BY <1>2, <1>6, <1>8, <2>1, <3>1, SameOutsIn
  <2> QED
    BY <2>2
<1>14. out_ok => \A j \in Outs : args'[j].ready
  BY <1>1, <1>8, <1>11 DEF Running
<1>15. ~(\A j \in 1..Arity : args'[j].fresh => args'[j].kind = "self")
  BY <1>4, <1>6, <1>8
<1>16. (rule.op \in Extremum /\ updated_once /\ Ins = {} => res.ready)'
  BY <1>1, <1>2, <1>12 DEF Running
<1>17. Running'
  BY <1>1, <1>2, <1>9, <1>10, <1>12, <1>13, <1>14, <1>15, <1>16 DEF Running
<1> QED
  BY <1>1, <1>2, <1>17 DEF OperationsInv

LEMMA OutReadyInv == ASSUME OperationsInv, NEW k \in DOMAIN args, OutReady(k) PROVE OperationsInv'
<1>1. phase = "running" /\ Running
  <2>1. ~Waiting
    BY DEF Waiting
  <2> QED
    BY <2>1 DEF OperationsInv
<1>2. UNCHANGED <<rule, phase, mem, out_ok, updated_once, res, report, old>>
  BY DEF OutReady
<1>3. PICK v \in Contents(rule.args[k]) : args' = [args EXCEPT ![k].val = v, ![k].ready = TRUE]
  BY DEF OutReady
<1>4. args[k].kind = "out" /\ ~args[k].ready
  BY DEF OutReady
<1>5. /\ args \in [1..Arity -> [kind : {"in", "out", "self"}, val : Seq(Int), ready : BOOLEAN, fresh : BOOLEAN]]
      /\ KindOf \in Kinds(rule) /\ \A j \in 1..Arity : args[j].val \in Vals(rule.args[j])
  BY <1>1 DEF Running, ArgsOK
<1>6. k \in 1..Arity /\ Arity \in Nat /\ DOMAIN rule.args = 1..Arity /\ Len(args) = Arity /\ Big \in Nat
      /\ rule.args \in Seq(DataType)
  BY <1>1, <1>5, Typed, ArgsTyped DEF Running
<1>7. v \in Vals(rule.args[k]) /\ v \in Seq(Int)
  <2>1. v \in [1..nb_of_doubles(rule.args[k]) -> (-Big)..Big]
    BY <1>1, <1>5, <1>6, KindsAssumption DEF Running, RuleOK
  <2>2. size(rule.args[k]) \in Nat /\ rule.args[k].width \in Nat
    <3>1. rule.args[k] \in DataType
      BY <1>6
    <3> QED
      BY <3>1, SizeType DEF DataType
  <2>3. nb_of_doubles(rule.args[k]) \in Nat
    BY <2>2 DEF nb_of_doubles
  <2> QED
    BY <1>6, <2>1, <2>3 DEF Vals
<1>8. ~out_ok
  <2>1. k \in Outs
    BY <1>4, <1>6 DEF Outs
  <2> QED
    BY <1>1, <1>4, <2>1 DEF Running
<1>9. ASSUME NEW j \in 1..Arity
      PROVE  args'[j].kind = args[j].kind /\ (j # k => args'[j] = args[j]) /\ (j = k => args'[j].val = v)
  BY <1>3, <1>5, <1>6
<1>10. ArgsOK'
  <2>1. Arity' = Arity
    BY <1>2 DEF Arity
  <2>2. args' \in [1..Arity -> [kind : {"in", "out", "self"}, val : Seq(Int), ready : BOOLEAN, fresh : BOOLEAN]]
    <3> DEFINE R == [kind : {"in", "out", "self"}, val : Seq(Int), ready : BOOLEAN, fresh : BOOLEAN]
               a == args[k]
               x == [a EXCEPT !.val = v, !.ready = TRUE]
    <3>1. a \in R
      BY <1>5, <1>6
    <3>2. x \in R
      <4> HIDE DEF a
      <4> QED
        BY <1>7, <3>1
    <3>3. args' = [args EXCEPT ![k] = x]
      BY <1>3, <1>5, <1>6
    <3> HIDE DEF x, R
    <3> QED
      BY <1>5, <1>6, <3>2, <3>3 DEF R
  <2>3. KindOf' = KindOf
    BY <1>9, <2>1 DEF KindOf
  <2>4. \A j \in 1..Arity : args'[j].val \in Vals(rule.args[j])
    BY <1>5, <1>7, <1>9
  <2> QED
    BY <1>2, <1>5, <2>1, <2>2, <2>3, <2>4 DEF ArgsOK
<1>11. RuleOK' /\ ResOK' /\ MemoryOK(mem, out_ok)'
  <2>1. MemoryOK(mem, out_ok)'
    BY <1>1, <1>2, MemoryOKSame DEF Running
  <2> QED
    BY <1>1, <1>2, <2>1 DEF Running, RuleOK, ResOK
<1>12. out_ok' = FALSE /\ updated_once' = FALSE
  BY <1>1, <1>2, <1>8 DEF Running
<1>13. Running'
  BY <1>10, <1>11, <1>12 DEF Running
<1> QED
  BY <1>1, <1>2, <1>13 DEF OperationsInv

(* An evaluation that is given up keeps nothing of what it read.           *)
LEMMA Aborted ==
  ASSUME RuleOK, ArgsOK, ResOK, MemoryOK(mem, out_ok), ~out_ok
  PROVE  MemoryOK(on_read_out_arg_aborted(rule.op, ReadOuts(Start)), FALSE)
<1> DEFINE s == ReadOuts(Start)
           m == on_read_out_arg_aborted(rule.op, s)
<1>1. ASSUME rule.op \in Extremum PROVE m \in ExtremumMemory
  <2>1. s \in ExtremumMemory
    BY <1>1, StartExtremum, BestOfOuts
  <2>2. NoBound(rule.op) \in Int
    BY Typed DEF NoBound
  <2> HIDE DEF s
  <2>3. m = [s EXCEPT !.value_out = NoBound(rule.op)]
    BY <1>1 DEF on_read_out_arg_aborted, Extremum
  <2> QED
    BY <2>1, <2>2, <2>3 DEF ExtremumMemory
<1>2. ASSUME Adds PROVE m \in AverageMemory /\ m.sum_out_computed = FALSE
  <2>1. mem \in AverageMemory
    BY <1>2 DEF MemoryOK
  <2>2. s \in AverageMemory
    BY <1>2, <2>1, StartAdds, AveragesOuts
  <2> HIDE DEF s
  <2>3. m = [s EXCEPT !.sum_out_computed = FALSE]
    BY <1>2 DEF on_read_out_arg_aborted, Adds, Extremum
  <2> QED
    BY <2>2, <2>3 DEF AverageMemory
<1>3. ASSUME Keeps PROVE LastRead(m)
  <2>1. LastRead(mem)
    BY <1>3 DEF MemoryOK
  <2>2. LastRead(s)
    BY <1>3, <2>1, StartKeeps, KeepsOuts
  <2> HIDE DEF s
  <2>3. m = s
    BY <1>3 DEF on_read_out_arg_aborted, Keeps
  <2> QED
    BY <2>2, <2>3
<1> HIDE DEF m
<1> QED
  BY <1>1, <1>2, <1>3 DEF MemoryOK, m

LEMMA KindsAre ==
  ASSUME OneKind, RuleOK, ArgsOK, rule.op \in Extremum
  PROVE  Outs = {} \/ Ins = {}
<1>1. DOMAIN rule.args = 1..Arity
  BY Typed
<1>2. (\A k \in 1..Arity : KindOf[k] = "out") \/ (\A k \in 1..Arity : KindOf[k] # "out")
  BY <1>1 DEF OneKind, RuleOK, ArgsOK
<1> QED
  BY <1>2 DEF KindOf, Ins, Outs

(* What an evaluation has gathered when no out-argument is busy.           *)
LEMMA Gathered ==
  ASSUME OneKind, Running, OutsReady, ~res.ready
  PROVE  LET m == ReadIns(ReadOuts(Start))
         IN  /\ MemoryOK(m, TRUE)
             /\ OutsIn(m)
             /\ Keeps => m.read = Actual
             /\ Adds => AllAdded(m)
<1> DEFINE m == ReadIns(ReadOuts(Start))
<1>1. RuleOK /\ ArgsOK /\ ResOK /\ MemoryOK(mem, out_ok) /\ out_ok \in BOOLEAN /\ (out_ok => OutsIn(mem))
  BY DEF Running
<1>2. ASSUME rule.op \in Extremum PROVE m \in ExtremumMemory
  <2>1. Outs = {} \/ (Ins = {} /\ ~out_ok)
    BY <1>2, KindsAre DEF Running
  <2> QED
    BY <1>1, <1>2, <2>1, GatheredExtremum
<1>3. ASSUME Adds PROVE AllAdded(m) /\ m.sum_out_computed = TRUE
  <2>1. mem \in AverageMemory /\ mem.sum_out_computed = out_ok
    BY <1>1, <1>3 DEF MemoryOK
  <2> QED
    BY <1>1, <1>3, <2>1, GatheredAdds
<1>4. ASSUME Keeps PROVE LastRead(m) /\ m.read = Actual
  <2>1. LastRead(mem)
    BY <1>1, <1>4 DEF MemoryOK
  <2> QED
    BY <1>1, <1>4, <2>1, GatheredKeeps
<1> HIDE DEF m
<1>5. MemoryOK(m, TRUE)
  BY <1>2, <1>3, <1>4 DEF MemoryOK, AllAdded
<1>6. OutsIn(m)
  <2>1. \A k \in Outs : k \in 1..Arity
    BY DEF Outs
  <2> QED
    BY <1>3, <1>4, <2>1 DEF OutsIn, AllAdded, Actual
<1> QED
  BY <1>3, <1>4, <1>5, <1>6 DEF m

(* What is written. *)
LEMMA Written ==
  ASSUME OneKind, Running, OutsReady, ~res.ready,
         NEW v \in written(rule, ReadIns(ReadOuts(Start)), res.val)
  PROVE  /\ v \in Referred(rule, Actual, res.val, v)
         /\ rule.op = "average" => v \in [1..nb_of_doubles(rule.res) -> Int]
         /\ rule.op \in Extremum => v \in [1..1 -> (-Big)..Big]
<1> DEFINE m == ReadIns(ReadOuts(Start))
<1>0. RuleOK /\ ArgsOK /\ ResOK
  BY DEF Running
<1>1. CASE rule.op \in Extremum
  <2> DEFINE x == Better(rule.op, m.value_in, m.value_out)
  <2>1. Outs = {} \/ (Ins = {} /\ ~out_ok)
    BY <1>0, <1>1, KindsAre DEF Running
  <2>2. /\ x = NoBound(rule.op) \/ \E k \in 1..Arity : x = Read(k)[1]
        /\ \A k \in 1..Arity : Beyond(rule.op, x, Read(k)[1])
    BY <1>0, <1>1, <2>1, GatheredExtremum
  <2> HIDE DEF m
  <2>3. v = <<x>>
    BY <1>1 DEF written, Extremum, m
  <2> HIDE DEF x
  <2>4. v \in Referred(rule, Actual, res.val, v) /\ x \in (-Big)..Big
    BY <1>0, <1>1, <2>2, <2>3, ExtremumComputes
  <2> QED
    BY <1>1, <2>3, <2>4 DEF Extremum
<1>2. CASE Adds
  <2>1. AllAdded(m)
    BY <1>2, Gathered
  <2> HIDE DEF m
  <2>2. v = averaged(m, res.val)
    BY <1>2 DEF written, Adds, Extremum, m
  <2>3. res.val \in [1..Width -> Int]
    BY <1>0, <1>2 DEF ResOK, Adds, Width
  <2>4. v \in Referred(rule, Actual, res.val, v) /\ v \in [1..Width -> Int]
    BY <1>0, <1>2, <2>1, <2>2, <2>3, AverageComputes
  <2> QED
    BY <1>2, <2>4 DEF Adds, Extremum, Width
<1>3. CASE Keeps
  <2>1. m.read = Actual
    BY <1>3, Gathered
  <2>2. v \in Referred(rule, Actual, res.val, v)
    BY <1>0, <1>3, <2>1, KeepsComputes
  <2> QED
    BY <1>3, <2>2 DEF Keeps, Extremum
<1> QED
  BY <1>1, <1>2, <1>3, ThreeWays

(* The memory after what was gathered has been used. *)
LEMMA AfterWriting ==
  ASSUME RuleOK, NEW m, MemoryOK(m, TRUE), OutsIn(m)
  PROVE  LET n == after_writing(rule.op, m)
         IN  MemoryOK(n, TRUE) /\ OutsIn(n)
<1> DEFINE n == after_writing(rule.op, m)
<1>1. ASSUME rule.op \in Extremum PROVE n \in ExtremumMemory
  <2>1. n = [m EXCEPT !.value_in = NoBound(rule.op)]
    BY <1>1 DEF after_writing, Extremum, Argmaxes, Towards
  <2>2. NoBound(rule.op) \in Int
    BY Typed DEF NoBound
  <2> HIDE DEF n
  <2> QED
    BY <1>1, <2>1, <2>2 DEF MemoryOK, ExtremumMemory
<1>2. ASSUME Adds PROVE n = m
  BY <1>2 DEF after_writing, Adds, Extremum, Argmaxes, Towards
<1>3. ASSUME Keeps PROVE LastRead(n) /\ n.read = m.read
  <2>1. \E d : n = [m EXCEPT !.ticks = d]
    <3>1. CASE rule.op \in Argmaxes \cup Towards
      <4> DEFINE d == Min({m.ticks + 1, MaxTicks})
      <4>1. n = [m EXCEPT !.ticks = d]
        BY <1>3, <3>1 DEF after_writing, Keeps, Extremum, Argmaxes, Towards
      <4> HIDE DEF n, d
      <4> QED
        BY <4>1
    <3>2. CASE rule.op \notin Argmaxes \cup Towards
      <4>1. n = m \/ n = [m EXCEPT !.ticks = m.ticks + 1]
        BY <1>3, <3>2 DEF after_writing, Keeps
      <4>2. m = [m EXCEPT !.ticks = m.ticks]
        BY <1>3 DEF MemoryOK, LastRead
      <4> HIDE DEF n
      <4> QED
        BY <4>1, <4>2
    <3> QED
      BY <3>1, <3>2
  <2>2. PICK d : n = [m EXCEPT !.ticks = d]
    BY <2>1
  <2> HIDE DEF n
  <2>3. m \in [read : {m.read}, from_out : {m.from_out}, ticks : {m.ticks}] /\ m.read = [k \in 1..Arity |-> m.read[k]]
    BY <1>3 DEF MemoryOK, LastRead
  <2>4. n \in [read : {m.read}, from_out : {m.from_out}, ticks : {d}] /\ n.read = m.read /\ n.from_out = m.from_out
        /\ n.ticks = d
    BY <2>2, <2>3
  <2> QED
    BY <2>3, <2>4 DEF LastRead
<1> HIDE DEF n
<1>4. MemoryOK(n, TRUE)
  BY <1>1, <1>2, <1>3 DEF MemoryOK
<1>5. OutsIn(n)
  BY <1>2, <1>3 DEF OutsIn
<1> QED
  BY <1>4, <1>5 DEF n

LEMMA EvaluateInv == ASSUME OneKind, OperationsInv, Evaluate PROVE OperationsInv'
<1>1. phase = "running" /\ Running /\ ~res.ready /\ UNCHANGED <<rule, phase, moves>>
  BY DEF Evaluate, OperationsInv
<1>2. RuleOK /\ ArgsOK /\ ResOK /\ MemoryOK(mem, out_ok) /\ out_ok \in BOOLEAN /\ updated_once = out_ok
  BY <1>1 DEF Running
<1>3. Len(args) = Arity /\ Arity \in Nat /\ DOMAIN args = 1..Arity
  BY <1>2, ArgsTyped
<1>4. RuleOK' /\ Arity' = Arity /\ Width' = Width
  BY <1>1, <1>2 DEF RuleOK, Arity, Width
<1> DEFINE m == ReadIns(ReadOuts(Start))
<1>5. CASE /\ ~OutsReady
           /\ mem' = on_read_out_arg_aborted(rule.op, ReadOuts(Start))
           /\ UNCHANGED <<args, out_ok, updated_once, res, old>>
  <2>1. ~out_ok
    BY <1>5 DEF OutsReady
  <2>2. MemoryOK(mem', FALSE)
    BY <1>2, <1>5, <2>1, Aborted
  <2>3. out_ok' = FALSE /\ updated_once' = FALSE
    BY <1>2, <1>5, <2>1
  <2>4. MemoryOK(mem, out_ok)'
    BY <1>1, <2>2, <2>3, MemoryOKSame
  <2>5. ArgsOK' /\ ResOK'
    BY <1>1, <1>2, <1>4, <1>5 DEF ArgsOK, KindOf, ResOK
  <2>6. Running'
    BY <1>4, <2>3, <2>4, <2>5 DEF Running
  <2> QED
    BY <1>1, <2>6 DEF OperationsInv
<1>6. ASSUME OutsReady PROVE MemoryOK(m, TRUE) /\ OutsIn(m) /\ \A k \in Outs : args[k].ready
  <2>1. MemoryOK(m, TRUE) /\ OutsIn(m)
    BY <1>1, <1>6, Gathered
  <2>2. \A k \in Outs : args[k].ready
    BY <1>1, <1>3, <1>6 DEF OutsReady, Running, Outs
  <2> QED
    BY <2>1, <2>2
<1>7. CASE /\ OutsReady
           /\ out_ok' = TRUE
           /\ updated_once
           /\ mem' = m
           /\ UNCHANGED <<args, updated_once, res, old>>
  <2>1. MemoryOK(m, TRUE) /\ OutsIn(m) /\ \A k \in Outs : args[k].ready
    BY <1>6, <1>7
  <2> HIDE DEF m
  <2>2. MemoryOK(mem, out_ok)'
    BY <1>1, <1>7, <2>1, MemoryOKSame
  <2>3. ArgsOK' /\ ResOK'
    BY <1>1, <1>2, <1>4, <1>7 DEF ArgsOK, KindOf, ResOK
  <2>4. OutsIn(mem)' /\ Outs' = Outs /\ Ins' = Ins
    <3>1. Outs' = Outs /\ Ins' = Ins /\ Count(Outs)' = Count(Outs) /\ (\A i : SumOf(Outs, i)' = SumOf(Outs, i))
          /\ \A k \in Outs : Read(k)' = Read(k)
      BY <1>1, <1>3, <1>7, SameArgs
    <3>2. Adds' = Adds /\ Keeps' = Keeps
      BY <1>1 DEF Adds, Keeps
    <3>3. Adds => (mem.nb_out = Count(Outs) /\ \A i \in 1..Width : mem.sum_out[i] = SumOf(Outs, i))'
      BY <1>4, <1>7, <2>1, <3>1 DEF OutsIn
    <3>4. Keeps => (\A k \in Outs : mem.read[k] = Read(k))'
      BY <1>7, <2>1, <3>1 DEF OutsIn
    <3> QED
      BY <3>1, <3>2, <3>3, <3>4 DEF OutsIn
  <2>5. (Reference(rule, Seen))' = Reference(rule, Seen)
    BY <1>1, <1>7 DEF Reference, Seen
  <2>6. (rule.op \in Extremum /\ updated_once /\ Ins = {} => res.ready)'
    BY <1>1, <1>7, <2>4 DEF Running
  <2>7. (updated_once /\ (\A k \in 1..Arity : args[k].fresh => args[k].kind = "self")
           => res.val \in Reference(rule, Seen))'
    BY <1>1, <1>4, <1>7, <2>5 DEF Running
  <2>8. Running'
    BY <1>2, <1>4, <1>7, <2>1, <2>2, <2>3, <2>4, <2>6, <2>7 DEF Running
  <2> QED
    BY <1>1, <2>8 DEF OperationsInv
<1>8. CASE OutsReady /\ out_ok' = TRUE /\ Write(m)
  <2>1. MemoryOK(m, TRUE) /\ OutsIn(m) /\ \A k \in Outs : args[k].ready
    BY <1>6, <1>8
  <2> DEFINE n == after_writing(rule.op, m)
             kinds == [k \in DOMAIN args |-> args[k].kind]
             done == \A k \in DOMAIN args : args[k].kind \in {"in", "self"} => args[k].kind = "in" /\ args[k].ready
             updated(changed) == ~updated_once \/ changed
  <2>2. PICK v \in written(rule, m, res.val) :
        \E changed \in significant(rule.op, kinds, n, res.val, v) :
          /\ mem' = n
          /\ res' = [val |-> v, ready |-> done]
          /\ old' = res.val
          /\ updated_once' = TRUE
          /\ args' = [k \in DOMAIN args |-> [args[k] EXCEPT !.fresh = args[k].kind = "self" /\ updated(changed)]]
    BY <1>8 DEF Write
  <2>3. PICK changed :
          /\ mem' = n
          /\ res' = [val |-> v, ready |-> done]
          /\ old' = res.val
          /\ updated_once' = TRUE
          /\ args' = [k \in DOMAIN args |-> [args[k] EXCEPT !.fresh = args[k].kind = "self" /\ updated(changed)]]
    BY <2>2
  <2>4. /\ v \in Referred(rule, Actual, res.val, v)
        /\ rule.op = "average" => v \in [1..nb_of_doubles(rule.res) -> Int]
        /\ rule.op \in Extremum => v \in [1..1 -> (-Big)..Big]
    BY <1>1, <1>8, <2>2, Written
  <2>5. MemoryOK(n, TRUE) /\ OutsIn(n)
    <3> HIDE DEF m
    <3> QED
      BY <1>2, <2>1, AfterWriting
  <2> DEFINE f(k) == args[k].kind = "self" /\ updated(changed)
  <2>6. \A k \in 1..Arity : f(k) \in BOOLEAN
    OBVIOUS
  <2>7. args' = [k \in 1..Arity |-> [args[k] EXCEPT !.fresh = f(k)]]
    BY <1>3, <2>3
  <2>8. res'.val = v /\ res'.ready = done
    BY <2>3
  <2> HIDE DEF n, m, kinds, updated, f
  <2>9. MemoryOK(mem, out_ok)'
    BY <1>1, <1>8, <2>3, <2>5, MemoryOKSame
  <2>10. args \in [1..Arity -> [kind : {"in", "out", "self"}, val : Seq(Int), ready : BOOLEAN, fresh : BOOLEAN]]
    BY <1>2 DEF ArgsOK
  <2>11. /\ args' \in [1..Arity -> [kind : {"in", "out", "self"}, val : Seq(Int), ready : BOOLEAN, fresh : BOOLEAN]]
         /\ \A k \in 1..Arity : args'[k].kind = args[k].kind /\ args'[k].val = args[k].val
                                /\ args'[k].ready = args[k].ready
    BY <2>6, <2>7, <2>10
  <2>12. ArgsOK'
    <3>1. KindOf' = KindOf
      BY <1>4, <2>11 DEF KindOf
    <3> QED
      BY <1>1, <1>2, <1>4, <2>11, <3>1 DEF ArgsOK
  <2>13. ResOK'
    BY <1>1, <2>4, <2>8 DEF ResOK
  <2>14. /\ Outs' = Outs /\ Ins' = Ins /\ Count(Outs)' = Count(Outs)
         /\ (\A i : SumOf(Outs, i)' = SumOf(Outs, i))
         /\ \A k \in Outs : Read(k)' = Read(k) /\ k \in 1..Arity
    <3>1. \A k \in Outs : k \in 1..Arity
      BY DEF Outs
    <3> QED
      BY <1>1, <1>3, <2>11, <3>1, SameArgs
  <2>15. OutsIn(mem)'
    <3>1. Adds' = Adds /\ Keeps' = Keeps
      BY <1>1 DEF Adds, Keeps
    <3>2. Adds => (mem.nb_out = Count(Outs) /\ \A i \in 1..Width : mem.sum_out[i] = SumOf(Outs, i))'
      BY <1>4, <2>3, <2>5, <2>14 DEF OutsIn
    <3>3. Keeps => (\A k \in Outs : mem.read[k] = Read(k))'
      BY <2>3, <2>5, <2>14 DEF OutsIn
    <3> QED
      BY <3>1, <3>2, <3>3 DEF OutsIn
  <2>16. (\A k \in Outs : args[k].ready)'
    BY <2>1, <2>11, <2>14
  <2>17. (rule.op \in Extremum /\ updated_once /\ Ins = {} => res.ready)'
    <3>1. Ins = {} => done
      BY <1>3 DEF Ins
    <3> QED
      BY <2>8, <2>14, <3>1
  <2>18. Seen' = Actual
    <3>1. DOMAIN args' = 1..Arity /\ old' = res.val
      BY <2>3, <2>11
    <3>2. Seen' = [k \in 1..Arity |-> IF args'[k].kind = "self" THEN res.val ELSE args'[k].val]
      BY <3>1 DEF Seen
    <3> QED
      BY <2>11, <3>2 DEF Actual, Read
  <2>19. res'.val \in (Reference(rule, Seen))'
    <3>1. (Reference(rule, Seen))' = Referred(rule', Seen', old', res'.val)
      BY DEF Reference, Referred
    <3> QED
      BY <1>1, <2>3, <2>4, <2>8, <2>18, <3>1
  <2>20. Running'
    BY <1>4, <1>8, <2>3, <2>9, <2>12, <2>13, <2>15, <2>16, <2>17, <2>19 DEF Running
  <2> QED
    BY <1>1, <2>20 DEF OperationsInv
<1> QED
  BY <1>5, <1>7, <1>8 DEF Evaluate

LEMMA OperationsAlways == ASSUME OneKind PROVE Spec => []OperationsInv
<1>1. Init => OperationsInv
  BY InitInv
<1>2. OperationsInv /\ [Next]_vars => OperationsInv'
  <2> SUFFICES ASSUME OperationsInv, [Next]_vars PROVE OperationsInv'
    OBVIOUS
  <2>1. CASE Receive
    BY <2>1, ReceiveInv
  <2>2. CASE Evaluate
    BY <2>2, EvaluateInv
  <2>3. ASSUME NEW k \in DOMAIN args, MoveIn(k) PROVE OperationsInv'
    BY <2>3, MoveInInv
  <2>4. ASSUME NEW k \in DOMAIN args, OutReady(k) PROVE OperationsInv'
    BY <2>4, OutReadyInv
  <2>5. CASE UNCHANGED vars
    <3>1. Running' <=> Running
      <4>1. (Reference(rule, Seen))' = Reference(rule, Seen)
        BY <2>5 DEF vars, Reference, Seen
      <4> QED
        BY <2>5, <4>1 DEF vars, Running, RuleOK, ArgsOK, ResOK, KindOf, Arity, MemoryOK, OutsIn, Outs, Ins,
                       Adds, Keeps, ExtremumMemory, AverageMemory, Width, LastRead, Count, SumOf, Read
    <3> QED
      BY <2>5, <3>1 DEF vars, OperationsInv, Waiting
  <2> QED
    BY <2>1, <2>2, <2>3, <2>4, <2>5 DEF Next
<1> QED
  BY <1>1, <1>2, PTL DEF Spec

(* The result of an evaluation is the operation applied to the arguments   *)
(* as they are, for any number of them and values of any width, in any     *)
(* order of the moves and of the evaluations, the ones given up included   *)
(* (update::Base::operator() and the classes of the operations); min and   *)
(* max are left to arguments that are all read once or all at each         *)
(* evaluation.                                                             *)
THEOREM ResultIsOfArguments == ASSUME OneKind PROVE Spec => []FunctionOfArguments
<1>1. OperationsInv => FunctionOfArguments
  <2> SUFFICES ASSUME OperationsInv, Evaluated PROVE res.val \in Reference(rule, Seen)
    BY DEF FunctionOfArguments
  <2>1. Running /\ updated_once
    BY DEF OperationsInv, Evaluated
  <2>2. DOMAIN args = 1..Arity
    BY <2>1, ArgsTyped DEF Running
  <2>3. \A k \in 1..Arity : args[k].fresh => args[k].kind = "self"
    BY <2>2 DEF Evaluated
  <2> QED
    BY <2>1, <2>3 DEF Running
<1> QED
  BY <1>1, OperationsAlways, PTL
-----------------------------------------------------------------------------
(* Where a cell is.                                                        *)

(* A set of integers has a least one. *)
LEMMA Least ==
  ASSUME NEW S \in SUBSET Nat, S # {}
  PROVE  \E b \in S : \A y \in S : b <= y
<1> DEFINE R == OpToRel(<, Nat)
<1>1. PICK b \in S : \A y \in S : <<y, b>> \notin R
  <2>1. IsWellFoundedOn(R, Nat)
    BY NatLessThanWellFounded, Zenon
  <2> HIDE DEF R
  <2> QED
    BY <2>1, WFMin
<1>2. \A y \in S : ~(y < b)
  BY <1>1, Zenon DEF OpToRel
<1> QED
  BY <1>2

(* What a remainder of 0 is. *)
LEMMA Divides ==
  ASSUME NEW x \in Nat, NEW y \in Nat, y > 0
  PROVE  /\ x = (x \div y) * y + (x % y) /\ x \div y \in Nat /\ x % y \in 0..(y - 1)
         /\ \A k \in Nat : x = k * y => x % y = 0 /\ x \div y = k
<1>1. x % y \in 0..(y - 1) /\ x \div y \in Int /\ x = y * (x \div y) + (x % y)
  OBVIOUS
<1> DEFINE d == x \div y
           m == x % y
<1> HIDE DEF d, m
<1>2. d \in Int /\ m \in 0..(y - 1) /\ x = d * y + m
  <2>1. y * d = d * y
    BY <1>1 DEF d
  <2> QED
    BY <1>1, <2>1 DEF d, m
<1>3. d >= 0
  <2>1. d < 0 => d * y <= -y
    BY <1>2
  <2> QED
    BY <1>2, <2>1
<1>4. ASSUME NEW k \in Nat, x = k * y PROVE m = 0 /\ d = k
  <2>1. (k - d) * y = m
    <3>1. (k - d) * y = k * y - d * y
      BY <1>2
    <3> QED
      BY <1>2, <1>4, <3>1
  <2>2. k - d >= 1 => (k - d) * y >= y
    BY <1>2
  <2>3. k - d <= -1 => (k - d) * y <= -y
    BY <1>2
  <2>4. k - d = 0
    BY <1>2, <2>1, <2>2, <2>3
  <2> QED
    BY <1>2, <2>1, <2>4
<1> QED
  BY <1>2, <1>3, <1>4 DEF d, m

LEMMA UlpsAre ==
  /\ 1 \in Ulps /\ One \in Ulps /\ Ulps \subseteq Nat \ {0}
  /\ \A u \in Ulps : u > 1 => u \div 2 \in Ulps /\ u = 2 * (u \div 2)
<1>1. One \in Nat /\ One > 0
  BY OperationsAssumption
<1>2. 1 \in Ulps /\ One \in Ulps
  <2>1. One = 1 * One /\ One = One * 1
    BY <1>1
  <2>2. One % One = 0 /\ One % 1 = 0
    BY <1>1, <2>1, Divides
  <2> QED
    BY <1>1, <2>2 DEF Ulps
<1>3. ASSUME NEW u \in Ulps, u > 1 PROVE u \div 2 \in Ulps /\ u = 2 * (u \div 2)
  <2>1. u \in 2..One /\ One % u = 0
    BY <1>1, <1>3 DEF Ulps
  <2>2. u % 2 = 0
    BY <2>1, RoundingAssumption
  <2> DEFINE h == u \div 2
  <2>3. h \in Nat /\ u = 2 * h
    BY <2>1, <2>2
  <2> HIDE DEF h
  <2> DEFINE k == One \div u
  <2>4. k \in Nat /\ One = k * u
    BY <1>1, <2>1, Divides
  <2> HIDE DEF k
  <2>5. One = (2 * k) * h
    BY <2>3, <2>4
  <2>6. One % h = 0
    <3>1. 2 * k \in Nat /\ h > 0
      BY <2>1, <2>3, <2>4
    <3> QED
      BY <1>1, <2>3, <2>5, <3>1, Divides
  <2>7. h \in 1..One
    BY <1>1, <2>1, <2>3
  <2>8. h \in Ulps
    BY <2>6, <2>7 DEF Ulps
  <2> QED
    BY <2>3, <2>8 DEF h
<1> QED
  BY <1>1, <1>2, <1>3 DEF Ulps

(* Of two units, the lesser divides the other. *)
LEMMA UlpsDivide ==
  ASSUME NEW u \in Ulps, NEW v \in Ulps, u <= v
  PROVE  \E k \in Nat : v = k * u
<1> DEFINE Bad(x) == \E y \in Ulps : x <= y /\ \A k \in Nat : y # k * x
           S == {x \in Ulps : Bad(x)}
<1>1. S = {}
  <2> SUFFICES ASSUME S # {} PROVE FALSE
    OBVIOUS
  <2>1. PICK b \in S : \A y \in S : b <= y
    <3>1. S \in SUBSET Nat
      BY UlpsAre
    <3> HIDE DEF S
    <3> QED
      BY <3>1, Least
  <2>2. PICK y \in Ulps : b <= y /\ \A k \in Nat : y # k * b
    BY <2>1
  <2>3. b \in Ulps /\ b \in Nat /\ b > 0 /\ y \in Nat
    BY <2>1, UlpsAre
  <2>4. b > 1
    <3>1. y = y * 1
      BY <2>3
    <3>2. b # 1
      BY <2>2, <2>3, <3>1
    <3> QED
      BY <2>3, <3>2
  <2> DEFINE c == b \div 2
             z == y \div 2
  <2>5. c \in Ulps /\ b = 2 * c /\ z \in Ulps /\ y = 2 * z
    BY <2>2, <2>3, <2>4, UlpsAre
  <2> HIDE DEF c, z
  <2>6. c \in Nat /\ z \in Nat /\ c < b /\ c <= z
    BY <2>2, <2>3, <2>5, UlpsAre
  <2>7. c \notin S
    BY <2>1, <2>3, <2>6
  <2>8. ~Bad(c)
    BY <2>5, <2>7
  <2>9. PICK k \in Nat : z = k * c
    BY <2>5, <2>6, <2>8
  <2>10. y = k * b
    BY <2>5, <2>6, <2>9
  <2> QED
    BY <2>2, <2>9, <2>10
<1> QED
  BY <1>1

(* The unit in the last place: less than One times the precision, a number *)
(* has one.                                                                *)
LEMMA UlpIs ==
  ASSUME NEW num \in Nat, NEW den \in Nat, den > 0, num < One * Precision * den
  PROVE  LET u == ulp(num, den)
         IN  u \in Ulps /\ num < u * Precision * den /\ (u > 1 => u * Precision * den <= 2 * num)
<1> DEFINE S == {v \in Ulps : num < v * Precision * den}
<1>1. PICK b \in S : \A y \in S : b <= y
  <2>1. One \in S
    BY UlpsAre
  <2>2. S \in SUBSET Nat
    BY UlpsAre
  <2> HIDE DEF S
  <2> QED
    BY <2>1, <2>2, Least
<1>2. ASSUME b > 1 PROVE b * Precision * den <= 2 * num
  <2> DEFINE h == b \div 2
  <2>1. h \in Ulps /\ b = 2 * h
    BY <1>1, <1>2, UlpsAre
  <2> HIDE DEF h
  <2>2. h \in Nat /\ h < b
    BY <2>1, UlpsAre
  <2>3. h \notin S
    BY <1>1, <2>2, UlpsAre
  <2>4. ~(num < h * Precision * den)
    BY <2>1, <2>3
  <2> DEFINE e == h * Precision * den
  <2>5. e \in Nat /\ b * Precision * den = 2 * e
    BY <2>1, <2>2, RoundingAssumption
  <2> QED
    BY <2>4, <2>5
<1> QED
  BY <1>1, <1>2 DEF ulp

(* A number is rounded to within half a unit in the last place, and is     *)
(* left as it is when it is a multiple of this unit.                       *)
LEMMA RoundedIs ==
  ASSUME NEW num \in Nat, NEW den \in Nat, den > 0, num < One * Precision * den
  PROVE  LET f == rounded(num, den)
             u == ulp(num, den)
         IN  /\ f \in Nat
             /\ 2 * (f * den - num) <= u * den /\ 2 * (num - f * den) <= u * den
             /\ \A k \in Nat : num = k * (u * den) => f = k * u
<1> DEFINE u == ulp(num, den)
<1>1. u \in Nat /\ u > 0
  <2>1. u \in Ulps
    BY UlpIs, Zenon
  <2> HIDE DEF u
  <2> QED
    BY <2>1, UlpsAre
<1> HIDE DEF u
<1> DEFINE w == u * den
<1>2. w \in Nat /\ w > 0
  BY <1>1
<1> HIDE DEF w
<1> DEFINE n == num \div w
           r == num % w
<1>3. num = n * w + r /\ n \in Nat /\ r \in 0..(w - 1) /\ \A k \in Nat : num = k * w => r = 0 /\ n = k
  BY <1>2, Divides
<1> DEFINE c == IF 2 * r < w \/ (2 * r = w /\ n % 2 = 0) THEN n ELSE n + 1
           f == rounded(num, den)
<1>4. f = u * c
  BY DEF rounded, u, w
<1> HIDE DEF n, r, f
<1>5. c \in {n, n + 1} /\ (c = n => 2 * r <= w) /\ (c = n + 1 => 2 * r >= w) /\ (r = 0 => c = n)
  BY <1>2, <1>3
<1> HIDE DEF c
<1>6. f \in Nat /\ f * den = c * w
  <2>1. c \in Nat
    BY <1>3, <1>5
  <2>2. u * c \in Nat /\ (u * c) * den = c * (u * den)
    BY <1>1, <2>1
  <2> QED
    BY <1>4, <2>2 DEF w
<1>7. 2 * (f * den - num) <= w /\ 2 * (num - f * den) <= w
  <2>1. CASE c = n
    BY <1>2, <1>3, <1>5, <1>6, <2>1
  <2>2. CASE c = n + 1
    <3>1. f * den = n * w + w
      BY <1>2, <1>3, <1>6, <2>2
    <3> QED
      BY <1>2, <1>3, <1>5, <2>2, <3>1
  <2> QED
    BY <1>5, <2>1, <2>2
<1>8. ASSUME NEW k \in Nat, num = k * w PROVE f = k * u
  <2>1. c = k
    BY <1>3, <1>5, <1>8
  <2> QED
    BY <1>1, <1>4, <2>1
<1> QED
  BY <1>6, <1>7, <1>8 DEF f, u, w

(* Its relative error is then at most one over the precision.              *)
LEMMA RoundedClose ==
  ASSUME NEW num \in Nat, NEW den \in Nat, den > 0, num < One * Precision * den,
         den = 1 \/ Precision * den <= 2 * num
  PROVE  LET f == rounded(num, den)
         IN  f \in Nat /\ Precision * (f * den - num) <= num /\ Precision * (num - f * den) <= num
<1> DEFINE f == rounded(num, den)
           u == ulp(num, den)
           d == f * den - num
<1>1. /\ f \in Nat /\ u \in Nat /\ u > 0
      /\ 2 * d <= u * den /\ 2 * (num - f * den) <= u * den
      /\ \A k \in Nat : num = k * (u * den) => f = k * u
      /\ u > 1 => u * Precision * den <= 2 * num
  <2>1. u \in Ulps /\ (u > 1 => u * Precision * den <= 2 * num)
    BY UlpIs, Zenon
  <2>2. /\ f \in Nat /\ 2 * d <= u * den /\ 2 * (num - f * den) <= u * den
        /\ \A k \in Nat : num = k * (u * den) => f = k * u
    BY RoundedIs, Zenon
  <2>3. u \in Nat /\ u > 0
    <3> HIDE DEF u
    <3> QED
      BY <2>1, UlpsAre
  <2> HIDE DEF u, f
  <2> QED
    BY <2>1, <2>2, <2>3
<1> HIDE DEF f, u
<1>2. d \in Int /\ num - f * den = -d /\ Precision \in Nat
  BY <1>1, RoundingAssumption
<1> HIDE DEF d
<1>3. CASE u * Precision * den <= 2 * num
  <2> DEFINE w == u * den
  <2>1. w \in Nat /\ 2 * d <= w /\ 2 * (-d) <= w
    BY <1>1, <1>2
  <2>2. u * Precision * den = Precision * w
    BY <1>1, <1>2
  <2> HIDE DEF w
  <2>3. Precision * (2 * d) <= Precision * w /\ Precision * (2 * (-d)) <= Precision * w
    BY <1>2, <2>1
  <2>4. Precision * (2 * d) = 2 * (Precision * d) /\ Precision * (2 * (-d)) = 2 * (Precision * (-d))
    BY <1>2
  <2>5. Precision * d \in Int /\ Precision * (-d) \in Int /\ Precision * w \in Int
    BY <1>2, <2>1
  <2>6. Precision * d <= num /\ Precision * (-d) <= num
    BY <1>3, <2>2, <2>3, <2>4, <2>5
  <2> QED
    BY <1>1, <1>2, <2>6 DEF d, f
<1>4. CASE u = 1 /\ den = 1
  <2>1. num = num * (u * den)
    BY <1>4
  <2>2. f = num * u
    BY <1>1, <2>1
  <2>3. f = num
    BY <1>4, <2>2
  <2>4. f * den - num = 0 /\ num - f * den = 0
    BY <1>4, <2>3
  <2>5. Precision * 0 = 0
    BY <1>2
  <2> QED
    BY <1>1, <2>4, <2>5 DEF f
<1>5. CASE u = 1 /\ Precision * den <= 2 * num
  <2>1. u * Precision * den = Precision * den
    BY <1>2, <1>5
  <2> QED
    BY <1>3, <1>5, <2>1
<1> QED
  BY <1>1, <1>3, <1>4, <1>5

(* A number that is a multiple of a power of two, fewer times than half    *)
(* the precision, is not changed.                                          *)
LEMMA RoundedExact ==
  ASSUME NEW den \in Nat, den > 0, NEW v \in Ulps, NEW k \in Nat, 2 * k <= Precision, 0 < Precision
  PROVE  rounded(k * (v * den), den) = k * v
<1> DEFINE num == k * (v * den)
<1>1. v \in Nat /\ v > 0 /\ v <= One /\ One \in Nat /\ Precision \in Nat
  BY UlpsAre, OperationsAssumption, RoundingAssumption DEF Ulps
<1>2. num \in Nat
  BY <1>1
<1> DEFINE w == v * den
           W == One * den
<1>3. w \in Nat /\ w > 0 /\ W \in Nat /\ w <= W /\ W > 0
  <2>1. (One - v) * den >= 0
    BY <1>1
  <2>2. (One - v) * den = W - w
    BY <1>1
  <2>3. w > 0 /\ w \in Nat /\ W \in Nat
    BY <1>1
  <2> HIDE DEF w, W
  <2> QED
    BY <2>1, <2>2, <2>3
<1>4. num = k * w /\ One * Precision * den = Precision * W
  BY <1>1
<1> HIDE DEF num, w, W
<1>5. num < One * Precision * den
  <2>1. k * w <= k * W
    BY <1>3
  <2>2. k < Precision
    BY <1>1
  <2>3. k * W < Precision * W
    BY <1>1, <1>3, <2>2
  <2>4. k * w \in Nat /\ k * W \in Nat /\ Precision * W \in Nat
    BY <1>1, <1>3
  <2> QED
    BY <1>4, <2>1, <2>3, <2>4
<1> DEFINE u == ulp(num, den)
<1>6. u \in Ulps /\ u \in Nat /\ u > 0 /\ (u > 1 => u * Precision * den <= 2 * num)
  <2>1. u \in Ulps /\ (u > 1 => u * Precision * den <= 2 * num)
    BY <1>2, <1>5, UlpIs, Zenon
  <2> HIDE DEF u
  <2> QED
    BY <2>1, UlpsAre
<1>7. \A j \in Nat : num = j * (u * den) => rounded(num, den) = j * u
  BY <1>2, <1>5, RoundedIs
<1> HIDE DEF u
<1>8. u <= v
  <2> SUFFICES ASSUME u > v PROVE FALSE
    BY <1>1, <1>6
  <2>1. u > 1 /\ u * Precision * den <= 2 * num
    BY <1>1, <1>6
  <2>2. u * Precision * den = Precision * (u * den) /\ 2 * num = (2 * k) * w
    BY <1>1, <1>3, <1>4, <1>6
  <2> DEFINE x == u * den
  <2>3. x \in Nat /\ x > w
    <3>1. (u - v) * den > 0
      BY <1>1, <1>6
    <3>2. (u - v) * den = u * den - v * den
      BY <1>1, <1>6
    <3>3. u * den \in Nat
      BY <1>6
    <3> QED
      BY <1>3, <3>1, <3>2, <3>3 DEF w
  <2> HIDE DEF x
  <2>4. (2 * k) * w <= Precision * w
    BY <1>1, <1>3
  <2>5. Precision * w < Precision * x
    BY <1>1, <1>3, <2>3
  <2>6. (2 * k) * w \in Nat /\ Precision * w \in Nat /\ Precision * x \in Nat
    BY <1>1, <1>3, <2>3
  <2> QED
    BY <2>1, <2>2, <2>4, <2>5, <2>6 DEF x
<1>9. PICK j \in Nat : v = j * u
  BY <1>6, <1>8, UlpsDivide
<1>10. num = (k * j) * (u * den) /\ k * j \in Nat /\ (k * j) * u = k * v
  BY <1>1, <1>4, <1>6, <1>9 DEF w
<1>11. rounded(num, den) = k * v
  BY <1>7, <1>10
<1> QED
  BY <1>11 DEF num

(* Products keep an order, and lose a common factor. *)
LEMMA Times ==
  ASSUME NEW k \in Nat, NEW x \in Int, NEW y \in Int
  PROVE  /\ x <= y => k * x <= k * y
         /\ k > 0 /\ k * x <= k * y => x <= y
         /\ k > 0 /\ k * x < k * y => x < y
<1>1. x <= y => k * x <= k * y
  OBVIOUS
<1>2. ASSUME k > 0, x > y PROVE k * x > k * y
  <2>1. k * (x - y) > 0
    BY <1>2
  <2>2. k * (x - y) = k * x - k * y
    OBVIOUS
  <2> QED
    BY <2>1, <2>2
<1>3. k * x \in Int /\ k * y \in Int
  OBVIOUS
<1>4. x = y => k * x = k * y
  OBVIOUS
<1> QED
  BY <1>1, <1>2, <1>3, <1>4

(* Three products, each within a D-th of the exact one: a is One / n, x is *)
(* i times a, y is n times x.                                              *)
LEMMA Squeezed ==
  ASSUME NEW D \in Nat, NEW n \in Nat, n > 0, 4 * n <= D, NEW O \in Nat, O > 0, NEW i \in 1..n,
         NEW A \in Nat, D * (A - O) <= O, D * (O - A) <= O,
         NEW X \in Nat, D * (X - i * A) <= i * A, D * (i * A - X) <= i * A,
         NEW y \in Nat, D * (y - X) <= X, D * (X - y) <= X
  PROVE  X > 0 /\ (X >= n * O => i = n) /\ (i - 1) * O <= y /\ y < (i + 1) * O
<1>0. i \in Nat /\ i > 0 /\ 4 * i <= D /\ D >= 4
  OBVIOUS
<1> DEFINE I == i * O
           B == i * A
           E == D * D
           F == D * E
<1>1. I \in Nat /\ B \in Nat /\ E \in Nat /\ F \in Nat
  BY <1>0
<1>2. D * A <= D * O + O /\ D * O - O <= D * A
  <2>1. D * (A - O) = D * A - D * O /\ D * (O - A) = D * O - D * A
    OBVIOUS
  <2>2. D * A \in Nat /\ D * O \in Nat
    OBVIOUS
  <2> QED
    BY <2>1, <2>2
<1>3. D * B <= D * I + I /\ D * I - I <= D * B
  <2>1. i * (D * A) <= i * (D * O + O) /\ i * (D * O - O) <= i * (D * A)
    BY <1>0, <1>2, Times
  <2>2. i * (D * A) = D * B /\ i * (D * O + O) = D * I + I /\ i * (D * O - O) = D * I - I
    BY <1>0
  <2> QED
    BY <2>1, <2>2
<1>4. D * X <= D * B + B /\ D * B - B <= D * X
  <2>1. D * (X - B) = D * X - D * B /\ D * (B - X) = D * B - D * X
    BY <1>1
  <2>2. D * X \in Nat /\ D * B \in Nat
    BY <1>1
  <2> HIDE DEF B
  <2> QED
    BY <1>1, <2>1, <2>2 DEF B
<1>5. D * y <= D * X + X /\ D * X - X <= D * y
  <2>1. D * (y - X) = D * y - D * X /\ D * (X - y) = D * X - D * y
    OBVIOUS
  <2>2. D * y \in Nat /\ D * X \in Nat
    OBVIOUS
  <2> QED
    BY <2>1, <2>2
<1>6. I > 0 /\ O <= I /\ 4 * I <= D * O
  <2>1. 1 * O <= i * O
    BY <1>0
  <2>2. O * (4 * i) <= O * D
    BY <1>0, Times
  <2>3. O * (4 * i) = 4 * I /\ O * D = D * O
    BY <1>0
  <2> QED
    BY <2>1, <2>2, <2>3
<1> HIDE DEF I, B
<1>7. E * X <= E * I + 2 * (D * I) + I /\ E * I - 2 * (D * I) + I <= E * X
  <2>1. D * (D * X) <= D * (D * B + B) /\ D * (D * B - B) <= D * (D * X)
    BY <1>1, <1>4, Times
  <2>2. D * (D * X) = E * X /\ D * (D * B + B) = D * (D * B) + D * B /\ D * (D * B - B) = D * (D * B) - D * B
    BY <1>1
  <2>3. D * (D * B) <= D * (D * I + I) /\ D * (D * I - I) <= D * (D * B)
    BY <1>1, <1>3, Times
  <2>4. D * (D * I + I) = E * I + D * I /\ D * (D * I - I) = E * I - D * I
    BY <1>1
  <2> DEFINE p == D * (D * B)
             q == D * B
             r == E * I
             v == D * I
             w == E * X
  <2>5. p \in Nat /\ q \in Nat /\ r \in Nat /\ v \in Nat /\ w \in Nat
    BY <1>1
  <2>6. w <= p + q /\ p - q <= w
    BY <2>1, <2>2
  <2>7. p <= r + v /\ r - v <= p
    BY <2>3, <2>4
  <2>8. q <= v + I /\ v - I <= q
    BY <1>3
  <2>9. (D - 1) * B >= (D - 1) * 0
    BY <1>0, <1>1
  <2>10. D * (D * B - B) = (D - 1) * (D * B)
    BY <1>1
  <2>11. (D - 1) * (D * I - I) <= (D - 1) * (D * B)
    <3>1. D - 1 \in Nat /\ D * I - I \in Int /\ D * B \in Int
      BY <1>0, <1>1
    <3> QED
      BY <1>3, <3>1, Times
  <2>12. (D - 1) * (D * I - I) = E * I - 2 * (D * I) + I
    BY <1>1
  <2>13. E * I - 2 * (D * I) + I <= E * X
    <3>1. D * (D * B - B) <= E * X
      BY <2>1, <2>2
    <3>2. E * I - 2 * (D * I) + I <= D * (D * B - B)
      BY <2>10, <2>11, <2>12
    <3>3. E * I - 2 * (D * I) + I \in Int /\ D * (D * B - B) \in Int
      BY <1>1
    <3> QED
      BY <2>5, <3>1, <3>2, <3>3
  <2> HIDE DEF p, q, r, v, w
  <2>14. w <= r + 2 * v + I
    BY <1>1, <2>5, <2>6, <2>7, <2>8
  <2> QED
    BY <2>13, <2>14 DEF r, v, w
<1> DEFINE r == F * I
           v == E * I
           w == D * I
<1>8. r \in Nat /\ v \in Nat /\ w \in Nat /\ E * X \in Nat /\ D * X \in Nat
  BY <1>1
<1>9. D * (E * X) <= r + 2 * v + w /\ r - 2 * v + w <= D * (E * X)
  <2>1. D * (E * X) <= D * (E * I + 2 * (D * I) + I) /\ D * (E * I - 2 * (D * I) + I) <= D * (E * X)
    BY <1>1, <1>7, Times
  <2>2. D * (E * I + 2 * (D * I) + I) = r + 2 * v + w /\ D * (E * I - 2 * (D * I) + I) = r - 2 * v + w
    BY <1>1
  <2> QED
    BY <2>1, <2>2
<1>10. F * y <= r + 3 * v + 3 * w + I /\ r - 3 * v + 3 * w - I <= F * y
  <2>1. E * (D * y) <= E * (D * X + X) /\ E * (D * X - X) <= E * (D * y)
    BY <1>1, <1>5, Times
  <2>2. E * (D * y) = F * y /\ E * (D * X + X) = D * (E * X) + E * X
    BY <1>1
  <2>3. E * X <= v + 2 * w + I
    BY <1>7
  <2>4. F * y <= r + 3 * v + 3 * w + I
    <3>1. F * y \in Nat /\ D * (E * X) \in Nat
      BY <1>1
    <3> HIDE DEF r, v, w, E, F
    <3> QED
      BY <1>1, <1>8, <1>9, <2>1, <2>2, <2>3, <3>1
  <2>5. E * (D * X - X) = (D - 1) * (E * X)
    BY <1>1
  <2>6. (D - 1) * (E * I - 2 * (D * I) + I) <= (D - 1) * (E * X)
    <3>1. D - 1 \in Nat /\ E * I - 2 * (D * I) + I \in Int /\ E * X \in Int
      BY <1>0, <1>1
    <3> QED
      BY <1>7, <3>1, Times
  <2>7. (D - 1) * (E * I - 2 * (D * I) + I) = r - 3 * v + 3 * w - I
    BY <1>1
  <2>8. r - 3 * v + 3 * w - I <= F * y
    <3> DEFINE l == r - 3 * v + 3 * w - I
               c == (D - 1) * (E * X)
               f == F * y
    <3>1. l \in Int /\ c \in Int /\ f \in Int
      BY <1>1
    <3>2. l <= c /\ c <= f
      BY <2>1, <2>2, <2>5, <2>6, <2>7
    <3> HIDE DEF l, c, f
    <3>3. l <= f
      BY <3>1, <3>2
    <3> QED
      BY <3>3 DEF l, f
  <2> QED
    BY <2>4, <2>8
<1>11. 4 * v <= F * O /\ 4 * w <= E * O /\ 4 * (E * O) <= F * O /\ 4 * (D * O) <= E * O
  <2>1. E * (4 * I) <= E * (D * O) /\ D * (4 * I) <= D * (D * O)
    BY <1>1, <1>6, Times
  <2>2. E * (4 * I) = 4 * v /\ E * (D * O) = F * O /\ D * (4 * I) = 4 * w /\ D * (D * O) = E * O
    BY <1>1
  <2>3. (E * O) * 4 <= (E * O) * D /\ (D * O) * 4 <= (D * O) * D
    BY <1>0, <1>1, Times
  <2>4. (E * O) * 4 = 4 * (E * O) /\ (E * O) * D = F * O /\ (D * O) * 4 = 4 * (D * O) /\ (D * O) * D = E * O
    BY <1>1
  <2> QED
    BY <2>1, <2>2, <2>3, <2>4
<1> DEFINE e == E * O
           f == F * O
           d == D * O
<1>12. e \in Nat /\ f \in Nat /\ d \in Nat /\ d > 0
  BY <1>0, <1>1
<1>13. F > 0
  <2>1. E > 0
    BY <1>0
  <2> QED
    BY <1>0, <1>1, <2>1
<1>14. y < (i + 1) * O
  <2>1. F * ((i + 1) * O) = r + f
    BY <1>0, <1>1 DEF I
  <2>2. F * y < r + f
    <3>1. F * y \in Nat
      BY <1>1
    <3> DEFINE g == F * y
    <3> HIDE DEF r, v, w, e, f, d, g
    <3>2. 4 * v <= f /\ 4 * w <= e /\ 4 * e <= f /\ 4 * d <= e /\ 4 * I <= d
      BY <1>6, <1>11 DEF e, f, d
    <3>3. g <= r + 3 * v + 3 * w + I /\ g \in Nat
      BY <1>10, <3>1 DEF g
    <3>4. g < r + f
      BY <1>1, <1>8, <1>12, <3>2, <3>3
    <3> QED
      BY <3>4 DEF g
  <2>3. (i + 1) * O \in Nat
    BY <1>0
  <2> HIDE DEF F, f, r
  <2> QED
    BY <1>1, <1>13, <2>1, <2>2, <2>3, Times
<1>15. (i - 1) * O <= y
  <2>1. F * ((i - 1) * O) = r - f
    BY <1>0, <1>1 DEF I
  <2>2. r - f <= F * y
    <3>1. F * y \in Nat
      BY <1>1
    <3> DEFINE g == F * y
    <3> HIDE DEF r, v, w, e, f, d, g
    <3>2. 4 * v <= f /\ I <= w
      <4>1. I * 1 <= I * D
        BY <1>0, <1>1, Times
      <4>2. I * 1 = I /\ I * D = w
        BY <1>1 DEF w
      <4> QED
        BY <1>11, <4>1, <4>2 DEF f
    <3>3. r - 3 * v + 3 * w - I <= g /\ g \in Nat
      BY <1>10, <3>1 DEF g
    <3>4. r - f <= g
      BY <1>1, <1>8, <1>12, <3>2, <3>3
    <3> QED
      BY <3>4 DEF g
  <2>3. (i - 1) * O \in Int
    BY <1>0
  <2> HIDE DEF F, f, r
  <2> QED
    BY <1>1, <1>13, <2>1, <2>2, <2>3, Times
<1>16. ASSUME X >= n * O PROVE i = n
  <2> SUFFICES ASSUME i <= n - 1 PROVE FALSE
    BY <1>0
  <2>1. E * (n * O) <= E * X /\ n * O \in Nat
    BY <1>1, <1>16, Times
  <2>2. O * (i + 1) <= O * n
    BY <1>0, Times
  <2>3. O * (i + 1) = I + O /\ O * n = n * O
    BY <1>0 DEF I
  <2>4. E * (I + O) <= E * (n * O)
    BY <1>1, <2>1, <2>2, <2>3, Times
  <2>5. E * (I + O) = v + e
    BY <1>1
  <2>6. v + e <= v + 2 * w + I
    <3> DEFINE g == E * X
               h == E * (n * O)
    <3>1. h \in Nat /\ g \in Nat
      BY <1>1, <2>1
    <3>2. h <= g /\ v + e <= h /\ g <= v + 2 * w + I
      BY <1>7, <2>1, <2>4, <2>5
    <3> HIDE DEF g, h, v, e, w
    <3> QED
      BY <1>1, <1>8, <1>12, <3>1, <3>2
  <2>7. 4 * w <= e /\ 4 * d <= e /\ 4 * I <= d
    BY <1>6, <1>11
  <2> HIDE DEF v, w, e, d
  <2> QED
    BY <1>1, <1>8, <1>12, <2>6, <2>7
<1>17. X > 0
  <2> SUFFICES ASSUME X = 0 PROVE FALSE
    OBVIOUS
  <2>1. v - 2 * w + I <= 0
    <3>1. E * X = 0
      BY <1>1
    <3> QED
      BY <1>7, <3>1
  <2>2. w * 4 <= w * D /\ w * 4 = 4 * w /\ w * D = v
    <3>1. w * D = v
      BY <1>1
    <3>2. w * 4 <= w * D
      BY <1>0, <1>8, Times
    <3> QED
      BY <1>8, <3>1, <3>2
  <2> HIDE DEF v, w
  <2> QED
    BY <1>1, <1>6, <1>8, <2>1, <2>2
<1> QED
  BY <1>14, <1>15, <1>16, <1>17

(* A map that is evaluated, as RoundingAssumption and SidesAssumption have *)
(* it.                                                                     *)
Sided(t) ==
  /\ t.side \in Nat
  /\ t.side > 1
  /\ 4 * (t.side - 1) <= Precision
  /\ Precision * (t.side - 1) <= 2 * One

(* The position of the i-th cell of a side, and the cell that is read      *)
(* there.                                                                  *)
Abscissa(t, i) == rounded(i * coef(t), 1)

LEMMA StepNear ==
  ASSUME NEW t, Sided(t), NEW i \in 0..(t.side - 1)
  PROVE  /\ Abscissa(t, i) \in Nat
         /\ Step(t, Abscissa(t, i)) \in 0..(t.side - 1)
         /\ Step(t, Abscissa(t, i)) \in {i, i - 1}
<1> DEFINE n == t.side - 1
           D == Precision
           a == coef(t)
           x == Abscissa(t, i)
<1>1. n \in Nat /\ n > 0 /\ 4 * n <= D /\ D * n <= 2 * One /\ D \in Nat /\ i \in 0..n /\ One \in Nat /\ One > 0
  BY OperationsAssumption, RoundingAssumption DEF Sided
<1>2. Step(t, x) = IF x >= One THEN n ELSE IF x > 0 THEN rounded(x * n, 1) \div One ELSE 0
  BY DEF Step
<1>3. a = rounded(One, n)
  BY DEF coef
<1> HIDE DEF a
<1>4. x = rounded(i * a, 1)
  BY DEF Abscissa, a
<1> HIDE DEF D, n, x
<1>5. a \in Nat /\ D * (a * n - One) <= One /\ D * (One - a * n) <= One
  <2>1. One < One * Precision * n
    <3>1. 1 < D * n
      <4>1. 4 * 1 <= 4 * n /\ n * 4 <= n * D
        BY <1>1
      <4> QED
        BY <1>1, <4>1
    <3>2. One * 1 < One * (D * n)
      BY <1>1, <3>1
    <3>3. One * (D * n) = One * D * n
      BY <1>1
    <3> QED
      BY <1>1, <3>2, <3>3 DEF D
  <2>2. D * n <= 2 * One
    BY <1>1
  <2> QED
    BY <1>1, <1>3, <2>1, <2>2, RoundedClose DEF D
<1>6. a * n <= 2 * One
  <2> DEFINE A == a * n
  <2>1. A \in Nat
    BY <1>1, <1>5
  <2>2. A > 2 * One => D * (A - One) > D * One
    <3>1. D * (A - One) > D * One \/ A - One <= One
      <4>1. A - One \in Int /\ D > 0
        BY <1>1, <2>1
      <4> HIDE DEF A
      <4> QED
        BY <1>1, <4>1, Times
    <3> HIDE DEF A
    <3> QED
      BY <1>1, <2>1, <3>1
  <2>3. D * One >= 4 * One
    BY <1>1, Times
  <2>4. D * (A - One) <= One /\ D * (A - One) \in Int
    BY <1>1, <1>5, <2>1
  <2> HIDE DEF A
  <2>5. A <= 2 * One
    BY <1>1, <2>1, <2>2, <2>3, <2>4
  <2> QED
    BY <2>5 DEF A
<1>7. i \in Nat /\ i * a \in Nat /\ i * a < One * Precision * 1
  <2>1. i * a <= n * a /\ n * a = a * n
    <3>1. a * i <= a * n
      BY <1>1, <1>5, Times
    <3> QED
      BY <1>1, <1>5, <3>1
  <2>2. One * 4 <= One * D
    BY <1>1, Times
  <2>3. One * Precision * 1 = One * D
    BY <1>1 DEF D
  <2>4. i \in Nat /\ i * a \in Nat /\ a * n \in Nat /\ One * D \in Nat
    BY <1>1, <1>5
  <2> QED
    BY <1>1, <1>6, <2>1, <2>2, <2>3, <2>4
<1>8. x \in Nat /\ D * (x - i * a) <= i * a /\ D * (i * a - x) <= i * a
  <2>1. /\ x \in Nat
        /\ D * (x * 1 - i * a) <= i * a /\ D * (i * a - x * 1) <= i * a
    BY <1>4, <1>7, RoundedClose DEF D
  <2> QED
    BY <2>1
<1> DEFINE y == rounded(x * n, 1)
<1>9. x * n \in Nat /\ (x < One => x * n < One * Precision * 1)
  <2>1. x < One => n * x <= n * One
    BY <1>1, <1>8, Times
  <2>2. One * n < One * D
    <3>1. n < D
      BY <1>1
    <3>2. One * (D - n) > 0
      BY <1>1, <3>1
    <3>3. One * (D - n) = One * D - One * n /\ One * D \in Nat /\ One * n \in Nat
      BY <1>1
    <3> QED
      BY <3>2, <3>3
  <2>3. n * x = x * n /\ n * One = One * n /\ One * Precision * 1 = One * D /\ x * n \in Nat /\ One * n \in Nat /\ One * D \in Nat
    BY <1>1, <1>8 DEF D
  <2> QED
    BY <2>1, <2>2, <2>3
<1>10. x < One => y \in Nat /\ D * (y - x * n) <= x * n /\ D * (x * n - y) <= x * n
  <2> SUFFICES ASSUME x < One PROVE y \in Nat /\ D * (y - x * n) <= x * n /\ D * (x * n - y) <= x * n
    OBVIOUS
  <2>1. y \in Nat /\ D * (y * 1 - x * n) <= x * n /\ D * (x * n - y * 1) <= x * n
    BY <1>9, RoundedClose DEF D
  <2> HIDE DEF y
  <2> QED
    BY <2>1
<1> HIDE DEF y
<1>11. CASE i = 0
  <2>1. i * a = 0
    BY <1>5, <1>11
  <2>2. D * (x - 0) <= 0 /\ x - 0 = x
    BY <1>8, <2>1
  <2>3. x = 0
    <3>1. D * x <= D * 0 /\ D > 0
      BY <1>1, <2>2
    <3> QED
      BY <1>1, <1>8, <3>1, Times
  <2>4. Step(t, x) = 0
    BY <1>1, <1>2, <2>3
  <2> QED
    BY <1>1, <1>8, <1>11, <2>4 DEF x, n
<1>12. CASE i > 0
  <2> DEFINE A == a * n
             X == x * n
  <2>1. A \in Nat /\ D * (A - One) <= One /\ D * (One - A) <= One /\ X \in Nat
    BY <1>1, <1>5, <1>9
  <2>2. D * (X - i * A) <= i * A /\ D * (i * A - X) <= i * A
    <3>1. n * (D * (x - i * a)) <= n * (i * a) /\ n * (D * (i * a - x)) <= n * (i * a)
      <4>1. D * (x - i * a) \in Int /\ D * (i * a - x) \in Int /\ i * a \in Int
        BY <1>1, <1>7, <1>8
      <4> QED
        BY <1>1, <1>8, <4>1, Times
    <3>2. n * (i * a) = i * A
      BY <1>1, <1>5, <1>7
    <3>3. n * (D * (x - i * a)) = D * (X - i * A)
      BY <1>1, <1>5, <1>7, <1>8
    <3>4. n * (D * (i * a - x)) = D * (i * A - X)
      BY <1>1, <1>5, <1>7, <1>8
    <3> QED
      BY <3>1, <3>2, <3>3, <3>4
  <2> HIDE DEF A, X
  <2>3. i \in 1..n
    BY <1>1, <1>12
  <2>4. ASSUME NEW z \in Nat, D * (z - X) <= X, D * (X - z) <= X
        PROVE  X > 0 /\ (X >= n * One => i = n) /\ (i - 1) * One <= z /\ z < (i + 1) * One
    BY <1>1, <2>1, <2>2, <2>3, <2>4, Squeezed, SMTT(60)
  <2>5. CASE x >= One
    <3>1. X >= n * One
      <4>1. n * One <= n * x /\ n * x = X
        BY <1>1, <1>8, <2>5, Times DEF X
      <4> QED
        BY <4>1
    <3>2. D * (X - X) <= X
      BY <1>1, <2>1
    <3>3. i = n
      BY <2>1, <2>4, <3>1, <3>2
    <3>4. Step(t, x) = n
      BY <1>2, <2>5
    <3> QED
      BY <1>1, <1>8, <3>3, <3>4 DEF x, n
  <2>6. CASE x < One
    <3>1. y \in Nat /\ D * (y - X) <= X /\ D * (X - y) <= X
      BY <1>10, <2>6 DEF X
    <3>2. X > 0 /\ (i - 1) * One <= y /\ y < (i + 1) * One
      BY <2>4, <3>1
    <3>3. x > 0
      <4>1. x = 0 => X = 0
        BY <1>1 DEF X
      <4> QED
        BY <1>8, <3>2, <4>1
    <3>4. Step(t, x) = y \div One
      BY <1>1, <1>2, <1>8, <2>6, <3>3 DEF y
    <3> DEFINE q == y \div One
               r == y % One
    <3>5. y = q * One + r /\ q \in Nat /\ r \in 0..(One - 1)
      BY <1>1, <3>1, Divides
    <3> HIDE DEF q, r
    <3>6. q < i + 1
      <4>1. One * q < One * (i + 1)
        <5>1. One * q = q * One /\ One * (i + 1) = (i + 1) * One /\ q * One \in Nat /\ (i + 1) * One \in Nat
          BY <1>1, <3>5
        <5> QED
          BY <1>1, <3>2, <3>5, <5>1
      <4> QED
        BY <1>1, <3>5, <4>1, Times
    <3>7. i - 1 < q + 1
      <4>1. One * (i - 1) < One * (q + 1)
        <5>1. One * (q + 1) = q * One + One /\ One * (i - 1) = (i - 1) * One /\ q * One \in Nat /\ (i - 1) * One \in Int
          BY <1>1, <3>5
        <5> QED
          BY <1>1, <3>1, <3>2, <3>5, <5>1
      <4>2. i - 1 \in Int /\ q + 1 \in Int
        BY <1>1, <3>5
      <4> QED
        BY <1>1, <4>1, <4>2, Times
    <3>8. q \in {i, i - 1} /\ q \in 0..n
      BY <1>1, <3>5, <3>6, <3>7
    <3> QED
      BY <1>8, <3>4, <3>8 DEF q, x, n
  <2> QED
    BY <1>1, <1>8, <2>5, <2>6
<1> QED
  BY <1>1, <1>11, <1>12

(* A side that divides 1 exactly has all its positions exact. *)
LEMMA StepExact ==
  ASSUME NEW t, Sided(t), t.side - 1 \in Ulps, NEW i \in 0..(t.side - 1)
  PROVE  Step(t, Abscissa(t, i)) = i
<1> DEFINE n == t.side - 1
           x == Abscissa(t, i)
           e == One \div n
<1>1. n \in Nat /\ n > 0 /\ i \in 0..n /\ One \in Nat /\ One > 0 /\ 4 * n <= Precision /\ Precision \in Nat
  BY OperationsAssumption, RoundingAssumption DEF Sided
<1>2. One % n = 0
  BY DEF Ulps
<1>3. Step(t, x) = IF x >= One THEN n ELSE IF x > 0 THEN rounded(x * n, 1) \div One ELSE 0
  BY DEF Step
<1>4. coef(t) = rounded(One, n)
  BY DEF coef
<1>5. x = rounded(i * coef(t), 1)
  BY DEF Abscissa
<1> HIDE DEF n, x
<1>6. e \in Nat /\ One = e * n
  BY <1>1, <1>2, Divides
<1> HIDE DEF e
<1>7. e > 0 /\ e <= One
  <2>1. e = 0 => e * n = 0
    BY <1>1
  <2>2. e * 1 <= e * n
    BY <1>1, <1>6, Times
  <2> QED
    BY <1>1, <1>6, <2>1, <2>2
<1>8. e \in Ulps
  <2>1. One = n * e
    BY <1>1, <1>6
  <2>2. One % e = 0
    BY <1>1, <1>6, <1>7, <2>1, Divides
  <2> QED
    BY <1>1, <1>6, <1>7, <2>2 DEF Ulps
<1>9. coef(t) = e
  <2>1. rounded(1 * (e * n), n) = 1 * e
    BY <1>1, <1>8, RoundedExact
  <2>2. 1 * (e * n) = One /\ 1 * e = e
    BY <1>1, <1>6
  <2> QED
    BY <1>4, <2>1, <2>2
<1>10. x = i * e
  <2>1. rounded(i * (e * 1), 1) = i * e
    BY <1>1, <1>8, RoundedExact
  <2>2. e * 1 = e
    BY <1>6
  <2> QED
    BY <1>5, <1>9, <2>1, <2>2
<1>11. rounded(x * n, 1) = i * One
  <2>1. rounded(i * (One * 1), 1) = i * One
    <3>1. One \in Ulps /\ i \in Nat /\ 2 * i <= Precision /\ 0 < Precision /\ 1 \in Nat /\ 1 > 0
      BY <1>1, UlpsAre
    <3> QED
      BY <3>1, RoundedExact, Zenon
  <2>2. (i * e) * n = i * (One * 1)
    BY <1>1, <1>6
  <2> QED
    BY <1>10, <2>1, <2>2
<1>12. CASE i = n
  <2>1. x = One
    BY <1>1, <1>6, <1>10, <1>12
  <2> QED
    BY <1>1, <1>3, <1>12, <2>1 DEF x
<1>13. CASE i < n
  <2>1. x < One
    <3>1. e * (n - i) > 0
      BY <1>1, <1>6, <1>7, <1>13
    <3>2. e * (n - i) = One - x /\ x \in Nat
      BY <1>1, <1>6, <1>10
    <3> QED
      BY <1>1, <3>1, <3>2
  <2>2. i > 0 => x > 0
    BY <1>1, <1>6, <1>7, <1>10
  <2>3. i = 0 => x = 0
    BY <1>6, <1>10
  <2>4. (i * One) \div One = i
    <3>1. i \in Nat /\ i * One \in Nat
      BY <1>1
    <3> QED
      BY <1>1, <3>1, Divides
  <2>5. x \in Int
    BY <1>1, <1>6, <1>10
  <2> QED
    BY <1>1, <1>3, <1>11, <2>1, <2>2, <2>3, <2>4, <2>5 DEF x
<1> QED
  BY <1>1, <1>12, <1>13

(* The rows and the columns of a square. *)
LEMMA RowAndColumn ==
  ASSUME NEW s \in Nat, s > 0, NEW i \in 0..(s * s - 1)
  PROVE  i % s \in 0..(s - 1) /\ i \div s \in 0..(s - 1) /\ (i \div s) * s + (i % s) = i
<1>1. i \in Nat /\ i < s * s
  OBVIOUS
<1>2. i % s \in 0..(s - 1) /\ i \div s \in Int /\ (i \div s) * s + (i % s) = i
  <2>1. i % s \in 0..(s - 1)
    BY <1>1
  <2>2. i \div s \in Int
    BY <1>1
  <2>3. i = s * (i \div s) + (i % s)
    BY <1>1
  <2>4. s * (i \div s) = (i \div s) * s
    BY <2>2
  <2> QED
    BY <2>1, <2>2, <2>3, <2>4
<1> DEFINE d == i \div s
           m == i % s
<1>3. d \in Int /\ m \in 0..(s - 1) /\ d * s + m = i
  BY <1>2
<1> HIDE DEF d, m
<1>4. d >= 0
  <2>1. d < 0 => d * s <= -s
    BY <1>3
  <2> QED
    BY <1>1, <1>3, <2>1
<1>5. d < s
  <2>1. d >= s => d * s >= s * s
    BY <1>3
  <2> QED
    BY <1>1, <1>3, <2>1
<1> QED
  BY <1>2, <1>3, <1>4, <1>5 DEF d, m

(* A number below a side is its remainder by it, a number of rows and one  *)
(* below a side are its quotient and its remainder.                        *)
LEMMA Places ==
  ASSUME NEW s \in Nat, s > 0, NEW x \in 0..(s - 1), NEW y \in 0..(s - 1)
  PROVE  /\ x % s = x /\ x \div s = 0
         /\ (y * s + x) % s = x /\ (y * s + x) \div s = y
         /\ y * s + x \in 0..(s * s - 1)
<1> DEFINE i == y * s + x
<1>1. i \in Nat
  OBVIOUS
<1>2. i \in 0..(s * s - 1)
  <2>1. s * y <= s * (s - 1)
    BY Times
  <2>2. s * y = y * s /\ s * (s - 1) = s * s - s /\ y * s \in Nat /\ s * s \in Nat
    OBVIOUS
  <2> QED
    BY <1>1, <2>1, <2>2
<1> DEFINE q == i \div s
           r == i % s
<1>3. i = q * s + r /\ q \in Nat /\ r \in 0..(s - 1)
  BY <1>1, Divides
<1>4. x = 0 * s + x
  OBVIOUS
<1> HIDE DEF q, r
<1>5. q = y /\ r = x
  <2>1. (q - y) * s = x - r
    <3>1. (q - y) * s = q * s - y * s /\ q * s \in Int /\ y * s \in Int
      BY <1>3
    <3> QED
      BY <1>3, <3>1
  <2>2. q - y >= 1 => (q - y) * s >= s
    BY <1>3
  <2>3. q - y <= -1 => (q - y) * s <= -s
    BY <1>3
  <2>4. q - y = 0
    BY <1>3, <2>1, <2>2, <2>3
  <2> QED
    BY <1>3, <2>1, <2>4
<1>6. x % s = x /\ x \div s = 0
  <2> DEFINE a == x \div s
             b == x % s
  <2>1. x = a * s + b /\ a \in Nat /\ b \in 0..(s - 1) /\ x \in Nat
    BY Divides
  <2> HIDE DEF a, b
  <2>2. a >= 1 => a * s >= s
    BY <2>1
  <2>3. a = 0
    BY <2>1, <2>2
  <2> QED
    BY <2>1, <2>3 DEF a, b
<1> QED
  BY <1>2, <1>5, <1>6 DEF q, r

(* value-at reads, at the position an argmax tells, the cell it is that of *)
(* or the one before.                                                      *)
LEMMA CellNear ==
  ASSUME NEW t \in DataType, t.dim \in 1..2, Sided(t), NEW i \in 0..(size(t) - 1)
  PROVE  LET c == IndexAt(t, BmuAt(t, i))
         IN  /\ c \in 0..(size(t) - 1)
             /\ Reads(t, c % t.side, c \div t.side, i % t.side, i \div t.side)
<1> DEFINE s == t.side
           at(j) == Step(t, Abscissa(t, j))
           Near(j) == at(j) \in 0..(s - 1) /\ at(j) \in {j, j - 1} /\ (t.side - 1 \in Ulps => at(j) = j)
<1>1. s \in Nat /\ s > 0
  BY DEF Sided
<1>2. ASSUME NEW j \in 0..(s - 1) PROVE Near(j)
  BY StepNear, StepExact
<1> HIDE DEF at
<1>3. CASE t.dim = 1
  <2>1. size(t) = s /\ i \in 0..(s - 1)
    BY <1>3 DEF size
  <2>2. IndexAt(t, BmuAt(t, i)) = at(i)
    BY <1>3 DEF IndexAt, BmuAt, Abscissa, at
  <2>3. i % s = i /\ i \div s = 0 /\ at(i) % s = at(i) /\ at(i) \div s = 0
    <3>1. at(i) \in 0..(s - 1)
      BY <1>2, <2>1
    <3> HIDE DEF s
    <3> QED
      BY <1>1, <2>1, <3>1, Places
  <2>4. Near(i)
    BY <1>2, <2>1
  <2> QED
    BY <2>1, <2>2, <2>3, <2>4 DEF Reads
<1>4. CASE t.dim = 2
  <2>1. size(t) = s * s /\ i \in 0..(s * s - 1)
    BY <1>4 DEF size
  <2> DEFINE x == i % s
             y == i \div s
             c == at(y) * s + at(x)
  <2>2. x \in 0..(s - 1) /\ y \in 0..(s - 1)
    <3> HIDE DEF s
    <3> QED
      BY <1>1, <2>1, RowAndColumn
  <2>3. IndexAt(t, BmuAt(t, i)) = c
    BY <1>4 DEF IndexAt, BmuAt, Abscissa, at
  <2> HIDE DEF x, y
  <2>4. Near(x) /\ Near(y)
    BY <1>2, <2>2
  <2>5. c % s = at(x) /\ c \div s = at(y) /\ c \in 0..(s * s - 1)
    <3> DEFINE p == at(x)
               q == at(y)
    <3>1. p \in 0..(s - 1) /\ q \in 0..(s - 1)
      BY <2>4
    <3> HIDE DEF s, p, q
    <3>2. (q * s + p) % s = p /\ (q * s + p) \div s = q /\ q * s + p \in 0..(s * s - 1)
      BY <1>1, <3>1, Places
    <3> QED
      BY <3>2 DEF p, q
  <2> HIDE DEF c
  <2> QED
    BY <2>1, <2>3, <2>4, <2>5 DEF Reads, x, y
<1> QED
  BY <1>3, <1>4

(* Distances. *)
LEMMA DistanceIs ==
  ASSUME NEW n \in Nat, NEW p \in [1..n -> Int], NEW r \in [1..n -> Int]
  PROVE  SquareDistance(p, r) \in Nat /\ SquareDistance(p, p) = 0
<1> DEFINE f == [i \in 1..n |-> (p[i] - r[i]) * (p[i] - r[i])]
           g == [i \in 1..n |-> (p[i] - p[i]) * (p[i] - p[i])]
<1>1. Len(p) = n
  BY LenIs
<1>2. f \in [1..n -> Nat]
  <2>1. \A x \in Int : x * x \in Nat
    OBVIOUS
  <2>2. \A i \in 1..n : p[i] - r[i] \in Int
    OBVIOUS
  <2> QED
    BY <2>1, <2>2
<1>3. g \in [1..n -> Int] /\ \A i \in 1..n : g[i] = 0
  OBVIOUS
<1>4. SquareDistance(p, r) = Total(f) /\ SquareDistance(p, p) = Total(g)
  BY <1>1 DEF SquareDistance
<1> HIDE DEF f, g
<1> QED
  BY <1>2, <1>3, <1>4, TotalBounds, TotalOfZeros

LEMMA RootTyped == ASSUME NEW D \in Nat PROVE Root(D) \in Nat /\ Root(0) = 0
<1> DEFINE S == {r \in Nat : D < (r + 1) * (r + 1)}
<1>1. PICK b \in S : \A y \in S : b <= y
  <2>1. D < (D + 1) * (D + 1)
    BY Times
  <2>2. D \in S
    BY <2>1
  <2>3. S \in SUBSET Nat
    OBVIOUS
  <2> HIDE DEF S
  <2> QED
    BY <2>2, <2>3, Least
<1>2. b * b <= D
  <2>1. CASE b = 0
    BY <2>1
  <2>2. CASE b > 0
    <3>1. b - 1 \in Nat /\ b - 1 \notin S
      BY <1>1, <2>2
    <3>2. ~(D < ((b - 1) + 1) * ((b - 1) + 1))
      BY <3>1
    <3>3. (b - 1) + 1 = b
      BY <1>1
    <3> QED
      BY <1>1, <3>2, <3>3
  <2> QED
    BY <1>1, <2>1, <2>2
<1>3. b \in 0..D
  <2>1. b <= b * b
    BY <1>1
  <2> QED
    BY <1>1, <1>2, <2>1
<1>4. Root(D) \in 0..D
  <2>1. b * b <= D /\ D < (b + 1) * (b + 1)
    BY <1>1, <1>2
  <2> QED
    BY <1>3, <2>1 DEF Root
<1>5. Root(0) = 0
  BY DEF Root
<1> QED
  BY <1>4, <1>5

(* A kernel is never higher than at its centre. *)
LEMMA KernelsPeak ==
  ASSUME NEW n \in Nat, NEW p \in [1..n -> Int], NEW r \in [1..n -> Int]
  PROVE  triangle(r, p) <= triangle(p, p) /\ gaussian(r, p) <= gaussian(p, p)
<1>1. One \in Nat /\ One > 0 /\ Slope \in Nat
  BY OperationsAssumption
<1> DEFINE D == SquareDistance(r, p)
<1>2. D \in Nat /\ SquareDistance(p, p) = 0
  BY DistanceIs
<1> HIDE DEF D
<1>3. triangle(r, p) <= One
  <2>1. Root(D) \in Nat
    BY <1>2, RootTyped
  <2>2. triangle(r, p) = CHOOSE x \in {0, One - Slope * Root(D)} : \A y \in {0, One - Slope * Root(D)} : x >= y
    BY DEF triangle, Max, D
  <2>3. Slope * Root(D) \in Nat
    BY <1>1, <2>1
  <2> DEFINE e == One - Slope * Root(D)
  <2>4. e \in Int /\ e <= One
    BY <1>1, <2>3
  <2> HIDE DEF e
  <2>5. \E x \in {0, e} : \A y \in {0, e} : x >= y
    BY <2>4
  <2> QED
    BY <1>1, <2>2, <2>4, <2>5 DEF e
<1>4. triangle(p, p) = One
  <2>1. Root(0) = 0
    BY RootTyped
  <2>2. triangle(p, p) = CHOOSE x \in {0, One} : \A y \in {0, One} : x >= y
    BY <1>1, <1>2, <2>1 DEF triangle, Max
  <2> QED
    BY <1>1, <2>2
<1> DEFINE C == One * One
<1>5. C \in Nat /\ C > 0
  BY <1>1
<1>6. gaussian(p, p) = One
  <2>1. gaussian(p, p) = (One * One * One) \div (One * One + Slope * 0)
    BY <1>2 DEF gaussian
  <2>2. One * One * One = One * C /\ One * One + Slope * 0 = C
    BY <1>1
  <2>3. (One * C) \div C = One
    <3>1. One * C \in Nat
      BY <1>1
    <3> HIDE DEF C
    <3> QED
      BY <1>1, <1>5, <3>1, Divides
  <2> QED
    BY <2>1, <2>2, <2>3
<1>7. gaussian(r, p) <= One
  <2> DEFINE K == Slope * D
             N == One * C
             e == C + K
             g == N \div e
             m == N % e
  <2>1. K \in Nat /\ N \in Nat /\ e \in Nat /\ e > 0
    <3> HIDE DEF C
    <3> QED
      BY <1>1, <1>2, <1>5
  <2>2. gaussian(r, p) = g
    <3>1. One * One * One = N
      BY <1>1
    <3>2. gaussian(r, p) = (One * One * One) \div e
      BY DEF gaussian, D
    <3> HIDE DEF N, e
    <3> QED
      BY <3>1, <3>2
  <2> HIDE DEF N, K, C, e
  <2>3. N = g * e + m /\ g \in Nat /\ m \in 0..(e - 1)
    BY <2>1, Divides
  <2> HIDE DEF g, m
  <2>4. N = g * C + g * K + m /\ m \in Nat /\ g * K \in Nat /\ g * C \in Nat
    <3>1. g * e = g * C + g * K
      BY <1>5, <2>1, <2>3 DEF e
    <3> QED
      BY <1>5, <2>1, <2>3, <3>1
  <2>5. C * g <= C * One
    <3>1. C * g = g * C /\ C * One = N
      BY <1>1, <1>5, <2>3 DEF N
    <3> QED
      BY <2>1, <2>4, <3>1
  <2>6. g <= One
    BY <1>1, <1>5, <2>3, <2>5, Times
  <2> QED
    BY <2>2, <2>6
<1> QED
  BY <1>3, <1>4, <1>6, <1>7

LEMMA MinIn ==
  ASSUME NEW n \in Nat, NEW S \in SUBSET (1..n), S # {}
  PROVE  Min(S) \in S
<1>1. S \in SUBSET Nat
  OBVIOUS
<1> QED
  BY <1>1, Least DEF Min

LEMMA WinnersIn ==
  ASSUME NEW n \in Nat \ {0}, NEW c \in [1..n -> Int], NEW i \in Winners(c)
  PROVE  i \in 0..(n - 1)
<1> DEFINE tops == {k \in 1..n : c[k] = Max({c[j] : j \in 1..n})}
<1>1. DOMAIN c = 1..n
  OBVIOUS
<1>2. tops # {}
  BY MaxIs
<1>3. Min(tops) \in 1..n
  <2>1. tops \in SUBSET (1..n)
    OBVIOUS
  <2> HIDE DEF tops
  <2> QED
    BY <1>2, <2>1, MinIn
<1>4. CASE RandomBmu
  <2>1. \E j \in 1..n : i = j - 1
    BY <1>1, <1>4 DEF Winners
  <2> QED
    BY <2>1
<1>5. CASE ~RandomBmu
  <2>1. i = Min(tops) - 1
    BY <1>1, <1>5 DEF Winners
  <2> HIDE DEF tops
  <2> QED
    BY <1>3, <2>1
<1> QED
  BY <1>4, <1>5

LEMMA GridTyped ==
  ASSUME NEW t, t.dim \in 1..2, Sided(t)
  PROVE  \A j \in 0..(size(t) - 1) : GridPoint(t, j) \in [1..t.dim -> Int]
<1> DEFINE s == t.side
<1>1. s \in Nat /\ s > 0
  BY DEF Sided
<1>2. ASSUME NEW j \in 0..(size(t) - 1) PROVE GridPoint(t, j) \in [1..t.dim -> Int]
  <2>1. CASE t.dim = 1
    <3>1. j \in 0..(s - 1)
      BY <2>1 DEF size
    <3>2. GridPoint(t, j) = <<Abscissa(t, j)>>
      BY <2>1 DEF GridPoint, Abscissa
    <3>3. Abscissa(t, j) \in Int
      BY <3>1, StepNear
    <3> QED
      BY <2>1, <3>2, <3>3
  <2>2. CASE t.dim = 2
    <3>1. j \in 0..(s * s - 1)
      BY <2>2 DEF size
    <3> DEFINE x == j % s
               y == j \div s
    <3>2. x \in 0..(s - 1) /\ y \in 0..(s - 1)
      <4> HIDE DEF s
      <4> QED
        BY <1>1, <3>1, RowAndColumn
    <3>3. GridPoint(t, j) = <<Abscissa(t, x), Abscissa(t, y)>>
      BY <2>2 DEF GridPoint, Abscissa
    <3> HIDE DEF x, y
    <3>4. Abscissa(t, x) \in Int /\ Abscissa(t, y) \in Int
      BY <3>2, StepNear
    <3> QED
      BY <2>2, <3>3, <3>4
  <2> QED
    BY <2>1, <2>2
<1> QED
  BY <1>2

(* The position argmax tells is that of a winner, the cell a learning      *)
(* around it moves most is this one, and value-at reads it or the cell     *)
(* before it in the row or the column, for maps of any size and any        *)
(* precision of the numbers (the positions of Argmax, of ValueAt and of    *)
(* Learn, each written on its own and rounded).                            *)
THEOREM NearTheWinner == ASSUME OneKind PROVE Spec => []NearCell
<1>1. OperationsInv => NearCell
  <2> SUFFICES ASSUME OperationsInv, rule.op = "argmax", Evaluated PROVE NearCell
    BY DEF NearCell
  <2> DEFINE t == rule.args[1]
             n == size(t)
  <2>1. Running /\ updated_once /\ RuleOK /\ ArgsOK
    BY DEF OperationsInv, Evaluated, Running
  <2>2. DOMAIN args = 1..Arity
    BY <2>1, ArgsTyped DEF Running
  <2>3. res.val \in Reference(rule, Seen)
    <3>1. \A k \in 1..Arity : args[k].fresh => args[k].kind = "self"
      BY <2>2 DEF Evaluated
    <3> QED
      BY <2>1, <3>1 DEF Running
  <2>4. /\ 1 \in 1..Arity /\ args[1].kind # "self" /\ is_MapOf(t, Scalar) /\ t \in DataType
        /\ n \in Nat \ {0} /\ args[1].val \in [1..n -> Int]
    BY <2>1, MapRead DEF Argmaxes
  <2>5. Seen[1] = args[1].val
    BY <2>2, <2>4 DEF Seen
  <2>6. PICK b \in Winners(args[1].val) : res.val = BmuAt(t, b)
    <3>1. Reference(rule, Seen) = {BmuAt(t, i) : i \in Winners(Seen[1])}
      BY DEF Reference, Extremum
    <3> QED
      BY <2>3, <2>5, <3>1
  <2>7. b \in 0..(n - 1)
    <3> DEFINE c == args[1].val
    <3>1. n \in Nat \ {0} /\ c \in [1..n -> Int] /\ b \in Winners(c)
      BY <2>4
    <3> HIDE DEF n, c
    <3> QED
      BY <3>1, WinnersIn
  <2>8. Sided(t) /\ t.dim \in 1..2
    <3>1. t.dim \in 1..2 /\ is_Map(t) /\ t.side \in Nat
      BY <2>4 DEF is_MapOf, is_Map, DataType
    <3>2. Kinds(rule) # {} /\ rule \in Rule /\ 1 \in DOMAIN rule.args
      BY <2>1, <2>4 DEF ArgsOK, RuleOK, Arity
    <3> QED
      BY <3>1, <3>2, SidesAssumption DEF Sided
  <2> DEFINE c == IndexAt(t, res.val)
  <2>9. c \in 0..(n - 1) /\ Reads(t, c % t.side, c \div t.side, b % t.side, b \div t.side)
    <3> HIDE DEF t
    <3> QED
      BY <2>4, <2>6, <2>7, <2>8, CellNear
  <2>10. \A j \in 0..(n - 1) : GridPoint(t, j) \in [1..t.dim -> Int]
    <3> HIDE DEF t
    <3> QED
      BY <2>8, GridTyped
  <2>11. GridPoint(t, b) = res.val
    BY <2>6 DEF GridPoint, BmuAt
  <2>12. ASSUME NEW j \in 0..(n - 1)
         PROVE  /\ triangle(GridPoint(t, j), res.val) <= triangle(GridPoint(t, b), res.val)
                /\ gaussian(GridPoint(t, j), res.val) <= gaussian(GridPoint(t, b), res.val)
    <3> HIDE DEF t, n
    <3>1. /\ triangle(GridPoint(t, j), res.val) <= triangle(res.val, res.val)
          /\ gaussian(GridPoint(t, j), res.val) <= gaussian(res.val, res.val)
      BY <2>7, <2>8, <2>10, <2>11, KernelsPeak
    <3> QED
      BY <2>11, <3>1
  <2> QED
    BY <2>6, <2>9, <2>12 DEF NearCell
<1> QED
  BY <1>1, OperationsAlways, PTL

=============================================================================
