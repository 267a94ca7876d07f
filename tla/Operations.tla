----------------------------- MODULE Operations -----------------------------
(***************************************************************************)
(* The operations of the server (cxsomOperation.hpp): what the update of a *)
(* rule keeps from one evaluation to the next, and what it computes.  The  *)
(* out-arguments are read once, when all of them are ready; the            *)
(* in-arguments at each evaluation, since they move during the relaxation; *)
(* the operation gathers both.                                             *)
(*                                                                         *)
(* Abstractions: reals are integers, One being 1, and where a cell is is   *)
(* computed with the rounding of floating point numbers; the kernels and   *)
(* the convolution are functions with the same shape; dates are left to    *)
(* Update: an in-argument is fresh when it moved since it was read.        *)
(***************************************************************************)
EXTENDS Types, FiniteSetsExt

CONSTANTS
  Rule,       (* the rules: operation, types of the result and arguments   *)
  Kinds(_),   (* Kinds(r): the kinds its arguments are evaluated with       *)
  One,        (* the integer that stands for 1, a power of two              *)
  Precision,  (* 2^p, p bits being those of a significand (53 in a double)  *)
  Contents(_),(* Contents(t): the values of type t that are tried           *)
  Epsilon,    (* "epsilon": a smaller change is not significant             *)
  Tol,        (* "tol": a smaller learning step is not done                 *)
  Alpha,      (* "alpha": the learning rate                                 *)
  Beta,       (* "beta": the share of the first argument of a merge         *)
  Slope,      (* the inverse of "r", or of "sigma"                          *)
  Delta,      (* "delta": the length of a step toward the argmax            *)
  ArgmaxTol,  (* "argmax-tol": values that close to the maximum are maximal *)
  RandomBmu,  (* "random-bmu": one of the maxima is drawn                   *)
  MaxTicks,   (* "deadline": the significant writes of an argmax            *)
  MaxMoves    (* bound: the moves of the in-arguments                       *)

ASSUME RuleAssumption == Rule \subseteq [op : STRING, res : DataType, args : Seq(DataType)]

ASSUME OperationsAssumption ==
  /\ One \in Nat \ {0}
  /\ {Epsilon, Tol, Alpha, Beta, Slope, Delta, ArgmaxTol, MaxTicks, MaxMoves} \subseteq Nat
  /\ RandomBmu \in BOOLEAN

(* One is a power of two: its divisors but 1 are even. *)
ASSUME RoundingAssumption ==
  /\ Precision \in Nat
  /\ \A u \in 2..One : One % u = 0 => u % 2 = 0

(* Beyond all the values. *)
Big == 1000 * One

(* What rules are evaluated on: an argument that is the result has its     *)
(* type, and values are within the bounds of a min or a max.               *)
ASSUME KindsAssumption ==
  \A r \in Rule : \A kinds \in Kinds(r) :
    /\ kinds \in [DOMAIN r.args -> {"in", "out", "self"}]
    /\ \A k \in DOMAIN r.args :
         /\ kinds[k] = "self" => r.args[k] = r.res
         /\ Contents(r.args[k]) \subseteq [1..nb_of_doubles(r.args[k]) -> (-Big)..Big]

(* The maps that are evaluated have several cells on a side, and few for   *)
(* the precision.                                                          *)
ASSUME SidesAssumption ==
  \A r \in Rule : Kinds(r) # {} => \A k \in DOMAIN r.args :
    is_Map(r.args[k]) => LET s == r.args[k].side
                         IN  s > 1 /\ 4 * (s - 1) <= Precision /\ Precision * (s - 1) <= 2 * One

VARIABLES
  rule,         (* the rule                                                 *)
  phase,        (* "declared", "refused" or "running"                       *)
  args,         (* its arguments: kind, value, ready or not, fresh or not   *)
  mem,          (* what the operation keeps                                 *)
  out_ok,       (* the out-arguments have all been read                     *)
  updated_once, (* the result has been written                              *)
  res,          (* the result: its value, ready or not                      *)
  report,       (* the status of the last evaluation                        *)
  old,          (* the result before it was last written                    *)
  moves         (* the moves so far                                         *)

vars == <<rule, phase, args, mem, out_ok, updated_once, res, report, old, moves>>

Extremum == {"min", "max"}
Argmaxes == {"argmax", "conv-argmax"}
Towards  == {"toward-argmax", "toward-conv-argmax"}

Zeros(t) == [i \in 1..nb_of_doubles(t) |-> 0]

Root(n) == CHOOSE r \in 0..n : r * r <= n /\ n < (r + 1) * (r + 1)

-----------------------------------------------------------------------------
(* What the types of a rule must be for its update to stay inside the      *)
(* values it reads and writes (the casts and the buffers of the classes).  *)
Fits(op, r, a) ==
  CASE op = "copy"        -> nb_of_doubles(a[1]) = nb_of_doubles(r)
    [] op \in Extremum    -> \A i \in DOMAIN a : a[i] = Scalar
    [] op = "average"     -> is_Map(r) /\ r.width = 1
    [] op = "merge"       -> nb_of_doubles(a[1]) = size(r) /\ nb_of_doubles(a[2]) = size(r)
    [] op \in {"match-triangle", "match-gaussian"} ->
         nb_of_doubles(r) * a[1].width = nb_of_doubles(a[2])
    [] op \in {"learn-triangle", "learn-gaussian"} ->
         /\ size(a[2]) * a[1].width = nb_of_doubles(a[2])
         /\ nb_of_doubles(r) = nb_of_doubles(a[2])
         /\ a[3].width = a[2].dim
    [] op \in Argmaxes    -> nb_of_doubles(a[1]) = size(a[1]) /\ r.width = a[1].dim
    [] op \in Towards     -> nb_of_doubles(a[1]) = size(a[1]) /\ r.width = a[1].dim /\ a[2] = r
    [] op = "pair"        -> a[1] = Pos1D /\ a[2] = Pos1D
    [] op \in {"first", "second"} -> a[1].width = 2
    [] op = "value-at"    -> size(a[1]) * r.width = nb_of_doubles(a[1]) /\ a[2].width = a[1].dim
    [] OTHER              -> TRUE

-----------------------------------------------------------------------------
(* The cells of a map and their positions, in [0, 1].                      *)

cell(c, t, i) == SubSeq(c, i * t.width + 1, (i + 1) * t.width)

(* The powers of two up to One. *)
Ulps == {u \in 1..One : One % u = 0}

(* The unit in the last place of num / den. *)
ulp(num, den) ==
  CHOOSE u \in Ulps : num < u * Precision * den /\ (u > 1 => u * Precision * den <= 2 * num)

(* num / den in floating point: the closest number with the bits of the    *)
(* significand, the even one of two.                                       *)
rounded(num, den) ==
  LET u == ulp(num, den)
      n == num \div (u * den)
      r == num % (u * den)
  IN  u * IF 2 * r < u * den \/ (2 * r = u * den /\ n % 2 = 0) THEN n ELSE n + 1

(* Variant of coef: the positions of the cells stop before 1. *)
coef_of_side(t) == rounded(One, t.side)

coef(t) == rounded(One, t.side - 1)

(* The position of the winner, in the argmax operations. *)
BmuAt(t, i) ==
  LET k == coef(t)
      at(j) == rounded(j * k, 1)
  IN  IF t.dim = 1 THEN <<at(i)>> ELSE <<at(i % t.side), at(i \div t.side)>>

(* The positions learn_W1D and learn_W2D give to the cells they go through *)
(* (the rows, then in each the cells).                                     *)
GridPoint(t, i) ==
  LET k == coef(t)
      at(j) == rounded(j * k, 1)
  IN  IF t.dim = 1 THEN <<at(i)>> ELSE <<at(i % t.side), at(i \div t.side)>>

(* The cell of a coordinate: what x times side - 1 is rounded to, without  *)
(* its decimals.                                                           *)
Step(t, x) ==
  IF x >= One THEN t.side - 1 ELSE IF x > 0 THEN rounded(x * (t.side - 1), 1) \div One ELSE 0

(* The cell of a position, in value-at. *)
IndexAt(t, p) == IF t.dim = 1 THEN Step(t, p[1]) ELSE Step(t, p[2]) * t.side + Step(t, p[1])

(* The sum of the integers of a sequence. *)
Total(f) == LET sum[k \in 0..Len(f)] == IF k = 0 THEN 0 ELSE sum[k - 1] + f[k] IN sum[Len(f)]

SquareDistance(p, q) == Total([i \in 1..Len(p) |-> (p[i] - q[i]) * (p[i] - q[i])])

(* match::triangle and match::gaussian: 1 at distance 0, and decreasing.   *)
triangle(p, q) == Max({0, One - Slope * Root(SquareDistance(p, q))})

gaussian(p, q) == (One * One * One) \div (One * One + Slope * SquareDistance(p, q))

(* The convolution of the activities by a kernel: the more neighbours are  *)
(* active, the higher.                                                     *)
Convolve(c, t) ==
  LET row(j) == (j - 1) \div t.side
      close(j, k) == j - k \in {t.side, -t.side} \/ (row(j) = row(k) /\ j - k \in {1, -1})
  IN  [j \in 1..Len(c) |-> 2 * c[j] + Total([k \in 1..Len(c) |-> IF close(j, k) THEN c[k] ELSE 0])]

(* find_argmax: the cells it may return. The first value, or one above the *)
(* tolerance, replaces the winners; a value within it is one more.         *)
find_argmax(c) ==
  LET step(s, i) ==
        IF s.bmus = {} \/ c[i] > s.max + ArgmaxTol THEN [max |-> c[i], bmus |-> {i - 1}]
        ELSE IF c[i] > s.max - ArgmaxTol THEN [s EXCEPT !.bmus = @ \cup {i - 1}]
        ELSE s
      drawn[i \in 0..Len(c)] == IF i = 0 THEN [max |-> 0, bmus |-> {}] ELSE step(drawn[i - 1], i)
      first == Min({i \in DOMAIN c : \A j \in DOMAIN c : c[j] <= c[i]}) - 1
  IN  IF RandomBmu THEN drawn[Len(c)].bmus ELSE {first}

(* toward-argmax: from position p, a step of length delta toward q, or q   *)
(* itself when it is closer (distances are rounded up, steps down).        *)
Toward(p, q) ==
  LET d == 1 + Root(SquareDistance(p, q) - 1)
      Move(i) == IF q[i] >= p[i] THEN p[i] + ((q[i] - p[i]) * Delta) \div d
                                 ELSE p[i] - ((p[i] - q[i]) * Delta) \div d
  IN  IF SquareDistance(p, q) <= Delta * Delta THEN q ELSE [i \in DOMAIN p |-> Move(i)]

-----------------------------------------------------------------------------
(* What an operation keeps: min and max the extrema of the out- and of the *)
(* in-arguments, average their sums, the other ones the last value read of *)
(* each argument.                                                          *)
NoBound(op) == IF op = "min" THEN Big ELSE -Big

NewMemory(r) ==
  CASE r.op \in Extremum -> [value_out |-> NoBound(r.op), value_in |-> NoBound(r.op)]
    [] r.op = "average"  -> [sum_out |-> Zeros(r.res), nb_out |-> 0, sum_in |-> Zeros(r.res), nb_in |-> 0,
                             sum_out_computed |-> FALSE]
    [] OTHER             -> [read |-> [k \in DOMAIN r.args |-> Zeros(r.args[k])], from_out |-> FALSE,
                             ticks |-> 0]

Better(op, x, y) == IF op = "min" THEN Min({x, y}) ELSE Max({x, y})

Sum2(c, d) == [i \in DOMAIN c |-> c[i] + d[i]]

(* Variant of on_computation_start: an average adds the out-arguments to   *)
(* what was read before they were found busy.                              *)
start_once(op, t, m) ==
  CASE op \in Extremum -> [value_out |-> NoBound(op), value_in |-> NoBound(op)]
    [] op = "average" -> [m EXCEPT !.sum_in = Zeros(t), !.nb_in = 0, !.sum_out_computed = TRUE]
    [] op = "copy"    -> [m EXCEPT !.from_out = FALSE]
    [] OTHER          -> m

(* on_computation_start; min and max forget the out-arguments too, though  *)
(* they will not be read again.                                            *)
on_computation_start(op, t, m) ==
  CASE op \in Extremum -> [value_out |-> NoBound(op), value_in |-> NoBound(op)]
    [] op = "average" ->
         [m EXCEPT !.sum_in = Zeros(t), !.nb_in = 0, !.sum_out_computed = TRUE,
                   !.sum_out = IF m.sum_out_computed THEN @ ELSE Zeros(t),
                   !.nb_out = IF m.sum_out_computed THEN @ ELSE 0]
    [] op = "copy"    -> [m EXCEPT !.from_out = FALSE]
    [] OTHER          -> m

on_read_out_arg(op, m, k, c) ==
  CASE op \in Extremum -> [m EXCEPT !.value_out = Better(op, @, c[1])]
    [] op = "average" -> [m EXCEPT !.sum_out = Sum2(@, c), !.nb_out = @ + 1]
    [] OTHER          -> [m EXCEPT !.read[k] = c, !.from_out = TRUE]

on_read_out_arg_aborted(op, m) ==
  CASE op \in Extremum -> [m EXCEPT !.value_out = NoBound(op)]
    [] op = "average" -> [m EXCEPT !.sum_out_computed = FALSE]
    [] OTHER          -> m

on_read_in_arg(op, m, k, c) ==
  CASE op \in Extremum -> [m EXCEPT !.value_in = Better(op, @, c[1])]
    [] op = "average" -> [m EXCEPT !.sum_in = Sum2(@, c), !.nb_in = @ + 1]
    [] OTHER          -> [m EXCEPT !.read[k] = c, !.from_out = IF op \in Argmaxes THEN FALSE ELSE @]

(* What on_write_result makes of the last values read, a; a draw between   *)
(* several values is the set of these values.                              *)
copied(a) == {a[1]}

merged(a) == {[i \in DOMAIN a[1] |-> Root(a[1][i] * ((Beta * a[1][i] + (One - Beta) * a[2][i]) \div One))]}

matched(r, a, h(_, _)) == {[i \in 1..size(r.res) |-> h(a[1], cell(a[2], r.args[2], i - 1))]}

match_triangle(r, a) == matched(r, a, triangle)

match_gaussian(r, a) == matched(r, a, gaussian)

(* The weights t of the cells close to the position a[3] get closer to     *)
(* a[1], unless the step is within the tolerance.                          *)
learned(t, a, h(_, _)) ==
  {[i \in DOMAIN a[2] |->
      LET k == (h(GridPoint(t, (i - 1) \div t.width), a[3]) * Alpha) \div One
          x == a[1][((i - 1) % t.width) + 1]
      IN  IF k > Tol THEN ((One - k) * a[2][i] + k * x) \div One ELSE a[2][i]]}

learn_triangle(r, a) == learned(r.args[2], a, triangle)

learn_gaussian(r, a) == learned(r.args[2], a, gaussian)

argmax(r, a) == {BmuAt(r.args[1], i) : i \in find_argmax(a[1])}

conv_argmax(r, a) == {BmuAt(r.args[1], i) : i \in find_argmax(Convolve(a[1], r.args[1]))}

toward_argmax(r, a) == {Toward(a[2], BmuAt(r.args[1], i)) : i \in find_argmax(a[1])}

toward_conv_argmax(r, a) ==
  {Toward(a[2], BmuAt(r.args[1], i)) : i \in find_argmax(Convolve(a[1], r.args[1]))}

paired(a) == {<<a[1][1], a[2][1]>>}

value_at(r, a) == {cell(a[1], r.args[1], IndexAt(r.args[1], a[2]))}

computed(r, a) ==
  CASE r.op = "copy"     -> copied(a)
    [] r.op \in {"random", "random-when"} -> Contents(r.res)
    [] r.op = "clear"    -> {Zeros(r.res)}
    [] r.op = "merge"    -> merged(a)
    [] r.op = "match-triangle" -> match_triangle(r, a)
    [] r.op = "match-gaussian" -> match_gaussian(r, a)
    [] r.op = "learn-triangle" -> learn_triangle(r, a)
    [] r.op = "learn-gaussian" -> learn_gaussian(r, a)
    [] r.op = "argmax"   -> argmax(r, a)
    [] r.op = "conv-argmax"   -> conv_argmax(r, a)
    [] r.op = "toward-argmax" -> toward_argmax(r, a)
    [] r.op = "toward-conv-argmax" -> toward_conv_argmax(r, a)
    [] r.op = "pair"     -> paired(a)
    [] r.op = "first"    -> {<<a[1][1]>>}
    [] r.op = "second"   -> {<<a[1][2]>>}
    [] r.op = "value-at" -> value_at(r, a)

(* The average of what was read, or the value v of the result if nothing   *)
(* was; the sum of the in-arguments is reused for that of both.            *)
averaged(m, v) ==
  LET n == m.nb_in + m.nb_out
      sum == IF m.nb_in = 0 THEN m.sum_out ELSE IF m.nb_out = 0 THEN m.sum_in ELSE Sum2(m.sum_in, m.sum_out)
  IN  IF n = 0 THEN v ELSE [i \in DOMAIN sum |-> sum[i] \div n]

written(r, m, v) ==
  CASE r.op \in Extremum   -> {<<Better(r.op, m.value_in, m.value_out)>>}
    [] r.op = "average"    -> {averaged(m, v)}
    [] r.op = "converge"   -> {<<m.ticks + 1>>}
    [] OTHER               -> computed(r, m.read)

difference(v, w) == Max({0} \cup {IF v[i] >= w[i] THEN v[i] - w[i] ELSE w[i] - v[i] : i \in DOMAIN v})

(* Variant of expired: there is no deadline. *)
never(m) == FALSE

(* Deadline::tick and expired. *)
expired(m) == m.ticks >= MaxTicks

after_writing(op, m) ==
  CASE op \in Extremum -> [m EXCEPT !.value_in = NoBound(op)]
    [] op \in Argmaxes \cup Towards -> [m EXCEPT !.ticks = Min({@ + 1, MaxTicks})]
    [] op = "converge" -> [m EXCEPT !.ticks = @ + 1]
    [] OTHER -> m

(* Variant of significant: a change of the last component only. *)
last_differs(op, kinds, m, v, w) ==
  LET n == Len(v)
      differs == v[n] - w[n] > Epsilon \/ w[n] - v[n] > Epsilon
  IN  CASE op = "copy"     -> {m.from_out \/ v # w}
        [] op \in Argmaxes -> {~expired(m) /\ (m.from_out \/ differs)}
        [] op \in Towards  -> {~expired(m) /\ differs}
        [] op \in {"random", "random-when", "clear", "converge"} -> {TRUE}
        [] OTHER           -> {differs}

(* Whether on_write_result reports that changing v into w is significant   *)
(* (m: once the deadline has been ticked). value-at subtracts the bytes of *)
(* the cell from the components of the previous result: it may say         *)
(* anything.                                                               *)
significant(op, kinds, m, v, w) ==
  LET differs == difference(v, w) > Epsilon
  IN  CASE op = "copy"     -> {m.from_out \/ v # w}
        [] op \in Argmaxes -> {~expired(m) /\ (m.from_out \/ differs)}
        [] op \in Towards  -> {~expired(m) /\ differs}
        [] op \in {"random", "random-when", "clear", "converge"} -> {TRUE}
        [] op \in {"pair", "first", "second"} -> {v # w}
        [] op = "value-at" -> IF \A k \in DOMAIN kinds : kinds[k] = "out" THEN {TRUE} ELSE BOOLEAN
        [] OTHER           -> {differs}

-----------------------------------------------------------------------------
Init ==
  /\ rule \in Rule
  /\ phase = "declared"
  /\ args = <<>>
  /\ mem = NewMemory(rule)
  /\ out_ok = FALSE
  /\ updated_once = FALSE
  /\ res = [val |-> Zeros(rule.res), ready |-> FALSE]
  /\ report = "None"
  /\ old = res.val
  /\ moves = 0

(* The rule is received: its types are checked, then the update is made;   *)
(* of its arguments, some may be the result itself.                        *)
Receive ==
  /\ phase = "declared"
  /\ \/ /\ ~WellTyped(rule.op, rule.res, rule.args)
        /\ phase' = "refused"
        /\ UNCHANGED args
     \/ /\ WellTyped(rule.op, rule.res, rule.args)
        /\ phase' = "running"
        /\ \E kinds \in Kinds(rule) :
             args' = [k \in DOMAIN kinds |->
                        [kind |-> kinds[k], val |-> Zeros(rule.args[k]), ready |-> FALSE, fresh |-> FALSE]]
  /\ UNCHANGED <<rule, mem, out_ok, updated_once, res, report, old, moves>>

(* Another update of the timestep writes an in-argument, which may be      *)
(* ready then.                                                             *)
MoveIn(k) ==
  /\ args[k].kind = "in"
  /\ ~args[k].ready
  /\ moves < MaxMoves
  /\ moves' = moves + 1
  /\ \E v \in Contents(rule.args[k]), ready \in BOOLEAN :
       args' = [args EXCEPT ![k].val = v, ![k].ready = ready, ![k].fresh = TRUE]
  /\ UNCHANGED <<rule, phase, mem, out_ok, updated_once, res, report, old>>

(* An out-argument is ready. *)
OutReady(k) ==
  /\ args[k].kind = "out"
  /\ ~args[k].ready
  /\ \E v \in Contents(rule.args[k]) : args' = [args EXCEPT ![k].val = v, ![k].ready = TRUE]
  /\ UNCHANGED <<rule, phase, mem, out_ok, updated_once, res, report, old, moves>>

(* The value of an argument; that of the result itself when it is one.     *)
Read(k) == IF args[k].kind = "self" THEN res.val ELSE args[k].val

(* The out-arguments are read in their order, up to the first that is busy.*)
ReadOuts(m) ==
  LET given(k) == args[k].kind = "out" /\ \A j \in 1..k : args[j].kind = "out" => args[j].ready
      read[k \in 0..Len(args)] ==
        IF k = 0 THEN m
        ELSE IF given(k) THEN on_read_out_arg(rule.op, read[k - 1], k, Read(k)) ELSE read[k - 1]
  IN  IF out_ok THEN m ELSE read[Len(args)]

ReadIns(m) ==
  LET read[k \in 0..Len(args)] ==
        IF k = 0 THEN m
        ELSE IF args[k].kind # "out" THEN on_read_in_arg(rule.op, read[k - 1], k, Read(k)) ELSE read[k - 1]
  IN  read[Len(args)]

Start == on_computation_start(rule.op, rule.res, mem)

OutsReady == out_ok \/ \A k \in DOMAIN args : args[k].kind = "out" => args[k].ready

Moved == \E k \in DOMAIN args : args[k].fresh

(* The result is written and its status reported; a significant write is   *)
(* an update of the arguments that are the result itself.                  *)
Write(m) ==
  \E v \in written(rule, m, res.val) :
  \E changed \in significant(rule.op, [k \in DOMAIN args |-> args[k].kind], after_writing(rule.op, m), res.val, v) :
    LET n == after_writing(rule.op, m)
        updated == ~updated_once \/ changed
        done == \A k \in DOMAIN args : args[k].kind \in {"in", "self"} => args[k].kind = "in" /\ args[k].ready
    IN  /\ mem' = n
        /\ res' = [val |-> v, ready |-> done]
        /\ old' = res.val
        /\ updated_once' = TRUE
        /\ report' = IF done THEN "Done" ELSE IF updated THEN "Updated" ELSE "UpToDate"
        /\ args' = [k \in DOMAIN args |-> [args[k] EXCEPT !.fresh = args[k].kind = "self" /\ updated]]

(* An evaluation, update::Base::operator(). *)
Evaluate ==
  /\ phase = "running"
  /\ ~res.ready
  /\ rule.op = "converge" => mem.ticks < MaxMoves
  /\ \/ /\ ~OutsReady
        /\ mem' = on_read_out_arg_aborted(rule.op, ReadOuts(Start))
        /\ report' = "Impossible"
        /\ UNCHANGED <<args, out_ok, updated_once, res, old>>
     \/ /\ OutsReady
        /\ out_ok' = TRUE
        /\ IF ~Moved /\ updated_once
           THEN /\ mem' = ReadIns(ReadOuts(Start))
                /\ report' = "UpToDate"
                /\ UNCHANGED <<args, updated_once, res, old>>
           ELSE Write(ReadIns(ReadOuts(Start)))
  /\ UNCHANGED <<rule, phase, moves>>

Next == Receive \/ Evaluate \/ \E k \in DOMAIN args : MoveIn(k) \/ OutReady(k)

(* The result is not up to date. *)
Pending == phase = "running" /\ ~res.ready /\ OutsReady /\ (~updated_once \/ Moved)

(* The updates of a timestep that is not stable are evaluated again (the   *)
(* weak fairness of Evaluate).                                             *)
Spec == Init /\ [][Next]_vars /\ ([]<>~Pending \/ []<><<Evaluate>>_vars)

-----------------------------------------------------------------------------
(* A rule whose types are accepted can be evaluated: no operation reads or *)
(* writes outside the values of its arguments and of its result.  Left     *)
(* aside: average, whose types are only required to be all the same while  *)
(* it needs a map of one double per cell, and pair, of which the second    *)
(* argument is not checked.                                                *)
TypeSafe ==
  rule.op \notin {"average", "pair"} /\ WellTyped(rule.op, rule.res, rule.args)
    => Fits(rule.op, rule.res, rule.args)

(* The values the arguments had when the result was last written. *)
Evaluated ==
  /\ phase = "running"
  /\ updated_once
  /\ report \in {"Updated", "UpToDate", "Done"}
  /\ \A k \in DOMAIN args : args[k].fresh => args[k].kind = "self"

Seen == [k \in DOMAIN args |-> IF args[k].kind = "self" THEN old ELSE args[k].val]

Winners(c) ==
  LET top == Max({c[i] : i \in DOMAIN c})
  IN  IF RandomBmu THEN {i - 1 : i \in {j \in DOMAIN c : c[j] >= top - 2 * ArgmaxTol}}
                   ELSE {Min({i \in DOMAIN c : c[i] = top}) - 1}

(* The function each operation is said to apply to its arguments. *)
Reference(r, a) ==
  LET n == Len(a)
      all == {a[k][1] : k \in DOMAIN a}
  IN  CASE r.op = "min" -> {<<Min(all)>>}
        [] r.op = "max" -> {<<Max(all)>>}
        [] r.op = "average" /\ n = 0 -> {old}
        [] r.op = "average" /\ n # 0 ->
             {[i \in DOMAIN old |-> Total([k \in 1..n |-> a[k][i]]) \div n]}
        [] r.op = "argmax" -> {BmuAt(r.args[1], i) : i \in Winners(a[1])}
        [] r.op = "conv-argmax" -> {BmuAt(r.args[1], i) : i \in Winners(Convolve(a[1], r.args[1]))}
        [] r.op = "converge" -> {res.val}
        [] OTHER -> computed(r, a)

(* The result of an evaluation is the operation applied to all the         *)
(* arguments as they are, whatever order they got ready or moved in,       *)
(* however many evaluations were given up or came before: what was kept of *)
(* the out-arguments, read once, is neither lost nor counted twice.        *)
FunctionOfArguments == Evaluated => res.val \in Reference(rule, Seen)

(* value-at reads the cell of column x and row y for that of column v and  *)
(* row w: the same, or the one before along a side that does not divide 1  *)
(* exactly (the product of two rounded numbers is cut to an integer).      *)
Reads(t, x, y, v, w) ==
  /\ x \in {v, v - 1} /\ y \in {w, w - 1}
  /\ t.side - 1 \in Ulps => x = v /\ y = w

(* argmax, learning and value-at agree on where a cell is, but for the     *)
(* rounding: the position argmax tells is that of a winner, the cell a     *)
(* learning around this position moves most is that one, and value-at      *)
(* reads it there or, in a row or in a column, the one before it, never    *)
(* one after or outside.                                                   *)
NearCell ==
  rule.op = "argmax" /\ Evaluated =>
    LET t == rule.args[1]
        c == IndexAt(t, res.val)
    IN  \E b \in Winners(args[1].val) :
          /\ c \in 0..(size(t) - 1)
          /\ Reads(t, c % t.side, c \div t.side, b % t.side, b \div t.side)
          /\ \A i \in 0..(size(t) - 1) :
               LET p == GridPoint(t, i)
                   q == GridPoint(t, b)
               IN  triangle(p, res.val) <= triangle(q, res.val) /\ gaussian(p, res.val) <= gaussian(q, res.val)

(* The rules that read a value are told it moved: an evaluation that       *)
(* changes it more than the tolerance reports it, unless it reached the    *)
(* deadline. Left aside: value-at, whose test of the change is wrong.      *)
NoSilentChange ==
  [][rule.op # "value-at" /\ res.val # res'.val /\ difference(res.val, res'.val) > Epsilon =>
       \/ report' \in {"Updated", "Done"}
       \/ rule.op \in Argmaxes \cup Towards /\ expired(mem')]_vars

(* When the arguments stop moving, so does the result, even the position   *)
(* that reads itself and is drawn between several winners: the deadline    *)
(* ends it.                                                                *)
Settles == <>[]~Pending
=============================================================================
