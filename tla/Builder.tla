------------------------------ MODULE Builder ------------------------------
(***************************************************************************)
(* The architectures of self-organizing maps (cxsombuilderMap.hpp,         *)
(* cxsombuilderArchi.hpp, cxsombuilderMain.hpp): maps made of layers, and  *)
(* the calls of the rule language that realize them, or that analyze them: *)
(* their relaxation spread over instants (expand_relax), or their outputs  *)
(* for given weights (frozen).                                             *)
(*                                                                         *)
(* A method of the source that makes calls is here the sequence of them.   *)
(* Left out: the parameters of the operations but the walltime, the sizes  *)
(* of caches and files, the drawing of the architecture.                   *)
(***************************************************************************)
EXTENDS Rules, Types

CONSTANTS
  Forever,  (* the walltime the user gives to the rules of a realization   *)
  Record,   (* AnalysisContext::file_size, the instants of an analysis     *)
  SavedAt   (* AnalysisContext::at, the instant of the weights             *)

ASSUME BuilderAssumption == {Forever, Record, SavedAt} \subseteq Nat /\ Record > 0

(* A variable: its key and type. *)
variable(tl, words, type) == [key |-> <<tl, words>>, type |-> type]

(* The layer_input of a layer is one or the other. *)
from_variable(v) == [of |-> "variable", v |-> v]
from_map(name)   == [of |-> "map", name |-> name]

(* The calls of a program. *)
definition(v)                  == [call |-> "type", key |-> v.key, type |-> v.type]
rule(dest, op, args, walltime) == [call |-> "<<", dest |-> dest, op |-> op, args |-> args, walltime |-> walltime]
init(dest, op, args, walltime) == [call |-> "<=", dest |-> dest, op |-> op, args |-> args, walltime |-> walltime]

apply(ctx, c) ==
  CASE c.call = "type" -> declare_type(ctx, c.key, c.type)
    [] c.call = "<<"   -> add_update(ctx, c.op, c.dest, c.args, c.walltime)
    [] OTHER           -> add_init(ctx, c.op, c.dest, c.args, c.walltime)

now(v)      == data(v.key)
prev(v)     == shift(v.key, -1)
in(v, date) == Dated(v.key, date)

-----------------------------------------------------------------------------
(* Map and Layer. *)

Timeline == [relaxation |-> <<"rlx">>, weights |-> <<"wgt">>, output |-> <<"out">>]

make_map(name, dim, side) == [name |-> name, dim |-> dim, side |-> side, external |-> <<>>, contextual |-> <<>>]

OverMap(m, type) == IF m.dim = 1 THEN Map1D(type, m.side) ELSE Map2D(type, m.side)

output_BMU(m) == variable(Timeline.output, <<m.name, "BMU">>, Position(m.dim))
_BMU(m)       == variable(Timeline.relaxation, <<m.name, "BMU">>, Position(m.dim))
_Ac(m)        == variable(Timeline.relaxation, <<m.name, "Ac">>, OverMap(m, Scalar))
_Ae(m)        == variable(Timeline.relaxation, <<m.name, "Ae">>, OverMap(m, Scalar))
_A(m)         == variable(Timeline.relaxation, <<m.name, "A">>, OverMap(m, Scalar))

(* The activity of a layer. *)
layer_A(m, l) == variable(Timeline.relaxation, <<m.name, "A" \o l.suffix, l.rank>>, OverMap(m, Scalar))

(* Variant of _xi: a contextual layer reads the output too. *)
output_only(maps, l) == IF l.input.of = "variable" THEN l.input.v ELSE output_BMU(maps[l.input.name])

_xi(maps, l) ==
  CASE l.input.of = "variable"                -> l.input.v
    [] l.input.of = "map" /\ l.contextual     -> _BMU(maps[l.input.name])
    [] l.input.of = "map" /\ ~l.contextual    -> output_BMU(maps[l.input.name])

(* The weights of a layer: its own (LocalAdaptiveLayer), or a variable the *)
(* user gives (StaticLayer, RemoteAdaptiveLayer).                          *)
_W(maps, m, l) ==
  IF l.learns = "local"
  THEN variable(Timeline.weights, <<m.name, "W" \o l.suffix, l.rank>>, OverMap(m, _xi(maps, l).type))
  ELSE l.weight

(* What the user chooses of a layer: whether its weights are learnt, which *)
(* they are, and the dates; those that are not given are as here.          *)
by_default == [learns |-> "local", input_read |-> relative(0), weight_read |-> relative(-1),
               weight_write |-> relative(0), expose |-> FALSE]

Layer(input, suffix, rank, how) ==
  [input |-> input, suffix |-> suffix, rank |-> rank, contextual |-> FALSE,
   learns |-> how.learns, weight |-> how.weight,
   at_input_read |-> how.input_read, at_weight_read |-> how.weight_read,
   at_weight_write |-> how.weight_write,
   at_weight_exposed |-> IF how.learns = "static" THEN how.weight_read ELSE how.weight_write,
   expose |-> how.expose]

external_variable(m, v, how) ==
  [m EXCEPT !.external = Append(@, Layer(from_variable(v), "e", Len(@), how))]

external_map(m, name, how) ==
  [m EXCEPT !.external = Append(@, Layer(from_map(name), "e", Len(@), how))]

contextual(m, name, how) ==
  [m EXCEPT !.contextual = Append(@, [Layer(from_map(name), "c", Len(@), how) EXCEPT !.contextual = TRUE])]

Layers(m) == m.external \o m.contextual

(* FlatMap of the loops over the layers, and over the maps. *)
Calls(F(_), s) == FlattenSeq([i \in DOMAIN s |-> F(s[i])])

MapsOf(maps) == SetToSeq({maps[n] : n \in DOMAIN maps})

-----------------------------------------------------------------------------
(* acts: the variables that hold the external, the contextual and the      *)
(* whole activity; a single layer needs no merge.                          *)

Merged(s) == Len(s) > 1

external_act(m)   == IF Merged(m.external) THEN _Ae(m) ELSE layer_A(m, m.external[1])
contextual_act(m) == IF Merged(m.contextual) THEN _Ac(m) ELSE layer_A(m, m.contextual[1])

Both(m) == m.external # <<>> /\ m.contextual # <<>>

act(m) == IF Both(m) THEN _A(m) ELSE IF m.external # <<>> THEN external_act(m) ELSE contextual_act(m)

(* The definitions of the activities that acts has made. *)
act_definitions(m, F(_)) ==
  (IF Merged(m.external) THEN <<definition(F(_Ae(m)))>> ELSE <<>>)
  \o (IF Merged(m.contextual) THEN <<definition(F(_Ac(m)))>> ELSE <<>>)
  \o (IF Both(m) THEN <<definition(F(_A(m)))>> ELSE <<>>)

(* The weight at the output position, shown in the output timeline. *)
expose_weight_variable(maps, m, l) ==
  LET W == _W(maps, m, l) IN variable(Timeline.output, W.key[2], content(W.type))

expose_weight_update(maps, m, l) ==
  IF l.expose
  THEN <<rule(now(expose_weight_variable(maps, m, l)), "value-at",
              <<in(_W(maps, m, l), l.at_weight_exposed), now(output_BMU(m))>>, Forever)>>
  ELSE <<>>

layer_definitions(maps, m, l) ==
  <<definition(layer_A(m, l))>>
  \o (IF l.learns = "local" THEN <<definition(_W(maps, m, l))>> ELSE <<>>)
  \o (IF l.expose THEN <<definition(expose_weight_variable(maps, m, l))>> ELSE <<>>)

map_definitions(maps, m) ==
  <<definition(_BMU(m)), definition(output_BMU(m))>>
  \o Calls(LAMBDA l : layer_definitions(maps, m, l), Layers(m))
  \o act_definitions(m, LAMBDA v : v)

(* Layer::updates, AdaptiveLayer::updates: the match, and the learning at  *)
(* the position of the winner.                                             *)
layer_updates(maps, m, l) ==
  LET xi == in(_xi(maps, l), l.at_input_read)
      W  == _W(maps, m, l)
  IN  <<rule(now(layer_A(m, l)), "match-triangle", <<xi, in(W, l.at_weight_read)>>, Forever)>>
      \o (IF l.learns = "static" THEN <<>>
          ELSE <<rule(in(W, l.at_weight_write), "learn-triangle",
                      <<xi, in(W, l.at_weight_read), now(_BMU(m))>>, Forever)>>)

(* The merges of the activities, as the analyses too write them: layer is  *)
(* what they write for a layer, F where they put a variable.               *)
merge_updates(m, layer(_), F(_), walltime) ==
  LET merged(s, v) ==
        Calls(layer, s)
        \o (IF Merged(s)
            THEN <<rule(now(F(v)), "average", [i \in DOMAIN s |-> now(F(layer_A(m, s[i])))], walltime)>>
            ELSE <<>>)
  IN  merged(m.external, _Ae(m)) \o merged(m.contextual, _Ac(m))
      \o (IF Both(m)
          THEN <<rule(now(F(_A(m))), "merge", <<now(F(external_act(m))), now(F(contextual_act(m)))>>, walltime)>>
          ELSE <<>>)

(* The winner: a first one when there is an external activity, then steps  *)
(* toward that of the whole activity; the argmax without a context.        *)
winner_updates(m, F(_), walltime) ==
  LET BMU == now(F(_BMU(m)))
      A   == now(F(act(m)))
  IN  IF m.contextual = <<>> THEN <<rule(BMU, "conv-argmax", <<A>>, walltime)>>
      ELSE (IF m.external # <<>> THEN <<init(BMU, "conv-argmax", <<now(F(external_act(m)))>>, walltime)>> ELSE <<>>)
           \o <<rule(BMU, "toward-conv-argmax", <<A, BMU>>, walltime)>>

map_updates(maps, m) ==
  Calls(LAMBDA l : expose_weight_update(maps, m, l), Layers(m))
  \o merge_updates(m, LAMBDA l : layer_updates(maps, m, l), LAMBDA v : v, Forever)
  \o (IF Layers(m) = <<>> THEN <<>>
      ELSE winner_updates(m, LAMBDA v : v, Forever)
           \o <<rule(now(output_BMU(m)), "copy", <<now(_BMU(m))>>, Forever)>>)

(* Variant of internals_random_at: the weights are left to the patterns. *)
internals_random_but_weights(maps, m, t) ==
  LET random(v) == rule(at(v.key, t), "random", <<>>, 0)
  IN  Calls(LAMBDA l : <<random(layer_A(m, l))>>, Layers(m))
      \o (IF Merged(m.external) THEN <<random(_Ae(m))>> ELSE <<>>)
      \o (IF Merged(m.contextual) THEN <<random(_Ac(m))>> ELSE <<>>)
      \o (IF Both(m) THEN <<random(_A(m))>> ELSE <<>>)
      \o <<random(_BMU(m)), random(output_BMU(m))>>

(* internals_random_at: the first values of the internal variables. *)
internals_random_at(maps, m, t) ==
  LET random(v) == rule(at(v.key, t), "random", <<>>, 0)
  IN  Calls(LAMBDA l : <<random(layer_A(m, l))>>
                       \o (IF l.learns = "local" THEN <<random(_W(maps, m, l))>> ELSE <<>>), Layers(m))
      \o (IF Merged(m.external) THEN <<random(_Ae(m))>> ELSE <<>>)
      \o (IF Merged(m.contextual) THEN <<random(_Ac(m))>> ELSE <<>>)
      \o (IF Both(m) THEN <<random(_A(m))>> ELSE <<>>)
      \o <<random(_BMU(m)), random(output_BMU(m))>>

-----------------------------------------------------------------------------
(* The analyses. A variable has a copy in a timeline of its own, named     *)
(* after the analysis, or after the inputs of the analysis.                *)

internal(v)       == [v EXCEPT !.key[1] = <<"analysis">> \o @]
external_input(v) == [v EXCEPT !.key[1] = <<"inputs">> \o @]

AnalysisWalltime == Record - 1

layer_analysis_definitions(maps, m, l) ==
  <<definition(internal(layer_A(m, l)))>>
  \o (IF l.learns = "local" THEN <<definition(internal(_W(maps, m, l)))>> ELSE <<>>)

(* The weights of the analysis are those of an instant of the simulation. *)
saved_weight(maps, m, l) ==
  LET W == _W(maps, m, l) IN rule(at(internal(W).key, 0), "copy", <<at(W.key, SavedAt)>>, 0)

expand_relax_definitions(maps, m) ==
  <<definition(internal(_BMU(m)))>>
  \o Calls(LAMBDA l : layer_analysis_definitions(maps, m, l), Layers(m))
  \o act_definitions(m, internal)

(* A layer that reads a winner of the instant reads the previous step of   *)
(* the relaxation, and has full activity at the first; the others read a   *)
(* fixed input.                                                            *)
layer_expand_relax(maps, m, l) ==
  LET A  == internal(layer_A(m, l))
      xi == internal(_xi(maps, l))
      W  == at(internal(_W(maps, m, l)).key, 0)
  IN  (IF l.contextual /\ l.at_input_read = relative(0)
       THEN <<rule(now(A), "match-triangle", <<prev(xi), W>>, AnalysisWalltime),
              rule(at(A.key, 0), "clear", <<>>, 0)>>
       ELSE <<rule(now(A), "match-triangle", <<at(xi.key, 0), W>>, AnalysisWalltime)>>)
      \o <<saved_weight(maps, m, l)>>

(* Variant of expand_relax_updates: the winner is found again at once. *)
expand_relax_at_once(maps, m) ==
  merge_updates(m, LAMBDA l : layer_expand_relax(maps, m, l), internal, AnalysisWalltime)
  \o winner_updates(m, internal, AnalysisWalltime)

(* The steps toward the winner start from the previous instant. *)
expand_relax_updates(maps, m) ==
  LET BMU == internal(_BMU(m))
      A   == now(internal(act(m)))
  IN  merge_updates(m, LAMBDA l : layer_expand_relax(maps, m, l), internal, AnalysisWalltime)
      \o (IF Layers(m) = <<>> THEN <<>>
          ELSE IF m.contextual = <<>> THEN <<rule(now(BMU), "conv-argmax", <<A>>, AnalysisWalltime)>>
          ELSE <<rule(now(BMU), "toward-conv-argmax", <<A, prev(BMU)>>, AnalysisWalltime)>>)

frozen_definitions(maps, m) ==
  <<definition(internal(_BMU(m))), definition(internal(output_BMU(m)))>>
  \o Calls(LAMBDA l : layer_analysis_definitions(maps, m, l), Layers(m))
  \o act_definitions(m, internal)

(* The inputs of the external layers are those of the analysis. *)
layer_frozen(maps, m, l) ==
  LET xi == IF l.contextual THEN internal(_xi(maps, l)) ELSE external_input(_xi(maps, l))
  IN  <<rule(now(internal(layer_A(m, l))), "match-triangle",
             <<in(xi, l.at_input_read), at(internal(_W(maps, m, l)).key, 0)>>, AnalysisWalltime),
        saved_weight(maps, m, l)>>

frozen_updates(maps, m) ==
  merge_updates(m, LAMBDA l : layer_frozen(maps, m, l), internal, AnalysisWalltime)
  \o (IF Layers(m) = <<>> THEN <<>>
      ELSE winner_updates(m, internal, AnalysisWalltime)
           \o <<rule(now(internal(output_BMU(m))), "copy", <<now(internal(_BMU(m)))>>, AnalysisWalltime)>>)

-----------------------------------------------------------------------------
(* Architecture. *)

(* The count of the evaluations, when the user asks for it. *)
add_convergence_checkings(maps, F(_), walltime) ==
  LET Cvg == F(variable(Timeline.relaxation, <<"Cvg">>, Scalar))
  IN  <<definition(Cvg),
        rule(now(Cvg), "converge", [i \in DOMAIN MapsOf(maps) |-> now(F(_BMU(MapsOf(maps)[i])))], walltime)>>

realize(maps, counted) ==
  Calls(LAMBDA m : map_definitions(maps, m), MapsOf(maps))
  \o Calls(LAMBDA m : map_updates(maps, m), MapsOf(maps))
  \o (IF counted THEN add_convergence_checkings(maps, LAMBDA v : v, Forever) ELSE <<>>)

expand_relax(maps) ==
  Calls(LAMBDA m : expand_relax_definitions(maps, m), MapsOf(maps))
  \o Calls(LAMBDA m : expand_relax_updates(maps, m), MapsOf(maps))

frozen(maps, counted) ==
  Calls(LAMBDA m : frozen_definitions(maps, m), MapsOf(maps))
  \o Calls(LAMBDA m : frozen_updates(maps, m), MapsOf(maps))
  \o (IF counted THEN add_convergence_checkings(maps, internal, AnalysisWalltime) ELSE <<>>)
=============================================================================
