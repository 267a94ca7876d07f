------------------------------ MODULE Programs ------------------------------
(***************************************************************************)
(* A client program and what becomes of it: it fills a context, by hand or *)
(* with the builder, then sends it to the server (cxsom-rules.hpp, send;   *)
(* cxsom-processor.hpp), which checks the types of each rule               *)
(* (cxsomJobs.hpp) and runs the timesteps.                                 *)
(*                                                                         *)
(* The server here is the abstract one that JobsCenter and Patterns        *)
(* detail: a timestep is done at once, when its arguments allow it.  The   *)
(* program is alone with it; its calls and the rules it sends are steps;   *)
(* during the updates command the workers are stopped.                     *)
(***************************************************************************)
EXTENDS Builder

CONSTANTS
  Architectures,  (* the architectures tried, functions from names to maps  *)
  Provided(_, _), (* Provided(program, maps): the variables that the user   *)
                  (* declares, and the instants she fills                   *)
  OnDisk(_, _),   (* OnDisk(program, maps): the variables in the files that *)
                  (* earlier programs have left                             *)
  HandNames,      (* by hand: the names of the variables                    *)
  HandTypes,      (* their types                                            *)
  HandDates,      (* the dates of the results                               *)
  HandArgDates,   (* the dates of the arguments                             *)
  HandScopes,     (* the name spaces that are opened                        *)
  MaxCalls,       (* bound: the calls of a program made by hand             *)
  Horizon         (* bound: the last instant that is run                    *)

ASSUME ProgramsAssumption == MaxCalls \in Nat /\ Horizon \in Nat

(* The user makes a finite program: maps, layers and variables.            *)
ASSUME ArchitecturesAssumption ==
  \A ms \in Architectures :
    /\ IsFiniteSet(DOMAIN ms)
    /\ \A n \in DOMAIN ms : \A s \in {ms[n].external, ms[n].contextual} : s \in Seq(ToSet(s))
    /\ \A p \in {"main", "relax", "frozen"} : IsFiniteSet(Provided(p, ms).variables)

VARIABLES
  program, (* "hand", "main", "relax" or "frozen"                           *)
  maps,    (* the architecture                                              *)
  ctx,     (* the context                                                   *)
  calls,   (* how many calls have been made                                 *)
  phase,   (* "calls", "sending", "running", or "failed" when an exception  *)
           (* ended it                                                      *)
  unsent,  (* the rules that have not been sent yet                         *)
  types,   (* the types the server knows                                    *)
  rules,   (* the rules the server has                                      *)
  open,    (* the interaction is not released                               *)
  ready    (* the instances that are ready: keys and instants               *)

serverVars == <<unsent, types, rules, open, ready>>
vars == <<program, maps, ctx, calls, phase, serverVars>>

Init ==
  /\ program \in {"hand", "main", "relax", "frozen"}
  /\ maps \in IF program = "hand" THEN {<<>>} ELSE Architectures
  /\ ctx = NewContext
  /\ calls = 0
  /\ phase = "calls"
  /\ unsent = {}
  /\ types = <<>>
  /\ rules = {}
  /\ open = FALSE
  /\ ready = {}

-----------------------------------------------------------------------------
(* The calls of a program made by hand. The walltime tells them apart.     *)

HandKeys == {var(ctx, n) : n \in HandNames}
HandData(dates) == {Dated(k, d) : k \in HandKeys, d \in dates}

Call(c) ==
  /\ program = "hand"
  /\ phase = "calls"
  /\ calls < MaxCalls
  /\ ctx.error = "none"
  /\ ctx' = c
  /\ calls' = calls + 1
  /\ UNCHANGED <<program, maps, phase, serverVars>>

OpenTimeline == ctx.timelines = <<>> /\ Call(open_timeline(ctx, Timeline.relaxation))

OpenNameSpace == ctx.name_spaces = <<>> /\ \E ns \in HandScopes : Call(open_name_space(ctx, ns))

CloseNameSpace == ctx.name_spaces # <<>> /\ Call(close_name_space(ctx))

CloseTimeline == ctx.timelines # <<>> /\ Call(close_timeline(ctx))

Declare ==
  /\ ctx.timelines # <<>>
  /\ \E k \in HandKeys, t \in HandTypes : Call(declare_type(ctx, k, t))

(* A program that asks for a type, to declare another variable with it.    *)
TypeOf ==
  /\ ctx.timelines # <<>>
  /\ \E k \in HandKeys, l \in HandKeys :
       IF k \in DOMAIN ctx.types
       THEN Call(declare_type(ctx, l, ctx.types[k]))
       ELSE Call(type_of(ctx, k))

Write ==
  /\ ctx.timelines # <<>>
  /\ \E d \in HandData(HandDates), a \in HandData(HandArgDates) :
       \/ Call(add_update(ctx, "copy", d, <<a>>, calls))
       \/ Call(add_init(ctx, "copy", d, <<a>>, calls))

Rename ==
  /\ ctx.timelines # <<>>
  /\ \E from \in HandKeys, to \in HandKeys : Call(rename(ctx, from, to))

(* The calls of a program that uses the builder, until one throws. *)
User(s) == [i \in DOMAIN s |-> definition(s[i])]

Defined(p) ==
  User(SetToSeq(Provided(p, maps).variables))
  \o CASE p = "main"   -> realize(maps, TRUE) \o Calls(LAMBDA m : internals_random_at(maps, m, 0), MapsOf(maps))
       [] p = "relax"  -> expand_relax(maps)
       [] p = "frozen" -> frozen(maps, TRUE)

Build ==
  /\ program # "hand"
  /\ phase = "calls"
  /\ ctx.error = "none"
  /\ calls < Len(Defined(program))
  /\ ctx' = apply(ctx, Defined(program)[calls + 1])
  /\ calls' = calls + 1
  /\ UNCHANGED <<program, maps, phase, serverVars>>

(* The program has no more calls to make. *)
Ended == ctx.error # "none" \/ (program # "hand" => calls = Len(Defined(program)))

-----------------------------------------------------------------------------
(* An exception ends the program: nothing is sent. *)
Fail ==
  /\ phase = "calls"
  /\ Ended
  /\ check_orphan_inits(ctx).error # "none"
  /\ phase' = "failed"
  /\ UNCHANGED <<program, maps, ctx, calls, serverVars>>

(* The server knows the variables of the files, and takes those that are  *)
(* declared unless their files say otherwise: then the program gives up,   *)
(* before it sends a rule.                                                 *)
TypesAtServer ==
  FoldSet(LAMBDA v, acc : (v.key :> v.type) @@ acc, ctx.types, OnDisk(program, maps))

type_mismatch == \E k \in DOMAIN ctx.types : TypesAtServer[k] # ctx.types[k]

(* type_checking, with the types the server knows. *)
checked(ts, u) ==
  /\ u.dest.key \in DOMAIN ts
  /\ \A i \in DOMAIN u.args : u.args[i].key \in DOMAIN ts
  /\ WellTyped(u.op, ts[u.dest.key], [i \in DOMAIN u.args |-> ts[u.args[i].key]])

accepted(ts, m) == checked(ts, m.rule) /\ \A u \in m.init : checked(ts, u)

(* An interaction lasts as long as there are rules to send. *)
Sending(left) == phase' = IF left = {} THEN "running" ELSE "sending"

Send ==
  /\ phase = "calls"
  /\ Ended
  /\ check_orphan_inits(ctx).error = "none"
  /\ types' = TypesAtServer
  /\ unsent' = IF type_mismatch THEN {} ELSE messages(ctx)
  /\ open' = (unsent' # {})
  /\ Sending(unsent')
  /\ ready' = IF program = "hand" THEN {} ELSE Provided(program, maps).ready
  /\ UNCHANGED <<program, maps, ctx, calls, rules>>

(* The rules come in the order of their map, here some order.  At the      *)
(* first that is refused the program gives up: the server keeps those      *)
(* before it, and the interaction is not released.                         *)
process_updates ==
  /\ phase = "sending"
  /\ LET m == CHOOSE m \in unsent : TRUE
     IN  IF accepted(types, m)
         THEN rules' = rules \cup {m} /\ unsent' = unsent \ {m} /\ open' = (unsent' # {})
         ELSE unsent' = {} /\ UNCHANGED <<rules, open>>
  /\ Sending(unsent')
  /\ UNCHANGED <<program, maps, ctx, calls, types, ready>>

(* ping, or the updates of another program: the interaction is released.   *)
Ping ==
  /\ phase = "running"
  /\ open
  /\ open' = FALSE
  /\ UNCHANGED <<program, maps, ctx, calls, phase, unsent, types, rules, ready>>

-----------------------------------------------------------------------------
(* The timesteps. *)

history_length(k) == Max({0} \cup {r[2] + 1 : r \in {r \in ready : r[1] = k}})

Args(u)        == ToSet(u.args)
AllArgs(m)     == Args(m.rule) \cup UNION {Args(u) : u \in m.init}
InstanceOf(a, t) == <<a.key, Date(a.date, t)>>

StaticsAt(tl, t) ==
  {m \in rules : m.rule.dest.key[1] = tl /\ m.rule.dest.date = absolute(t) /\ <<m.rule.dest.key, t>> \notin ready}

(* The patterns of a timeline that are not past their walltime, and those  *)
(* that are realized, at the earliest instant (see Patterns).              *)
InWalltime(tl) ==
  {m \in rules : /\ m.rule.dest.key[1] = tl
                 /\ ~is_instance(m.rule.dest)
                 /\ history_length(m.rule.dest.key) <= m.rule.walltime}

PatternsAt(tl, t) ==
  {m \in InWalltime(tl) :
     /\ history_length(m.rule.dest.key) = t
     /\ \A p \in InWalltime(tl) : history_length(p.rule.dest.key) >= t
     /\ \A a \in AllArgs(m) : ~negative_time(a.date, t)
     /\ at(m.rule.dest.key, t) \notin {s.rule.dest : s \in StaticsAt(tl, t)}}

Updates(tl, t) == StaticsAt(tl, t) \cup PatternsAt(tl, t)

Results(tl, t) == {<<m.rule.dest.key, t>> : m \in Updates(tl, t)}

(* A timestep needs all the out-arguments of all its rules, and in-        *)
(* arguments that are ready or its own results.                            *)
CanComplete(tl, t) ==
  /\ Updates(tl, t) # {}
  /\ \A m \in Updates(tl, t) : \A a \in AllArgs(m) :
       InstanceOf(a, t) \in ready \cup Results(tl, t)

Complete(tl, t) ==
  /\ phase = "running"
  /\ ~open
  /\ CanComplete(tl, t)
  /\ ready' = ready \cup Results(tl, t)
  /\ UNCHANGED <<program, maps, ctx, calls, phase, unsent, types, rules, open>>

Timelines == {m.rule.dest.key[1] : m \in rules}

Next ==
  \/ OpenTimeline \/ OpenNameSpace \/ CloseNameSpace \/ CloseTimeline
  \/ Declare \/ TypeOf \/ Write \/ Rename \/ Build
  \/ Fail \/ Send \/ process_updates \/ Ping
  \/ \E tl \in Timelines, t \in 0..Horizon : Complete(tl, t)

Spec == Init /\ [][Next]_vars

-----------------------------------------------------------------------------
Built == program # "hand" /\ Ended

Analysis == program \in {"relax", "frozen"}

LayersOf == UNION {{<<n, "external", i>> : i \in DOMAIN maps[n].external} \cup
                   {<<n, "contextual", i>> : i \in DOMAIN maps[n].contextual} : n \in DOMAIN maps}

layer(x) == IF x[2] = "external" THEN maps[x[1]].external[x[3]] ELSE maps[x[1]].contextual[x[3]]

weight(x) == _W(maps, maps[x[1]], layer(x))

Paired(c) ==
  {<<c.updates[d].walltime, {c.inits[e].walltime : e \in {e \in DOMAIN c.inits : e = d}}>> : d \in DOMAIN c.updates}

(* A renaming, which may merge two variables, neither loses a rule nor     *)
(* gives to a rule the init part of another, and leaves each one under the *)
(* key of its result, by which send pairs them (rename).                   *)
RenameKeepsRules ==
  [][program = "hand" /\ Rename =>
       /\ Paired(ctx') = Paired(ctx)
       /\ \A d \in DOMAIN ctx'.updates : ctx'.updates[d].dest = d
       /\ \A d \in DOMAIN ctx'.inits : ctx'.inits[d].dest = d]_vars

(* No rule of the program was refused. *)
Whole == phase = "running" /\ {m.rule.dest : m \in rules} = DOMAIN ctx.updates

(* At the server each rule has the init part the program wrote for it, one *)
(* at most and for the same instants, and when no rule was refused every   *)
(* init part has arrived (send, check_orphan_inits).                       *)
InitsReachTheirRules ==
  /\ \A m \in rules : \A u \in m.init : m.init = {u} /\ u.dest = m.rule.dest
  /\ Whole => UNION {m.init : m \in rules} = {ctx.inits[d] : d \in DOMAIN ctx.inits}

(* Two layers with the same weights, both learning or for an analysis.     *)
SharedWeights ==
  \E x, y \in LayersOf :
    /\ x # y
    /\ weight(x) = weight(y)
    /\ Analysis \/ "static" \notin {layer(x).learns, layer(y).learns}

(* An analysis of weights that are not those of the layer, or of a winner  *)
(* that comes from another map as an input.                                *)
NotCovered ==
  Analysis /\ \E x \in LayersOf : layer(x).learns # "local" \/ (x[2] = "external" /\ layer(x).input.of = "map")

(* What the builder writes is accepted: no rule is doubled unless layers   *)
(* share their weights, and the server agrees with the types and knows     *)
(* them, but for the analyses that the builder does not cover              *)
(* (cxsombuilderMap.hpp, cxsom-processor.hpp, process_updates).            *)
BuilderIsAccepted ==
  Built => /\ ctx.error = IF SharedWeights THEN "double_update" ELSE "none"
           /\ phase = "running" => (Whole <=> ~NotCovered)

Stuck == phase = "running" /\ ~open /\ \A tl \in Timelines, t \in 0..Horizon : ~CanComplete(tl, t)

(* All the instants that the rules will ever give. *)
Settled ==
  \A m \in rules : \A t \in (IF is_instance(m.rule.dest) THEN {m.rule.dest.date.n} ELSE 0..Horizon) :
    t <= m.rule.walltime => <<m.rule.dest.key, t>> \in ready

(* A timestep that waits for another one that waits for it: an input that  *)
(* is the present winner of another map, weights that are read where they  *)
(* are written; in the frozen analysis, the previous instant of the first. *)
Cyclic ==
  \E x \in LayersOf :
    CASE program = "main" ->
           \/ x[2] = "external" /\ layer(x).input.of = "map" /\ layer(x).at_input_read = relative(0)
           \/ layer(x).learns # "static" /\ layer(x).at_weight_read = relative(0)
      [] program = "frozen" -> layer(x).at_input_read = relative(-1)
      [] OTHER -> FALSE

(* When the user fills the inputs, all the timesteps of what the builder   *)
(* writes are done in the end, or the architecture makes timesteps that    *)
(* wait for each other (cxsomTimeStep.hpp, blockers).  The server may go   *)
(* further there, as it publishes what it can of a timestep before the     *)
(* rest.                                                                   *)
StuckOnlyOnCycles == Built /\ Whole /\ Stuck => (Settled <=> ~Cyclic)

(* In the spread relaxation no variable depends on itself at one instant:  *)
(* one pass computes an instant (expand_relax_updates).                    *)
RelaxationIsUnfolded ==
  program = "relax" =>
    LET keys == {d.key : d \in DOMAIN ctx.updates}
        reads(j, k) == \E d \in DOMAIN ctx.updates :
                         d.key = j /\ Dated(k, relative(0)) \in ToSet(ctx.updates[d].args)
        waiting[n \in 0..Cardinality(keys)] ==
          IF n = 0 THEN keys ELSE {j \in waiting[n - 1] : \E k \in waiting[n - 1] : reads(j, k)}
    IN  waiting[Cardinality(keys)] = {}
=============================================================================
