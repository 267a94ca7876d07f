-------------------------------- MODULE Rules --------------------------------
(***************************************************************************)
(* The rule language (cxsom-rules.hpp, cxsomRuleDefs.hpp): the context in  *)
(* which a client program gathers the types of its variables and its rules *)
(* before it sends them.  The operators take a context and return the one  *)
(* that a call leaves.  An exception ends the program: the context keeps   *)
(* its name in error and nothing changes it any more.                      *)
(*                                                                         *)
(* A name is absolute or not, with the words between its slashes; a        *)
(* key is a timeline and the words of a whole name; a type is compared     *)
(* with the sizes of its file and cache left out.                          *)
(***************************************************************************)
EXTENDS Symbols, FiniteSetsExt, SequencesExt

(* value_at_key, and the calls that date a variable.                       *)
Dated(key, date)    == [key |-> key, date |-> date]
data(key)           == Dated(key, relative(0))
at(key, n)          == Dated(key, absolute(n))
shift(key, off)     == Dated(key, relative(off))

is_instance(d) == d.date.kind = "absolute"

(* A rule, with the instant after which the server no longer uses it (the  *)
(* parameter walltime; the others are left out).                           *)
update(op, dest, args, walltime) == [op |-> op, dest |-> dest, args |-> args, walltime |-> walltime]

NewContext ==
  [timelines |-> <<>>, name_spaces |-> <<>>,
   values |-> {}, instances |-> {}, types |-> <<>>, updates |-> <<>>, inits |-> <<>>,
   error |-> "none"]

Throw(ctx, error) == [ctx EXCEPT !.error = error]

-----------------------------------------------------------------------------
(* Timelines and name spaces are opened and closed by C++ scopes. *)
open_timeline(ctx, tl)     == [ctx EXCEPT !.timelines = Append(@, tl)]
close_timeline(ctx)        == [ctx EXCEPT !.timelines = Front(@)]
open_name_space(ctx, ns)   == [ctx EXCEPT !.name_spaces = Append(@, ns)]
close_name_space(ctx)      == [ctx EXCEPT !.name_spaces = Front(@)]

(* varname: the words of the whole name. *)
varname(ctx, name) == IF name.abs THEN name.path ELSE ctx.name_spaces \o name.path

(* data(name): the variable of the current timeline and name spaces. *)
var(ctx, name) == <<Last(ctx.timelines), varname(ctx, name)>>

-----------------------------------------------------------------------------
(* operator()(data): the context notes the instances that rules mention.   *)
note(ctx, ds) ==
  [ctx EXCEPT !.instances = @ \cup ds, !.values = @ \cup {d.key : d \in ds}]

declare_type(ctx, key, type) ==
  IF key \in DOMAIN ctx.types
  THEN IF ctx.types[key] = type THEN ctx ELSE Throw(ctx, "redeclare_type")
  ELSE [ctx EXCEPT !.types = @ @@ (key :> type)]

(* type_of *)
type_of(ctx, key) == IF key \in DOMAIN ctx.types THEN ctx ELSE Throw(ctx, "unknown_variable")

(* A pattern updates the current instant. *)
check_res(d) == d.date.kind # "scaled" /\ (d.date.kind = "relative" => d.date.n = 0)

(* The rule of an instance reads instances. *)
check_args(d, args) == is_instance(d) => \A i \in DOMAIN args : is_instance(args[i])

check_update(d, args) == check_res(d) /\ check_args(d, args)

(* A map of rules with one more. *)
Entered(rs, d, u) == [e \in DOMAIN rs \cup {d} |-> IF e = d THEN u ELSE rs[e]]

(* operator<<: the rule of d, which has only one. *)
add_update(ctx, op, d, args, walltime) ==
  LET noted == note(ctx, {d} \cup ToSet(args))
  IN  IF ~check_update(d, args) THEN Throw(ctx, "bad_update")
      ELSE IF d \in DOMAIN ctx.updates THEN Throw(ctx, "double_update")
      ELSE [noted EXCEPT !.updates = Entered(@, d, update(op, d, args, walltime))]

(* operator<=: the init part of the rule of d. *)
add_init(ctx, op, d, args, walltime) ==
  LET noted == note(ctx, {d} \cup ToSet(args))
  IN  IF ~check_update(d, args) THEN Throw(ctx, "bad_update")
      ELSE IF d \in DOMAIN ctx.inits THEN Throw(ctx, "double_update")
      ELSE [noted EXCEPT !.inits = Entered(@, d, update(op, d, args, walltime))]

-----------------------------------------------------------------------------
(* rename: a key takes the place of another everywhere.                    *)

KeyNow(from, to, key) == IF key = from THEN to ELSE key
DataNow(from, to, d)  == [d EXCEPT !.key = KeyNow(from, to, @)]

(* update::rename *)
UpdateNow(from, to, u) ==
  [u EXCEPT !.dest = DataNow(from, to, @), !.args = [i \in DOMAIN @ |-> DataNow(from, to, @[i])]]

(* The rules, entered in a new map: of those that get the same key, one is *)
(* left.                                                                   *)
RulesNow(from, to, rules) ==
  [d \in {DataNow(from, to, e) : e \in DOMAIN rules} |->
     UpdateNow(from, to, rules[CHOOSE e \in DOMAIN rules : DataNow(from, to, e) = d])]

Updated(rules, key) == \E d \in DOMAIN rules : d.key = key

(* Variant of both_ruled: rules of the same sort only. *)
both_of_a_sort(ctx, from, to) ==
  \/ Updated(ctx.inits, from) /\ Updated(ctx.inits, to)
  \/ Updated(ctx.updates, from) /\ Updated(ctx.updates, to)

(* The test of rename: its two variables have rules already. *)
both_ruled(ctx, from, to) ==
  /\ Updated(ctx.inits, from) \/ Updated(ctx.updates, from)
  /\ Updated(ctx.inits, to) \/ Updated(ctx.updates, to)

(* The inits are renamed twice, which changes nothing the second time. *)
rename(ctx, from, to) ==
  IF both_ruled(ctx, from, to) THEN Throw(ctx, "invalid_rename")
  ELSE [ctx EXCEPT
          !.values    = (@ \ {from}) \cup {to},
          !.instances = {DataNow(from, to, d) : d \in @},
          !.types     = IF from \in DOMAIN @
                        THEN (to :> @[from]) @@ [k \in DOMAIN @ \ {from} |-> @[k]]
                        ELSE @,
          !.updates   = RulesNow(from, to, @),
          !.inits     = RulesNow(from, to, RulesNow(from, to, @))]

-----------------------------------------------------------------------------
(* ~context: an init part needs a rule, or bad_update is thrown. *)
check_orphan_inits(ctx) ==
  IF DOMAIN ctx.inits \subseteq DOMAIN ctx.updates THEN ctx ELSE Throw(ctx, "bad_update")

(* Variant of messages: the init part that comes with a rule is the one of *)
(* its variable, at any date.                                              *)
messages_undated(ctx) ==
  {[rule |-> ctx.updates[d],
    init |-> {ctx.inits[e] : e \in {e \in DOMAIN ctx.inits : e.key = d.key}}] : d \in DOMAIN ctx.updates}

(* send: the rules, each with its init part, come after the types. *)
messages(ctx) ==
  {[rule |-> ctx.updates[d],
    init |-> {ctx.inits[e] : e \in {e \in DOMAIN ctx.inits : e = d}}] : d \in DOMAIN ctx.updates}
=============================================================================
