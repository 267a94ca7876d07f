--------------------------- MODULE ProgramsProofs ---------------------------
(***************************************************************************)
(* What a program writes arrives at the server as it was written, for any  *)
(* architecture, calls, types and files; and the spread relaxation that    *)
(* the builder writes computes its variables in an order.                  *)
(***************************************************************************)
EXTENDS Programs, FiniteSetTheorems, NaturalsInduction, WellFoundedInduction, TLAPS

RuleField == {"op", "dest", "args", "walltime"}
DataField == {"key", "date"}
ContextField == {"timelines", "name_spaces", "values", "instances", "types", "updates", "inits", "error"}

(* Each rule is under the key of its result. *)
Keyed(rs) == \A d \in DOMAIN rs : rs[d] = [f \in RuleField |-> rs[d][f]] /\ rs[d].dest = d

Good(c) == c = [f \in ContextField |-> c[f]] /\ Keyed(c.updates) /\ Keyed(c.inits)

(* A date is a key and an offset. *)
AllData(c) == \A d \in DOMAIN c.updates \cup DOMAIN c.inits : d = [f \in DataField |-> d[f]]

-----------------------------------------------------------------------------
(* The rules of a context. *)
LEMMA AddKeyed ==
  ASSUME NEW rs, Keyed(rs), NEW d, NEW op, NEW args, NEW w
  PROVE  Keyed(Entered(rs, d, update(op, d, args, w)))
<1> DEFINE u == update(op, d, args, w)
           new == Entered(rs, d, u)
<1>1. DOMAIN new = DOMAIN rs \cup {d} /\ \A e \in DOMAIN new : new[e] = IF e = d THEN u ELSE rs[e]
  BY DEF Entered
<1>2. u = [f \in RuleField |-> u[f]] /\ u.dest = d
  BY DEF update, RuleField
<1> HIDE DEF u, new
<1>3. Keyed(new)
  BY <1>1, <1>2 DEF Keyed
<1> QED
  BY <1>3 DEF new, u

LEMMA RenamedUpdate ==
  ASSUME NEW u, u = [f \in RuleField |-> u[f]], NEW from, NEW to
  PROVE  LET v == UpdateNow(from, to, u)
         IN  /\ v = [f \in RuleField |-> v[f]]
             /\ v.dest = DataNow(from, to, u.dest)
             /\ v.walltime = u.walltime
BY DEF UpdateNow, RuleField

LEMMA RenameKeyed ==
  ASSUME NEW rs, Keyed(rs), NEW from, NEW to
  PROVE  /\ Keyed(RulesNow(from, to, rs))
         /\ \A d \in DOMAIN RulesNow(from, to, rs) : \E e \in DOMAIN rs :
              /\ DataNow(from, to, e) = d
              /\ RulesNow(from, to, rs)[d].walltime = rs[e].walltime
<1> DEFINE new == RulesNow(from, to, rs)
<1>1. DOMAIN new = {DataNow(from, to, e) : e \in DOMAIN rs}
  BY DEF RulesNow
<1>2. ASSUME NEW d \in DOMAIN new
      PROVE  \E e \in DOMAIN rs : DataNow(from, to, e) = d /\ new[d] = UpdateNow(from, to, rs[e])
  BY <1>2 DEF RulesNow
<1> HIDE DEF new
<1>3. ASSUME NEW d \in DOMAIN new
      PROVE  /\ new[d] = [f \in RuleField |-> new[d][f]] /\ new[d].dest = d
             /\ \E e \in DOMAIN rs : DataNow(from, to, e) = d /\ new[d].walltime = rs[e].walltime
  <2>1. PICK e \in DOMAIN rs : DataNow(from, to, e) = d /\ new[d] = UpdateNow(from, to, rs[e])
    BY <1>2
  <2>2. rs[e] = [f \in RuleField |-> rs[e][f]] /\ rs[e].dest = e
    BY DEF Keyed
  <2> QED
    BY <2>1, <2>2, RenamedUpdate
<1> QED
  BY <1>3 DEF Keyed, new

-----------------------------------------------------------------------------
(* Every call leaves a good context. *)
LEMMA NewGood == Good(NewContext) /\ AllData(NewContext)
BY DEF NewContext, Good, AllData, Keyed, ContextField

LEMMA PlainGood ==
  ASSUME NEW c, Good(c), NEW x
  PROVE  /\ Good([c EXCEPT !.timelines = x]) /\ Good([c EXCEPT !.name_spaces = x])
         /\ Good([c EXCEPT !.types = x]) /\ Good([c EXCEPT !.error = x])
         /\ AllData(c) => /\ AllData([c EXCEPT !.timelines = x]) /\ AllData([c EXCEPT !.name_spaces = x])
                          /\ AllData([c EXCEPT !.types = x]) /\ AllData([c EXCEPT !.error = x])
BY DEF Good, AllData, ContextField

LEMMA ThrowGood ==
  ASSUME NEW c, Good(c), NEW e
  PROVE  Good(Throw(c, e)) /\ (AllData(c) => AllData(Throw(c, e)))
BY PlainGood DEF Throw

LEMMA DeclareGood ==
  ASSUME NEW c, Good(c), NEW key, NEW type
  PROVE  Good(declare_type(c, key, type)) /\ (AllData(c) => AllData(declare_type(c, key, type)))
<1> DEFINE new == declare_type(c, key, type)
<1>1. \/ new = c \/ new = Throw(c, "redeclare_type")
      \/ \E x : new = [c EXCEPT !.types = x]
  BY DEF declare_type
<1> HIDE DEF new
<1>2. Good(new) /\ (AllData(c) => AllData(new))
  <2>1. ASSUME NEW x, new = [c EXCEPT !.types = x] PROVE Good(new) /\ (AllData(c) => AllData(new))
    BY <2>1, PlainGood
  <2> QED
    BY <1>1, <2>1, ThrowGood
<1> QED
  BY <1>2 DEF new

LEMMA NoteGood ==
  ASSUME NEW c, Good(c), NEW ds
  PROVE  LET n == note(c, ds)
         IN  n = [f \in ContextField |-> n[f]] /\ n.updates = c.updates /\ n.inits = c.inits
BY DEF note, Good, ContextField

LEMMA UpdateGood ==
  ASSUME NEW c, Good(c), NEW op, NEW d, NEW args, NEW w
  PROVE  /\ Good(add_update(c, op, d, args, w))
         /\ AllData(c) /\ d = [f \in DataField |-> d[f]] => AllData(add_update(c, op, d, args, w))
<1> DEFINE n == note(c, {d} \cup ToSet(args))
           rs == Entered(c.updates, d, update(op, d, args, w))
           new == [n EXCEPT !.updates = rs]
           res == add_update(c, op, d, args, w)
<1>1. n = [f \in ContextField |-> n[f]] /\ n.updates = c.updates /\ n.inits = c.inits
  BY NoteGood
<1>2. res = new \/ \E e : res = Throw(c, e)
  <2>1. \/ res = [n EXCEPT !.updates = Entered(n.updates, d, update(op, d, args, w))]
        \/ res = Throw(c, "bad_update") \/ res = Throw(c, "double_update")
    BY DEF add_update
  <2> HIDE DEF n
  <2>2. new = [n EXCEPT !.updates = Entered(n.updates, d, update(op, d, args, w))]
    BY <1>1
  <2> HIDE DEF new, res
  <2> QED
    BY <2>1, <2>2
<1>3. Keyed(rs) /\ DOMAIN rs = DOMAIN c.updates \cup {d} /\ Keyed(c.inits)
  <2>1. Keyed(c.updates) /\ Keyed(c.inits)
    BY DEF Good
  <2>2. Keyed(rs)
    BY <2>1, AddKeyed
  <2>3. DOMAIN rs = DOMAIN c.updates \cup {d}
    BY DEF Entered
  <2> QED
    BY <2>1, <2>2, <2>3
<1> HIDE DEF n, rs
<1>4. new = [f \in ContextField |-> new[f]] /\ new.updates = rs /\ new.inits = c.inits
  BY <1>1 DEF ContextField
<1> HIDE DEF new, res
<1>5. Good(new) /\ (AllData(c) /\ d = [f \in DataField |-> d[f]] => AllData(new))
  BY <1>3, <1>4 DEF Good, AllData
<1>6. Good(res) /\ (AllData(c) /\ d = [f \in DataField |-> d[f]] => AllData(res))
  BY <1>2, <1>5, ThrowGood
<1> QED
  BY <1>6 DEF res

LEMMA InitGood ==
  ASSUME NEW c, Good(c), NEW op, NEW d, NEW args, NEW w
  PROVE  /\ Good(add_init(c, op, d, args, w))
         /\ AllData(c) /\ d = [f \in DataField |-> d[f]] => AllData(add_init(c, op, d, args, w))
<1> DEFINE n == note(c, {d} \cup ToSet(args))
           rs == Entered(c.inits, d, update(op, d, args, w))
           new == [n EXCEPT !.inits = rs]
           res == add_init(c, op, d, args, w)
<1>1. n = [f \in ContextField |-> n[f]] /\ n.updates = c.updates /\ n.inits = c.inits
  BY NoteGood
<1>2. res = new \/ \E e : res = Throw(c, e)
  <2>1. \/ res = [n EXCEPT !.inits = Entered(n.inits, d, update(op, d, args, w))]
        \/ res = Throw(c, "bad_update") \/ res = Throw(c, "double_update")
    BY DEF add_init
  <2> HIDE DEF n
  <2>2. new = [n EXCEPT !.inits = Entered(n.inits, d, update(op, d, args, w))]
    BY <1>1
  <2> HIDE DEF new, res
  <2> QED
    BY <2>1, <2>2
<1>3. Keyed(rs) /\ DOMAIN rs = DOMAIN c.inits \cup {d} /\ Keyed(c.updates)
  <2>1. Keyed(c.updates) /\ Keyed(c.inits)
    BY DEF Good
  <2>2. Keyed(rs)
    BY <2>1, AddKeyed
  <2>3. DOMAIN rs = DOMAIN c.inits \cup {d}
    BY DEF Entered
  <2> QED
    BY <2>1, <2>2, <2>3
<1> HIDE DEF n, rs
<1>4. new = [f \in ContextField |-> new[f]] /\ new.inits = rs /\ new.updates = c.updates
  BY <1>1 DEF ContextField
<1> HIDE DEF new, res
<1>5. Good(new) /\ (AllData(c) /\ d = [f \in DataField |-> d[f]] => AllData(new))
  BY <1>3, <1>4 DEF Good, AllData
<1>6. Good(res) /\ (AllData(c) /\ d = [f \in DataField |-> d[f]] => AllData(res))
  BY <1>2, <1>5, ThrowGood
<1> QED
  BY <1>6 DEF res

-----------------------------------------------------------------------------
(* The renaming. *)

(* Data that are not those of both variables keep apart. *)
LEMMA NowInjective ==
  ASSUME NEW from, NEW to, NEW d, NEW e, d = [f \in DataField |-> d[f]], e = [f \in DataField |-> e[f]],
         ~(d.key = from /\ e.key = to), ~(e.key = from /\ d.key = to),
         DataNow(from, to, d) = DataNow(from, to, e)
  PROVE  d = e
<1>1. DataNow(from, to, d).key = KeyNow(from, to, d.key) /\ DataNow(from, to, d).date = d.date
  BY DEF DataNow, DataField
<1>2. DataNow(from, to, e).key = KeyNow(from, to, e.key) /\ DataNow(from, to, e).date = e.date
  BY DEF DataNow, DataField
<1>3. d.key = e.key /\ d.date = e.date
  BY <1>1, <1>2 DEF KeyNow
<1>4. d["key"] = e["key"] /\ d["date"] = e["date"]
  BY <1>3
<1>5. \A f \in DataField : d[f] = e[f]
  BY <1>4 DEF DataField
<1> QED
  BY <1>5

(* A renaming twice is a renaming once. *)
LEMMA NowTwice ==
  ASSUME NEW from, NEW to, NEW d, d = [f \in DataField |-> d[f]]
  PROVE  LET n == DataNow(from, to, d)
         IN  n = [f \in DataField |-> n[f]] /\ DataNow(from, to, n) = n /\ n.key = KeyNow(from, to, d.key)
<1> DEFINE n == DataNow(from, to, d)
<1>1. n = [f \in DataField |-> n[f]] /\ n.key = KeyNow(from, to, d.key)
  BY DEF DataNow, DataField
<1> HIDE DEF n
<1>2. KeyNow(from, to, n.key) = n.key
  BY <1>1 DEF KeyNow
<1>3. DataNow(from, to, n) = n
  BY <1>1, <1>2 DEF DataNow, DataField
<1> QED
  BY <1>1, <1>3 DEF n

LEMMA RenameGood ==
  ASSUME NEW c, Good(c), NEW from, NEW to
  PROVE  /\ Good(rename(c, from, to))
         /\ AllData(c) => AllData(rename(c, from, to))
<1> DEFINE us == RulesNow(from, to, c.updates)
           js == RulesNow(from, to, c.inits)
           is == RulesNow(from, to, js)
           res == rename(c, from, to)
<1>0. Keyed(c.updates) /\ Keyed(c.inits)
  BY DEF Good
<1>1. /\ Keyed(us) /\ Keyed(js)
      /\ DOMAIN us = {DataNow(from, to, e) : e \in DOMAIN c.updates}
      /\ DOMAIN js = {DataNow(from, to, e) : e \in DOMAIN c.inits}
  <2>1. Keyed(us) /\ Keyed(js)
    BY <1>0, RenameKeyed
  <2> QED
    BY <2>1 DEF RulesNow
<1>2. Keyed(is) /\ DOMAIN is = {DataNow(from, to, e) : e \in DOMAIN js}
  <2>1. Keyed(is)
    BY <1>1, RenameKeyed
  <2> HIDE DEF js
  <2>2. DOMAIN is = {DataNow(from, to, e) : e \in DOMAIN js}
    BY DEF RulesNow
  <2> QED
    BY <2>1, <2>2
<1>3. CASE both_ruled(c, from, to)
  BY <1>3, ThrowGood DEF rename
<1>4. CASE ~both_ruled(c, from, to)
  <2>1. res = [f \in ContextField |-> res[f]] /\ res.updates = us /\ res.inits = is
    BY <1>4 DEF rename, Good, ContextField
  <2> HIDE DEF res, us, js, is
  <2>2. Good(res)
    BY <1>1, <1>2, <2>1 DEF Good
  <2>3. ASSUME AllData(c) PROVE AllData(res)
    <3>1. \A d \in DOMAIN us \cup DOMAIN js : d = [f \in DataField |-> d[f]]
      BY <1>1, <2>3, NowTwice DEF AllData
    <3>2. \A d \in DOMAIN is : d = [f \in DataField |-> d[f]]
      BY <1>2, <3>1, NowTwice
    <3> QED
      BY <2>1, <3>1, <3>2 DEF AllData
  <2> QED
    BY <2>2, <2>3 DEF res
<1> QED
  BY <1>3, <1>4

(* The rules after a renaming that merges no two of them. *)
LEMMA RenamedRules ==
  ASSUME NEW rs, Keyed(rs), NEW from, NEW to,
         \A d, e \in DOMAIN rs : DataNow(from, to, d) = DataNow(from, to, e) => d = e
  PROVE  \A e \in DOMAIN rs : /\ DataNow(from, to, e) \in DOMAIN RulesNow(from, to, rs)
                              /\ RulesNow(from, to, rs)[DataNow(from, to, e)].walltime = rs[e].walltime
<1> SUFFICES ASSUME NEW e \in DOMAIN rs
             PROVE  /\ DataNow(from, to, e) \in DOMAIN RulesNow(from, to, rs)
                    /\ RulesNow(from, to, rs)[DataNow(from, to, e)].walltime = rs[e].walltime
  OBVIOUS
<1>1. DataNow(from, to, e) \in DOMAIN RulesNow(from, to, rs)
  BY DEF RulesNow
<1>2. PICK g \in DOMAIN rs : /\ DataNow(from, to, g) = DataNow(from, to, e)
                             /\ RulesNow(from, to, rs)[DataNow(from, to, e)].walltime = rs[g].walltime
  BY <1>1, RenameKeyed
<1> QED
  BY <1>1, <1>2

LEMMA PairedSame ==
  ASSUME NEW c, NEW n, NEW from, NEW to,
         \A d, e \in DOMAIN c.updates \cup DOMAIN c.inits : DataNow(from, to, d) = DataNow(from, to, e) => d = e,
         DOMAIN n.updates = {DataNow(from, to, e) : e \in DOMAIN c.updates},
         DOMAIN n.inits = {DataNow(from, to, e) : e \in DOMAIN c.inits},
         \A e \in DOMAIN c.updates : n.updates[DataNow(from, to, e)].walltime = c.updates[e].walltime,
         \A e \in DOMAIN c.inits : n.inits[DataNow(from, to, e)].walltime = c.inits[e].walltime
  PROVE  Paired(n) = Paired(c)
<1> DEFINE Part(x, d) == {x.inits[e].walltime : e \in {e \in DOMAIN x.inits : e = d}}
           Pair(x, d) == <<x.updates[d].walltime, Part(x, d)>>
<1>1. ASSUME NEW d \in DOMAIN c.updates PROVE Part(n, DataNow(from, to, d)) = Part(c, d)
  <2>1. CASE d \in DOMAIN c.inits
    <3>1. Part(c, d) = {c.inits[d].walltime}
      BY <2>1
    <3>2. Part(n, DataNow(from, to, d)) = {n.inits[DataNow(from, to, d)].walltime}
      BY <2>1
    <3> QED
      BY <2>1, <3>1, <3>2
  <2>2. CASE d \notin DOMAIN c.inits
    <3>1. Part(c, d) = {}
      BY <2>2
    <3>2. DataNow(from, to, d) \notin DOMAIN n.inits
      BY <2>2
    <3>3. Part(n, DataNow(from, to, d)) = {}
      BY <3>2
    <3> QED
      BY <3>1, <3>3
  <2> QED
    BY <2>1, <2>2
<1> HIDE DEF Part
<1>2. ASSUME NEW d \in DOMAIN c.updates PROVE Pair(n, DataNow(from, to, d)) = Pair(c, d)
  BY <1>1
<1> HIDE DEF Pair
<1>3. {Pair(n, d) : d \in DOMAIN n.updates} = {Pair(c, d) : d \in DOMAIN c.updates}
  BY <1>2
<1> QED
  BY <1>3 DEF Paired, Pair, Part

LEMMA RenameKeeps ==
  ASSUME NEW c, Good(c), AllData(c), NEW from, NEW to
  PROVE  Paired(rename(c, from, to)) = Paired(c)
<1> DEFINE us == RulesNow(from, to, c.updates)
           js == RulesNow(from, to, c.inits)
           is == RulesNow(from, to, js)
           res == rename(c, from, to)
<1>1. CASE both_ruled(c, from, to)
  <2>1. res.updates = c.updates /\ res.inits = c.inits
    BY <1>1 DEF rename, Throw, Good, ContextField
  <2> QED
    BY <2>1 DEF Paired
<1>2. CASE ~both_ruled(c, from, to)
  <2>1. res.updates = us /\ res.inits = is
    BY <1>2 DEF rename, Good, ContextField
  <2>2. \A d, e \in DOMAIN c.updates \cup DOMAIN c.inits : DataNow(from, to, d) = DataNow(from, to, e) => d = e
    <3> SUFFICES ASSUME NEW d \in DOMAIN c.updates \cup DOMAIN c.inits, NEW e \in DOMAIN c.updates \cup DOMAIN c.inits,
                        DataNow(from, to, d) = DataNow(from, to, e)
                 PROVE  d = e
      OBVIOUS
    <3>1. ~(d.key = from /\ e.key = to) /\ ~(e.key = from /\ d.key = to)
      BY <1>2 DEF both_ruled, Updated
    <3>2. d = [f \in DataField |-> d[f]] /\ e = [f \in DataField |-> e[f]]
      BY DEF AllData
    <3> QED
      BY <3>1, <3>2, NowInjective
  <2>3. Keyed(c.updates) /\ Keyed(c.inits) /\ Keyed(js)
    BY RenameKeyed DEF Good
  <2>4. \A e \in DOMAIN c.updates : us[DataNow(from, to, e)].walltime = c.updates[e].walltime
    BY <2>2, <2>3, RenamedRules
  <2>5. \A e \in DOMAIN c.inits : js[DataNow(from, to, e)].walltime = c.inits[e].walltime
    BY <2>2, <2>3, RenamedRules
  <2>6. DOMAIN us = {DataNow(from, to, e) : e \in DOMAIN c.updates}
    BY DEF RulesNow
  <2>7. DOMAIN js = {DataNow(from, to, e) : e \in DOMAIN c.inits}
    BY DEF RulesNow
  <2>8. \A d \in DOMAIN js : DataNow(from, to, d) = d
    BY <2>7, NowTwice DEF AllData
  <2> HIDE DEF us, js
  <2>9. DOMAIN is = DOMAIN js
    BY <2>8 DEF RulesNow
  <2>10. \A d \in DOMAIN js : is[d].walltime = js[d].walltime
    BY <2>3, <2>8, RenamedRules
  <2>11. \A e \in DOMAIN c.inits : is[DataNow(from, to, e)].walltime = c.inits[e].walltime
    BY <2>5, <2>7, <2>10
  <2> HIDE DEF is, res
  <2>12. /\ DOMAIN res.updates = {DataNow(from, to, e) : e \in DOMAIN c.updates}
         /\ DOMAIN res.inits = {DataNow(from, to, e) : e \in DOMAIN c.inits}
         /\ \A e \in DOMAIN c.updates : res.updates[DataNow(from, to, e)].walltime = c.updates[e].walltime
         /\ \A e \in DOMAIN c.inits : res.inits[DataNow(from, to, e)].walltime = c.inits[e].walltime
    BY <2>1, <2>4, <2>6, <2>7, <2>9, <2>11
  <2>13. Paired(res) = Paired(c)
    BY <2>2, <2>12, PairedSame
  <2> QED
    BY <2>13 DEF res
<1> QED
  BY <1>1, <1>2

-----------------------------------------------------------------------------
(* What the server has, and what is left to send, are rules of the context *)
(* with their own init parts, and no init part is an orphan then.          *)
SendInv ==
  /\ phase \in {"calls", "failed", "sending", "running"}
  /\ phase \in {"calls", "failed"} => rules = {} /\ unsent = {}
  /\ phase \in {"sending", "running"} => /\ rules \cup unsent \subseteq messages(ctx)
                                         /\ DOMAIN ctx.inits \subseteq DOMAIN ctx.updates
  /\ phase = "sending" => unsent # {}

ProgramInv == Good(ctx) /\ (program = "hand" => AllData(ctx)) /\ SendInv

LEMMA CallKeeps ==
  ASSUME ProgramInv, NEW c, Good(c), AllData(ctx) => AllData(c), Call(c)
  PROVE  ProgramInv'
<1>1. program = "hand" /\ ctx' = c /\ phase = "calls" /\ UNCHANGED <<program, phase, unsent, rules>>
  BY DEF Call, serverVars
<1>2. Good(ctx)' /\ AllData(ctx)'
  BY <1>1 DEF ProgramInv
<1>3. SendInv'
  BY <1>1 DEF ProgramInv, SendInv
<1> QED
  BY <1>2, <1>3 DEF ProgramInv

LEMMA SameProgram ==
  ASSUME ProgramInv, UNCHANGED <<program, ctx, phase, unsent, rules>>
  PROVE  ProgramInv'
BY DEF ProgramInv, SendInv

(* The calls of a program made by hand. *)
LEMMA HandStep ==
  ASSUME ProgramInv,
         OpenTimeline \/ OpenNameSpace \/ CloseNameSpace \/ CloseTimeline \/ Declare \/ TypeOf \/ Write \/ Rename
  PROVE  ProgramInv'
<1>1. Good(ctx)
  BY DEF ProgramInv
<1>2. CASE OpenTimeline \/ OpenNameSpace \/ CloseNameSpace \/ CloseTimeline
  <2>1. ASSUME NEW x, Call([ctx EXCEPT !.timelines = x]) \/ Call([ctx EXCEPT !.name_spaces = x]) PROVE ProgramInv'
    <3>1. /\ Good([ctx EXCEPT !.timelines = x]) /\ Good([ctx EXCEPT !.name_spaces = x])
          /\ AllData(ctx) => AllData([ctx EXCEPT !.timelines = x]) /\ AllData([ctx EXCEPT !.name_spaces = x])
      BY <1>1, PlainGood
    <3> QED
      BY <2>1, <3>1, CallKeeps
  <2>2. \/ Call([ctx EXCEPT !.timelines = Append(ctx.timelines, Timeline.relaxation)])
        \/ \E ns \in HandScopes : Call([ctx EXCEPT !.name_spaces = Append(ctx.name_spaces, ns)])
        \/ Call([ctx EXCEPT !.name_spaces = Front(ctx.name_spaces)])
        \/ Call([ctx EXCEPT !.timelines = Front(ctx.timelines)])
    BY <1>2 DEF OpenTimeline, OpenNameSpace, CloseNameSpace, CloseTimeline,
                open_timeline, open_name_space, close_name_space, close_timeline
  <2> QED
    BY <2>1, <2>2
<1>3. CASE Declare \/ TypeOf
  <2>1. PICK k, t : Call(declare_type(ctx, k, t)) \/ Call(type_of(ctx, k))
    BY <1>3 DEF Declare, TypeOf
  <2>2. Good(declare_type(ctx, k, t)) /\ (AllData(ctx) => AllData(declare_type(ctx, k, t)))
    BY <1>1, DeclareGood
  <2>3. Good(type_of(ctx, k)) /\ (AllData(ctx) => AllData(type_of(ctx, k)))
    BY <1>1, ThrowGood DEF type_of
  <2> QED
    BY <2>1, <2>2, <2>3, CallKeeps
<1>4. CASE Write
  <2>1. PICK d \in HandData(HandDates), a \in HandData(HandArgDates) :
          \/ Call(add_update(ctx, "copy", d, <<a>>, calls))
          \/ Call(add_init(ctx, "copy", d, <<a>>, calls))
    BY <1>4 DEF Write
  <2>2. d = [f \in DataField |-> d[f]]
    BY DEF HandData, Dated, DataField
  <2>3. Good(add_update(ctx, "copy", d, <<a>>, calls)) /\ (AllData(ctx) => AllData(add_update(ctx, "copy", d, <<a>>, calls)))
    BY <1>1, <2>2, UpdateGood
  <2>4. Good(add_init(ctx, "copy", d, <<a>>, calls)) /\ (AllData(ctx) => AllData(add_init(ctx, "copy", d, <<a>>, calls)))
    BY <1>1, <2>2, InitGood
  <2> QED
    BY <2>1, <2>3, <2>4, CallKeeps
<1>5. CASE Rename
  <2>1. PICK from \in HandKeys, to \in HandKeys : Call(rename(ctx, from, to))
    BY <1>5 DEF Rename
  <2>2. Good(rename(ctx, from, to)) /\ (AllData(ctx) => AllData(rename(ctx, from, to)))
    BY <1>1, RenameGood
  <2> QED
    BY <2>1, <2>2, CallKeeps
<1> QED
  BY <1>2, <1>3, <1>4, <1>5

(* A call of the builder. *)
LEMMA BuildStep ==
  ASSUME ProgramInv, Build
  PROVE  ProgramInv'
<1>1. PICK c : ctx' = apply(ctx, c)
  BY DEF Build
<1>2. Good(ctx)
  BY DEF ProgramInv
<1>3. Good(declare_type(ctx, c.key, c.type))
  BY <1>2, DeclareGood
<1>4. Good(add_update(ctx, c.op, c.dest, c.args, c.walltime))
  BY <1>2, UpdateGood
<1>5. Good(add_init(ctx, c.op, c.dest, c.args, c.walltime))
  BY <1>2, InitGood
<1>6. Good(ctx')
  BY <1>1, <1>3, <1>4, <1>5 DEF apply
<1>7. program # "hand" /\ phase = "calls" /\ UNCHANGED <<program, phase, unsent, rules>>
  BY DEF Build, serverVars
<1>8. Good(ctx)'
  BY <1>6 DEF Good, Keyed
<1> QED
  BY <1>7, <1>8 DEF ProgramInv, SendInv

(* The rules are sent. *)
LEMMA ServerStep ==
  ASSUME ProgramInv, Fail \/ Send \/ process_updates \/ Ping \/ \E tl \in Timelines, t \in 0..Horizon : Complete(tl, t)
  PROVE  ProgramInv'
<1>1. CASE Fail
  BY <1>1 DEF Fail, ProgramInv, SendInv, serverVars
<1>2. CASE Send
  <2>1. UNCHANGED <<program, ctx, rules>> /\ rules = {} /\ unsent' \subseteq messages(ctx)
    BY <1>2 DEF Send, ProgramInv, SendInv
  <2>2. DOMAIN ctx.inits \subseteq DOMAIN ctx.updates
    <3>1. Throw(ctx, "bad_update").error = "bad_update"
      BY DEF Throw, ProgramInv, Good, ContextField
    <3> QED
      BY <1>2, <3>1 DEF Send, check_orphan_inits
  <2>3. /\ phase' \in {"sending", "running"}
        /\ phase' = "sending" => unsent' # {}
    BY <1>2 DEF Send, Sending
  <2>4. messages(ctx)' = messages(ctx)
    BY <2>1 DEF messages
  <2> QED
    BY <2>1, <2>2, <2>3, <2>4 DEF ProgramInv, SendInv
<1>3. CASE process_updates
  <2>1. /\ UNCHANGED <<program, ctx>> /\ phase = "sending" /\ unsent # {}
        /\ phase' \in {"sending", "running"}
        /\ phase' = "sending" => unsent' # {}
    BY <1>3 DEF process_updates, Sending, ProgramInv, SendInv
  <2>2. PICK m \in unsent : rules' \subseteq rules \cup {m} /\ unsent' \subseteq unsent
    BY <1>3, <2>1 DEF process_updates
  <2>3. messages(ctx)' = messages(ctx)
    BY <2>1 DEF messages
  <2> QED
    BY <2>1, <2>2, <2>3 DEF ProgramInv, SendInv
<1>4. CASE Ping \/ \E tl \in Timelines, t \in 0..Horizon : Complete(tl, t)
  BY <1>4, SameProgram DEF Ping, Complete
<1> QED
  BY <1>1, <1>2, <1>3, <1>4

LEMMA ProgramInit == Init => ProgramInv
BY NewGood DEF Init, ProgramInv, SendInv

LEMMA ProgramStep == ProgramInv /\ [Next]_vars => ProgramInv'
<1> SUFFICES ASSUME ProgramInv, [Next]_vars PROVE ProgramInv'
  OBVIOUS
<1>1. CASE UNCHANGED vars
  BY <1>1, SameProgram DEF vars, serverVars
<1>2. CASE Next
  BY <1>2, HandStep, BuildStep, ServerStep DEF Next
<1> QED
  BY <1>1, <1>2

-----------------------------------------------------------------------------
(* A rule that is sent has the init part of its own result or none.        *)
LEMMA MessageInit ==
  ASSUME ProgramInv, NEW m \in messages(ctx)
  PROVE  \E d \in DOMAIN ctx.updates :
           /\ m.rule.dest = d
           /\ m.init = {ctx.inits[e] : e \in {e \in DOMAIN ctx.inits : e = d}}
<1>1. PICK d \in DOMAIN ctx.updates :
        m = [rule |-> ctx.updates[d], init |-> {ctx.inits[e] : e \in {e \in DOMAIN ctx.inits : e = d}}]
  BY DEF messages
<1>2. m.rule.dest = d
  BY <1>1 DEF ProgramInv, Good, Keyed
<1> QED
  BY <1>1, <1>2

(* At the server each rule has the init part the program wrote for it, and *)
(* when no rule was refused every init part has arrived, for any program,  *)
(* architecture and types (send, check_orphan_inits, process_updates).     *)
THEOREM InitsArrive == Spec => []InitsReachTheirRules
<1>1. ProgramInv => InitsReachTheirRules
  <2> SUFFICES ASSUME ProgramInv PROVE InitsReachTheirRules
    OBVIOUS
  <2>1. ASSUME NEW m \in rules
        PROVE  \E d \in DOMAIN ctx.updates :
                 /\ m.rule.dest = d
                 /\ m.init = {ctx.inits[e] : e \in {e \in DOMAIN ctx.inits : e = d}}
    <3>1. m \in messages(ctx)
      BY DEF ProgramInv, SendInv
    <3> QED
      BY <3>1, MessageInit
  <2>2. ASSUME NEW m \in rules, NEW u \in m.init PROVE m.init = {u} /\ u.dest = m.rule.dest
    <3>1. PICK d \in DOMAIN ctx.updates :
            /\ m.rule.dest = d
            /\ m.init = {ctx.inits[e] : e \in {e \in DOMAIN ctx.inits : e = d}}
      BY <2>1
    <3>2. d \in DOMAIN ctx.inits /\ u = ctx.inits[d] /\ m.init = {ctx.inits[d]}
      BY <2>2, <3>1
    <3>3. ctx.inits[d].dest = d
      BY <3>2 DEF ProgramInv, Good, Keyed
    <3> QED
      BY <3>1, <3>2, <3>3
  <2>3. ASSUME Whole PROVE UNION {m.init : m \in rules} = {ctx.inits[d] : d \in DOMAIN ctx.inits}
    <3>1. phase = "running" /\ {m.rule.dest : m \in rules} = DOMAIN ctx.updates
      BY <2>3 DEF Whole
    <3>2. \A m \in rules : m.init \subseteq {ctx.inits[d] : d \in DOMAIN ctx.inits}
      BY <2>1
    <3>3. ASSUME NEW d \in DOMAIN ctx.inits PROVE \E m \in rules : ctx.inits[d] \in m.init
      <4>1. d \in DOMAIN ctx.updates
        BY <3>1 DEF ProgramInv, SendInv
      <4>2. PICK m \in rules : m.rule.dest = d
        BY <3>1, <4>1
      <4>3. m.init = {ctx.inits[e] : e \in {e \in DOMAIN ctx.inits : e = d}}
        BY <2>1, <4>2
      <4> QED
        BY <4>3
    <3> QED
      BY <3>2, <3>3
  <2> QED
    BY <2>2, <2>3 DEF InitsReachTheirRules
<1> QED
  BY <1>1, ProgramInit, ProgramStep, PTL DEF Spec

(* A renaming neither loses a rule nor gives to a rule the init part of    *)
(* another, and leaves each one under its key, for any calls before it and *)
(* any variables (context::rename).                                        *)
THEOREM RenameSound == Spec => RenameKeepsRules
<1>1. ProgramInv /\ ProgramInv' /\ [Next]_vars =>
        [program = "hand" /\ Rename =>
           /\ Paired(ctx') = Paired(ctx)
           /\ \A d \in DOMAIN ctx'.updates : ctx'.updates[d].dest = d
           /\ \A d \in DOMAIN ctx'.inits : ctx'.inits[d].dest = d]_vars
  <2> SUFFICES ASSUME ProgramInv, ProgramInv', program = "hand", Rename
               PROVE  /\ Paired(ctx') = Paired(ctx)
                      /\ \A d \in DOMAIN ctx'.updates : ctx'.updates[d].dest = d
                      /\ \A d \in DOMAIN ctx'.inits : ctx'.inits[d].dest = d
    OBVIOUS
  <2>1. PICK from \in HandKeys, to \in HandKeys : ctx' = rename(ctx, from, to)
    BY DEF Rename, Call
  <2>2. Paired(rename(ctx, from, to)) = Paired(ctx)
    BY RenameKeeps DEF ProgramInv
  <2>3. \A d \in DOMAIN ctx'.updates : ctx'.updates[d].dest = d
    BY DEF ProgramInv, Good, Keyed
  <2>4. \A d \in DOMAIN ctx'.inits : ctx'.inits[d].dest = d
    BY DEF ProgramInv, Good, Keyed
  <2> QED
    BY <2>1, <2>2, <2>3, <2>4
<1> QED
  BY <1>1, ProgramInit, ProgramStep, PTL DEF Spec, RenameKeepsRules
-----------------------------------------------------------------------------
(* Induction over the indices of a sequence. *)
Inductive(T, n) == 0 \in T /\ \A k \in 1..n : k - 1 \in T => k \in T

LEMMA Induction ==
  ASSUME NEW n \in Nat, NEW T, Inductive(T, n)
  PROVE  \A k \in 0..n : k \in T
<1> DEFINE B == {k \in 0..n : k \notin T}
           R == OpToRel(<, Nat)
<1> SUFFICES ASSUME B # {} PROVE FALSE
  OBVIOUS
<1>1. B \subseteq Nat
  OBVIOUS
<1>2. PICK b \in B : \A y \in B : <<y, b>> \notin R
  <2>1. IsWellFoundedOn(R, Nat)
    BY NatLessThanWellFounded, Zenon
  <2> HIDE DEF R, B
  <2> QED
    BY <1>1, <2>1, WFMin
<1>3. \A y \in B : ~(y < b)
  BY <1>1, <1>2, Zenon DEF OpToRel
<1> HIDE DEF R
<1>4. b \in 1..n
  BY DEF Inductive
<1>5. b - 1 \notin B
  <2> SUFFICES ASSUME b - 1 \in B PROVE FALSE
    OBVIOUS
  <2>1. ~(b - 1 < b)
    BY <1>3
  <2> QED
    BY <1>4, <2>1
<1> QED
  BY <1>4, <1>5 DEF Inductive

(* The values g that F gives one after the other from base. *)
Iterates(g, F, base, S, n) ==
  g \in [0..n -> S] /\ g[0] = base /\ \A k \in 1..n : g[k] = F[k][g[k - 1]]

LEMMA Recursion ==
  ASSUME NEW n \in Nat, NEW S, NEW base \in S, NEW F \in [1..n -> [S -> S]]
  PROVE  \E g : Iterates(g, F, base, S, n)
<1> DEFINE T == {m \in 0..n : \E g : Iterates(g, F, base, S, m)}
<1>1. 0 \in T
  <2> DEFINE g0 == [k \in 0..0 |-> base]
  <2>1. Iterates(g0, F, base, S, 0)
    BY DEF Iterates
  <2> QED
    BY <2>1
<1>2. ASSUME NEW m \in 1..n, m - 1 \in T PROVE m \in T
  <2>1. PICK g : Iterates(g, F, base, S, m - 1)
    BY <1>2
  <2>2. /\ g \in [0..(m - 1) -> S] /\ g[0] = base
        /\ \A k \in 1..(m - 1) : g[k] = F[k][g[k - 1]]
    BY <2>1 DEF Iterates
  <2> DEFINE h == [k \in 0..m |-> IF k = m THEN F[m][g[m - 1]] ELSE g[k]]
  <2>3. h \in [0..m -> S]
    <3>1. g[m - 1] \in S
      BY <2>2
    <3>2. F[m][g[m - 1]] \in S
      BY <3>1
    <3>3. ASSUME NEW k \in 0..m, k # m PROVE g[k] \in S
      BY <2>2, <3>3
    <3> QED
      BY <3>2, <3>3
  <2>4. h[0] = base
    BY <2>2
  <2>5. ASSUME NEW k \in 1..m PROVE h[k] = F[k][h[k - 1]]
    <3>1. CASE k = m
      <4>1. h[k - 1] = g[m - 1] /\ h[k] = F[m][g[m - 1]]
        BY <3>1
      <4> QED
        BY <3>1, <4>1
    <3>2. CASE k # m
      <4>1. k \in 1..(m - 1) /\ h[k] = g[k] /\ h[k - 1] = g[k - 1]
        BY <3>2
      <4> QED
        BY <2>2, <4>1
    <3> QED
      BY <3>1, <3>2
  <2> HIDE DEF h
  <2>6. Iterates(h, F, base, S, m)
    BY <2>3, <2>4, <2>5 DEF Iterates
  <2> QED
    BY <2>6
<1>3. n \in T
  <2> HIDE DEF T
  <2> QED
    <3>1. Inductive(T, n)
      BY <1>1, <1>2 DEF Inductive
    <3> QED
      BY <3>1, Induction
<1> QED
  BY <1>3

LEMMA Iterated ==
  ASSUME NEW n \in Nat, NEW S, NEW base, NEW F, NEW g, Iterates(g, F, base, S, n)
  PROVE  /\ g \in [0..n -> S] /\ g[0] = base
         /\ \A k \in 1..n : g[k - 1] \in S /\ g[k] = F[k][g[k - 1]]
BY DEF Iterates

-----------------------------------------------------------------------------
(* What an instant of the spread relaxation is computed from, in order:    *)
(* the activities of the layers, their merges, the whole activity, the     *)
(* winner.                                                                 *)
Level(key) ==
  IF Len(key[2]) = 3 THEN 0 ELSE IF key[2][2] = "BMU" THEN 3 ELSE IF key[2][2] = "A" THEN 2 ELSE 1

(* What is read at the instant that is computed comes before. *)
Before(key, args) ==
  \A i \in DOMAIN args : args[i].date = relative(0) =>
    Level(args[i].key) \in Nat /\ Level(key) \in Nat /\ Level(args[i].key) < Level(key)

Leveled(rs) == IsFiniteSet(DOMAIN rs) /\ \A d \in DOMAIN rs : Before(d.key, rs[d].args)

Fine(c) == c.call = "<<" => Before(c.dest.key, c.args)

Fines(s) == s \in Seq(ToSet(s)) /\ \A i \in DOMAIN s : Fine(s[i])

LEMMA FinesOne ==
  ASSUME NEW c, Fine(c)
  PROVE  Fines(<<c>>) /\ Fines(<<>>)
BY DEF Fines, ToSet

LEMMA FinesCat ==
  ASSUME NEW s, NEW t, Fines(s), Fines(t)
  PROVE  Fines(s \o t)
<1> DEFINE U == ToSet(s) \cup ToSet(t)
           r == s \o t
<1>1. s \in Seq(U) /\ t \in Seq(U)
  <2>1. ToSet(s) \subseteq U /\ ToSet(t) \subseteq U
    OBVIOUS
  <2>2. s \in Seq(ToSet(s)) /\ t \in Seq(ToSet(t))
    BY DEF Fines
  <2> HIDE DEF U
  <2> QED
    BY <2>1, <2>2
<1> HIDE DEF U
<1>2. r \in Seq(U) /\ Len(r) = Len(s) + Len(t) /\ DOMAIN r = 1..Len(r)
  BY <1>1
<1>3. \A i \in 1..Len(r) : r[i] = IF i <= Len(s) THEN s[i] ELSE t[i - Len(s)]
  BY <1>1
<1> HIDE DEF r
<1>4. DOMAIN s = 1..Len(s) /\ DOMAIN t = 1..Len(t) /\ Len(s) \in Nat /\ Len(t) \in Nat
  BY <1>1
<1>5. ASSUME NEW i \in DOMAIN r PROVE Fine(r[i])
  <2>1. CASE i <= Len(s)
    BY <1>2, <1>3, <1>4, <2>1 DEF Fines
  <2>2. CASE ~(i <= Len(s))
    <3>1. i - Len(s) \in 1..Len(t) /\ r[i] = t[i - Len(s)]
      BY <1>2, <1>3, <1>4, <2>2
    <3> QED
      BY <1>4, <3>1 DEF Fines
  <2> QED
    BY <2>1, <2>2
<1>6. r \in Seq(ToSet(r))
  <2>1. \A i \in 1..Len(r) : r[i] \in ToSet(r)
    BY <1>2 DEF ToSet
  <2> QED
    BY <1>2, <2>1
<1> QED
  BY <1>5, <1>6 DEF Fines, r

LEMMA FinesThree ==
  ASSUME NEW s, NEW t, NEW u, Fines(s), Fines(t), Fines(u)
  PROVE  Fines(s \o t \o u)
BY FinesCat

LEMMA FinesFlatten ==
  ASSUME NEW n \in Nat, NEW ss, DOMAIN ss = 1..n, ss = [i \in 1..n |-> ss[i]], \A i \in 1..n : Fines(ss[i])
  PROVE  Fines(FlattenSeq(ss))
<1>1. Len(ss) = n
  OBVIOUS
<1>2. CASE n = 0
  <2>1. FlattenSeq(ss) = ss
    BY <1>1, <1>2 DEF FlattenSeq
  <2>2. DOMAIN ss = {} /\ ss \in Seq(ToSet(ss))
    BY <1>2
  <2>3. Fines(ss)
    BY <2>2 DEF Fines
  <2> QED
    BY <2>1, <2>3
<1>3. CASE n # 0
  <2> DEFINE U == UNION {ToSet(ss[i]) : i \in 1..n}
             S == Seq(U)
             F == [i \in 1..n |-> [s \in S |-> IF i = 1 THEN ss[i] ELSE s \o ss[i]]]
             flat[i \in 1..n] == IF i = 1 THEN ss[i] ELSE flat[i - 1] \o ss[i]
  <2>1. FlattenSeq(ss) = flat[n]
    BY <1>1, <1>3 DEF FlattenSeq
  <2>2. <<>> \in S /\ \A i \in 1..n : ss[i] \in S
    <3>1. ASSUME NEW i \in 1..n PROVE ss[i] \in S
      <4>1. ToSet(ss[i]) \subseteq U
        OBVIOUS
      <4>2. ss[i] \in Seq(ToSet(ss[i]))
        BY DEF Fines
      <4> HIDE DEF U
      <4> QED
        BY <4>1, <4>2
    <3> HIDE DEF U
    <3> QED
      BY <3>1
  <2> HIDE DEF U
  <2>3. F \in [1..n -> [S -> S]]
    <3>1. ASSUME NEW i \in 1..n, NEW s \in S PROVE (IF i = 1 THEN ss[i] ELSE s \o ss[i]) \in S
      <4>1. s \o ss[i] \in S
        BY <2>2
      <4> QED
        BY <2>2, <4>1
    <3> HIDE DEF S
    <3> QED
      BY <3>1
  <2>4. PICK g : Iterates(g, F, <<>>, S, n)
    <3> HIDE DEF F, S
    <3> QED
      BY <2>2, <2>3, Recursion
  <2>5. g \in [0..n -> S] /\ \A i \in 1..n : g[i - 1] \in S /\ g[i] = F[i][g[i - 1]]
    <3> HIDE DEF F, S
    <3> QED
      BY <2>4, Iterated
  <2>6. \A i \in 1..n : g[i] = IF i = 1 THEN ss[i] ELSE g[i - 1] \o ss[i]
    <3> HIDE DEF S
    <3> QED
      BY <2>5
  <2> DEFINE h == [i \in 1..n |-> g[i]]
  <2>7. h = [i \in 1..n |-> IF i = 1 THEN ss[i] ELSE h[i - 1] \o ss[i]]
    <3>1. \A i \in 1..n : h[i] = IF i = 1 THEN ss[i] ELSE h[i - 1] \o ss[i]
      BY <2>6
    <3> HIDE DEF S
    <3> QED
      BY <3>1
  <2>8. flat = [i \in 1..n |-> IF i = 1 THEN ss[i] ELSE flat[i - 1] \o ss[i]]
    BY <2>7
  <2> HIDE DEF flat
  <2>9. \A i \in 1..n : flat[i] = IF i = 1 THEN ss[i] ELSE flat[i - 1] \o ss[i]
    BY <2>8
  <2> DEFINE T == {i \in 0..n : i = 0 \/ Fines(flat[i])}
  <2>10. Inductive(T, n)
    <3>1. 0 \in T
      OBVIOUS
    <3>2. ASSUME NEW i \in 1..n, i - 1 \in T PROVE i \in T
      <4>1. CASE i = 1
        BY <2>9, <4>1
      <4>2. CASE i # 1
        <5>1. Fines(flat[i - 1])
          BY <3>2, <4>2
        <5>2. flat[i] = flat[i - 1] \o ss[i]
          BY <2>9, <4>2
        <5>3. Fines(flat[i - 1] \o ss[i])
          <6> DEFINE x == flat[i - 1]
                     y == ss[i]
          <6>1. Fines(x) /\ Fines(y)
            BY <5>1
          <6> HIDE DEF x, y
          <6>2. Fines(x \o y)
            BY <6>1, FinesCat
          <6> QED
            BY <6>2 DEF x, y
        <5>4. Fines(flat[i])
          BY <5>2, <5>3
        <5> QED
          BY <5>4
      <4> QED
        BY <4>1, <4>2
    <3> HIDE DEF T
    <3> QED
      BY <3>1, <3>2 DEF Inductive
  <2>11. n \in T
    <3> HIDE DEF T
    <3> QED
      BY <2>10, Induction
  <2> QED
    BY <1>3, <2>1, <2>11
<1> QED
  BY <1>2, <1>3

(* A finite set as a sequence. *)
LEMMA SetIsSeq ==
  ASSUME NEW S, IsFiniteSet(S)
  PROVE  /\ Cardinality(S) \in Nat
         /\ SetToSeq(S) \in [1..Cardinality(S) -> S]
<1>1. Cardinality(S) \in Nat /\ ExistsBijection(1..Cardinality(S), S)
  BY FS_CardinalityType
<1>2. \E f \in [1..Cardinality(S) -> S] : IsInjective(f)
  BY <1>1 DEF ExistsBijection, Bijection, Injection, IsInjective
<1> QED
  BY <1>1, <1>2 DEF SetToSeq


-----------------------------------------------------------------------------
(* The calls of the spread relaxation. *)
LEMMA InternalKey ==
  ASSUME NEW tl, NEW words, NEW type
  PROVE  internal(variable(tl, words, type)).key[2] = words
BY DEF internal, variable

LEMMA TripleLevel ==
  ASSUME NEW key, NEW a, NEW b, NEW c, key[2] = <<a, b, c>>
  PROVE  Level(key) = 0
BY DEF Level

LEMMA Levels ==
  ASSUME NEW m
  PROVE  /\ Level(internal(_BMU(m)).key) = 3
         /\ Level(internal(_A(m)).key) = 2
         /\ Level(internal(_Ae(m)).key) = 1
         /\ Level(internal(_Ac(m)).key) = 1
         /\ \A l : Level(internal(layer_A(m, l)).key) = 0
<1>1. /\ internal(_BMU(m)).key[2] = <<m.name, "BMU">>
      /\ internal(_A(m)).key[2] = <<m.name, "A">>
      /\ internal(_Ae(m)).key[2] = <<m.name, "Ae">>
      /\ internal(_Ac(m)).key[2] = <<m.name, "Ac">>
  BY InternalKey DEF _BMU, _A, _Ae, _Ac
<1>2. \A l : internal(layer_A(m, l)).key[2] = <<m.name, "A" \o l.suffix, l.rank>>
  BY InternalKey DEF layer_A
<1>3. \A l : Level(internal(layer_A(m, l)).key) = 0
  BY <1>2, TripleLevel
<1> QED
  BY <1>1, <1>3 DEF Level

LEMMA ActLevels ==
  ASSUME NEW m
  PROVE  /\ Level(internal(external_act(m)).key) \in 0..1
         /\ Level(internal(contextual_act(m)).key) \in 0..1
         /\ Level(internal(act(m)).key) \in 0..2
<1>1. external_act(m) = _Ae(m) \/ external_act(m) = layer_A(m, m.external[1])
  BY DEF external_act
<1>2. contextual_act(m) = _Ac(m) \/ contextual_act(m) = layer_A(m, m.contextual[1])
  BY DEF contextual_act
<1>3. act(m) = _A(m) \/ act(m) = external_act(m) \/ act(m) = contextual_act(m)
  BY DEF act
<1>4. Level(internal(external_act(m)).key) \in 0..1 /\ Level(internal(contextual_act(m)).key) \in 0..1
  BY <1>1, <1>2, Levels
<1>5. Level(internal(_A(m)).key) = 2
  BY Levels
<1> QED
  BY <1>3, <1>4, <1>5

LEMMA DefinitionFine == \A v : Fine(definition(v))
BY DEF Fine, definition

LEMMA RuleFine ==
  ASSUME NEW v, NEW op, NEW args, NEW w, NEW date, Before(v.key, args)
  PROVE  Fine(rule(Dated(v.key, date), op, args, w))
BY DEF Fine, rule, Dated

(* The maps of the architecture. *)
Made(m) == m.external \in Seq(ToSet(m.external)) /\ m.contextual \in Seq(ToSet(m.contextual))

LEMMA LayersSeq ==
  ASSUME NEW m, Made(m)
  PROVE  \E n \in Nat : DOMAIN Layers(m) = 1..n
<1> DEFINE U == ToSet(m.external) \cup ToSet(m.contextual)
<1>1. ToSet(m.external) \subseteq U /\ ToSet(m.contextual) \subseteq U
  OBVIOUS
<1> HIDE DEF U
<1>2. m.external \in Seq(U) /\ m.contextual \in Seq(U)
  BY <1>1 DEF Made
<1>3. Layers(m) \in Seq(U)
  BY <1>2 DEF Layers
<1> QED
  BY <1>3

LEMMA ActDefinitionsFine == ASSUME NEW m PROVE Fines(act_definitions(m, internal))
<1> DEFINE a == IF Merged(m.external) THEN <<definition(internal(_Ae(m)))>> ELSE <<>>
           b == IF Merged(m.contextual) THEN <<definition(internal(_Ac(m)))>> ELSE <<>>
           c == IF Both(m) THEN <<definition(internal(_A(m)))>> ELSE <<>>
<1>1. Fines(a) /\ Fines(b) /\ Fines(c)
  BY DefinitionFine, FinesOne
<1>2. act_definitions(m, internal) = a \o b \o c
  BY DEF act_definitions
<1> HIDE DEF a, b, c
<1> QED
  BY <1>1, <1>2, FinesThree

LEMMA DefinitionsFine ==
  ASSUME NEW ms, NEW m, Made(m)
  PROVE  Fines(expand_relax_definitions(ms, m))
<1>1. PICK n \in Nat : DOMAIN Layers(m) = 1..n
  BY LayersSeq
<1> DEFINE ss == [i \in DOMAIN Layers(m) |-> layer_analysis_definitions(ms, m, Layers(m)[i])]
           a == <<definition(internal(_BMU(m)))>>
           b == FlattenSeq(ss)
           c == act_definitions(m, internal)
<1>2. ASSUME NEW i \in 1..n PROVE Fines(ss[i])
  <2> DEFINE l == Layers(m)[i]
             d == <<definition(internal(layer_A(m, l)))>>
             e == IF l.learns = "local" THEN <<definition(internal(_W(ms, m, l)))>> ELSE <<>>
  <2>1. ss[i] = d \o e
    BY <1>1 DEF layer_analysis_definitions
  <2>2. Fines(d) /\ Fines(e)
    BY DefinitionFine, FinesOne
  <2> HIDE DEF d, e
  <2> QED
    BY <2>1, <2>2, FinesCat
<1>3. DOMAIN ss = 1..n /\ ss = [i \in 1..n |-> ss[i]]
  BY <1>1
<1>4. expand_relax_definitions(ms, m) = a \o b \o c
  BY DEF expand_relax_definitions, Calls
<1> HIDE DEF ss
<1>5. Fines(b)
  BY <1>2, <1>3, FinesFlatten
<1>6. Fines(a) /\ Fines(c)
  BY DefinitionFine, FinesOne, ActDefinitionsFine
<1> HIDE DEF a, b, c
<1> QED
  BY <1>4, <1>5, <1>6, FinesThree

LEMMA FinesTwo ==
  ASSUME NEW c, NEW d, Fine(c), Fine(d)
  PROVE  Fines(<<c, d>>)
<1> DEFINE s == <<c, d>>
<1>1. s \in Seq({c, d}) /\ DOMAIN s = {1, 2} /\ s[1] = c /\ s[2] = d
  OBVIOUS
<1> HIDE DEF s
<1>2. ToSet(s) = {c, d}
  BY <1>1 DEF ToSet
<1>3. Fines(s)
  BY <1>1, <1>2 DEF Fines
<1> QED
  BY <1>3 DEF s

(* What is read at other instants leaves the order as it is. *)
LEMMA OtherInstants ==
  ASSUME NEW key, NEW a, NEW b, NEW i, NEW x
  PROVE  /\ Before(key, <<>>)
         /\ Before(key, <<at(a, i)>>)
         /\ Before(key, <<at(a, i), at(b, x)>>)
         /\ Before(key, <<shift(a, -1), at(b, x)>>)
<1>1. absolute(i) # relative(0) /\ absolute(x) # relative(0) /\ relative(-1) # relative(0)
  BY DEF absolute, relative
<1>2. at(a, i).date = absolute(i) /\ at(b, x).date = absolute(x) /\ shift(a, -1).date = relative(-1)
  BY DEF at, shift, Dated
<1> QED
  BY <1>1, <1>2 DEF Before

LEMMA LayerFine ==
  ASSUME NEW ms, NEW m, NEW l
  PROVE  Fines(layer_expand_relax(ms, m, l))
<1> DEFINE A == internal(layer_A(m, l))
           xi == internal(_xi(ms, l))
           W == at(internal(_W(ms, m, l)).key, 0)
           r1 == rule(now(A), "match-triangle", <<prev(xi), W>>, AnalysisWalltime)
           r2 == rule(at(A.key, 0), "clear", <<>>, 0)
           r3 == rule(now(A), "match-triangle", <<at(xi.key, 0), W>>, AnalysisWalltime)
           r4 == saved_weight(ms, m, l)
           s == IF l.contextual /\ l.at_input_read = relative(0) THEN <<r1, r2>> ELSE <<r3>>
<1>1. layer_expand_relax(ms, m, l) = s \o <<r4>>
  BY DEF layer_expand_relax
<1>2. Fine(r1)
  BY OtherInstants, RuleFine DEF now, data, prev
<1>3. Fine(r2)
  BY OtherInstants, RuleFine DEF at
<1>4. Fine(r3)
  BY OtherInstants, RuleFine DEF now, data
<1>5. Fine(r4)
  BY OtherInstants, RuleFine DEF saved_weight, at
<1> HIDE DEF r1, r2, r3, r4
<1>6. Fines(s)
  BY <1>2, <1>3, <1>4, FinesOne, FinesTwo
<1>7. Fines(<<r4>>)
  BY <1>5, FinesOne
<1> HIDE DEF s
<1> QED
  BY <1>1, <1>6, <1>7, FinesCat

(* An average of activities of layers. *)
LEMMA MergedFine ==
  ASSUME NEW ms, NEW m, NEW s, s \in Seq(ToSet(s)), NEW v, Level(internal(v).key) = 1, NEW w
  PROVE  Fines(FlattenSeq([i \in DOMAIN s |-> layer_expand_relax(ms, m, s[i])])
               \o (IF Merged(s)
                   THEN <<rule(now(internal(v)), "average", [i \in DOMAIN s |-> now(internal(layer_A(m, s[i])))], w)>>
                   ELSE <<>>))
<1> DEFINE ss == [i \in DOMAIN s |-> layer_expand_relax(ms, m, s[i])]
           a == FlattenSeq(ss)
           args == [i \in DOMAIN s |-> now(internal(layer_A(m, s[i])))]
           r == rule(now(internal(v)), "average", args, w)
           b == IF Merged(s) THEN <<r>> ELSE <<>>
<1>1. PICK n \in Nat : DOMAIN s = 1..n
  OBVIOUS
<1>2. DOMAIN ss = 1..n /\ ss = [i \in 1..n |-> ss[i]] /\ \A i \in 1..n : Fines(ss[i])
  BY <1>1, LayerFine
<1>3. Fines(a)
  <2> HIDE DEF ss
  <2> QED
    BY <1>2, FinesFlatten
<1>4. Before(internal(v).key, args)
  <2>1. ASSUME NEW i \in DOMAIN args PROVE Level(args[i].key) = 0
    BY Levels DEF now, data, Dated
  <2> HIDE DEF args
  <2> QED
    BY <2>1 DEF Before
<1>5. Fine(r)
  <2> HIDE DEF args
  <2> QED
    BY <1>4, RuleFine DEF now, data
<1>6. Fines(b)
  <2> HIDE DEF r
  <2> QED
    BY <1>5, FinesOne
<1> HIDE DEF a, b
<1>7. Fines(a \o b)
  BY <1>3, <1>6, FinesCat
<1> QED
  BY <1>7 DEF a, b

Merges(ms, m) == merge_updates(m, LAMBDA l : layer_expand_relax(ms, m, l), internal, AnalysisWalltime)

LEMMA MergesFine ==
  ASSUME NEW ms, NEW m, Made(m)
  PROVE  Fines(Merges(ms, m))
<1> DEFINE merged(s, v) ==
             FlattenSeq([i \in DOMAIN s |-> layer_expand_relax(ms, m, s[i])])
             \o (IF Merged(s)
                 THEN <<rule(now(internal(v)), "average", [i \in DOMAIN s |-> now(internal(layer_A(m, s[i])))],
                             AnalysisWalltime)>>
                 ELSE <<>>)
           x == internal(external_act(m))
           y == internal(contextual_act(m))
           r == rule(now(internal(_A(m))), "merge", <<now(x), now(y)>>, AnalysisWalltime)
           a == merged(m.external, _Ae(m))
           b == merged(m.contextual, _Ac(m))
           c == IF Both(m) THEN <<r>> ELSE <<>>
<1>1. Merges(ms, m) = a \o b \o c
  BY DEF Merges, merge_updates, Calls
<1>2. Fines(a) /\ Fines(b)
  BY MergedFine, Levels DEF Made
<1>3. Before(internal(_A(m)).key, <<now(x), now(y)>>)
  <2>1. Level(x.key) \in 0..1 /\ Level(y.key) \in 0..1 /\ Level(internal(_A(m)).key) = 2
    BY ActLevels, Levels
  <2> HIDE DEF x, y
  <2>2. now(x).key = x.key /\ now(y).key = y.key
    BY DEF now, data, Dated
  <2> QED
    BY <2>1, <2>2 DEF Before
<1>4. Fine(r)
  <2> HIDE DEF x, y
  <2> QED
    BY <1>3, RuleFine DEF now, data
<1>5. Fines(c)
  <2> HIDE DEF r
  <2> QED
    BY <1>4, FinesOne
<1> HIDE DEF a, b, c
<1> QED
  BY <1>1, <1>2, <1>5, FinesThree

LEMMA UpdatesFine ==
  ASSUME NEW ms, NEW m, Made(m)
  PROVE  Fines(expand_relax_updates(ms, m))
<1> DEFINE BMU == internal(_BMU(m))
           A == now(internal(act(m)))
           a == Merges(ms, m)
           r1 == rule(now(BMU), "conv-argmax", <<A>>, AnalysisWalltime)
           r2 == rule(now(BMU), "toward-conv-argmax", <<A, prev(BMU)>>, AnalysisWalltime)
           b == IF Layers(m) = <<>> THEN <<>> ELSE IF m.contextual = <<>> THEN <<r1>> ELSE <<r2>>
<1>1. expand_relax_updates(ms, m) = a \o b
  BY DEF expand_relax_updates, Merges
<1>2. Fines(a)
  BY MergesFine
<1>3. Level(A.key) \in 0..2 /\ Level(BMU.key) = 3
  <2>1. A.key = internal(act(m)).key
    BY DEF now, data, Dated
  <2> QED
    BY <2>1, ActLevels, Levels
<1>4. prev(BMU).date # relative(0)
  BY DEF prev, shift, Dated, relative
<1> HIDE DEF BMU, A
<1>5. Fine(r1)
  <2>1. Before(BMU.key, <<A>>)
    BY <1>3 DEF Before
  <2> QED
    BY <2>1, RuleFine DEF now, data
<1>6. Fine(r2)
  <2>1. Before(BMU.key, <<A, prev(BMU)>>)
    BY <1>3, <1>4 DEF Before
  <2> QED
    BY <2>1, RuleFine DEF now, data
<1> HIDE DEF r1, r2
<1>7. Fines(b)
  BY <1>5, <1>6, FinesOne
<1> HIDE DEF a, b
<1> QED
  BY <1>1, <1>2, <1>7, FinesCat

-----------------------------------------------------------------------------
(* The program of the spread relaxation. *)
LEMMA CallsSeq ==
  ASSUME NEW ms, IsFiniteSet(DOMAIN ms), \A n \in DOMAIN ms : Made(ms[n])
  PROVE  \E c \in Nat : /\ DOMAIN MapsOf(ms) = 1..c
                        /\ \A i \in 1..c : Made(MapsOf(ms)[i])
<1> DEFINE S == {ms[n] : n \in DOMAIN ms}
           f == [n \in DOMAIN ms |-> ms[n]]
<1>1. IsFiniteSet(S)
  <2>1. f \in Surjection(DOMAIN ms, S)
    BY DEF Surjection
  <2> HIDE DEF S, f
  <2> QED
    BY <2>1, FS_Surjection
<1>2. \A m \in S : Made(m)
  OBVIOUS
<1>3. MapsOf(ms) = SetToSeq(S)
  BY DEF MapsOf
<1> HIDE DEF S
<1>4. Cardinality(S) \in Nat /\ MapsOf(ms) \in [1..Cardinality(S) -> S]
  BY <1>1, <1>3, SetIsSeq
<1> QED
  BY <1>2, <1>4

LEMMA DefinedFine ==
  ASSUME maps \in Architectures
  PROVE  Fines(Defined("relax"))
<1> DEFINE V == Provided("relax", maps).variables
           v == SetToSeq(V)
           ds == [i \in DOMAIN MapsOf(maps) |-> expand_relax_definitions(maps, MapsOf(maps)[i])]
           us == [i \in DOMAIN MapsOf(maps) |-> expand_relax_updates(maps, MapsOf(maps)[i])]
           a == User(v)
           b == FlattenSeq(ds)
           c == FlattenSeq(us)
<1>1. IsFiniteSet(DOMAIN maps) /\ IsFiniteSet(V) /\ \A n \in DOMAIN maps : Made(maps[n])
  BY ArchitecturesAssumption DEF Made
<1>2. Defined("relax") = a \o (b \o c)
  BY DEF Defined, expand_relax, Calls
<1>3. Fines(a)
  <2> HIDE DEF V
  <2>1. Cardinality(V) \in Nat /\ v \in [1..Cardinality(V) -> V]
    BY <1>1, SetIsSeq
  <2> DEFINE n == Cardinality(V)
  <2>2. n \in Nat /\ a = [i \in 1..n |-> definition(v[i])]
    BY <2>1 DEF User
  <2> HIDE DEF n
  <2>3. DOMAIN a = 1..n /\ \A i \in 1..n : Fine(a[i])
    BY <2>2, DefinitionFine
  <2>4. a \in Seq(ToSet(a))
    <3>1. \A i \in 1..n : a[i] \in ToSet(a)
      BY <2>3 DEF ToSet
    <3> HIDE DEF v
    <3> QED
      BY <2>2, <3>1
  <2> QED
    BY <2>3, <2>4 DEF Fines
<1>4. PICK k \in Nat : DOMAIN MapsOf(maps) = 1..k /\ \A i \in 1..k : Made(MapsOf(maps)[i])
  BY <1>1, CallsSeq
<1>5. DOMAIN ds = 1..k /\ ds = [i \in 1..k |-> ds[i]] /\ \A i \in 1..k : Fines(ds[i])
  BY <1>4, DefinitionsFine
<1>6. DOMAIN us = 1..k /\ us = [i \in 1..k |-> us[i]] /\ \A i \in 1..k : Fines(us[i])
  BY <1>4, UpdatesFine
<1> HIDE DEF a, ds, us
<1>7. Fines(b) /\ Fines(c)
  BY <1>5, <1>6, FinesFlatten
<1> HIDE DEF b, c
<1> QED
  BY <1>2, <1>3, <1>7, FinesCat

(* A call leaves the rules in order. *)
LEMMA EnteredLeveled ==
  ASSUME NEW rs, Leveled(rs), NEW op, NEW d, NEW args, NEW w, Before(d.key, args)
  PROVE  Leveled(Entered(rs, d, update(op, d, args, w)))
<1> DEFINE u == update(op, d, args, w)
           new == Entered(rs, d, u)
<1>1. DOMAIN new = DOMAIN rs \cup {d} /\ \A e \in DOMAIN new : new[e] = IF e = d THEN u ELSE rs[e]
  BY DEF Entered
<1>2. u.args = args
  BY DEF update
<1> HIDE DEF u, new
<1>3. IsFiniteSet(DOMAIN new)
  BY <1>1, FS_AddElement DEF Leveled
<1>4. \A e \in DOMAIN new : Before(e.key, new[e].args)
  BY <1>1, <1>2 DEF Leveled
<1>5. Leveled(new)
  BY <1>3, <1>4 DEF Leveled
<1> QED
  BY <1>5 DEF new, u

LEMMA ApplyLeveled ==
  ASSUME NEW x, Good(x), Leveled(x.updates), NEW c, Fine(c)
  PROVE  Leveled(apply(x, c).updates)
<1> DEFINE y == apply(x, c)
<1>1. \A e : Throw(x, e).updates = x.updates
  BY DEF Throw, Good, ContextField
<1>2. CASE c.call = "type"
  <2>1. \/ y = x \/ y = Throw(x, "redeclare_type")
        \/ \E t : y = [x EXCEPT !.types = t]
    BY <1>2 DEF apply, declare_type
  <2>2. \A t : [x EXCEPT !.types = t].updates = x.updates
    BY DEF Good, ContextField
  <2> HIDE DEF y
  <2>3. y.updates = x.updates
    <3>1. ASSUME NEW t, y = [x EXCEPT !.types = t] PROVE y.updates = x.updates
      BY <2>2, <3>1
    <3> QED
      BY <1>1, <2>1, <3>1
  <2> QED
    BY <2>3 DEF y
<1>3. CASE c.call = "<<"
  <2> DEFINE n == note(x, {c.dest} \cup ToSet(c.args))
             rs == Entered(x.updates, c.dest, update(c.op, c.dest, c.args, c.walltime))
  <2>1. n = [f \in ContextField |-> n[f]] /\ n.updates = x.updates
    BY NoteGood
  <2>2. \/ y = [n EXCEPT !.updates = Entered(n.updates, c.dest, update(c.op, c.dest, c.args, c.walltime))]
        \/ y = Throw(x, "bad_update") \/ y = Throw(x, "double_update")
    BY <1>3 DEF apply, add_update
  <2>3. Leveled(rs)
    BY <1>3, EnteredLeveled DEF Fine
  <2> HIDE DEF n, y, rs
  <2>4. y.updates \in {rs, x.updates}
    BY <1>1, <2>1, <2>2 DEF rs, ContextField
  <2> QED
    BY <2>3, <2>4 DEF y
<1>4. CASE c.call \notin {"type", "<<"}
  <2> DEFINE n == note(x, {c.dest} \cup ToSet(c.args))
  <2>1. n = [f \in ContextField |-> n[f]] /\ n.updates = x.updates
    BY NoteGood
  <2>2. \/ \E r : y = [n EXCEPT !.inits = r]
        \/ y = Throw(x, "bad_update") \/ y = Throw(x, "double_update")
    BY <1>4 DEF apply, add_init
  <2> HIDE DEF n, y
  <2>3. y.updates = x.updates
    BY <1>1, <2>1, <2>2 DEF ContextField
  <2> QED
    BY <2>3 DEF y
<1> QED
  BY <1>2, <1>3, <1>4

RelaxInv == program = "relax" => maps \in Architectures /\ Leveled(ctx.updates) /\ calls \in Nat

LEMMA RelaxInit == Init => RelaxInv
<1> SUFFICES ASSUME Init, program = "relax" PROVE maps \in Architectures /\ Leveled(ctx.updates) /\ calls \in Nat
  BY DEF RelaxInv
<1>1. ctx.updates = <<>>
  BY DEF Init, NewContext
<1>2. DOMAIN ctx.updates = {}
  BY <1>1
<1> QED
  BY <1>2, FS_EmptySet DEF Init, Leveled

LEMMA RelaxBuild ==
  ASSUME ProgramInv, RelaxInv, Build, program = "relax"
  PROVE  RelaxInv'
<1> DEFINE s == Defined("relax")
           c == s[calls + 1]
<1>1. maps \in Architectures /\ Leveled(ctx.updates) /\ Good(ctx) /\ calls \in Nat
  BY DEF RelaxInv, ProgramInv
<1>2. ctx' = apply(ctx, c) /\ UNCHANGED <<program, maps>> /\ calls < Len(s) /\ calls' = calls + 1
  BY DEF Build
<1>3. Fine(c)
  <2>1. Fines(s)
    BY <1>1, DefinedFine
  <2> HIDE DEF s
  <2>2. s \in Seq(ToSet(s))
    BY <2>1 DEF Fines
  <2>3. calls + 1 \in DOMAIN s
    BY <1>1, <1>2, <2>2
  <2> QED
    BY <2>1, <2>3 DEF Fines
<1> HIDE DEF c
<1>4. Leveled(ctx'.updates)
  BY <1>1, <1>2, <1>3, ApplyLeveled
<1>5. Leveled(ctx.updates)'
  BY <1>4 DEF Leveled, Before
<1> QED
  BY <1>1, <1>2, <1>5 DEF RelaxInv

LEMMA RelaxStep ==
  ASSUME ProgramInv, RelaxInv, [Next]_vars
  PROVE  RelaxInv'
<1>1. CASE UNCHANGED <<program, maps, ctx, calls>>
  BY <1>1 DEF RelaxInv, Leveled, Before
<1>2. CASE program # "relax" /\ UNCHANGED program
  BY <1>2 DEF RelaxInv
<1>3. ASSUME NEW c, Call(c)
      PROVE  program # "relax" /\ UNCHANGED program
  BY <1>3 DEF Call
<1>4. CASE OpenTimeline \/ OpenNameSpace \/ CloseNameSpace \/ CloseTimeline \/ Declare \/ TypeOf \/ Write \/ Rename
  <2>1. \E c : Call(c)
    BY <1>4 DEF OpenTimeline, OpenNameSpace, CloseNameSpace, CloseTimeline, Declare, TypeOf, Write, Rename
  <2> QED
    BY <1>2, <1>3, <2>1
<1>5. CASE Build
  <2>1. CASE program = "relax"
    BY <1>5, <2>1, RelaxBuild
  <2>2. CASE program # "relax"
    BY <1>2, <1>5, <2>2 DEF Build
  <2> QED
    BY <2>1, <2>2
<1>6. CASE Fail \/ Send \/ process_updates \/ Ping \/ \E tl \in Timelines, t \in 0..Horizon : Complete(tl, t)
  BY <1>1, <1>6 DEF Fail, Send, process_updates, Ping, Complete
<1>7. CASE UNCHANGED vars
  BY <1>1, <1>7 DEF vars
<1> QED
  BY <1>4, <1>5, <1>6, <1>7 DEF Next
-----------------------------------------------------------------------------
(* What reads at its own instant is of a higher level than what it reads.  *)
LEMMA ReadsBefore ==
  ASSUME NEW rs, Leveled(rs), NEW d \in DOMAIN rs, NEW k, Dated(k, relative(0)) \in ToSet(rs[d].args)
  PROVE  Level(k) \in Nat /\ Level(d.key) \in Nat /\ Level(k) < Level(d.key)
<1>1. PICK i \in DOMAIN rs[d].args : rs[d].args[i] = Dated(k, relative(0))
  BY DEF ToSet
<1>2. rs[d].args[i].date = relative(0) /\ rs[d].args[i].key = k
  BY <1>1 DEF Dated
<1>3. Before(d.key, rs[d].args)
  BY DEF Leveled
<1> QED
  BY <1>2, <1>3 DEF Before

(* Of the variables that wait, those of the least level do not wait on.    *)
LEMMA LeastIsDone ==
  ASSUME NEW U, IsFiniteSet(U), U # {}, NEW R,
         \A j, k \in U : <<j, k>> \in R => Level(k) \in Nat /\ Level(j) \in Nat /\ Level(k) < Level(j)
  PROVE  LET W == {j \in U : \E k \in U : <<j, k>> \in R}
         IN  IsFiniteSet(W) /\ Cardinality(W) < Cardinality(U)
<1> DEFINE W == {j \in U : \E k \in U : <<j, k>> \in R}
<1>1. W # U
  <2> SUFFICES ASSUME W = U PROVE FALSE
    OBVIOUS
  <2>1. ASSUME NEW j \in U
        PROVE  Level(j) \in Nat /\ \E k \in U : Level(k) < Level(j)
    <3>1. PICK k \in U : <<j, k>> \in R
      OBVIOUS
    <3> QED
      BY <3>1
  <2> DEFINE L == {Level(j) : j \in U}
             Lt == OpToRel(<, Nat)
  <2>2. L \subseteq Nat /\ L # {}
    BY <2>1
  <2>3. IsWellFoundedOn(Lt, Nat)
    BY NatLessThanWellFounded, Zenon
  <2>4. PICK b \in L : \A y \in L : <<y, b>> \notin Lt
    <3> HIDE DEF L, Lt
    <3> QED
      BY <2>2, <2>3, WFMin
  <2>5. \A y \in L : ~(y < b)
    <3> HIDE DEF L
    <3> QED
      BY <2>2, <2>4, Zenon DEF OpToRel
  <2>6. PICK j \in U : b = Level(j)
    OBVIOUS
  <2> HIDE DEF Lt
  <2>7. PICK k \in U : Level(k) < Level(j)
    BY <2>1
  <2>8. Level(k) \in L
    OBVIOUS
  <2> QED
    BY <2>5, <2>6, <2>7, <2>8
<1>2. W \in SUBSET U
  OBVIOUS
<1> HIDE DEF W
<1>3. IsFiniteSet(W) /\ Cardinality(W) <= Cardinality(U) /\ Cardinality(U) # Cardinality(W)
  BY <1>1, <1>2, FS_Subset
<1>4. Cardinality(W) \in Nat /\ Cardinality(U) \in Nat
  BY <1>3, FS_CardinalityType
<1>5. IsFiniteSet(W) /\ Cardinality(W) < Cardinality(U)
  BY <1>3, <1>4
<1> QED
  BY <1>5 DEF W

LEMMA LeveledUnfolds ==
  ASSUME Leveled(ctx.updates)
  PROVE  RelaxationIsUnfolded
<1> DEFINE keys == {d.key : d \in DOMAIN ctx.updates}
           reads(j, k) == \E d \in DOMAIN ctx.updates :
                            d.key = j /\ Dated(k, relative(0)) \in ToSet(ctx.updates[d].args)
           R == {p \in keys \X keys : reads(p[1], p[2])}
           N == Cardinality(keys)
           S == SUBSET keys
           Next1(s) == {j \in s : \E k \in s : <<j, k>> \in R}
           F == [i \in 1..N |-> [s \in S |-> Next1(s)]]
           waiting[n \in 0..N] ==
             IF n = 0 THEN keys ELSE {j \in waiting[n - 1] : \E k \in waiting[n - 1] : reads(j, k)}
<1>1. IsFiniteSet(keys)
  <2> DEFINE f == [d \in DOMAIN ctx.updates |-> d.key]
  <2>1. f \in Surjection(DOMAIN ctx.updates, keys)
    BY DEF Surjection
  <2>2. IsFiniteSet(DOMAIN ctx.updates)
    BY DEF Leveled
  <2> HIDE DEF f, keys
  <2> QED
    BY <2>1, <2>2, FS_Surjection
<1>2. N \in Nat
  <2> HIDE DEF keys
  <2> QED
    BY <1>1, FS_CardinalityType
<1>3. \A j, k \in keys : <<j, k>> \in R <=> reads(j, k)
  OBVIOUS
<1>4. \A j, k \in keys : <<j, k>> \in R => Level(k) \in Nat /\ Level(j) \in Nat /\ Level(k) < Level(j)
  <2> SUFFICES ASSUME NEW j \in keys, NEW k \in keys, <<j, k>> \in R
               PROVE  Level(k) \in Nat /\ Level(j) \in Nat /\ Level(k) < Level(j)
    BY Zenon
  <2>1. PICK d \in DOMAIN ctx.updates : d.key = j /\ Dated(k, relative(0)) \in ToSet(ctx.updates[d].args)
    BY <1>3
  <2> QED
    BY <2>1, ReadsBefore
<1> HIDE DEF R
<1>5. \A s \in S : {j \in s : \E k \in s : reads(j, k)} = Next1(s)
  <2> HIDE DEF reads
  <2> SUFFICES ASSUME NEW s \in S PROVE {j \in s : \E k \in s : reads(j, k)} = Next1(s)
    OBVIOUS
  <2>1. \A j, k \in s : <<j, k>> \in R <=> reads(j, k)
    BY <1>3
  <2> QED
    BY <2>1
<1> HIDE DEF reads
<1>6. F \in [1..N -> [S -> S]]
  <2>1. \A s \in S : Next1(s) \in S
    OBVIOUS
  <2> HIDE DEF S, Next1, N
  <2> QED
    BY <2>1
<1>7. PICK g : Iterates(g, F, keys, S, N)
  <2>1. keys \in S
    OBVIOUS
  <2> HIDE DEF F, S, N, keys
  <2> QED
    BY <1>2, <1>6, <2>1, Recursion
<1>8. /\ g \in [0..N -> S] /\ g[0] = keys
      /\ \A i \in 1..N : g[i - 1] \in S /\ g[i] = F[i][g[i - 1]]
  <2> HIDE DEF F, S, N, keys
  <2> QED
    BY <1>2, <1>7, Iterated
<1>9. \A i \in 1..N : g[i - 1] \in S /\ g[i] = Next1(g[i - 1])
  <2> HIDE DEF S, N, keys, Next1
  <2> QED
    BY <1>8
<1>10. g = [n \in 0..N |-> IF n = 0 THEN keys ELSE {j \in g[n - 1] : \E k \in g[n - 1] : reads(j, k)}]
  <2>1. \A i \in 1..N : g[i] = {j \in g[i - 1] : \E k \in g[i - 1] : reads(j, k)}
    <3> HIDE DEF S, N, keys, Next1
    <3> QED
      BY <1>5, <1>9
  <2> HIDE DEF S, N, keys
  <2> QED
    BY <1>2, <1>8, <2>1
<1>11. waiting = [n \in 0..N |-> IF n = 0 THEN keys ELSE {j \in waiting[n - 1] : \E k \in waiting[n - 1] : reads(j, k)}]
  <2> HIDE DEF N, keys
  <2> QED
    BY <1>10
<1> DEFINE w == waiting
<1> HIDE DEF waiting
<1>12. w[0] = keys /\ \A i \in 1..N : w[i] = {j \in w[i - 1] : \E k \in w[i - 1] : reads(j, k)}
  <2> DEFINE P(s) == {j \in s : \E k \in s : reads(j, k)}
  <2>1. w = [n \in 0..N |-> IF n = 0 THEN keys ELSE P(w[n - 1])]
    BY <1>11
  <2>2. w[0] = keys /\ \A i \in 1..N : w[i] = P(w[i - 1])
    <3> HIDE DEF N, keys, P, w
    <3> QED
      BY <1>2, <2>1
  <2> QED
    BY <2>2
<1> HIDE DEF w
<1> DEFINE T == {i \in 0..N : w[i] \in S /\ Cardinality(w[i]) <= N - i}
<1>13. Inductive(T, N)
  <2>1. 0 \in T
    <3>1. w[0] \in S /\ w[0] = keys
      BY <1>12
    <3> HIDE DEF S, keys
    <3> QED
      BY <1>2, <3>1
  <2>2. ASSUME NEW i \in 1..N, i - 1 \in T PROVE i \in T
    <3> DEFINE U == w[i - 1]
               W == Next1(U)
    <3>1. U \in S /\ Cardinality(U) <= N - (i - 1) /\ i \in 1..N /\ i - 1 \in 0..N
      BY <2>2
    <3>2. w[i] = W
      BY <1>5, <1>12, <3>1
    <3>3. IsFiniteSet(U)
      <4> HIDE DEF U, keys
      <4> QED
        BY <1>1, <3>1, FS_Subset
    <3>4. W \in S
      BY <3>1
    <3>5. CASE U = {}
      <4>1. W = {}
        BY <3>5
      <4> HIDE DEF W, U, keys
      <4>2. Cardinality(W) = 0
        BY <4>1, FS_EmptySet
      <4> QED
        BY <1>2, <3>1, <3>2, <3>4, <4>2
    <3>6. CASE U # {}
      <4>1. \A j, k \in U : <<j, k>> \in R => Level(k) \in Nat /\ Level(j) \in Nat /\ Level(k) < Level(j)
        BY <1>4, <3>1
      <4> HIDE DEF U, keys
      <4>2. IsFiniteSet(W) /\ Cardinality(W) < Cardinality(U)
        BY <3>3, <3>6, <4>1, LeastIsDone
      <4>3. Cardinality(W) \in Nat /\ Cardinality(U) \in Nat
        BY <3>3, <4>2, FS_CardinalityType
      <4> HIDE DEF W, N
      <4> QED
        BY <1>2, <3>1, <3>2, <3>4, <4>2, <4>3
    <3> QED
      BY <3>5, <3>6
  <2> HIDE DEF T, N
  <2> QED
    BY <2>1, <2>2 DEF Inductive
<1>14. N \in T
  <2> HIDE DEF T, N
  <2> QED
    BY <1>2, <1>13, Induction
<1>15. w[N] = {}
  <2>1. w[N] \in SUBSET keys /\ Cardinality(w[N]) <= N - N
    BY <1>14
  <2> HIDE DEF keys
  <2>2. IsFiniteSet(w[N])
    BY <1>1, <2>1, FS_Subset
  <2>3. Cardinality(w[N]) \in Nat
    BY <2>2, FS_CardinalityType
  <2> HIDE DEF N
  <2>4. Cardinality(w[N]) = 0
    BY <1>2, <2>1, <2>3
  <2> QED
    BY <2>2, <2>4, FS_EmptySet
<1> QED
  BY <1>15 DEF RelaxationIsUnfolded, w, waiting, reads

(* In the spread relaxation no variable depends on itself at one instant,  *)
(* for every architecture: the activities of the layers, the merges, the   *)
(* activity of the map and its winner are computed in this order, and what *)
(* comes from the other maps is of another instant                         *)
(* (expand_relax_updates).                                                 *)
THEOREM RelaxationIsInOrder == Spec => []RelaxationIsUnfolded
<1>1. Init => ProgramInv /\ RelaxInv
  BY ProgramInit, RelaxInit
<1>2. ProgramInv /\ RelaxInv /\ [Next]_vars => ProgramInv' /\ RelaxInv'
  BY ProgramStep, RelaxStep
<1>3. RelaxInv => RelaxationIsUnfolded
  <2>1. CASE program = "relax"
    BY <2>1, LeveledUnfolds DEF RelaxInv
  <2>2. CASE program # "relax"
    BY <2>2 DEF RelaxationIsUnfolded
  <2> QED
    BY <2>1, <2>2
<1> QED
  BY <1>1, <1>2, <1>3, PTL DEF Spec
=============================================================================
