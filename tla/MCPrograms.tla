----------------------------- MODULE MCPrograms -----------------------------
(* One or two maps of a line of positions, and programs of a few calls.    *)
EXTENDS Programs

(* The input of the simulation, and weights that belong to the user. *)
MCX == variable(<<"in">>, <<"X">>, Pos1D)
MCW == variable(<<"user">>, <<"W">>, Map1D(Pos1D, 10))

How(learns, weight_read) ==
  [by_default EXCEPT !.learns = learns, !.weight_read = weight_read] @@ [weight |-> MCW]

MCLocal  == How("local", relative(-1))
MCAtOnce == How("local", relative(0))
MCRemote == How("remote", relative(-1))
MCStatic == How("static", absolute(0))
MCShown  == [MCLocal EXCEPT !.expose = TRUE]
MCLate   == [MCLocal EXCEPT !.input_read = relative(-1)]

MCHows == {MCLocal, MCAtOnce, MCRemote, MCStatic, MCShown, MCLate}

(* The first map, then its external and its contextual layers. *)
MCM1 == make_map("M1", 1, 10)

MCExternal ==
  {MCM1, external_variable(external_variable(MCM1, MCX, MCLocal), MCX, MCStatic)}
  \cup {external_variable(MCM1, MCX, h) : h \in MCHows}
  \cup {external_map(MCM1, "M2", h) : h \in {MCLocal, MCLate}}

MCFirst ==
  (MCExternal \ {MCM1})
  \cup {contextual(m, "M2", h) : m \in MCExternal, h \in {MCLocal, MCRemote, MCLate}}
  \cup {contextual(contextual(m, "M2", MCLocal), "M2", MCShown) : m \in MCExternal}

(* The second map reads the input, and the winner of the first or not. *)
MCM2 == external_variable(make_map("M2", 1, 10), MCX, MCLocal)

MCArchitectures == {("M1" :> m) @@ ("M2" :> n) : m \in MCFirst, n \in {MCM2, contextual(MCM2, "M1", MCLocal)}}

MCFilled(v, n) == {<<v.key, t>> : t \in 0..n}

MCProvided(p, ms) ==
  CASE p = "main" ->
         [variables |-> {MCX, MCW}, ready |-> MCFilled(MCX, Horizon) \cup MCFilled(MCW, 0)]
    [] p = "relax" ->
         [variables |-> {internal(MCX)},
          ready |-> MCFilled(internal(MCX), 0)
                    \cup {<<internal(_BMU(ms[n])).key, 0>> : n \in {n \in DOMAIN ms : ms[n].contextual # <<>>}}
                    \cup {<<_W(ms, ms[n], l).key, SavedAt>> : n \in DOMAIN ms,
                                                             l \in UNION {ToSet(Layers(ms[k])) : k \in DOMAIN ms}}]
    [] p = "frozen" ->
         [variables |-> {external_input(MCX)},
          ready |-> MCFilled(external_input(MCX), Horizon)
                    \cup {<<_W(ms, ms[n], l).key, SavedAt>> : n \in DOMAIN ms,
                                                             l \in UNION {ToSet(Layers(ms[k])) : k \in DOMAIN ms}}]

(* By hand: two variables, one of them in a name space or not. *)
MCHandNames == {[abs |-> TRUE, path |-> <<"a">>], [abs |-> FALSE, path |-> <<"b">>]}
MCHandTypes == {Scalar, Pos1D}
MCHandDates == {absolute(0), absolute(1), relative(0), scaled(2)}
MCHandArgDates == {absolute(0), relative(-1)}
MCHandScopes == {"ns"}

(* The files of the simulation, and for the programs made by hand those of *)
(* their two variables.                                                    *)
MCOnDisk(p, ms) ==
  CASE p = "hand" -> {variable(Timeline.relaxation, <<"a">>, Scalar), variable(Timeline.relaxation, <<"b">>, Scalar)}
    [] p = "main" -> {}
    [] OTHER -> {MCX, MCW} \cup {[key |-> c.key, type |-> c.type] :
                                 c \in {c \in ToSet(realize(ms, TRUE)) : c.call = "type"}}
=============================================================================
