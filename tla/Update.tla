------------------------------- MODULE Update -------------------------------
(***************************************************************************)
(* The rules of a simulation and the update objects that evaluate them     *)
(* (cxsomUpdate.hpp).                                                      *)
(*                                                                         *)
(* A data instance (DI) is one value of one variable at one instant.  The  *)
(* DIs of one timeline at one instant form a timestep.  A rule updates a   *)
(* DI from other DIs: its in-arguments belong to the timestep of the       *)
(* result, its out-arguments do not.  A rule may have an init part, run    *)
(* once before the usual part.                                             *)
(*                                                                         *)
(* Abstractions: a timestep is its rank in the map the server keeps them   *)
(* in; the arguments of a rule are a set, since no property depends on     *)
(* their order; the operation of a rule is the constant operator Compute,  *)
(* and a write is significant when it changes the value.                   *)
(***************************************************************************)
EXTENDS Integers, FiniteSets

CONSTANTS
  DI,            (* the data instances                                      *)
  NbSteps,       (* the number of timesteps                                 *)
  StepOf,        (* StepOf[d]: the timestep of d                            *)
  Ruled,         (* the DIs some rule updates                               *)
  WithInit,      (* those whose rule has an init part                       *)
  InitArgs,      (* InitArgs[d]: the arguments of the init part             *)
  UsualArgs,     (* UsualArgs[d]: the arguments of the usual part           *)
  Value,         (* the values a DI takes                                   *)
  Default,       (* the value of a DI nothing has written                   *)
  Compute(_, _)  (* Compute(u, v): what update u computes from v            *)

TS == 1..NbSteps

(* An update object: the init or the usual part of the rule of a DI. *)
Phase == {"init", "usual"}
UpdateId == Phase \X DI
Result(u) == u[2]
IsInit(u) == u[1] = "init"

Args(u)    == IF IsInit(u) THEN InitArgs[Result(u)] ELSE UsualArgs[Result(u)]
InArgs(u)  == {a \in Args(u) : StepOf[a] = StepOf[Result(u)]}
OutArgs(u) == Args(u) \ InArgs(u)

ASSUME ConstantsAssumption ==
  /\ NbSteps \in Nat
  /\ StepOf \in [DI -> TS]
  /\ WithInit \subseteq Ruled
  /\ Ruled \subseteq DI
  /\ InitArgs \in [DI -> SUBSET DI]
  /\ UsualArgs \in [DI -> SUBSET DI]
  /\ Default \in Value

(* An operation is a function of its arguments.                            *)
ASSUME ComputeAssumption ==
  \A u \in UpdateId : \A v \in [DI -> Value] :
    /\ Compute(u, v) \in Value
    /\ \A w \in [DI -> Value] :
         (\A a \in Args(u) : v[a] = w[a]) => Compute(u, v) = Compute(u, w)

(* data::Availability and update::Status. *)
Availability == {"Busy", "Ready"}
Report == {"Impossible", "UpToDate", "Updated", "Done", "None"}

(* The in-memory data::Instance of a DI. *)
Instance == [avail : Availability, date : Nat, val : Value]

(* What an update object keeps from one evaluation to the next: whether    *)
(* it ever wrote its result, whether all its out-arguments have been read, *)
(* and for each argument the date and the availability it last saw.        *)
Object == [updated_once : BOOLEAN, out_ok : BOOLEAN,
           date : [DI -> Nat], availability : [DI -> Availability]]

NewObject == [updated_once |-> FALSE, out_ok |-> FALSE,
              date |-> [a \in DI |-> 0],
              availability |-> [a \in DI |-> "Busy"]]

-----------------------------------------------------------------------------
(* The evaluation cycle, update::Base::operator(), on the object o of      *)
(* update u when the instances are D.                                      *)

IsReady(D, a) == D[a].avail = "Ready"

(* All the out-arguments are ready, now or when they were last read. *)
OutReady(u, o, D) == o.out_ok \/ \A a \in OutArgs(u) : IsReady(D, a)

(* The timesteps of the out-arguments last seen busy. *)
BlockersOf(u, o) == {StepOf[a] : a \in {b \in OutArgs(u) : o.availability[b] # "Ready"}}

(* The in-arguments that changed since the last evaluation. *)
Moved(u, o, D) ==
  {a \in InArgs(u) : \/ D[a].avail = "Ready" /\ o.availability[a] = "Busy"
                     \/ D[a].date > o.date[a]}

(* Nothing to recompute. *)
NothingMoved(u, o, D) == InArgs(u) # {} /\ Moved(u, o, D) = {} /\ o.updated_once

(* The object once it has seen the availability of the arguments in A. *)
NoteAvailability(o, D, A) ==
  [o EXCEPT !.availability = [a \in DI |-> IF a \in A THEN D[a].avail ELSE o.availability[a]]]

(* ... and all that an evaluation reads when the out-arguments are ready. *)
NoteArguments(u, o, D) ==
  [NoteAvailability(o, D, InArgs(u) \cup (IF o.out_ok THEN {} ELSE OutArgs(u)))
     EXCEPT !.out_ok = TRUE,
            !.date = [a \in DI |-> IF a \in Moved(u, o, D) THEN D[a].date ELSE o.date[a]]]

Computed(u, D) == Compute(u, [a \in DI |-> D[a].val])

(* The rest of an evaluation that recomputes: D is what it read of the     *)
(* instances, r the instance of the result when it writes it.              *)

Significant(u, o, D, r) == Computed(u, D) # r.val \/ ~o.updated_once

(* Variants of NextDate: a date that is not later, one that goes back.     *)
SameDate(u, o, D, r) == {r.date}
DateBefore(u, o, D, r) == {r.date - 1}

(* ResInstance::set_date: one more than the latest of the result's date    *)
(* and the moved arguments' (a set with one element).                      *)
NextDate(u, o, D, r) ==
  LET dates == {D[a].date : a \in Moved(u, o, D)} \cup {r.date}
  IN  {m + 1 : m \in {n \in dates : \A k \in dates : k <= n}}

AllInReady(u, D) == \A a \in InArgs(u) : IsReady(D, a)

(* The instance it leaves (dated next if the write is significant) and its *)
(* report.                                                                 *)
WriteResult(u, o, D, r, next) ==
  [avail |-> IF AllInReady(u, D) /\ ~IsInit(u) THEN "Ready" ELSE r.avail,
   date  |-> IF Significant(u, o, D, r) THEN next ELSE r.date,
   val   |-> Computed(u, D)]

ReportOf(u, o, D, r) ==
  IF AllInReady(u, D) /\ ~IsInit(u)             THEN "Done"
  ELSE IF Significant(u, o, D, r) \/ IsInit(u)  THEN "Updated"
  ELSE "UpToDate"
=============================================================================
