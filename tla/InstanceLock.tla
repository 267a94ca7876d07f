---------------------------- MODULE InstanceLock ----------------------------
(***************************************************************************)
(* The access to one data instance: get, sync and set of data::Instance    *)
(* (cxsomVariable.hpp).  get and sync enter as readers; set raises a flag  *)
(* that stops the readers to come and waits until those counted have left. *)
(*                                                                         *)
(* read_mutex is released by the step that takes it, or by going to sleep  *)
(* on it.  write_mutex is held between the test of writing and the count.  *)
(***************************************************************************)
EXTENDS Integers, FiniteSets

CONSTANTS
  Getters,    (* the threads that call get                                  *)
  Syncers,    (* the threads that call sync                                 *)
  Setters     (* the threads that call set                                  *)

ASSUME InstanceAssumption ==
  /\ IsFiniteSet(Getters) /\ IsFiniteSet(Syncers) /\ IsFiniteSet(Setters)
  /\ Getters \cap Setters = {} /\ Syncers \cap Setters = {}
  /\ Getters \cap Syncers = {}

Visitors == Getters \cup Syncers
Thread   == Visitors \cup Setters

VARIABLES
  nb_readers,   (* how many readers are counted                             *)
  writing,      (* a writer waits or writes                                 *)
  pc            (* where a thread is                                        *)

lockVars == <<nb_readers, writing, pc>>

LockInit ==
  /\ nb_readers = 0
  /\ writing = FALSE
  /\ pc = [t \in Thread |-> "out"]

Goto(t, where) == pc' = [pc EXCEPT ![t] = where]

(* Threads of T that are asleep test their condition again. *)
Wake(T, p) == [t \in Thread |-> IF t \in T /\ p[t] = "asleep" THEN "testing" ELSE p[t]]

write_mutex_free == \A t \in Visitors : pc[t] # "counting"

-----------------------------------------------------------------------------
(* get and sync. *)

visit(t) ==
  /\ pc[t] = "out"
  /\ Goto(t, "testing")
  /\ UNCHANGED <<nb_readers, writing>>

test_writing(t) ==
  /\ pc[t] = "testing"
  /\ write_mutex_free
  /\ Goto(t, IF writing THEN "asleep" ELSE "counting")
  /\ UNCHANGED <<nb_readers, writing>>

count(t) ==
  /\ pc[t] = "counting"
  /\ nb_readers' = nb_readers + 1
  /\ Goto(t, "in")
  /\ UNCHANGED writing

uncount(t) ==
  /\ pc[t] = "in"
  /\ nb_readers' = nb_readers - 1
  /\ pc' = LET left == [pc EXCEPT ![t] = "out"]
           IN  IF nb_readers = 1 THEN Wake(Setters, left) ELSE left
  /\ UNCHANGED writing

-----------------------------------------------------------------------------
(* set. *)

(* Variant of raise: the flag that stops the readers stays down. *)
raiseNothing(t) ==
  /\ pc[t] = "out"
  /\ Goto(t, "testing")
  /\ UNCHANGED <<nb_readers, writing>>

raise(t) ==
  /\ pc[t] = "out"
  /\ writing' = TRUE
  /\ Goto(t, "testing")
  /\ UNCHANGED nb_readers

test_readers(t) ==
  /\ pc[t] = "testing"
  /\ Goto(t, IF nb_readers # 0 THEN "asleep" ELSE "in")
  /\ UNCHANGED <<nb_readers, writing>>

(* Variant of lower: the readers are not notified. *)
lowerOnly(t) ==
  /\ pc[t] = "in"
  /\ write_mutex_free
  /\ writing' = FALSE
  /\ Goto(t, "out")
  /\ UNCHANGED nb_readers

lower(t) ==
  /\ pc[t] = "in"
  /\ write_mutex_free
  /\ writing' = FALSE
  /\ pc' = Wake(Visitors, [pc EXCEPT ![t] = "out"])
  /\ UNCHANGED nb_readers

-----------------------------------------------------------------------------
spurious_wake(t) ==
  /\ pc[t] = "asleep"
  /\ Goto(t, "testing")
  /\ UNCHANGED <<nb_readers, writing>>

ReaderRuns(t) == test_writing(t) \/ count(t) \/ uncount(t)
SetterRuns(t) == test_readers(t) \/ lower(t)

LockNext ==
  \/ \E t \in Visitors : visit(t) \/ ReaderRuns(t)
  \/ \E t \in Setters : raise(t) \/ SetterRuns(t)
  \/ \E t \in Thread : spurious_wake(t)

LockSpec == LockInit /\ [][LockNext]_lockVars

(* Threads keep running; the setter gets write_mutex, which others hold    *)
(* for one step at a time, in the end.                                     *)
FairLockSpec ==
  /\ LockSpec
  /\ \A t \in Visitors : WF_lockVars(ReaderRuns(t))
  /\ \A t \in Setters : WF_lockVars(SetterRuns(t)) /\ SF_lockVars(lower(t))

-----------------------------------------------------------------------------
(* Nobody sleeps on a condition that holds already: a reader sleeps while  *)
(* a writer waits or writes, a writer while a reader is counted.           *)
NoLostWakeUp ==
  /\ \A t \in Visitors : pc[t] = "asleep" => writing
  /\ \A t \in Setters : pc[t] = "asleep" => nb_readers # 0

(* The readers that come cannot keep a writer out for ever.                *)
SetEnters == \A t \in Setters : pc[t] = "testing" ~> pc[t] = "in"
=============================================================================
