------------------------------ MODULE TimeStep ------------------------------
(***************************************************************************)
(* One timestep of the simulation: the queues its updates move through and *)
(* its status (cxsomTimeStep.hpp), as operators on a timestep record.      *)
(*                                                                         *)
(* Abstraction: a queue is the set of the DIs whose updates it holds.  The *)
(* order inside a queue only decides in which order the tasks of one batch *)
(* run, and that order is left open (see JobsCenter).                      *)
(***************************************************************************)
EXTENDS Update

Status == {"Unbound", "Blocked", "Relaxing", "Checking", "Done"}

(* timestep::Queue, in the order of the enumeration. *)
Queue == {"Unstable", "Impossible", "Stable", "Confirmed", "New"}
QueueRank == [Unstable |-> 0, Impossible |-> 1, Stable |-> 2, Confirmed |-> 3, New |-> 4]

(* timestep::Instance.  inits: the updates whose init part is still to be  *)
(* done; taken: those with no_processing = false, handed out as tasks.     *)
TimeStepRecord ==
  [status         : Status,
   blockers       : SUBSET TS,
   new_blockers   : SUBSET TS,
   variables      : SUBSET Ruled,
   unbounds_ready : SUBSET DI,
   queues         : [Queue -> SUBSET Ruled],
   inits          : SUBSET Ruled,
   taken          : SUBSET Ruled]

NewTimeStep ==
  [status |-> "Relaxing", blockers |-> {}, new_blockers |-> {}, variables |-> {},
   unbounds_ready |-> {}, queues |-> [q \in Queue |-> {}], inits |-> {}, taken |-> {}]

(* content::operator(): the part of the rule of d that is to be run. *)
Content(s, d) == <<IF d \in s.inits THEN "init" ELSE "usual", d>>

Queued(s) == UNION {s.queues[q] : q \in Queue}

-----------------------------------------------------------------------------
(* UnboundManager::busy_unbounds_found. *)

(* The in-arguments of d's update no update of the timestep computes, and  *)
(* that are not yet known to be ready.                                     *)
Unbounds(s, d) ==
  (InArgs(<<"usual", d>>) \cup (IF d \in s.inits THEN InArgs(<<"init", d>>) ELSE {}))
     \ (s.variables \cup s.unbounds_ready)

(* Variant of Held: unbound in-arguments are not looked for. *)
HeldNone(s, D) == {}

Held(s, D) == {d \in s.queues["New"] : \E a \in Unbounds(s, d) : ~IsReady(D, a)}

(* Only the updates with busy unbound in-arguments stay in New. *)
AdmitNew(s, D) ==
  [s EXCEPT
    !.unbounds_ready = @ \cup {a \in DI : /\ IsReady(D, a)
                                          /\ \E d \in s.queues["New"] : a \in Unbounds(s, d)},
    !.queues["New"] = Held(s, D),
    !.queues["Unstable"] = @ \cup (s.queues["New"] \ Held(s, D))]

(* move_queue_content. *)
MoveQueue(s, from, to) ==
  [s EXCEPT !.queues[to] = @ \cup s.queues[from], !.queues[from] = {}]

SetStatus(s, x) == [s EXCEPT !.status = x]

-----------------------------------------------------------------------------
(* Variant of Reconsider: an unstable update leaves the confirmed ones.    *)
ReconsiderNone(s) ==
  IF s.queues["New"] # {}              THEN SetStatus(s, "Unbound")
  ELSE IF s.queues["Impossible"] # {}  THEN SetStatus(s, "Blocked")
  ELSE IF s.queues["Unstable"] # {}    THEN SetStatus(s, "Relaxing")
  ELSE SetStatus(s, "Checking")

(* update_status, the branches that end before the last one. *)
Reconsider(s) ==
  LET c == MoveQueue(s, "Confirmed", "Stable")
  IN  IF s.queues["New"] # {}              THEN SetStatus(s, "Unbound")
      ELSE IF s.queues["Impossible"] # {}  THEN
             IF c.blockers = {}
             THEN SetStatus(MoveQueue(c, "Impossible", "Unstable"), "Relaxing")
             ELSE SetStatus(c, "Blocked")
      ELSE IF s.queues["Unstable"] # {}    THEN SetStatus(c, "Relaxing")
      ELSE SetStatus(s, "Checking")

(* update_status reaches its last branch: nothing is left but confirmed    *)
(* updates.                                                                *)
Terminates(s, D) ==
  \A q \in Queue \ {"Confirmed"} : AdmitNew(s, D).queues[q] = {}

UpdateStatus(s, D) ==
  IF Terminates(s, D)
  THEN [SetStatus(AdmitNew(s, D), "Done") EXCEPT !.queues["Confirmed"] = {}]
  ELSE Reconsider(AdmitNew(s, D))

(* The DIs update_status sets ready: the confirmed ones, when it is done. *)
SetReadyBy(s, D) == IF Terminates(s, D) THEN s.queues["Confirmed"] ELSE {}

-----------------------------------------------------------------------------
(* The operations of a timestep. *)

(* operator+=, that is test_add and add: the first update of a DI wins. *)
Add(s, d) ==
  IF d \in s.variables THEN s
  ELSE [s EXCEPT !.variables = @ \cup {d},
                 !.inits = @ \cup ({d} \cap WithInit),
                 !.queues["New"] = @ \cup {d}]

(* check_unbound. *)
CheckUnbound(s, D) ==
  LET a == AdmitNew(s, D)
  IN  IF a.queues["New"] # {} THEN SetStatus(a, "Unbound") ELSE a

(* get_jobs: which updates are handed out, and from which queue. *)
Sources(s) ==
  CASE s.status = "Relaxing" -> {"Unstable", "Stable"}
    [] s.status = "Checking" -> {"Stable"}
    [] OTHER                 -> {}

Jobs(s) == {j \in DI \X Sources(s) : j[1] \in s.queues[j[2]] \ s.taken}

TakeJobs(s) == [s EXCEPT !.taken = @ \cup {j[1] : j \in Jobs(s)}]

(* remove_update: from the first queue that holds an update of d. *)
FirstWith(s, d) ==
  {q \in Queue : d \in s.queues[q] /\ \A p \in Queue : d \in s.queues[p] => QueueRank[q] <= QueueRank[p]}

(* Variant of RemoveUpdate: only the unstable queue is searched. *)
RemoveUnstable(s, d) == [s EXCEPT !.taken = @ \ {d}, !.queues["Unstable"] = @ \ {d}]

RemoveUpdate(s, d) ==
  [s EXCEPT !.taken = @ \ {d},
            !.queues = [q \in Queue |-> IF q \in FirstWith(s, d) THEN s.queues[q] \ {d}
                                                               ELSE s.queues[q]]]

PushBack(s, q, d) == [s EXCEPT !.queues[q] = @ \cup {d}]

(* init_done. *)
InitDone(s, d) == [s EXCEPT !.inits = @ \ {d}]

(* Where an up-to-date update goes: it is confirmed when it was already    *)
(* stable and the timestep is checking.  The variant never confirms.       *)
NeverConfirmed(s, src) == "Stable"

UpToDateQueue(s, src) ==
  IF s.status = "Checking" /\ src = "Stable" THEN "Confirmed" ELSE "Stable"

(* report, up to its call of update_status: the evaluation of d's update,  *)
(* taken from queue src, reported r and found the timesteps B not done.    *)
Requeue(s, d, src, r, B) ==
  LET rest == RemoveUpdate(s, d)
  IN  CASE r = "Impossible" ->
             [PushBack(rest, "Impossible", d) EXCEPT !.blockers = @ \cup B,
                                                     !.new_blockers = @ \cup B]
        [] r = "Updated" \/ (r # "Impossible" /\ d \in s.inits) ->
             PushBack(InitDone(rest, d), "Unstable", d)
        [] r = "UpToDate" /\ d \notin s.inits ->
             PushBack(rest, UpToDateQueue(s, src), d)
        [] OTHER -> rest

(* Variant of Unblock: the blocker stays. *)
UnblockNone(s, t) == s

(* notify_unblock, up to its call of update_status. *)
Unblock(s, t) == [s EXCEPT !.blockers = @ \ {t}]

(* Variant of ClearBlockingInfo: the status is left alone.                 *)
ClearBlockersOnly(s) == MoveQueue([s EXCEPT !.blockers = {}], "Impossible", "Unstable")

(* clear_blocking_info, apart from the synchronisation of the arguments. *)
ClearBlockingInfo(s) ==
  SetStatus(MoveQueue([s EXCEPT !.blockers = {}], "Impossible", "Unstable"), "Relaxing")
=============================================================================
