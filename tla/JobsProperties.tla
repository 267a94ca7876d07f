--------------------------- MODULE JobsProperties ---------------------------
(***************************************************************************)
(* What the job center and its timesteps promise.                          *)
(***************************************************************************)
EXTENDS JobsCenter

(* Type invariant: the type of each variable of the job center. *)
TypeOK ==
  /\ data \in [DI -> Instance]
  /\ file \in [DI -> Value \cup {NoValue}]
  /\ upd \in [UpdateId -> Object]
  /\ step \in [Handle -> TimeStepRecord]
  /\ current \in [TS -> 0..MaxObjects]
  /\ built \in [TS -> 0..MaxObjects]
  /\ tasks \subseteq Task
  /\ blockees \in [TS -> SUBSET Handle]
  /\ interaction \in BOOLEAN
  /\ flushing \in BOOLEAN
  /\ pc \in WorkerPC
  /\ job \in Task \cup {IdleTask}
  /\ seen \in [DI -> Instance]
  /\ report \in Report
  /\ stack \in Seq([done : TS, todo : SUBSET Handle])
  /\ client \in [Client -> ClientPC]
  /\ declared \subseteq Ruled
  /\ sessions \in 0..MaxSessions

(* The tasks that have not been reported yet. *)
InHand == tasks \cup (IF pc \in {"run", "write", "report"} THEN {job} ELSE {})

(* An update is in one queue of its timestep, and a task is in hand for it *)
(* exactly when it is marked as being processed: an update that came back  *)
(* to a queue without leaving another would be evaluated twice in a batch, *)
(* one whose mark is not cleared would never be handed out again.          *)
QueuedOnce ==
  \A h \in Handle :
    /\ \A p, q \in Queue : p # q => step[h].queues[p] \cap step[h].queues[q] = {}
    /\ step[h].taken = {t.of : t \in {k \in InHand : k.step = h}}
    /\ step[h].taken \subseteq Queued(step[h])
    /\ \A t, k \in InHand : t.step = k.step /\ t.of = k.of => t = k

(* The relaxation keeps its promise to a confirmed update: once confirmed  *)
(* ("Updates whose stability is confirmed"), none of its in-arguments has  *)
(* changed since it was evaluated, unless that change is the last one of   *)
(* the argument, reported Done, or unsettles the timestep: an update that  *)
(* is unstable again.  While a report is pending the updates it unsettles  *)
(* have not been moved yet.  Rules declared late may break this: an        *)
(* Unbound timestep does not take its confirmed updates back.  The runs    *)
(* have too few rules for that (see BoundConfirmed in CenterProofs).       *)
ConfirmedIsStable ==
  pc \notin {"report", "status"} =>
    \A h \in Handle : step[h].queues["Unstable"] = {} =>
      \A d \in step[h].queues["Confirmed"] :
        LET u == <<"usual", d>>
        IN  /\ d \notin step[h].inits
            /\ upd[u].updated_once
            /\ \A a \in InArgs(u) : upd[u].date[a] = data[a].date \/ IsReady(data, a)

(* The datation is sound: when an update finds that none of its            *)
(* in-arguments moved and skips the computation, its result is what it     *)
(* would compute from their current values.  A change that did not date    *)
(* its result later, or an availability noted by a ping and not by an      *)
(* evaluation, would leave the dependent values stale.                     *)
SkipIsSound ==
  \A d \in Ruled :
    LET u == <<"usual", d>>
    IN  ~IsReady(data, d) /\ NothingMoved(u, upd[u], data) => data[d].val = Computed(u, data)

(* A ready value rests on ready values: whatever way the server made a DI  *)
(* ready, computed it or ended its timestep, all the arguments of its rule *)
(* are ready.                                                              *)
ReadyIsGrounded ==
  \A d \in Ruled \ Writable :
    IsReady(data, d) => \A a \in UsualArgs[d] : IsReady(data, a)

(* Whatever is ready in memory is what the file holds, so that the         *)
(* programs that read the files never see another value than the rules.    *)
ReadyIsFiled == \A d \in DI : IsReady(data, d) => file[d] = data[d].val

(* A ready value is final ("The DI value will not change anymore"): no     *)
(* evaluation, ping or termination of a timestep changes it, whoever made  *)
(* it ready, a rule or another program through the file.                   *)
ReadyIsFinal ==
  [][\A d \in DI : IsReady(data, d) => IsReady(data', d) /\ data'[d].val = data[d].val]_vars

(* No notification of the end of a timestep is lost: when the worker       *)
(* sleeps, a blocked timestep is registered with each of its blockers, and *)
(* a blocker that has left the simulator left the out-argument of some     *)
(* impossible update busy, or one that another program fills, whose file   *)
(* only a ping looks at.                                                   *)
NoLostUnblock ==
  pc = "wait" =>
    \A h \in Mapped : step[h].status = "Blocked" =>
      \A b \in step[h].blockers :
        /\ h \in blockees[b]
        /\ current[b] = 0 => \E d \in step[h].queues["Impossible"] :
                               \E a \in OutArgs(Content(step[h], d)) :
                                 StepOf[a] = b /\ (~IsReady(data, a) \/ a \in Writable)

AllIdle == \A c \in Client : client[c] = "idle"

(* The worker does not sleep on work it could do: once every interaction   *)
(* is over, when it waits no timestep that relaxes or checks has updates.  *)
SleepsOnlyWhenIdle ==
  pc = "wait" /\ AllIdle =>
    /\ tasks = {}
    /\ \A h \in Mapped : step[h].status \in {"Relaxing", "Checking"} => Queued(step[h]) = {}

(* The writer scope of the scheduler (xrsw) brackets the evaluations: it   *)
(* is entered before the first one and left when the worker has nothing    *)
(* more to do, also when interactions interrupt it in between.             *)
WriterScope ==
  /\ pc \in {"run", "write", "report", "status", "done", "notify", "register"} => flushing
  /\ pc = "wait" /\ AllIdle => ~flushing

(* Every rule is computed: once all of them are declared, all results are  *)
(* eventually ready (for rule sets whose timesteps depend on each other    *)
(* without a cycle and whose relaxation converges), unless declarations    *)
(* come too late for a timestep, in one of two ways: it keeps the status   *)
(* Unbound after its updates have been bound, or it was done already.      *)
(* Nothing else strands a rule.                                            *)
Stranded ==
  \/ \E h \in Mapped : step[h].status = "Unbound" /\ step[h].queues["New"] = {}
  \/ \E h \in Handle : step[h].status = "Done" /\ Queued(step[h]) # {}

Completes == (declared = Ruled) ~> (Stranded \/ \A d \in Ruled : IsReady(data, d))

(* A ping revives what waits for another program: when it finds the worker *)
(* asleep and nothing but new and impossible updates, all the rules being  *)
(* declared and all the files filled, it leads to all results (under the   *)
(* same conditions as Completes).                                          *)
Revivable ==
  /\ \E c \in Client : client[c] = "ping"
  /\ pc = "wait"
  /\ \A h \in Mapped : Queued(step[h]) = Waiting(h)
  /\ declared = Ruled
  /\ \A d \in Writable : file[d] # NoValue

PingRevives == Revivable ~> (\A d \in Ruled : IsReady(data, d))

(* An interaction ends: a client that releases the workers gets the mutex  *)
(* they hold while they have tasks, and can serve its next command.        *)
InteractionEnds == \A c \in Client : (client[c] = "release") ~> (client[c] = "idle")
=============================================================================
