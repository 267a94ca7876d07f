----------------------------- MODULE JobsCenter -----------------------------
(***************************************************************************)
(* The job center of the simulator (cxsomJobs.hpp), the timesteps it       *)
(* schedules and the clients that interact with it.                        *)
(*                                                                         *)
(* The worker.  Every worker thread holds job_mutex from its test of       *)
(* interaction_ongoing to the end of the job it runs, and gives it up only *)
(* to wait on pending_jobs: at most one worker is out of its wait, and it  *)
(* is the process modelled here.  Between two of its steps it does not     *)
(* hold integrity_mutex, except while it notifies terminated timesteps.    *)
(*                                                                         *)
(* The clients.  Each one opens an interaction (interaction_lock), either  *)
(* to declare static rules or to ping, and closes it                       *)
(* (interaction_release).                                                  *)
(*                                                                         *)
(* A timestep instance is a handle <<t, n>>: the n-th object the server    *)
(* built for timestep t.  Objects removed from the timesteps map stay      *)
(* reachable from blockees.                                                *)
(***************************************************************************)
EXTENDS TimeStep, Sequences

CONSTANTS
  Client,      (* the connections that send commands                        *)
  Writable,    (* the DIs whose file another program may fill               *)
  FileValue,   (* FileValue[d]: the value that program writes               *)
  NoValue,     (* what the file of a busy DI holds                          *)
  MaxObjects,  (* bound: the objects built for one timestep                 *)
  MaxSessions  (* bound: the interactions opened                            *)

ASSUME CenterAssumption ==
  /\ Writable \subseteq DI
  /\ FileValue \in [DI -> Value]
  /\ NoValue \notin Value
  /\ MaxObjects \in Nat
  /\ MaxSessions \in Nat

Handle == TS \X (1..MaxObjects)
StepId(h) == h[1]

(* timestep::Task, with the part of the rule its content names. *)
Task == [step : Handle, of : Ruled, phase : Phase, source : Queue]

VARIABLES
  data,        (* the in-memory instances, by DI                            *)
  file,        (* the value the file of each DI holds ready, or NoValue     *)
  upd,         (* the update objects                                        *)
  step,        (* the timestep objects, by handle                           *)
  current,     (* current[t]: the object of t in the map, 0 for none        *)
  built,       (* built[t]: how many objects were built for t               *)
  tasks,       (* the tasks handed out and not yet started                  *)
  blockees,    (* blockees[t]: the objects to notify when t is done         *)
  interaction, (* interaction_ongoing                                       *)
  flushing,    (* flushing_tasks_in_progress: the writer scope is entered   *)
  pc,          (* where the worker is                                       *)
  job,         (* the task it runs                                          *)
  seen,        (* what the evaluation in progress read of the instances     *)
  report,      (* what the evaluation of that task reported                 *)
  stack,       (* its nested calls of notify_done                           *)
  client,      (* what each client is doing                                 *)
  declared,    (* the DIs whose rule has been sent                          *)
  sessions     (* the interactions opened so far                            *)

dataVars   == <<data, file, upd>>
stepVars   == <<step, current, built, blockees>>
workerVars == <<tasks, flushing, pc, job, seen, report, stack>>
clientVars == <<interaction, client, declared, sessions>>
vars == <<dataVars, stepVars, workerVars, clientVars>>

IdleTask == [step |-> <<0, 0>>, of |-> NoValue, phase |-> "usual", source |-> "New"]

WorkerPC == {"loop", "park", "wait", "get", "run", "write", "report", "status", "done", "notify", "register"}
ClientPC == {"idle", "update", "ping", "pinged", "release"}

Mapped == {h \in Handle : current[StepId(h)] = h[2]}
IntegrityFree == pc # "notify"

Init ==
  /\ data = [d \in DI |-> [avail |-> "Busy", date |-> 0, val |-> Default]]
  /\ file = [d \in DI |-> NoValue]
  /\ upd = [u \in UpdateId |-> NewObject]
  /\ step = [h \in Handle |-> NewTimeStep]
  /\ current = [t \in TS |-> 0]
  /\ built = [t \in TS |-> 0]
  /\ tasks = {}
  /\ blockees = [t \in TS |-> {}]
  /\ interaction = FALSE
  /\ flushing = FALSE
  /\ pc = "loop"
  /\ job = IdleTask
  /\ seen = data
  /\ report = "None"
  /\ stack = <<>>
  /\ client = [c \in Client |-> "idle"]
  /\ declared = {}
  /\ sessions = 0

-----------------------------------------------------------------------------
(* The worker thread. *)

(* worker_thread tests interaction_ongoing. *)
TestInteraction ==
  /\ pc = "loop"
  /\ pc' = IF interaction THEN "park" ELSE "get"
  /\ UNCHANGED <<dataVars, stepVars, tasks, flushing, job, seen, report, stack, clientVars>>

(* pending_jobs.wait: job_mutex, held since the test, is released here. *)
Wait ==
  /\ pc = "park"
  /\ pc' = "wait"
  /\ UNCHANGED <<dataVars, stepVars, tasks, flushing, job, seen, report, stack, clientVars>>

(* clean_timesteps, then get_jobs on every timestep left. *)
Cleaned == [t \in TS |-> IF /\ current[t] # 0
                            /\ step[<<t, current[t]>>].status = "Done"
                         THEN 0 ELSE current[t]]

Asked == {h \in Handle : Cleaned[StepId(h)] = h[2]}

TasksOf(h) ==
  LET s == CheckUnbound(step[h], data)
  IN  {[step |-> h, of |-> j[1], phase |-> Content(s, j[1])[1], source |-> j[2]] : j \in Jobs(s)}

Batch == IF tasks # {} THEN tasks ELSE UNION {TasksOf(h) : h \in Asked}

(* on_end_flushing_tasks, and a variant that misses it. *)
NoEndFlushing == UNCHANGED flushing
EndFlushing == flushing' = FALSE

(* get_one, when no pattern is declared.  The deque of tasks is refilled   *)
(* when it is empty; any of its tasks may come first.                      *)
GetOne ==
  /\ pc = "get"
  /\ IF tasks # {}
     THEN UNCHANGED <<step, current>>
     ELSE /\ current' = Cleaned
          /\ step' = [h \in Handle |-> IF h \in Asked THEN TakeJobs(CheckUnbound(step[h], data))
                                                      ELSE step[h]]
  /\ \/ /\ Batch = {}
        /\ pc' = "wait"
        /\ EndFlushing
        /\ UNCHANGED <<tasks, job>>
     \/ \E t \in Batch :
          /\ tasks' = Batch \ {t}
          /\ job' = t
          /\ pc' = "run"
          /\ flushing' = TRUE
  /\ UNCHANGED <<dataVars, built, blockees, seen, report, stack, clientVars>>

(* The evaluation of the update of the task, in the cases of operator().   *)
(* The instances are read, then the result is written; a ping that         *)
(* synchronises an instance with its file may come in between.             *)
JobUpdate == <<job.phase, job.of>>
JobObject == upd[JobUpdate]

Evaluated(r, o) ==
  /\ report' = r
  /\ upd' = [upd EXCEPT ![JobUpdate] = o]
  /\ pc' = "report"
  /\ UNCHANGED <<stepVars, tasks, flushing, job, seen, stack, clientVars>>

(* A result that is ready is not computed again. *)
RunReady ==
  /\ pc = "run"
  /\ IsReady(data, job.of)
  /\ Evaluated("Done", JobObject)
  /\ UNCHANGED <<data, file>>

RunImpossible ==
  /\ pc = "run"
  /\ ~IsReady(data, job.of)
  /\ ~OutReady(JobUpdate, JobObject, data)
  /\ Evaluated("Impossible", NoteAvailability(JobObject, data, OutArgs(JobUpdate)))
  /\ UNCHANGED <<data, file>>

RunUnmoved ==
  /\ pc = "run"
  /\ ~IsReady(data, job.of)
  /\ OutReady(JobUpdate, JobObject, data)
  /\ NothingMoved(JobUpdate, JobObject, data)
  /\ Evaluated(IF job.phase = "init" THEN "Updated" ELSE "UpToDate",
               NoteArguments(JobUpdate, JobObject, data))
  /\ UNCHANGED <<data, file>>

RunRead ==
  /\ pc = "run"
  /\ ~IsReady(data, job.of)
  /\ OutReady(JobUpdate, JobObject, data)
  /\ ~NothingMoved(JobUpdate, JobObject, data)
  /\ seen' = data
  /\ pc' = "write"
  /\ UNCHANGED <<dataVars, stepVars, tasks, flushing, job, report, stack, clientVars>>

(* Making a busy result ready also writes it in the file (declare_ready). *)
RunWrite ==
  /\ pc = "write"
  /\ Evaluated(ReportOf(JobUpdate, JobObject, seen, data[job.of]),
               [NoteArguments(JobUpdate, JobObject, seen) EXCEPT !.updated_once = TRUE])
  /\ \E next \in NextDate(JobUpdate, JobObject, seen, data[job.of]) :
     \E res \in {WriteResult(JobUpdate, JobObject, seen, data[job.of], next)} :
       /\ data' = [data EXCEPT ![job.of] = res]
       /\ file' = IF ~IsReady(data, job.of) /\ res.avail = "Ready"
                  THEN [file EXCEPT ![job.of] = res.val] ELSE file

Run == RunReady \/ RunImpossible \/ RunUnmoved \/ RunRead \/ RunWrite

(* Base::set_ready on every DI of S: a busy one becomes ready, with the    *)
(* value it has, and is written in its file.                               *)
NowReady(S) == {d \in S : ~IsReady(data, d)}

(* Variant of SetReady: the files are not written. *)
SetReadyInMemory(S) ==
  /\ data' = [d \in DI |-> IF d \in NowReady(S) THEN [data[d] EXCEPT !.avail = "Ready"] ELSE data[d]]
  /\ UNCHANGED file

SetReady(S) ==
  /\ data' = [d \in DI |-> IF d \in NowReady(S) THEN [data[d] EXCEPT !.avail = "Ready"] ELSE data[d]]
  /\ file' = [d \in DI |-> IF d \in NowReady(S) THEN data[d].val ELSE file[d]]

(* What the worker does once report has returned. *)
AfterReport == IF report = "Impossible" THEN "register" ELSE "loop"

(* timestep::Instance::report moves the update, then updates the status.   *)
(* It does so without integrity_mutex: commands may come in between.       *)
ReportJob ==
  /\ pc = "report"
  /\ step' = [step EXCEPT ![job.step] =
                Requeue(@, job.of, job.source, report, BlockersOf(JobUpdate, JobObject))]
  /\ pc' = "status"
  /\ UNCHANGED <<dataVars, current, built, blockees, tasks, flushing, job, seen, report, stack, clientVars>>

(* update_status, up to its call of notify_done. *)
ReportStatus ==
  /\ pc = "status"
  /\ step' = [step EXCEPT ![job.step] = UpdateStatus(@, data)]
  /\ SetReady(SetReadyBy(step[job.step], data))
  /\ pc' = IF Terminates(step[job.step], data) THEN "done" ELSE AfterReport
  /\ UNCHANGED <<upd, current, built, blockees, tasks, flushing, job, seen, report, stack, clientVars>>

(* A call of notify_done(t): the objects it still has to notify. *)
Frame(t) == [done |-> t, todo |-> blockees[t]]

(* integrity_notify_done takes integrity_mutex. *)
NotifyDone ==
  /\ pc = "done"
  /\ stack' = <<Frame(StepId(job.step))>>
  /\ pc' = "notify"
  /\ UNCHANGED <<dataVars, stepVars, tasks, flushing, job, seen, report, clientVars>>

(* One turn of its loop: notify_unblock on some object, which may in turn  *)
(* be done and call notify_done.                                           *)
NotifyUnblock ==
  /\ pc = "notify"
  /\ \E h \in stack[Len(stack)].todo :
     \E s \in {Unblock(step[h], stack[Len(stack)].done)} :
     \E rest \in {[stack EXCEPT ![Len(stack)].todo = @ \ {h}]} :
       \/ /\ s.blockers # {}
          /\ step' = [step EXCEPT ![h] = s]
          /\ stack' = rest
          /\ UNCHANGED <<data, file>>
       \/ /\ s.blockers = {}
          /\ step' = [step EXCEPT ![h] = UpdateStatus(s, data)]
          /\ SetReady(SetReadyBy(s, data))
          /\ stack' = IF Terminates(s, data) THEN Append(rest, Frame(StepId(h))) ELSE rest
  /\ UNCHANGED <<upd, current, built, blockees, tasks, flushing, pc, job, seen, report, clientVars>>

(* The loop of the innermost notify_done is over. *)
NotifyReturn ==
  /\ pc = "notify"
  /\ stack[Len(stack)].todo = {}
  /\ stack' = SubSeq(stack, 1, Len(stack) - 1)
  /\ pc' = IF Len(stack) = 1 THEN AfterReport ELSE "notify"
  /\ UNCHANGED <<dataVars, stepVars, tasks, flushing, job, seen, report, clientVars>>

(* Variant of RegisterBlocked: only the last timestep blocked is kept. *)
RegisterLast ==
  LET h == job.step
  IN  /\ pc = "register"
      /\ blockees' = [t \in TS |-> IF t \in step[h].new_blockers THEN {h} ELSE blockees[t]]
      /\ step' = [step EXCEPT ![h].new_blockers = {}]
      /\ pc' = "loop"
      /\ UNCHANGED <<dataVars, current, built, tasks, flushing, job, seen, report, stack, clientVars>>

(* integrity_notify_blocked. *)
RegisterBlocked ==
  LET h == job.step
  IN  /\ pc = "register"
      /\ blockees' = [t \in TS |-> IF t \in step[h].new_blockers
                                   THEN blockees[t] \cup {h} ELSE blockees[t]]
      /\ step' = [step EXCEPT ![h].new_blockers = {}]
      /\ pc' = "loop"
      /\ UNCHANGED <<dataVars, current, built, tasks, flushing, job, seen, report, stack, clientVars>>

(* A wait on pending_jobs may return without a notification. *)
SpuriousWake ==
  /\ pc = "wait"
  /\ pc' = "loop"
  /\ UNCHANGED <<dataVars, stepVars, tasks, flushing, job, seen, report, stack, clientVars>>

Worker == \/ TestInteraction \/ Wait \/ GetOne \/ Run \/ ReportJob \/ ReportStatus
          \/ NotifyDone \/ NotifyUnblock \/ NotifyReturn \/ RegisterBlocked

-----------------------------------------------------------------------------
(* The clients (ServiceThread::process_updates, process_ping). *)

(* interaction_lock. *)
Open(c, what) ==
  /\ client[c] = "idle"
  /\ sessions < MaxSessions
  /\ client' = [client EXCEPT ![c] = what]
  /\ interaction' = TRUE
  /\ sessions' = sessions + 1
  /\ UNCHANGED <<dataVars, stepVars, workerVars, declared>>

(* check_and_get: the object of t in the map, built when there is none. *)
ObjectOf(t) == IF current[t] # 0 THEN current[t] ELSE built[t] + 1

(* Center::operator+=(const Update&) on the rule of d. *)
Declare(c, d) ==
  LET t == StepOf[d]
      h == <<t, ObjectOf(t)>>
      s == IF current[t] # 0 THEN step[h] ELSE NewTimeStep
  IN  /\ client[c] = "update"
      /\ IntegrityFree
      /\ d \in Ruled
      /\ declared' = declared \cup {d}
      /\ IF IsReady(data, d)
         THEN UNCHANGED <<upd, step, current, built>>
         ELSE /\ ObjectOf(t) \in 1..MaxObjects
              /\ current' = [current EXCEPT ![t] = h[2]]
              /\ built' = IF current[t] # 0 THEN built ELSE [built EXCEPT ![t] = @ + 1]
              /\ step' = [step EXCEPT ![h] = Add(s, d)]
              /\ upd' = IF d \in s.variables THEN upd
                        ELSE [u \in UpdateId |-> IF Result(u) = d THEN NewObject ELSE upd[u]]
      /\ UNCHANGED <<data, file, blockees, workerVars, interaction, client, sessions>>

(* sync_arguments_availability, on the updates of the new and impossible   *)
(* queues: they synchronise the arguments they know as busy.               *)
Waiting(h) == step[h].queues["New"] \cup step[h].queues["Impossible"]

SyncedUpdates == UNION {{Content(step[h], d) : d \in Waiting(h)} : h \in Mapped}

SyncedArgs == UNION {{a \in Args(u) : upd[u].availability[a] = "Busy"} : u \in SyncedUpdates}

(* The object of u once it knows which arguments have a file ready. *)
NoteFiled(u) ==
  [upd[u] EXCEPT !.availability =
     [a \in DI |-> IF a \in Args(u) /\ file[a] # NoValue THEN "Ready"
                                                       ELSE upd[u].availability[a]]]

(* data::Instance::sync: an instance takes the value its file holds ready. *)
(* The variant takes it ready whatever the file holds.                     *)
SyncedAnyway(a) ==
  [data[a] EXCEPT !.avail = "Ready", !.val = IF file[a] # NoValue THEN file[a] ELSE data[a].val]

Synced(a) ==
  IF file[a] # NoValue THEN [data[a] EXCEPT !.avail = "Ready", !.val = file[a]] ELSE data[a]

(* Center::clear_blocking_info; the update objects note which arguments    *)
(* became ready.                                                           *)
Ping(c) ==
  /\ client[c] = "ping"
  /\ IntegrityFree
  /\ blockees' = [t \in TS |-> {}]
  /\ data' = [a \in DI |-> IF a \in SyncedArgs THEN Synced(a) ELSE data[a]]
  /\ upd' = [u \in UpdateId |->
               IF u \in SyncedUpdates THEN NoteFiled(u) ELSE upd[u]]
  /\ step' = [h \in Handle |-> IF h \in Mapped THEN ClearBlockingInfo(step[h]) ELSE step[h]]
  /\ client' = [client EXCEPT ![c] = "pinged"]
  /\ UNCHANGED <<file, current, built, workerVars, interaction, declared, sessions>>

(* interaction_release: the flag is cleared first, the workers are         *)
(* notified once job_mutex is free.                                        *)
Close(c) ==
  /\ client[c] \in {"update", "pinged"}
  /\ client' = [client EXCEPT ![c] = "release"]
  /\ interaction' = FALSE
  /\ UNCHANGED <<dataVars, stepVars, workerVars, declared, sessions>>

(* (NotifyUnlocked is the variant that does not take job_mutex first.)     *)
NotifyUnlocked(c) ==
  /\ client[c] = "release"
  /\ pc' = IF pc = "wait" THEN "loop" ELSE pc
  /\ client' = [client EXCEPT ![c] = "idle"]
  /\ UNCHANGED <<dataVars, stepVars, tasks, flushing, job, seen, report, stack,
                 interaction, declared, sessions>>

Notify(c) ==
  /\ client[c] = "release"
  /\ pc = "wait"
  /\ pc' = "loop"
  /\ client' = [client EXCEPT ![c] = "idle"]
  /\ UNCHANGED <<dataVars, stepVars, tasks, flushing, job, seen, report, stack,
                 interaction, declared, sessions>>

(* Another program (pycxsom) fills the file of d.  The instance of d is    *)
(* read from the file when a rule the server keeps first mentions it.      *)
Mentioned(d) ==
  \/ d \in declared
  \/ \E h \in Handle : \E e \in step[h].variables : d \in InitArgs[e] \cup UsualArgs[e]

WriteFile(d) ==
  /\ d \in Writable
  /\ file[d] = NoValue
  /\ file' = [file EXCEPT ![d] = FileValue[d]]
  /\ data' = IF Mentioned(d) THEN data
             ELSE [data EXCEPT ![d].avail = "Ready", ![d].val = FileValue[d]]
  /\ UNCHANGED <<upd, stepVars, workerVars, clientVars>>

ClientStep(c) ==
  \/ \E what \in {"update", "ping"} : Open(c, what)
  \/ \E d \in Ruled : Declare(c, d)
  \/ Ping(c)
  \/ Close(c)
  \/ Notify(c)

Next ==
  \/ Worker
  \/ SpuriousWake
  \/ \E c \in Client : ClientStep(c)
  \/ \E d \in DI : WriteFile(d)

Spec == Init /\ [][Next]_vars

(* The worker and the end of an interaction are threads that keep running; *)
(* the mutex a client waits for is released again and again.               *)
Fairness ==
  /\ WF_vars(Worker)
  /\ \A c \in Client : WF_vars(Ping(c)) /\ WF_vars(Close(c)) /\ SF_vars(Notify(c))

FairSpec == Spec /\ Fairness
=============================================================================
