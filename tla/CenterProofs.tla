---------------------------- MODULE CenterProofs ----------------------------
(***************************************************************************)
(* The notifications between timesteps, and what updates skip and confirm  *)
(* because of the dates of the values, for every value of the constants of *)
(* the job center.                                                         *)
(***************************************************************************)
EXTENDS JobsProofs

-----------------------------------------------------------------------------
(* What a step does to one timestep. *)
Top == stack[Len(stack)]

Changed(h) ==
  \/ step'[h] = step[h]
  \/ GetOne /\ h \in Asked /\ tasks = {} /\ step'[h] = TakeJobs(CheckUnbound(step[h], data))
  \/ /\ ReportJob /\ h = job.step
     /\ step'[h] = Requeue(step[h], job.of, job.source, report, BlockersOf(JobUpdate, JobObject))
  \/ ReportStatus /\ h = job.step /\ step'[h] = UpdateStatus(step[h], data)
  \/ NotifyUnblock /\ h \in Top.todo /\ step'[h] = Unblock(step[h], Top.done)
  \/ /\ NotifyUnblock /\ h \in Top.todo /\ Unblock(step[h], Top.done).blockers = {}
     /\ step'[h] = UpdateStatus(Unblock(step[h], Top.done), data)
  \/ \E c \in Client, d \in Ruled : /\ Declare(c, d) /\ h \in Mapped /\ StepOf[d] = StepId(h)
                                    /\ step'[h] = Add(step[h], d)
  \/ \E c \in Client, d \in Ruled : /\ Declare(c, d) /\ current[StepId(h)] = 0 /\ StepOf[d] = StepId(h)
                                    /\ h \in Mapped' /\ step'[h] = Add(NewTimeStep, d)
  \/ \E c \in Client : Ping(c) /\ h \in Mapped /\ step'[h] = ClearBlockingInfo(step[h])
  \/ RegisterBlocked /\ h = job.step /\ step'[h] = [step[h] EXCEPT !.new_blockers = {}]

LEMMA TopType ==
  ASSUME TypeInv, pc = "notify"
  PROVE  Len(stack) \in Nat \ {0} /\ Top \in Call /\ Top.todo \subseteq Handle /\ Top.done \in TS
<1>1. stack \in Seq(Call) /\ Len(stack) > 0
  BY DEF TypeInv, TypeOK, WorkerOK, Call
<1>2. Top \in Call
  BY <1>1 DEF Top
<1> QED
  BY <1>1, <1>2 DEF Call

LEMMA HandleParts ==
  ASSUME NEW h \in Handle
  PROVE  /\ h = <<StepId(h), h[2]>> /\ StepId(h) \in TS /\ h[2] \in 1..MaxObjects /\ h[2] # 0
         /\ h \in Mapped => current[StepId(h)] # 0 /\ h = <<StepId(h), current[StepId(h)]>>
  BY CenterAssumption DEF Handle, StepId, Mapped

LEMMA NextDeclared ==
  ASSUME TypeInv, NEW c \in Client, NEW d \in Ruled, Declare(c, d), NEW h \in Handle
  PROVE  Changed(h)
<1> DEFINE t == StepOf[d]
           g == <<t, ObjectOf(t)>>
           s == IF current[t] # 0 THEN step[g] ELSE NewTimeStep
<1>1. CASE step'[h] = step[h]
  BY <1>1 DEF Changed
<1>2. CASE step'[h] # step[h]
  <2>1. /\ step' = [step EXCEPT ![g] = Add(s, d)]
        /\ current' = [current EXCEPT ![t] = g[2]]
    BY <1>2 DEF Declare
  <2>2. h = g /\ step'[h] = Add(s, d)
    <3> HIDE DEF g, s
    <3> QED
      BY <1>2, <2>1 DEF TypeInv, TypeOK
  <2>3. StepId(h) = t /\ h[2] = ObjectOf(t) /\ t \in TS
    BY <2>2, HandleParts DEF StepId
  <2>4. current'[t] = h[2]
    BY <2>1, <2>2, <2>3 DEF TypeInv, TypeOK
  <2>5. h \in Mapped'
    BY <2>3, <2>4 DEF Mapped
  <2>6. CASE current[t] = 0
    BY <2>2, <2>3, <2>5, <2>6 DEF Changed
  <2>7. CASE current[t] # 0
    <3>1. h \in Mapped
      BY <2>3, <2>7 DEF ObjectOf, Mapped
    <3>2. step'[h] = Add(step[h], d)
      BY <2>2, <2>7
    <3> QED
      BY <2>3, <3>1, <3>2 DEF Changed
  <2> QED
    BY <2>6, <2>7
<1> QED
  BY <1>1, <1>2

LEMMA NextChanged ==
  ASSUME TypeInv, [Next]_vars, NEW h \in Handle
  PROVE  Changed(h)
<1>a. step \in [Handle -> TimeStepRecord]
  BY DEF TypeInv, TypeOK
<1>1. CASE UNCHANGED step
  BY <1>1 DEF Changed
<1>2. CASE GetOne
  BY <1>2 DEF GetOne, Changed
<1>3. CASE ReportJob
  BY <1>a, <1>3 DEF ReportJob, Changed
<1>4. CASE ReportStatus
  BY <1>a, <1>4 DEF ReportStatus, Changed
<1>5. CASE NotifyUnblock
  <2>1. PICK g \in Top.todo :
          \/ step' = [step EXCEPT ![g] = Unblock(step[g], Top.done)]
          \/ /\ step' = [step EXCEPT ![g] = UpdateStatus(Unblock(step[g], Top.done), data)]
             /\ Unblock(step[g], Top.done).blockers = {}
    BY <1>5 DEF NotifyUnblock, Top
  <2>2. g \in Handle
    BY <1>5, <2>1, TopType DEF NotifyUnblock
  <2>3. CASE g # h
    BY <1>a, <2>1, <2>2, <2>3 DEF Changed
  <2>4. CASE g = h
    <3>1. \/ step'[h] = Unblock(step[h], Top.done)
          \/ /\ step'[h] = UpdateStatus(Unblock(step[h], Top.done), data)
             /\ Unblock(step[h], Top.done).blockers = {}
      BY <1>a, <2>1, <2>2, <2>4
    <3> QED
      BY <1>5, <2>1, <2>4, <3>1 DEF Changed
  <2> QED
    BY <2>3, <2>4
<1>6. ASSUME NEW c \in Client, Ping(c) PROVE Changed(h)
  BY <1>6 DEF Ping, Changed
<1>7. CASE RegisterBlocked
  <2>1. step'[h] = step[h] \/ (h = job.step /\ step'[h] = [step[h] EXCEPT !.new_blockers = {}])
    BY <1>a, <1>7 DEF RegisterBlocked
  <2> QED
    BY <1>7, <2>1 DEF Changed
<1> QED
  BY <1>1, <1>2, <1>3, <1>4, <1>5, <1>6, <1>7, StepActions, NextDeclared

(* A timestep enters the map when it is built, and leaves it when it is    *)
(* done and the worker looks for tasks.                                    *)
LEMMA NextMapped ==
  ASSUME TypeInv, [Next]_vars, NEW h \in Handle
  PROVE  /\ h \in Mapped' /\ h \notin Mapped =>
              \E c \in Client, d \in Ruled : /\ Declare(c, d) /\ StepOf[d] = StepId(h)
                                             /\ current[StepId(h)] = 0 /\ step'[h] = Add(NewTimeStep, d)
         /\ h \in Mapped /\ h \notin Mapped' => GetOne /\ tasks = {} /\ step[h].status = "Done"
<1>a. current \in [TS -> 0..MaxObjects] /\ StepId(h) \in TS /\ h = <<StepId(h), h[2]>> /\ h[2] # 0
  BY HandleParts DEF TypeInv, TypeOK
<1>1. CASE UNCHANGED current
  BY <1>1 DEF Mapped
<1>2. CASE GetOne
  <2>1. current' = current \/ (tasks = {} /\ current' = Cleaned)
    BY <1>2 DEF GetOne
  <2>2. CASE tasks = {} /\ current' = Cleaned
    <3>1. current'[StepId(h)] = IF /\ current[StepId(h)] # 0
                                   /\ step[<<StepId(h), current[StepId(h)]>>].status = "Done"
                                THEN 0 ELSE current[StepId(h)]
      BY <1>a, <2>2 DEF Cleaned
    <3> QED
      BY <1>2, <1>a, <2>2, <3>1 DEF Mapped
  <2> QED
    BY <1>1, <2>1, <2>2
<1>3. ASSUME NEW c \in Client, NEW d \in Ruled, Declare(c, d), ~UNCHANGED current
      PROVE  /\ h \in Mapped => h \in Mapped'
             /\ h \in Mapped' /\ h \notin Mapped =>
                  /\ StepOf[d] = StepId(h) /\ current[StepId(h)] = 0 /\ step'[h] = Add(NewTimeStep, d)
  <2> DEFINE t == StepOf[d]
             n == ObjectOf(t)
             s == IF current[t] # 0 THEN step[<<t, n>>] ELSE NewTimeStep
  <2>1. /\ current' = [current EXCEPT ![t] = n]
        /\ step' = [step EXCEPT ![<<t, n>>] = Add(s, d)]
    BY <1>3 DEF Declare
  <2>2. t \in TS
    BY ConstantsAssumption
  <2>3. current[t] # 0 => n = current[t]
    BY DEF ObjectOf
  <2>4. current[t] = 0
    <3> HIDE DEF n
    <3> QED
      BY <1>3, <1>a, <2>1, <2>2, <2>3
  <2>5. s = NewTimeStep
    BY <2>4
  <2> HIDE DEF s, n
  <2>6. h \in Mapped => StepId(h) # t
    BY <1>a, <2>4 DEF Mapped
  <2>7. h \in Mapped => h \in Mapped'
    BY <1>a, <2>1, <2>6 DEF Mapped
  <2>8. ASSUME h \in Mapped', h \notin Mapped PROVE StepId(h) = t /\ h[2] = n
    BY <1>a, <2>1, <2>2, <2>8 DEF Mapped
  <2>9. ASSUME h \in Mapped', h \notin Mapped PROVE step'[h] = Add(s, d)
    BY <1>a, <2>1, <2>8, <2>9 DEF TypeInv, TypeOK
  <2> QED
    BY <2>4, <2>5, <2>7, <2>8, <2>9
<1>4. UNCHANGED current \/ GetOne \/ \E c \in Client, d \in Ruled : Declare(c, d)
  <2>1. CASE Worker /\ ~GetOne
    BY <2>1 DEF Worker, Run, RunReady, RunImpossible, RunUnmoved, RunRead, RunWrite, Evaluated,
         TestInteraction, Wait, ReportJob, ReportStatus, NotifyDone, NotifyUnblock, NotifyReturn,
         RegisterBlocked, stepVars
  <2>2. CASE SpuriousWake
    BY <2>2 DEF SpuriousWake, stepVars
  <2>3. ASSUME NEW c \in Client, ClientStep(c) PROVE (\E d \in Ruled : Declare(c, d)) \/ UNCHANGED current
    BY <2>3 DEF ClientStep, Open, Ping, Close, Notify, stepVars
  <2>4. CASE (\E d \in DI : WriteFile(d)) \/ UNCHANGED vars
    BY <2>4 DEF WriteFile, vars, stepVars
  <2> QED
    BY <2>1, <2>2, <2>3, <2>4 DEF Next
<1> QED
  BY <1>1, <1>2, <1>3, <1>4

-----------------------------------------------------------------------------
(* The notifications between timesteps.  First, where things are: an       *)
(* update belongs to the timestep that holds it, and the tasks are those   *)
(* of timesteps of the map, for the part of the rule that is to be run.    *)
Working == {"run", "write", "report", "status", "done", "notify", "register"}

TheirSteps == \A h \in Handle : \A d \in step[h].variables : StepOf[d] = StepId(h)

HandMapped ==
  /\ \A t \in tasks : t.step \in Mapped
  /\ pc \in Working => job.step \in Mapped

HandPhase == \A t \in InHand : <<t.phase, t.of>> = Content(step[t.step], t.of)

LEMMA TakenFields ==
  ASSUME NEW s \in TimeStepRecord, NEW D
  PROVE  LET r == TakeJobs(CheckUnbound(s, D))
         IN  /\ r.blockers = s.blockers /\ r.new_blockers = s.new_blockers
             /\ r.variables = s.variables /\ r.inits = s.inits
             /\ r.queues["Impossible"] = s.queues["Impossible"]
             /\ r.queues["Confirmed"] = s.queues["Confirmed"]
             /\ r.status \in {s.status, "Unbound"}
<1> DEFINE c == CheckUnbound(s, D)
<1>1. /\ c \in TimeStepRecord
      /\ c.blockers = s.blockers /\ c.new_blockers = s.new_blockers
      /\ c.variables = s.variables /\ c.inits = s.inits
      /\ c.queues["Impossible"] = s.queues["Impossible"]
      /\ c.queues["Confirmed"] = s.queues["Confirmed"]
      /\ c.status \in {s.status, "Unbound"}
  BY CheckUnboundEffect, AdmitNewEffect DEF SameParts
<1> HIDE DEF c
<1> QED
  BY <1>1, TakeJobsEffect DEF c

LEMMA UpdatedFields ==
  ASSUME NEW s \in TimeStepRecord, NEW D
  PROVE  LET r == UpdateStatus(s, D)
         IN  /\ r.blockers = s.blockers /\ r.new_blockers = s.new_blockers
             /\ r.variables = s.variables /\ r.inits = s.inits /\ r.taken = s.taken
             /\ r.queues["Confirmed"] \subseteq s.queues["Confirmed"]
             /\ r.status = "Done" <=> Terminates(s, D)
             /\ Terminates(s, D) => \A q \in Queue : r.queues[q] = {}
             /\ Terminates(s, D) => s.queues["Impossible"] = {} /\ s.queues["Unstable"] = {}
             /\ s.blockers # {} => r.queues["Impossible"] = s.queues["Impossible"]
<1> DEFINE a == AdmitNew(s, D)
           r == UpdateStatus(s, D)
<1>1. /\ a.blockers = s.blockers /\ a.new_blockers = s.new_blockers
      /\ a.variables = s.variables /\ a.inits = s.inits /\ a.taken = s.taken
      /\ a.queues["Impossible"] = s.queues["Impossible"]
      /\ a.queues["Confirmed"] = s.queues["Confirmed"]
      /\ s.queues["Unstable"] \subseteq a.queues["Unstable"]
  BY AdmitNewEffect
<1>2. /\ SameParts(r, a)
      /\ Terminates(s, D) =>
           /\ r.status = "Done" /\ \A q \in Queue : r.queues[q] = {}
           /\ \A q \in Queue \ {"Confirmed"} : a.queues[q] = {}
      /\ ~Terminates(s, D) => Unbinds(r, a) \/ Unsettles(r, a) \/ Checks(r, a)
  BY UpdateStatusEffect
<1> HIDE DEF a, r
<1>3. ASSUME ~Terminates(s, D)
      PROVE  /\ r.status # "Done" /\ r.queues["Confirmed"] \subseteq s.queues["Confirmed"]
             /\ s.blockers # {} => r.queues["Impossible"] = s.queues["Impossible"]
  <2>1. CASE Unbinds(r, a)
    BY <1>1, <2>1 DEF Unbinds
  <2>2. CASE Unsettles(r, a)
    BY <1>1, <2>2 DEF Unsettles
  <2>3. CASE Checks(r, a)
    BY <1>1, <2>3 DEF Checks
  <2> QED
    BY <1>2, <1>3, <2>1, <2>2, <2>3
<1>4. ASSUME Terminates(s, D)
      PROVE  /\ r.queues["Confirmed"] = {} /\ r.queues["Impossible"] = {}
             /\ s.queues["Impossible"] = {} /\ s.queues["Unstable"] = {}
  <2>1. "Confirmed" \in Queue /\ "Impossible" \in Queue \ {"Confirmed"} /\ "Unstable" \in Queue \ {"Confirmed"}
    BY DEF Queue
  <2> QED
    BY <1>1, <1>2, <1>4, <2>1
<1>5. /\ r.blockers = s.blockers /\ r.new_blockers = s.new_blockers
      /\ r.variables = s.variables /\ r.inits = s.inits /\ r.taken = s.taken
  BY <1>1, <1>2 DEF SameParts
<1>6. /\ r.queues["Confirmed"] \subseteq s.queues["Confirmed"]
      /\ r.status = "Done" <=> Terminates(s, D)
      /\ Terminates(s, D) => \A q \in Queue : r.queues[q] = {}
      /\ Terminates(s, D) => s.queues["Impossible"] = {} /\ s.queues["Unstable"] = {}
      /\ s.blockers # {} => r.queues["Impossible"] = s.queues["Impossible"]
  BY <1>2, <1>3, <1>4
<1> QED
  BY <1>5, <1>6 DEF r

(* A timestep that has just been built. *)
LEMMA BuiltFields ==
  ASSUME NEW d \in Ruled
  PROVE  LET r == Add(NewTimeStep, d)
         IN  /\ r.status = "Relaxing" /\ r.blockers = {} /\ r.variables = {d}
             /\ r.queues["Confirmed"] = {} /\ r.queues["Impossible"] = {}
<1>1. NewTimeStep \in TimeStepRecord /\ d \notin NewTimeStep.variables
  BY DEF NewTimeStep, TimeStepRecord, Status
<1>2. /\ NewTimeStep.status = "Relaxing" /\ NewTimeStep.blockers = {} /\ NewTimeStep.variables = {}
      /\ "Confirmed" \in Queue /\ "Confirmed" # "New" /\ "Impossible" \in Queue /\ "Impossible" # "New"
      /\ NewTimeStep.queues["Confirmed"] = {} /\ NewTimeStep.queues["Impossible"] = {}
  BY DEF NewTimeStep, Queue
<1> QED
  BY <1>1, <1>2, AddEffect

(* What the report of a job keeps. *)
LEMMA ReportJobParts ==
  ASSUME TypeInv, TaskInv, ReportJob
  PROVE  /\ pc = "report" /\ pc' = "status" /\ job \in Task /\ job.step \in Handle
         /\ step[job.step] \in TimeStepRecord /\ Placed(step[job.step]) /\ job.of \in step[job.step].taken
         /\ JobUpdate \in UpdateId
         /\ BlockersOf(JobUpdate, JobObject) \in SUBSET TS
<1>1. pc = "report" /\ job \in Task /\ job.step \in Handle /\ JobUpdate \in UpdateId /\ JobObject \in Object
  BY JobType DEF ReportJob, TypeInv, WorkerOK
<1>2. job.of \in step[job.step].taken
  <2>1. job \in InHand
    BY <1>1 DEF InHand
  <2> QED
    BY <1>1, <2>1 DEF TaskInv
<1>3. BlockersOf(JobUpdate, JobObject) \in SUBSET TS
  BY <1>1, BlockersType
<1> QED
  BY <1>1, <1>2, <1>3 DEF ReportJob, TypeInv, TypeOK, TaskInv

LEMMA TheirStepsStep ==
  TypeInv /\ TaskInv /\ TheirSteps /\ [Next]_vars => TheirSteps'
<1> SUFFICES ASSUME TypeInv, TaskInv, TheirSteps, [Next]_vars, NEW h \in Handle,
                    NEW x \in step'[h].variables
             PROVE  StepOf[x] = StepId(h)
  BY DEF TheirSteps
<1>1. step[h] \in TimeStepRecord /\ Changed(h)
  BY NextChanged DEF TypeInv, TypeOK
<1>2. CASE step'[h].variables = step[h].variables
  BY <1>2 DEF TheirSteps
<1>3. CASE GetOne /\ step'[h] = TakeJobs(CheckUnbound(step[h], data))
  BY <1>1, <1>2, <1>3, TakenFields
<1>4. CASE ReportJob /\ h = job.step /\ step'[h] = Requeue(step[h], job.of, job.source, report, BlockersOf(JobUpdate, JobObject))
  BY <1>1, <1>2, <1>4, ReportJobParts, RequeueEffect
<1>5. CASE step'[h] = UpdateStatus(step[h], data)
  BY <1>1, <1>2, <1>5, UpdatedFields
<1>6. CASE step'[h] = Unblock(step[h], Top.done) \/ step'[h] = UpdateStatus(Unblock(step[h], Top.done), data)
  BY <1>1, <1>2, <1>6, UnblockEffect, UpdatedFields
<1>7. ASSUME NEW d \in Ruled, StepOf[d] = StepId(h), step'[h] = Add(step[h], d) PROVE StepOf[x] = StepId(h)
  <2>1. CASE d \in step[h].variables
    BY <1>2, <1>7, <2>1 DEF Add
  <2>2. CASE d \notin step[h].variables
    BY <1>1, <1>7, <2>2, AddEffect DEF TheirSteps
  <2> QED
    BY <2>1, <2>2
<1>8. ASSUME NEW d \in Ruled, StepOf[d] = StepId(h), step'[h] = Add(NewTimeStep, d) PROVE StepOf[x] = StepId(h)
  BY <1>8, BuiltFields
<1>9. CASE step'[h] = ClearBlockingInfo(step[h])
  BY <1>1, <1>2, <1>9, ClearEffect
<1>10. CASE step'[h] = [step[h] EXCEPT !.new_blockers = {}]
  BY <1>1, <1>2, <1>10 DEF TimeStepRecord
<1> QED
  BY <1>1, <1>2, <1>3, <1>4, <1>5, <1>6, <1>7, <1>8, <1>9, <1>10 DEF Changed

LEMMA HandMappedStep ==
  TypeInv /\ HandMapped /\ [Next]_vars => HandMapped'
<1> SUFFICES ASSUME TypeInv, HandMapped, [Next]_vars PROVE HandMapped'
  OBVIOUS
<1>1. CASE GetOne
  <2>1. pc = "get" /\ pc' \in {"wait", "run"}
    BY <1>1 DEF GetOne
  <2>2. \A t \in Batch : t.step \in Mapped'
    <3>1. CASE tasks # {}
      BY <1>1, <3>1 DEF GetOne, Batch, HandMapped, Mapped
    <3>2. CASE tasks = {}
      <4>1. Asked = Mapped'
        BY <1>1, <3>2 DEF GetOne, Asked, Mapped
      <4> QED
        BY <3>2, <4>1 DEF Batch, TasksOf
    <3> QED
      BY <3>1, <3>2
  <2>3. CASE pc' = "wait"
    BY <1>1, <2>2, <2>3 DEF GetOne, Batch, HandMapped, Working
  <2>4. CASE pc' = "run"
    BY <1>1, <2>2, <2>4 DEF GetOne, HandMapped
  <2> QED
    BY <2>1, <2>3, <2>4
<1>2. CASE ~GetOne
  <2>1. tasks' = tasks /\ (pc' \in Working => pc \in Working /\ job' = job)
    <3>1. CASE Worker
      BY <1>2, <3>1 DEF Worker, TestInteraction, Wait, Run, RunReady, RunImpossible, RunUnmoved, RunRead,
           RunWrite, Evaluated, ReportJob, ReportStatus, NotifyDone, NotifyUnblock, NotifyReturn,
           RegisterBlocked, Working
    <3>2. CASE SpuriousWake
      BY <3>2 DEF SpuriousWake, Working
    <3>3. ASSUME NEW c \in Client, ClientStep(c) PROVE tasks' = tasks /\ (pc' = pc \/ pc' = "loop") /\ job' = job
      BY <3>3 DEF ClientStep, Open, Declare, Ping, Close, Notify, workerVars
    <3>4. CASE (\E d \in DI : WriteFile(d)) \/ UNCHANGED vars
      BY <3>4 DEF WriteFile, vars, workerVars
    <3> QED
      BY <3>1, <3>2, <3>3, <3>4 DEF Next, Working
  <2>2. \A h \in Mapped : h \in Mapped'
    BY <1>2, NextMapped DEF Mapped
  <2> QED
    BY <2>1, <2>2 DEF HandMapped
<1> QED
  BY <1>1, <1>2

(* A step leaves the init part of an update to be done, or done, unless it *)
(* reports that update.                                                    *)
LEMMA InitsKept ==
  ASSUME TypeInv, TaskInv, [Next]_vars, NEW h \in Mapped, NEW x \in step[h].variables,
         ~(ReportJob /\ h = job.step /\ x = job.of)
  PROVE  x \in step'[h].inits <=> x \in step[h].inits
<1>1. h \in Handle /\ step[h] \in TimeStepRecord /\ Changed(h)
  BY NextChanged DEF Mapped, TypeInv, TypeOK
<1>2. CASE step'[h].inits = step[h].inits
  BY <1>2
<1>3. CASE GetOne /\ step'[h] = TakeJobs(CheckUnbound(step[h], data))
  BY <1>1, <1>2, <1>3, TakenFields
<1>4. CASE ReportJob /\ h = job.step /\ step'[h] = Requeue(step[h], job.of, job.source, report, BlockersOf(JobUpdate, JobObject))
  <2>1. step'[h].inits = step[h].inits \/ step'[h].inits = step[h].inits \ {job.of}
    BY <1>1, <1>4, ReportJobParts, RequeueEffect
  <2> QED
    BY <1>4, <2>1
<1>5. CASE step'[h] = UpdateStatus(step[h], data)
  BY <1>1, <1>2, <1>5, UpdatedFields
<1>6. CASE step'[h] = Unblock(step[h], Top.done) \/ step'[h] = UpdateStatus(Unblock(step[h], Top.done), data)
  BY <1>1, <1>2, <1>6, UnblockEffect, UpdatedFields
<1>7. ASSUME NEW d \in Ruled, step'[h] = Add(step[h], d) PROVE x \in step'[h].inits <=> x \in step[h].inits
  <2>1. CASE d \in step[h].variables
    BY <1>2, <1>7, <2>1 DEF Add
  <2>2. CASE d \notin step[h].variables
    BY <1>1, <1>7, <2>2, AddEffect
  <2> QED
    BY <2>1, <2>2
<1>8. current[StepId(h)] # 0
  BY <1>1, HandleParts
<1>9. CASE step'[h] = ClearBlockingInfo(step[h])
  BY <1>1, <1>2, <1>9, ClearEffect
<1>10. CASE step'[h] = [step[h] EXCEPT !.new_blockers = {}]
  BY <1>1, <1>2, <1>10 DEF TimeStepRecord
<1> QED
  BY <1>1, <1>2, <1>3, <1>4, <1>5, <1>6, <1>7, <1>8, <1>9, <1>10 DEF Changed

(* The tasks in hand are the old ones, but for those get_jobs hands out.   *)
LEMMA NextInHand ==
  ASSUME TypeInv, [Next]_vars
  PROVE  \A t \in InHand' : \/ t \in InHand
                            \/ GetOne /\ tasks = {} /\ t.step \in Asked /\ t \in TasksOf(t.step)
<1>1. CASE GetOne
  <2>1. InHand' \subseteq Batch
    BY <1>1 DEF GetOne, InHand, Batch
  <2>2. \A t \in Batch : t \in tasks \/ (tasks = {} /\ t.step \in Asked /\ t \in TasksOf(t.step))
    BY DEF Batch, TasksOf
  <2> QED
    BY <1>1, <2>1, <2>2 DEF InHand
<1>2. CASE ~GetOne
  <2>1. tasks' = tasks /\ (pc' \in WithJob => pc \in WithJob /\ job' = job)
    <3>1. CASE Worker
      BY <1>2, <3>1 DEF Worker, TestInteraction, Wait, Run, RunReady, RunImpossible, RunUnmoved, RunRead,
           RunWrite, Evaluated, ReportJob, ReportStatus, AfterReport, NotifyDone, NotifyUnblock,
           NotifyReturn, RegisterBlocked, WithJob
    <3>2. CASE SpuriousWake
      BY <3>2 DEF SpuriousWake, WithJob
    <3>3. ASSUME NEW c \in Client, ClientStep(c) PROVE tasks' = tasks /\ (pc' = pc \/ pc' = "loop") /\ job' = job
      BY <3>3 DEF ClientStep, Open, Declare, Ping, Close, Notify, workerVars
    <3>4. CASE (\E d \in DI : WriteFile(d)) \/ UNCHANGED vars
      BY <3>4 DEF WriteFile, vars, workerVars
    <3> QED
      BY <3>1, <3>2, <3>3, <3>4 DEF Next, WithJob
  <2> QED
    BY <2>1 DEF InHand, WithJob
<1> QED
  BY <1>1, <1>2

LEMMA InHandParts ==
  ASSUME TypeInv, TaskInv, HandMapped, NEW t \in InHand
  PROVE  t \in Task /\ t.step \in Mapped /\ t.step \in Handle /\ t.of \in step[t.step].taken
         /\ t.of \in step[t.step].variables
<1>1. t \in Task /\ t.step \in Mapped
  BY DEF InHand, HandMapped, Working, TypeInv, TypeOK, WorkerOK
<1>2. t.step \in Handle
  BY <1>1 DEF Task
<1>3. t.of \in step[t.step].taken
  BY <1>2 DEF TaskInv
<1>4. Placed(step[t.step]) /\ "Unstable" \in Queue /\ "Stable" \in Queue
  BY <1>2 DEF TaskInv, Queue
<1> QED
  BY <1>1, <1>2, <1>3, <1>4 DEF Placed

LEMMA HandPhaseStep ==
  TypeInv /\ TaskInv /\ HandMapped /\ HandPhase /\ [Next]_vars => HandPhase'
<1> SUFFICES ASSUME TypeInv, TaskInv, HandMapped, HandPhase, [Next]_vars, NEW t \in InHand'
             PROVE  <<t.phase, t.of>> = Content(step'[t.step], t.of)
  BY DEF HandPhase
<1>1. CASE t \in InHand
  <2>1. t.step \in Mapped /\ t.of \in step[t.step].variables
    BY <1>1, InHandParts
  <2>2. ~(ReportJob /\ t.step = job.step /\ t.of = job.of)
    <3> SUFFICES ASSUME ReportJob, t.step = job.step, t.of = job.of PROVE FALSE
      OBVIOUS
    <3>1. job \in InHand /\ job \notin tasks /\ t \in tasks
      BY DEF ReportJob, InHand, TaskInv, WithJob
    <3> QED
      BY <1>1, <3>1 DEF TaskInv
  <2>3. t.of \in step'[t.step].inits <=> t.of \in step[t.step].inits
    BY <2>1, <2>2, InitsKept
  <2> QED
    BY <1>1, <2>3 DEF HandPhase, Content
<1>2. CASE GetOne /\ tasks = {} /\ t.step \in Asked /\ t \in TasksOf(t.step)
  <2> DEFINE h == t.step
             s == CheckUnbound(step[h], data)
  <2>1. h \in Handle /\ step[h] \in TimeStepRecord
    BY <1>2 DEF Asked, TypeInv, TypeOK
  <2>2. PICK j \in Jobs(s) : t = [step |-> h, of |-> j[1], phase |-> Content(s, j[1])[1], source |-> j[2]]
    BY <1>2 DEF TasksOf
  <2>3. s.inits = step[h].inits
    BY <2>1, CheckUnboundEffect, AdmitNewEffect DEF SameParts
  <2>4. step'[h] = TakeJobs(s)
    BY <1>2, <2>1 DEF GetOne
  <2>5. step'[h].inits = step[h].inits
    BY <2>1, <2>4, TakenFields
  <2> HIDE DEF s
  <2>6. t.of = j[1] /\ t.phase = Content(s, t.of)[1]
    BY <2>2
  <2> QED
    BY <2>3, <2>5, <2>6 DEF Content
<1> QED
  BY <1>1, <1>2, NextInHand

-----------------------------------------------------------------------------
(* A timestep that is done has no task in hand and no confirmed update,    *)
(* nor has one that has left the map a confirmed update: it makes nothing  *)
(* ready any more.                                                         *)
DoneIdle(s) == s.status = "Done" => s.taken = {} /\ s.queues["Confirmed"] = {}

IdleInv ==
  /\ \A h \in Handle : DoneIdle(step[h])
  /\ \A h \in Handle : h \notin Mapped => step[h].queues["Confirmed"] = {}

LEMMA IdleStep ==
  TypeInv /\ TaskInv /\ TaskInv' /\ HandMapped /\ IdleInv /\ [Next]_vars => IdleInv'
<1> SUFFICES ASSUME TypeInv, TaskInv, TaskInv', HandMapped, IdleInv, [Next]_vars, NEW h \in Handle
             PROVE  DoneIdle(step'[h]) /\ (h \notin Mapped' => step'[h].queues["Confirmed"] = {})
  BY DEF IdleInv
<1>1. step[h] \in TimeStepRecord /\ Changed(h) /\ DoneIdle(step[h])
  BY NextChanged DEF TypeInv, TypeOK, IdleInv
<1>2. h \notin Mapped' => step[h].queues["Confirmed"] = {}
  BY NextMapped DEF IdleInv, DoneIdle
<1>q. {"Confirmed", "Unstable", "Stable"} \subseteq Queue
  BY DEF Queue
<1>3. ASSUME step'[h].status # "Done", h \notin Mapped' => step'[h].queues["Confirmed"] = {}
      PROVE  DoneIdle(step'[h]) /\ (h \notin Mapped' => step'[h].queues["Confirmed"] = {})
  BY <1>3 DEF DoneIdle
<1>4. CASE /\ step'[h].status = step[h].status /\ step'[h].taken = step[h].taken
           /\ step'[h].queues["Confirmed"] = step[h].queues["Confirmed"]
  BY <1>1, <1>2, <1>4 DEF DoneIdle
<1>5. CASE GetOne /\ h \in Asked /\ step'[h] = TakeJobs(CheckUnbound(step[h], data))
  <2>1. step[h].status # "Done"
    <3>1. Cleaned[StepId(h)] = h[2] /\ h = <<StepId(h), h[2]>> /\ StepId(h) \in TS /\ h[2] # 0
      BY <1>5, HandleParts DEF Asked
    <3> QED
      BY <3>1 DEF Cleaned
  <2> QED
    BY <1>1, <1>2, <1>3, <1>5, <2>1, TakenFields
<1>6. CASE ReportJob /\ h = job.step /\ step'[h] = Requeue(step[h], job.of, job.source, report, BlockersOf(JobUpdate, JobObject))
  <2>1. step'[h].status = step[h].status /\ job.of \in step[h].taken
    BY <1>6, ReportJobParts, RequeueEffect
  <2>2. step[h].status # "Done"
    BY <1>1, <2>1 DEF DoneIdle
  <2>3. h \in Mapped'
    BY <1>6, NextMapped, ReportJobParts DEF HandMapped, Working, GetOne
  <2> QED
    BY <1>3, <2>1, <2>2, <2>3
<1>7. ASSUME NEW s \in TimeStepRecord, s.queues = step[h].queues, step'[h] = UpdateStatus(s, data)
      PROVE  DoneIdle(step'[h]) /\ (h \notin Mapped' => step'[h].queues["Confirmed"] = {})
  <2>1. /\ step'[h].queues["Confirmed"] \subseteq step[h].queues["Confirmed"]
        /\ step'[h].status = "Done" => \A q \in Queue : step'[h].queues[q] = {}
    BY <1>7, UpdatedFields
  <2>2. step'[h].status = "Done" => step'[h].taken = {}
    BY <1>q, <2>1 DEF TaskInv, Placed
  <2> QED
    BY <1>2, <1>q, <2>1, <2>2 DEF DoneIdle
<1>8. CASE step'[h] = UpdateStatus(step[h], data)
  BY <1>1, <1>7, <1>8
<1>9. CASE step'[h] = Unblock(step[h], Top.done) \/ step'[h] = UpdateStatus(Unblock(step[h], Top.done), data)
  BY <1>1, <1>4, <1>7, <1>9, UnblockEffect
<1>10. ASSUME NEW d \in Ruled, step'[h] = Add(step[h], d)
       PROVE  DoneIdle(step'[h]) /\ (h \notin Mapped' => step'[h].queues["Confirmed"] = {})
  <2>1. CASE d \in step[h].variables
    BY <1>4, <1>10, <2>1 DEF Add
  <2>2. CASE d \notin step[h].variables
    BY <1>1, <1>4, <1>q, <1>10, <2>2, AddEffect
  <2> QED
    BY <2>1, <2>2
<1>11. ASSUME NEW d \in Ruled, step'[h] = Add(NewTimeStep, d)
       PROVE  DoneIdle(step'[h]) /\ (h \notin Mapped' => step'[h].queues["Confirmed"] = {})
  BY <1>3, <1>11, BuiltFields
<1>12. CASE step'[h] = ClearBlockingInfo(step[h])
  BY <1>1, <1>2, <1>3, <1>12, ClearEffect
<1>13. CASE step'[h] = [step[h] EXCEPT !.new_blockers = {}]
  BY <1>1, <1>4, <1>13 DEF TimeStepRecord
<1>14. CASE step'[h] = step[h]
  BY <1>4, <1>14
<1> QED
  BY <1>1, <1>5, <1>6, <1>8, <1>9, <1>10, <1>11, <1>12, <1>13, <1>14 DEF Changed

-----------------------------------------------------------------------------
(* The blockers of a timestep are registered, or about to be: while the    *)
(* report of an impossible update is not over, that update keeps the       *)
(* timestep from ending.                                                   *)
ReportedImpossible ==
  pc = "status" /\ report = "Impossible" =>
    job.of \in step[job.step].queues["Impossible"] \cup step[job.step].queues["Unstable"]

Registered ==
  \A h \in Mapped : \A b \in step[h].blockers :
    \/ h \in blockees[b]
    \/ /\ pc \in {"status", "register"} /\ h = job.step
       /\ b \in step[h].new_blockers /\ report = "Impossible"

(* The steps that leave the worker where it is. *)
LEMMA SamePlace ==
  ASSUME [Next]_vars
  PROVE  \/ Worker
         \/ pc' = "loop" /\ pc = "wait" /\ UNCHANGED <<dataVars, stepVars>>
         \/ UNCHANGED workerVars /\ ~Worker
<1>1. CASE SpuriousWake
  BY <1>1 DEF SpuriousWake
<1>2. ASSUME NEW c \in Client, ClientStep(c)
      PROVE  (pc' = "loop" /\ pc = "wait" /\ UNCHANGED <<dataVars, stepVars>>) \/ UNCHANGED workerVars
  BY <1>2 DEF ClientStep, Open, Declare, Ping, Close, Notify
<1>3. CASE (\E d \in DI : WriteFile(d)) \/ UNCHANGED vars
  BY <1>3 DEF WriteFile, vars
<1> QED
  BY <1>1, <1>2, <1>3 DEF Next

LEMMA ReportedStep ==
  TypeInv /\ TaskInv /\ HandMapped /\ ReportedImpossible /\ [Next]_vars => ReportedImpossible'
<1> SUFFICES ASSUME TypeInv, TaskInv, HandMapped, ReportedImpossible, [Next]_vars,
                    pc' = "status", report' = "Impossible"
             PROVE  job'.of \in step'[job'.step].queues["Impossible"] \cup step'[job'.step].queues["Unstable"]
  BY DEF ReportedImpossible
<1>q. {"Impossible", "Unstable"} \subseteq Queue /\ "Impossible" # "New" /\ "Unstable" # "New"
  BY DEF Queue
<1>1. CASE ReportJob
  <2>1. step'[job.step] = Requeue(step[job.step], job.of, job.source, report, BlockersOf(JobUpdate, JobObject))
    BY <1>1, ReportJobParts DEF ReportJob, TypeInv, TypeOK
  <2>2. MovedTo(step'[job.step], step[job.step], job.of, "Impossible")
    BY <1>1, <2>1, ReportJobParts, RequeueEffect DEF ReportJob
  <2>3. step'[job.step].queues["Impossible"] = step[job.step].queues["Impossible"] \cup {job.of}
    BY <1>q, <2>2 DEF MovedTo
  <2>4. job' = job
    BY <1>1 DEF ReportJob
  <2> QED
    BY <2>3, <2>4
<1>2. CASE ~ReportJob
  <2>1. UNCHANGED workerVars /\ ~Worker
    <3>1. Worker => pc' # "status"
      BY <1>2 DEF Worker, TestInteraction, Wait, GetOne, Run, RunReady, RunImpossible, RunUnmoved, RunRead,
           RunWrite, Evaluated, ReportJob, ReportStatus, AfterReport, NotifyDone, NotifyUnblock,
           NotifyReturn, RegisterBlocked
    <3> QED
      BY <3>1, SamePlace
  <2>2. /\ pc = "status" /\ job' = job
        /\ job.of \in step[job.step].queues["Impossible"] \cup step[job.step].queues["Unstable"]
    BY <2>1 DEF workerVars, ReportedImpossible
  <2>3. job.step \in Mapped /\ job.step \in Handle
    BY <2>2 DEF HandMapped, Working, Mapped
  <2> DEFINE s == step[job.step]
             r == step'[job.step]
  <2>4. s \in TimeStepRecord /\ current[StepId(job.step)] # 0 /\ Changed(job.step)
    BY <2>3, HandleParts, NextChanged DEF TypeInv, TypeOK
  <2>5. \/ r = s
        \/ \E d \in Ruled : r = Add(s, d)
        \/ r = ClearBlockingInfo(s)
    BY <2>1, <2>4 DEF Changed, Worker
  <2> HIDE DEF s, r
  <2>6. CASE \E d \in Ruled : r = Add(s, d)
    <3>1. PICK d \in Ruled : r = Add(s, d)
      BY <2>6
    <3>2. CASE d \in s.variables
      BY <2>2, <3>1, <3>2 DEF Add, s, r
    <3>3. CASE d \notin s.variables
      <4>1. r.queues["Impossible"] = s.queues["Impossible"] /\ r.queues["Unstable"] = s.queues["Unstable"]
        BY <1>q, <2>4, <3>1, <3>3, AddEffect DEF s
      <4> QED
        BY <2>2, <4>1 DEF s, r
    <3> QED
      BY <3>2, <3>3
  <2>7. CASE r = ClearBlockingInfo(s)
    <3>1. s \in TimeStepRecord
      BY <2>4 DEF s
    <3>2. r.queues["Unstable"] = s.queues["Unstable"] \cup s.queues["Impossible"]
      BY <2>7, <3>1, ClearEffect
    <3> QED
      BY <2>2, <3>2 DEF s, r
  <2> QED
    BY <2>2, <2>5, <2>6, <2>7 DEF s, r
<1> QED
  BY <1>1, <1>2

(* What a step does to the blockers of a timestep that stays in the map:   *)
(* only the report of an impossible update adds some.                      *)
LEMMA BlockersKept ==
  ASSUME TypeInv, TaskInv, [Next]_vars, NEW h \in Mapped
  PROVE  \/ /\ ReportJob /\ h = job.step /\ report = "Impossible"
            /\ step'[h].blockers = step[h].blockers \cup BlockersOf(JobUpdate, JobObject)
            /\ step'[h].new_blockers = step[h].new_blockers \cup BlockersOf(JobUpdate, JobObject)
         \/ step'[h].blockers \subseteq step[h].blockers /\ step'[h].new_blockers = step[h].new_blockers
         \/ RegisterBlocked /\ h = job.step /\ step'[h].blockers = step[h].blockers
<1>1. h \in Handle /\ step[h] \in TimeStepRecord /\ Changed(h) /\ current[StepId(h)] # 0
  BY NextChanged, HandleParts DEF Mapped, TypeInv, TypeOK
<1>2. CASE GetOne /\ step'[h] = TakeJobs(CheckUnbound(step[h], data))
  BY <1>1, <1>2, TakenFields
<1>3. CASE ReportJob /\ h = job.step /\ step'[h] = Requeue(step[h], job.of, job.source, report, BlockersOf(JobUpdate, JobObject))
  <2> DEFINE B == BlockersOf(JobUpdate, JobObject)
  <2>1. \/ /\ report = "Impossible" /\ step'[h].blockers = step[h].blockers \cup B
           /\ step'[h].new_blockers = step[h].new_blockers \cup B
        \/ step'[h].blockers = step[h].blockers /\ step'[h].new_blockers = step[h].new_blockers
    <3>1. step[h] \in TimeStepRecord /\ Placed(step[h]) /\ job.of \in step[h].taken /\ B \in SUBSET TS
      BY <1>3, ReportJobParts
    <3> HIDE DEF B
    <3> QED
      BY <1>3, <3>1, RequeueEffect DEF B
  <2> QED
    BY <1>3, <2>1
<1>4. CASE step'[h] = UpdateStatus(step[h], data)
  BY <1>1, <1>4, UpdatedFields
<1>5. CASE step'[h] = Unblock(step[h], Top.done) \/ step'[h] = UpdateStatus(Unblock(step[h], Top.done), data)
  BY <1>1, <1>5, UnblockEffect, UpdatedFields
<1>6. ASSUME NEW d \in Ruled, step'[h] = Add(step[h], d)
      PROVE  step'[h].blockers = step[h].blockers /\ step'[h].new_blockers = step[h].new_blockers
  <2>1. CASE d \in step[h].variables
    BY <1>6, <2>1 DEF Add
  <2>2. CASE d \notin step[h].variables
    BY <1>1, <1>6, <2>2, AddEffect
  <2> QED
    BY <2>1, <2>2
<1>7. CASE step'[h] = ClearBlockingInfo(step[h])
  BY <1>1, <1>7, ClearEffect
<1>8. CASE RegisterBlocked /\ h = job.step /\ step'[h] = [step[h] EXCEPT !.new_blockers = {}]
  BY <1>1, <1>8 DEF TimeStepRecord
<1> QED
  BY <1>1, <1>2, <1>3, <1>4, <1>5, <1>6, <1>7, <1>8 DEF Changed

LEMMA RegisteredStep ==
  TypeInv /\ TaskInv /\ TypeInv' /\ HandMapped /\ ReportedImpossible /\ Registered /\ [Next]_vars
    => Registered'
<1> SUFFICES ASSUME TypeInv, TaskInv, TypeInv', HandMapped, ReportedImpossible, Registered, [Next]_vars,
                    NEW h \in Mapped', NEW b \in step'[h].blockers
             PROVE  \/ h \in blockees'[b]
                    \/ /\ pc' \in {"status", "register"} /\ h = job'.step
                       /\ b \in step'[h].new_blockers /\ report' = "Impossible"
  BY DEF Registered
<1>a. h \in Handle /\ step[h] \in TimeStepRecord /\ Changed(h) /\ b \in TS
  BY NextChanged DEF Mapped, TypeInv, TypeOK, TimeStepRecord
<1>1. h \in Mapped
  <2> SUFFICES ASSUME h \notin Mapped PROVE FALSE
    OBVIOUS
  <2>1. \E d \in Ruled : step'[h] = Add(NewTimeStep, d)
    BY <1>a, NextMapped
  <2> QED
    BY <2>1, BuiltFields
<1>2. ASSUME NEW c \in Client, Ping(c) PROVE FALSE
  <2>1. step'[h] = ClearBlockingInfo(step[h])
    BY <1>1, <1>2, <1>a DEF Ping
  <2> QED
    BY <1>a, <2>1, ClearEffect
<1>3. CASE ReportJob /\ h = job.step /\ report = "Impossible"
             /\ step'[h].blockers = step[h].blockers \cup BlockersOf(JobUpdate, JobObject)
             /\ step'[h].new_blockers = step[h].new_blockers \cup BlockersOf(JobUpdate, JobObject)
  BY <1>1, <1>3 DEF ReportJob, Registered
<1>4. CASE RegisterBlocked
  <2>1. /\ pc = "register" /\ \A t \in TS : blockees[t] \subseteq blockees'[t]
        /\ \A t \in step[job.step].new_blockers : t \in TS => job.step \in blockees'[t]
    BY <1>4 DEF RegisterBlocked
  <2>2. b \in step[h].blockers
    BY <1>1, <1>4, BlockersKept DEF RegisterBlocked, ReportJob
  <2> QED
    BY <1>1, <1>a, <2>1, <2>2 DEF Registered
<1>5. CASE /\ step'[h].blockers \subseteq step[h].blockers /\ step'[h].new_blockers = step[h].new_blockers
           /\ ~RegisterBlocked
  <2>1. blockees' = blockees
    <3>1. CASE Worker
      BY <1>5, <3>1 DEF Worker, TestInteraction, Wait, GetOne, Run, RunReady, RunImpossible, RunUnmoved,
           RunRead, RunWrite, Evaluated, ReportJob, ReportStatus, NotifyDone, NotifyUnblock, NotifyReturn,
           stepVars
    <3>2. CASE SpuriousWake
      BY <3>2 DEF SpuriousWake, stepVars
    <3>3. ASSUME NEW c \in Client, ClientStep(c) PROVE UNCHANGED blockees
      BY <1>2, <3>3 DEF ClientStep, Open, Declare, Close, Notify, stepVars
    <3>4. CASE (\E d \in DI : WriteFile(d)) \/ UNCHANGED vars
      BY <3>4 DEF WriteFile, vars, stepVars
    <3> QED
      BY <3>1, <3>2, <3>3, <3>4 DEF Next
  <2>2. CASE h \in blockees[b]
    BY <2>1, <2>2
  <2>3. CASE /\ pc \in {"status", "register"} /\ h = job.step
             /\ b \in step[h].new_blockers /\ report = "Impossible"
    <3>1. CASE ReportStatus
      <4>1. ~Terminates(step[job.step], data)
        BY <1>a, <2>3, <3>1, UpdatedFields DEF ReportStatus, ReportedImpossible
      <4> QED
        BY <1>5, <2>3, <3>1, <4>1 DEF ReportStatus, AfterReport
    <3>2. CASE ~ReportStatus
      <4>1. ~Worker
        BY <1>5, <2>3, <3>2 DEF Worker, TestInteraction, Wait, GetOne, Run, RunReady, RunImpossible,
           RunUnmoved, RunRead, RunWrite, ReportJob, NotifyDone, NotifyUnblock, NotifyReturn
      <4>2. UNCHANGED workerVars
        BY <2>3, <4>1, SamePlace
      <4> QED
        BY <1>5, <2>3, <4>2 DEF workerVars
    <3> QED
      BY <3>1, <3>2
  <2> QED
    BY <1>1, <1>5, <2>2, <2>3 DEF Registered
<1> QED
  BY <1>1, <1>3, <1>4, <1>5, BlockersKept

-----------------------------------------------------------------------------
(* A blocker has not ended, or is ending and will notify, or has left an   *)
(* out-argument of some impossible update busy, or one another program     *)
(* fills.  While the report of an evaluation is awaited, the out-arguments *)
(* it found busy still are.                                                *)
Awaited(a) == ~IsReady(data, a) \/ a \in Writable

NoticedBusy ==
  pc = "report" /\ report = "Impossible" =>
    \A a \in OutArgs(JobUpdate) : JobObject.availability[a] = "Ready" \/ Awaited(a)

Waits(h, b) ==
  \E d \in step[h].queues["Impossible"] : \E a \in OutArgs(Content(step[h], d)) : StepOf[a] = b /\ Awaited(a)

Live(b) == current[b] # 0 /\ step[<<b, current[b]>>].status # "Done"

Pending(h, b) ==
  \/ pc = "done" /\ StepId(job.step) = b
  \/ pc = "notify" /\ \E i \in 1..Len(stack) : stack[i].done = b /\ h \in stack[i].todo

Blocking == \A h \in Mapped : \A b \in step[h].blockers : Waits(h, b) \/ Live(b) \/ Pending(h, b)

LEMMA NoticedStep ==
  TypeInv /\ TaskInv /\ HandMapped /\ TheirSteps /\ FiledElsewhere /\ NoticedBusy /\ [Next]_vars
    => NoticedBusy'
<1> SUFFICES ASSUME TypeInv, TaskInv, HandMapped, TheirSteps, FiledElsewhere, NoticedBusy, [Next]_vars,
                    pc' = "report", report' = "Impossible", NEW a \in OutArgs(JobUpdate')
             PROVE  JobObject'.availability[a] = "Ready" \/ ~IsReady(data', a) \/ a \in Writable
  BY DEF NoticedBusy, Awaited
<1>1. CASE Run
  <2>1. ~RunReady /\ ~RunUnmoved /\ ~RunRead /\ ~RunWrite
    BY DEF RunReady, RunUnmoved, RunRead, RunWrite, Evaluated, ReportOf
  <2>2. RunImpossible
    BY <1>1, <2>1 DEF Run
  <2>3. /\ JobUpdate \in UpdateId /\ JobObject \in Object /\ job' = job /\ data' = data
        /\ upd' = [upd EXCEPT ![JobUpdate] = NoteAvailability(JobObject, data, OutArgs(JobUpdate))]
    BY <2>2, JobType DEF RunImpossible, Evaluated, TypeInv, WorkerOK
  <2>4. JobUpdate' = JobUpdate /\ a \in OutArgs(JobUpdate) /\ a \in DI
    BY <2>3, ArgsType DEF JobUpdate
  <2>5. JobObject' = NoteAvailability(JobObject, data, OutArgs(JobUpdate))
    BY <2>3, <2>4 DEF JobObject, TypeInv, TypeOK
  <2>6. JobObject'.availability[a] = data[a].avail
    BY <2>3, <2>4, <2>5 DEF NoteAvailability, Object
  <2> QED
    BY <2>3, <2>6 DEF IsReady
<1>2. CASE ~Run
  <2>1. UNCHANGED workerVars /\ ~Worker
    <3>1. Worker => pc' # "report"
      BY <1>2 DEF Worker, TestInteraction, Wait, GetOne, ReportJob, ReportStatus, AfterReport, NotifyDone,
           NotifyUnblock, NotifyReturn, RegisterBlocked
    <3> QED
      BY <3>1, SamePlace
  <2>2. pc = "report" /\ report = "Impossible" /\ job' = job /\ job \in Task
    BY <2>1 DEF workerVars, TypeInv, WorkerOK
  <2>3. /\ JobUpdate' = JobUpdate /\ JobUpdate \in UpdateId /\ JobObject \in Object
        /\ Result(JobUpdate) = job.of /\ a \in DI
    BY <2>2, JobType, ArgsType DEF JobUpdate, TypeInv
  <2>4. JobObject.availability[a] = "Ready" \/ ~IsReady(data, a) \/ a \in Writable
    BY <2>2, <2>3 DEF NoticedBusy, Awaited
  <2>5. JobObject' = upd'[JobUpdate]
    BY <2>3 DEF JobObject
  <2>6. CASE UNCHANGED <<data, upd>>
    BY <2>3, <2>4, <2>6 DEF JobObject, IsReady
  <2>7. ASSUME NEW c \in Client, NEW d \in Ruled, Declare(c, d)
        PROVE  data' = data /\ upd'[JobUpdate] = upd[JobUpdate]
    <3> DEFINE t == StepOf[d]
               s == IF current[t] # 0 THEN step[<<t, ObjectOf(t)>>] ELSE NewTimeStep
    <3>1. /\ data' = data
          /\ \/ upd' = upd
             \/ d \notin s.variables /\ upd' = [u \in UpdateId |-> IF Result(u) = d THEN NewObject ELSE upd[u]]
      BY <2>7 DEF Declare
    <3>2. CASE d = job.of
      <4>1. /\ job \in InHand
            /\ job.step \in Mapped /\ job.step \in Handle /\ d \in step[job.step].variables
        BY <2>2, <3>2, InHandParts DEF InHand
      <4>2. StepOf[d] = StepId(job.step)
        BY <4>1 DEF TheirSteps
      <4>3. current[t] # 0 /\ job.step = <<t, current[t]>>
        BY <4>1, <4>2, HandleParts
      <4>4. d \in s.variables
        BY <4>1, <4>3 DEF ObjectOf
      <4> QED
        BY <3>1, <4>4
    <3>3. CASE d # job.of
      <4> HIDE DEF s
      <4> QED
        BY <2>3, <3>1, <3>3
    <3> QED
      BY <3>1, <3>2, <3>3
  <2>8. ASSUME NEW c \in Client, Ping(c)
        PROVE  JobObject'.availability[a] = "Ready" \/ ~IsReady(data', a) \/ a \in Writable
    <3>1. upd'[JobUpdate] = JobObject \/ upd'[JobUpdate] = NoteFiled(JobUpdate)
      BY <2>3, <2>8 DEF Ping, JobObject
    <3>2. NoteFiled(JobUpdate).availability[a] \in {JobObject.availability[a], "Ready"}
      BY <2>3 DEF NoteFiled, JobObject, Object
    <3>3. data'[a] = data[a] \/ file[a] # NoValue
      BY <2>3, <2>8 DEF Ping, Synced
    <3>4. a \notin Writable /\ file[a] # NoValue => IsReady(data, a)
      BY <2>3 DEF FiledElsewhere
    <3> QED
      BY <2>4, <2>5, <3>1, <3>2, <3>3, <3>4 DEF IsReady
  <2>9. ASSUME NEW d \in DI, WriteFile(d)
        PROVE  JobObject'.availability[a] = "Ready" \/ ~IsReady(data', a) \/ a \in Writable
    <3>1. upd' = upd /\ (a # d => data'[a] = data[a]) /\ d \in Writable
      BY <2>3, <2>9 DEF WriteFile, TypeInv, TypeOK
    <3> QED
      BY <2>4, <2>5, <3>1 DEF JobObject, IsReady
  <2>10. \/ UNCHANGED <<data, upd>>
         \/ \E c \in Client : Ping(c) \/ \E d \in Ruled : Declare(c, d)
         \/ \E d \in DI : WriteFile(d)
    <3>1. CASE SpuriousWake \/ UNCHANGED vars
      BY <3>1 DEF SpuriousWake, vars, dataVars
    <3>2. ASSUME NEW c \in Client, ClientStep(c)
          PROVE  Ping(c) \/ (\E d \in Ruled : Declare(c, d)) \/ UNCHANGED <<data, upd>>
      BY <3>2 DEF ClientStep, Open, Close, Notify, dataVars
    <3> QED
      BY <2>1, <3>1, <3>2 DEF Next
  <2>11. CASE \E c \in Client, d \in Ruled : Declare(c, d)
    BY <2>4, <2>5, <2>7, <2>11 DEF JobObject, IsReady
  <2> QED
    BY <2>6, <2>8, <2>9, <2>10, <2>11
<1> QED
  BY <1>1, <1>2

(* One turn of the loop of notify_done. *)
Notified(g) ==
  LET s == Unblock(step[g], Top.done)
      n == Len(stack)
  IN  /\ g \in Handle /\ g \in Top.todo /\ pc = "notify" /\ pc' = "notify"
      /\ \A h \in Handle : h # g => step'[h] = step[h]
      /\ Len(stack') >= n
      /\ \A i \in 1..n : i # n => stack'[i] = stack[i]
      /\ stack'[n].done = Top.done /\ stack'[n].todo = Top.todo \ {g}
      /\ \/ /\ step'[g] = s /\ data' = data
         \/ /\ step'[g] = UpdateStatus(s, data) /\ SetReady(SetReadyBy(s, data))
            /\ Terminates(s, data) => Len(stack') = n + 1 /\ stack'[n + 1] = Frame(StepId(g))

LEMMA NotifyUnblockParts ==
  ASSUME TypeInv, NotifyUnblock
  PROVE  \E g \in Top.todo : Notified(g)
<1> DEFINE n == Len(stack)
           S(g) == Unblock(step[g], Top.done)
           Rest(g) == [stack EXCEPT ![n].todo = @ \ {g}]
<1>1. pc = "notify" /\ pc' = "notify" /\ stack \in Seq(Call)
  BY DEF NotifyUnblock, TypeInv, TypeOK, Call
<1>2. n \in Nat \ {0} /\ Top \in Call /\ Top.todo \subseteq Handle
  BY <1>1, TopType
<1>3. PICK g \in Top.todo :
        \/ step' = [step EXCEPT ![g] = S(g)] /\ stack' = Rest(g) /\ data' = data
        \/ /\ step' = [step EXCEPT ![g] = UpdateStatus(S(g), data)]
           /\ SetReady(SetReadyBy(S(g), data))
           /\ stack' = IF Terminates(S(g), data) THEN Append(Rest(g), Frame(StepId(g))) ELSE Rest(g)
  BY DEF NotifyUnblock, Top
<1>4. g \in Handle
  BY <1>2, <1>3
<1> DEFINE s == S(g)
           r == Rest(g)
           f == Frame(StepId(g))
<1>5. /\ Len(r) = n /\ r \in Seq(Call)
      /\ \A i \in 1..n : i # n => r[i] = stack[i]
      /\ r[n].done = Top.done /\ r[n].todo = Top.todo \ {g}
  <2> DEFINE e == [Top EXCEPT !.todo = @ \ {g}]
  <2>1. e \in Call /\ e.done = Top.done /\ e.todo = Top.todo \ {g}
    BY <1>2 DEF Call
  <2>2. r = [stack EXCEPT ![n] = e]
    BY DEF Top
  <2>3. n \in 1..Len(stack)
    BY <1>2
  <2> HIDE DEF e, r, n
  <2>4. r \in Seq(Call) /\ Len(r) = Len(stack) /\ \A j \in 1..Len(stack) : r[j] = IF j = n THEN e ELSE stack[j]
    BY <1>1, <2>1, <2>2, <2>3, ExceptSeq
  <2> QED
    BY <2>1, <2>3, <2>4 DEF n
<1>6. f \in Call
  BY <1>4, FrameType, HandleType DEF TypeInv
<1> HIDE DEF n, r, s, f
<1>7. LET q == Append(r, f)
      IN  /\ Len(q) = n + 1 /\ q[n + 1] = f
          /\ \A i \in 1..n : q[i] = r[i]
  BY <1>2, <1>5, <1>6
<1>8. step \in [Handle -> TimeStepRecord]
  BY DEF TypeInv, TypeOK
<1>9. \/ step' = [step EXCEPT ![g] = s] /\ stack' = r /\ data' = data
      \/ /\ step' = [step EXCEPT ![g] = UpdateStatus(s, data)]
         /\ SetReady(SetReadyBy(s, data))
         /\ stack' = IF Terminates(s, data) THEN Append(r, f) ELSE r
  BY <1>3 DEF s, r, f
<1>10. /\ Len(stack') >= n
       /\ \A i \in 1..n : i # n => stack'[i] = stack[i]
       /\ stack'[n].done = Top.done /\ stack'[n].todo = Top.todo \ {g}
  <2>1. n \in 1..n
    BY <1>2
  <2>2. CASE stack' = r
    BY <1>2, <1>5, <2>2
  <2>3. CASE stack' = Append(r, f)
    BY <1>2, <1>5, <1>7, <2>1, <2>3
  <2> QED
    BY <1>9, <2>2, <2>3
<1>11. /\ \A h \in Handle : h # g => step'[h] = step[h]
       /\ \/ step'[g] = s /\ data' = data
          \/ /\ step'[g] = UpdateStatus(s, data) /\ SetReady(SetReadyBy(s, data))
             /\ Terminates(s, data) => Len(stack') = n + 1 /\ stack'[n + 1] = f
  BY <1>4, <1>7, <1>8, <1>9
<1> QED
  BY <1>1, <1>3, <1>4, <1>10, <1>11 DEF Notified, n, s, f

CenterInv == TheirSteps /\ HandMapped /\ HandPhase /\ IdleInv /\ ReportedImpossible /\ Registered
             /\ NoticedBusy /\ Blocking

(* The end of the timestep of g makes its blockees' notifications pending. *)
LEMMA EndPending ==
  ASSUME TypeInv, Registered, NEW h \in Mapped, NEW b \in step[h].blockers,
         NEW g, Notified(g), StepId(g) = b,
         Len(stack') = Len(stack) + 1, stack'[Len(stack) + 1] = Frame(StepId(g))
  PROVE  Pending(h, b)'
<1>1. pc' = "notify" /\ pc = "notify" /\ stack'[Len(stack) + 1] = Frame(b)
  BY DEF Notified
<1>2. h \in blockees[b]
  BY <1>1 DEF Registered
<1>3. Len(stack) \in Nat
  BY <1>1, TopType
<1>4. Len(stack) + 1 \in 1..Len(stack')
  BY <1>1, <1>3
<1>5. stack'[Len(stack) + 1].done = b /\ h \in stack'[Len(stack) + 1].todo
  BY <1>1, <1>2 DEF Frame
<1> QED
  BY <1>1, <1>4, <1>5 DEF Pending

(* When a value becomes ready, its timestep goes on or is about to notify. *)
LEMMA ReadyTells ==
  ASSUME TypeInv, TaskInv, CenterInv, FiledElsewhere, [Next]_vars,
         NEW h \in Mapped, NEW b \in step[h].blockers, NEW a \in DI \ Writable, StepOf[a] = b,
         ~IsReady(data, a), IsReady(data', a)
  PROVE  Live(b)' \/ Pending(h, b)'
<1>c. "Confirmed" \in Queue
  BY DEF Queue
<1>1. CASE RunWrite
  <2>1. pc = "write" /\ job \in InHand /\ UNCHANGED stepVars
    BY <1>1 DEF RunWrite, Evaluated, InHand
  <2>2. a = job.of
    <3>1. \E res : data' = [data EXCEPT ![job.of] = res]
      BY <1>1 DEF RunWrite
    <3> QED
      BY <3>1 DEF TypeInv, TypeOK, IsReady
  <2>3. /\ job.step \in Mapped /\ job.step \in Handle
        /\ a \in step[job.step].taken /\ a \in step[job.step].variables
    BY <2>1, <2>2, InHandParts DEF CenterInv
  <2>4. b = StepId(job.step) /\ step[job.step].status # "Done"
    BY <2>3 DEF CenterInv, TheirSteps, IdleInv, DoneIdle
  <2>5. current[b] # 0 /\ job.step = <<b, current[b]>>
    BY <2>3, <2>4, HandleParts
  <2> QED
    BY <2>1, <2>4, <2>5 DEF Live, stepVars
<1>2. CASE ReportStatus
  <2>1. job.step \in Handle /\ pc' = (IF Terminates(step[job.step], data) THEN "done" ELSE AfterReport)
        /\ SetReady(SetReadyBy(step[job.step], data)) /\ job' = job
    BY <1>2 DEF ReportStatus, TypeInv, WorkerOK, Task
  <2>2. a \in SetReadyBy(step[job.step], data)
    BY <2>1 DEF SetReady, NowReady, IsReady
  <2>3. Terminates(step[job.step], data) /\ a \in step[job.step].queues["Confirmed"]
    BY <2>2 DEF SetReadyBy
  <2>4. a \in step[job.step].variables
    BY <1>c, <2>1, <2>3 DEF TaskInv, Placed
  <2>5. StepId(job.step) = b
    BY <2>1, <2>4 DEF CenterInv, TheirSteps
  <2> QED
    BY <2>1, <2>3, <2>5 DEF Pending
<1>3. CASE NotifyUnblock
  <2>1. PICK g \in Top.todo : Notified(g)
    BY <1>3, NotifyUnblockParts
  <2> DEFINE s == Unblock(step[g], Top.done)
  <2>2. SetReady(SetReadyBy(s, data)) /\ (Terminates(s, data) => Len(stack') = Len(stack) + 1 /\ stack'[Len(stack) + 1] = Frame(StepId(g)))
    BY <2>1 DEF Notified
  <2>3. a \in SetReadyBy(s, data)
    BY <2>2 DEF SetReady, NowReady, IsReady
  <2>4. g \in Handle /\ s.queues = step[g].queues
    BY <2>1, UnblockEffect DEF Notified, TypeInv, TypeOK
  <2>5. Terminates(s, data) /\ a \in step[g].queues["Confirmed"]
    BY <2>3, <2>4 DEF SetReadyBy
  <2>6. a \in step[g].variables
    BY <1>c, <2>4, <2>5 DEF TaskInv, Placed
  <2>7. StepId(g) = b
    BY <2>4, <2>6 DEF CenterInv, TheirSteps
  <2> HIDE DEF s
  <2> QED
    BY <2>1, <2>2, <2>5, <2>7, EndPending DEF CenterInv
<1>4. ASSUME NEW c \in Client, Ping(c) PROVE FALSE
  BY <1>4 DEF Ping, Synced, FiledElsewhere, IsReady
<1>5. ASSUME NEW d \in DI, WriteFile(d) PROVE FALSE
  BY <1>5 DEF WriteFile, TypeInv, TypeOK, IsReady
<1>6. CASE UNCHANGED <<data, file>>
  BY <1>6 DEF IsReady
<1> QED
  BY <1>1, <1>2, <1>3, <1>4, <1>5, <1>6, FileActions

(* When a blocker ends, it is about to notify. *)
LEMMA EndTells ==
  ASSUME TypeInv, TaskInv, CenterInv, [Next]_vars,
         NEW h \in Mapped, NEW b \in step[h].blockers, b \in TS, Live(b), ~Live(b)'
  PROVE  Pending(h, b)'
<1> DEFINE k == <<b, current[b]>>
<1>1. k \in Handle /\ StepId(k) = b /\ k \in Mapped /\ step[k].status # "Done" /\ current[b] # 0
  <2>1. current[b] \in 1..MaxObjects
    BY CenterAssumption DEF Live, TypeInv, TypeOK
  <2> QED
    BY <2>1 DEF Live, Handle, StepId, Mapped
<1>2. k \in Mapped'
  BY <1>1, NextMapped
<1>3. current'[b] = current[b]
  BY <1>1, <1>2 DEF Mapped
<1>4. step'[k].status = "Done"
  BY <1>1, <1>3 DEF Live
<1> HIDE DEF k
<1>5. Changed(k) /\ step[k] \in TimeStepRecord
  BY <1>1, NextChanged DEF TypeInv, TypeOK
<1>6. CASE ReportStatus /\ k = job.step /\ step'[k] = UpdateStatus(step[k], data)
  <2>1. Terminates(step[k], data)
    BY <1>4, <1>5, <1>6, UpdatedFields
  <2> QED
    BY <1>1, <1>6, <2>1 DEF ReportStatus, Pending
<1>7. CASE NotifyUnblock
  <2>1. PICK g \in Top.todo : Notified(g)
    BY <1>7, NotifyUnblockParts
  <2>2. g = k
    BY <1>1, <1>4, <2>1 DEF Notified
  <2> DEFINE s == Unblock(step[k], Top.done)
  <2>3. s \in TimeStepRecord /\ s.status = step[k].status
    BY <1>5, UnblockEffect
  <2>4. /\ step'[k] = UpdateStatus(s, data)
        /\ Terminates(s, data) => Len(stack') = Len(stack) + 1 /\ stack'[Len(stack) + 1] = Frame(StepId(k))
    <3>1. step'[k] # s
      BY <1>1, <1>4, <2>3
    <3> QED
      BY <2>1, <2>2, <3>1 DEF Notified
  <2> HIDE DEF s
  <2>5. Terminates(s, data)
    BY <1>4, <2>3, <2>4, UpdatedFields
  <2> QED
    BY <1>1, <2>1, <2>2, <2>4, <2>5, EndPending DEF CenterInv
<1>8. CASE GetOne /\ step'[k] = TakeJobs(CheckUnbound(step[k], data))
  BY <1>1, <1>4, <1>5, <1>8, TakenFields
<1>9. CASE ReportJob /\ k = job.step /\ step'[k] = Requeue(step[k], job.of, job.source, report, BlockersOf(JobUpdate, JobObject))
  BY <1>1, <1>4, <1>5, <1>9, ReportJobParts, RequeueEffect
<1>10. ASSUME NEW d \in Ruled, step'[k] = Add(step[k], d) PROVE FALSE
  <2>1. CASE d \in step[k].variables
    BY <1>1, <1>4, <1>10, <2>1 DEF Add
  <2>2. CASE d \notin step[k].variables
    BY <1>1, <1>4, <1>5, <1>10, <2>2, AddEffect
  <2> QED
    BY <2>1, <2>2
<1>11. CASE step'[k] = ClearBlockingInfo(step[k])
  BY <1>4, <1>5, <1>11, ClearEffect
<1>12. CASE step'[k] = [step[k] EXCEPT !.new_blockers = {}]
  BY <1>1, <1>4, <1>5, <1>12 DEF TimeStepRecord
<1> QED
  BY <1>1, <1>4, <1>5, <1>6, <1>7, <1>8, <1>9, <1>10, <1>11, <1>12 DEF Changed

(* A pending notification stays so until it is given. *)
LEMMA PendingKept ==
  ASSUME TypeInv, TaskInv, CenterInv, [Next]_vars,
         NEW h \in Mapped, NEW b \in step[h].blockers, b \in step'[h].blockers, h \in Handle,
         Pending(h, b)
  PROVE  Pending(h, b)'
<1>1. CASE NotifyDone
  <2>1. pc = "done" /\ pc' = "notify" /\ stack' = <<Frame(StepId(job.step))>>
    BY <1>1 DEF NotifyDone
  <2>2. StepId(job.step) = b /\ h \in blockees[b]
    BY <2>1 DEF Pending, CenterInv, Registered
  <2>3. 1 \in 1..Len(stack') /\ stack'[1] = Frame(b)
    BY <2>1, <2>2
  <2>4. stack'[1].done = b /\ h \in stack'[1].todo
    BY <2>2, <2>3 DEF Frame
  <2> QED
    BY <2>1, <2>3, <2>4 DEF Pending
<1>2. CASE NotifyUnblock
  <2>1. PICK g \in Top.todo : Notified(g)
    BY <1>2, NotifyUnblockParts
  <2>2. pc = "notify" /\ pc' = "notify" /\ Len(stack') >= Len(stack)
    BY <2>1 DEF Notified
  <2>3. PICK i \in 1..Len(stack) : stack[i].done = b /\ h \in stack[i].todo
    BY <2>2 DEF Pending
  <2>4. Len(stack) \in Nat /\ Len(stack') \in Nat
    <3>1. stack \in Seq(Call) /\ stack' \in Seq(Call)
      BY NextTypeInv DEF TypeInv, TypeOK, Call
    <3> QED
      BY <3>1
  <2>5. i \in 1..Len(stack')
    BY <2>2, <2>4
  <2>6. stack'[i].done = b /\ h \in stack'[i].todo
    <3>1. CASE i # Len(stack)
      BY <2>1, <2>3, <3>1 DEF Notified
    <3>2. CASE i = Len(stack)
      <4>1. stack'[i].done = Top.done /\ stack'[i].todo = Top.todo \ {g} /\ Top = stack[i]
        BY <2>1, <3>2 DEF Notified, Top
      <4>2. h # g
        <5> SUFFICES ASSUME h = g PROVE FALSE
          OBVIOUS
        <5>1. step[h] \in TimeStepRecord
          BY DEF TypeInv, TypeOK
        <5>2. Unblock(step[h], Top.done) \in TimeStepRecord /\ b \notin Unblock(step[h], Top.done).blockers
          BY <2>3, <4>1, <5>1, UnblockEffect
        <5>3. step'[h] = Unblock(step[h], Top.done) \/ step'[h] = UpdateStatus(Unblock(step[h], Top.done), data)
          BY <2>1 DEF Notified
        <5> QED
          BY <5>2, <5>3, UpdatedFields
      <4> QED
        BY <2>3, <4>1, <4>2
    <3> QED
      BY <3>1, <3>2
  <2> QED
    BY <2>2, <2>5, <2>6 DEF Pending
<1>3. CASE NotifyReturn
  <2>1. /\ pc = "notify" /\ Top.todo = {} /\ stack' = SubSeq(stack, 1, Len(stack) - 1)
        /\ pc' = IF Len(stack) = 1 THEN AfterReport ELSE "notify"
    BY <1>3 DEF NotifyReturn, Top
  <2>2. PICK i \in 1..Len(stack) : stack[i].done = b /\ h \in stack[i].todo
    BY <2>1 DEF Pending
  <2>3. i # Len(stack) /\ Len(stack) \in Nat /\ stack \in Seq(Call)
    BY <2>1, <2>2, TopType DEF Top, TypeInv, TypeOK, Call
  <2>4. Len(stack) # 1 /\ i \in 1..(Len(stack) - 1)
    <3> DEFINE n == Len(stack)
    <3>1. i \in 1..n /\ i # n /\ n \in Nat
      BY <2>2, <2>3
    <3> SUFFICES n # 1 /\ i \in 1..(n - 1)
      OBVIOUS
    <3> HIDE DEF n
    <3> QED
      BY <3>1
  <2>5. Len(stack') = Len(stack) - 1 /\ stack'[i] = stack[i]
    <3> DEFINE m == Len(stack) - 1
    <3>1. m \in Int /\ 1 \in Int /\ 1 <= m /\ i \in 1..m /\ 1 + i - 1 = i /\ m - 1 + 1 = m
      BY <2>3, <2>4
    <3>2. \A j \in 1..m : stack[j] \in Call
      BY <2>3
    <3>3. m = Len(stack) - 1
      OBVIOUS
    <3> HIDE DEF m
    <3>4. Len(SubSeq(stack, 1, m)) = m /\ SubSeq(stack, 1, m)[i] = stack[i]
      BY <3>1, <3>2, SubSeqProperties
    <3> QED
      BY <2>1, <3>3, <3>4
  <2> QED
    BY <2>1, <2>2, <2>4, <2>5 DEF Pending
<1>4. CASE ~NotifyDone /\ ~NotifyUnblock /\ ~NotifyReturn
  <2>1. pc \in {"done", "notify"}
    BY DEF Pending
  <2>2. ~Worker
    BY <1>4, <2>1 DEF Worker, TestInteraction, Wait, GetOne, Run, RunReady, RunImpossible, RunUnmoved,
       RunRead, RunWrite, ReportJob, ReportStatus, RegisterBlocked
  <2>3. UNCHANGED <<pc, job, stack>>
    BY <2>1, <2>2, SamePlace DEF workerVars
  <2> QED
    BY <2>3 DEF Pending
<1> QED
  BY <1>1, <1>2, <1>3, <1>4

(* An impossible update stays so as long as its timestep is blocked.       *)
LEMMA ImpossibleKept ==
  ASSUME TypeInv, TaskInv, [Next]_vars, NEW h \in Mapped, NEW b \in step[h].blockers,
         b \in step'[h].blockers, NEW d \in step[h].queues["Impossible"]
  PROVE  /\ d \in step'[h].queues["Impossible"] /\ d \in step[h].variables
         /\ ~(ReportJob /\ h = job.step /\ d = job.of)
<1>q. {"New", "Unstable", "Impossible", "Stable", "Confirmed"} \subseteq Queue
  BY DEF Queue
<1>1. h \in Handle /\ step[h] \in TimeStepRecord /\ Changed(h) /\ current[StepId(h)] # 0 /\ Placed(step[h])
  BY NextChanged, HandleParts DEF Mapped, TypeInv, TypeOK, TaskInv
<1>2. d \in step[h].variables /\ d \notin step[h].taken
  <2>1. step[h].queues["Impossible"] \subseteq step[h].variables
    BY <1>q, <1>1 DEF Placed
  <2>2. step[h].queues["Impossible"] \cap step[h].queues["Unstable"] = {}
    BY <1>q, <1>1 DEF Placed
  <2>3. step[h].queues["Impossible"] \cap step[h].queues["Stable"] = {}
    BY <1>q, <1>1 DEF Placed
  <2>4. step[h].taken \subseteq step[h].queues["Unstable"] \cup step[h].queues["Stable"]
    BY <1>1 DEF Placed
  <2> QED
    BY <2>1, <2>2, <2>3, <2>4
<1>3. ~(ReportJob /\ h = job.step /\ d = job.of)
  BY <1>2, ReportJobParts
<1>4. d \in step'[h].queues["Impossible"]
  <2>1. CASE step'[h].queues["Impossible"] = step[h].queues["Impossible"]
    BY <2>1
  <2>2. CASE GetOne /\ step'[h] = TakeJobs(CheckUnbound(step[h], data))
    BY <1>1, <2>2, TakenFields
  <2>3. CASE ReportJob /\ h = job.step /\ step'[h] = Requeue(step[h], job.of, job.source, report, BlockersOf(JobUpdate, JobObject))
    <3>1. \/ \E to : MovedTo(step'[h], step[h], job.of, to)
          \/ Dropped(step'[h], step[h], job.of)
      BY <2>3, ReportJobParts, RequeueEffect
    <3>2. d # job.of
      BY <1>3, <2>3
    <3> QED
      BY <1>q, <3>1, <3>2 DEF MovedTo, Dropped
  <2>4. CASE step'[h] = UpdateStatus(step[h], data)
    BY <1>1, <2>4, UpdatedFields
  <2>5. CASE step'[h] = Unblock(step[h], Top.done)
    BY <1>1, <2>5, UnblockEffect
  <2>6. CASE step'[h] = UpdateStatus(Unblock(step[h], Top.done), data)
    <3> DEFINE s == Unblock(step[h], Top.done)
    <3>1. s \in TimeStepRecord /\ s.queues = step[h].queues
      BY <1>1, UnblockEffect
    <3>2. step'[h] = UpdateStatus(s, data)
      BY <2>6
    <3> HIDE DEF s
    <3>3. s.blockers # {}
      BY <3>1, <3>2, UpdatedFields
    <3> QED
      BY <3>1, <3>2, <3>3, UpdatedFields
  <2>7. ASSUME NEW e \in Ruled, step'[h] = Add(step[h], e) PROVE d \in step'[h].queues["Impossible"]
    <3>1. CASE e \in step[h].variables
      BY <2>7, <3>1 DEF Add
    <3>2. CASE e \notin step[h].variables
      BY <1>q, <1>1, <2>7, <3>2, AddEffect
    <3> QED
      BY <3>1, <3>2
  <2>8. CASE step'[h] = ClearBlockingInfo(step[h])
    BY <1>1, <2>8, ClearEffect
  <2>9. CASE step'[h] = [step[h] EXCEPT !.new_blockers = {}]
    BY <1>1, <2>9 DEF TimeStepRecord
  <2> QED
    BY <1>1, <2>1, <2>2, <2>3, <2>4, <2>5, <2>6, <2>7, <2>8, <2>9 DEF Changed
<1> QED
  BY <1>2, <1>3, <1>4

(* The part of the rule that is to be run stays the same. *)
LEMMA ContentKept ==
  ASSUME TypeInv, TaskInv, [Next]_vars, NEW h \in Mapped, NEW x \in step[h].variables,
         ~(ReportJob /\ h = job.step /\ x = job.of)
  PROVE  Content(step'[h], x) = Content(step[h], x)
<1>1. x \in step'[h].inits <=> x \in step[h].inits
  BY InitsKept
<1> QED
  BY <1>1 DEF Content

(* A timestep that waits for a value goes on to do so, until that value is *)
(* ready.                                                                  *)
LEMMA WaitsKept ==
  ASSUME TypeInv, TaskInv, CenterInv, FiledElsewhere, [Next]_vars,
         NEW h \in Mapped, NEW b \in step[h].blockers, b \in step'[h].blockers, Waits(h, b)
  PROVE  Waits(h, b)' \/ Live(b)' \/ Pending(h, b)'
<1>1. PICK d \in step[h].queues["Impossible"] : \E a \in OutArgs(Content(step[h], d)) : StepOf[a] = b /\ Awaited(a)
  BY DEF Waits
<1>2. PICK a \in OutArgs(Content(step[h], d)) : StepOf[a] = b /\ Awaited(a)
  BY <1>1
<1>3. d \in step'[h].queues["Impossible"] /\ d \in step[h].variables
      /\ ~(ReportJob /\ h = job.step /\ d = job.of)
  BY ImpossibleKept
<1>4. Content(step'[h], d) = Content(step[h], d)
  BY <1>3, ContentKept
<1>5. a \in DI
  <2>1. h \in Handle /\ step[h] \in TimeStepRecord
    BY DEF Mapped, TypeInv, TypeOK
  <2>2. d \in Ruled
    BY <1>3, <2>1 DEF TimeStepRecord
  <2>3. Content(step[h], d) \in UpdateId
    BY <2>2, ConstantsAssumption DEF Content, UpdateId, Phase
  <2> QED
    BY <1>2, <2>3, ArgsType
<1>6. CASE Awaited(a)'
  BY <1>2, <1>3, <1>4, <1>6 DEF Waits
<1>7. CASE ~Awaited(a)'
  <2>1. a \in DI \ Writable /\ ~IsReady(data, a) /\ IsReady(data', a)
    BY <1>2, <1>5, <1>7 DEF Awaited
  <2> QED
    BY <1>2, <2>1, ReadyTells
<1> QED
  BY <1>6, <1>7

(* The update that has just been found impossible waits for its blockers.  *)
LEMMA ReportWaits ==
  ASSUME TypeInv, TaskInv, CenterInv, [Next]_vars, NEW h \in Mapped,
         ReportJob, h = job.step, report = "Impossible", NEW b \in BlockersOf(JobUpdate, JobObject)
  PROVE  Waits(h, b)'
<1>1. /\ h \in Handle /\ step[h] \in TimeStepRecord /\ Placed(step[h]) /\ job.of \in step[h].taken
      /\ BlockersOf(JobUpdate, JobObject) \in SUBSET TS /\ job \in InHand
  BY ReportJobParts DEF InHand
<1>2. step'[h] = Requeue(step[h], job.of, job.source, report, BlockersOf(JobUpdate, JobObject))
  BY <1>1 DEF ReportJob, TypeInv, TypeOK
<1>3. MovedTo(step'[h], step[h], job.of, "Impossible") /\ step'[h].inits = step[h].inits
  BY <1>1, <1>2, RequeueEffect
<1>4. job.of \in step'[h].queues["Impossible"]
  BY <1>3 DEF MovedTo, Queue
<1>5. Content(step'[h], job.of) = JobUpdate
  BY <1>1, <1>3 DEF CenterInv, HandPhase, Content, JobUpdate
<1>6. PICK a \in OutArgs(JobUpdate) : StepOf[a] = b /\ JobObject.availability[a] # "Ready"
  BY DEF BlockersOf
<1>7. Awaited(a)'
  <2>1. data' = data
    BY DEF ReportJob, dataVars
  <2> QED
    BY <1>6, <2>1 DEF CenterInv, NoticedBusy, ReportJob, Awaited, IsReady
<1> QED
  BY <1>4, <1>5, <1>6, <1>7 DEF Waits

LEMMA BlockingStep ==
  TypeInv /\ TypeInv' /\ TaskInv /\ CenterInv /\ FiledElsewhere /\ [Next]_vars => Blocking'
<1> SUFFICES ASSUME TypeInv, TypeInv', TaskInv, CenterInv, FiledElsewhere, [Next]_vars,
                    NEW h \in Mapped', NEW b \in step'[h].blockers
             PROVE  Waits(h, b)' \/ Live(b)' \/ Pending(h, b)'
  BY DEF Blocking
<1>1. h \in Handle
  BY DEF Mapped
<1>2. h \in Mapped
  BY <1>1, NextMapped, BuiltFields
<1>3. CASE b \notin step[h].blockers
  BY <1>2, <1>3, BlockersKept, ReportWaits
<1>4. CASE b \in step[h].blockers
  <2>1. b \in TS
    BY <1>1, <1>4 DEF TypeInv, TypeOK, TimeStepRecord
  <2>2. Waits(h, b) \/ Live(b) \/ Pending(h, b)
    BY <1>2, <1>4 DEF CenterInv, Blocking
  <2> QED
    BY <1>1, <1>2, <1>4, <2>1, <2>2, WaitsKept, EndTells, PendingKept
<1> QED
  BY <1>3, <1>4

LEMMA CenterInit == Init => CenterInv
<1> SUFFICES ASSUME Init PROVE CenterInv
  OBVIOUS
<1>1. Mapped = {}
  <2> SUFFICES ASSUME NEW h \in Handle PROVE current[StepId(h)] # h[2]
    BY DEF Mapped
  <2> QED
    BY HandleParts DEF Init
<1>2. \A h \in Handle : step[h] = NewTimeStep
  BY DEF Init
<1>3. NewTimeStep.variables = {} /\ NewTimeStep.status = "Relaxing" /\ NewTimeStep.queues["Confirmed"] = {}
  BY DEF NewTimeStep, Queue
<1>4. pc = "loop" /\ tasks = {} /\ InHand = {}
  BY DEF Init, InHand, WithJob
<1> QED
  BY <1>1, <1>2, <1>3, <1>4 DEF CenterInv, TheirSteps, HandMapped, Working, HandPhase, IdleInv, DoneIdle,
     ReportedImpossible, Registered, NoticedBusy, Blocking

LEMMA CenterStep ==
  TypeInv /\ TypeInv' /\ TaskInv /\ TaskInv' /\ FiledElsewhere /\ CenterInv /\ [Next]_vars => CenterInv'
BY TheirStepsStep, HandMappedStep, HandPhaseStep, IdleStep, ReportedStep, RegisteredStep, NoticedStep,
   BlockingStep DEF CenterInv

(* No notification of the end of a timestep is lost: when the worker       *)
(* sleeps, a blocked timestep is registered with each of its blockers, and *)
(* a blocker that has left the map of the server left the out-argument of  *)
(* some impossible update busy, or one that another program fills          *)
(* (notify_done and notify_blocked, cxsomJobs.hpp).                        *)
THEOREM UnblockNotLost == Spec => []NoLostUnblock
<1>1. TypeInv /\ CenterInv => NoLostUnblock
  <2> SUFFICES ASSUME TypeInv, CenterInv, pc = "wait", NEW h \in Mapped, NEW b \in step[h].blockers
               PROVE  /\ h \in blockees[b]
                      /\ current[b] = 0 => \E d \in step[h].queues["Impossible"] :
                           \E a \in OutArgs(Content(step[h], d)) :
                             StepOf[a] = b /\ (~IsReady(data, a) \/ a \in Writable)
    BY DEF NoLostUnblock
  <2>1. h \in blockees[b]
    BY DEF CenterInv, Registered
  <2>2. Waits(h, b) \/ Live(b)
    BY DEF CenterInv, Blocking, Pending
  <2> QED
    BY <2>1, <2>2 DEF Waits, Live, Awaited
<1>2. GroundInv => FiledElsewhere
  BY DEF GroundInv
<1> QED
  BY <1>1, <1>2, CenterInit, CenterStep, GroundInit, GroundStep, TaskInitial, TaskStep, InitTypeInv,
     NextTypeInv, PTL DEF Spec

-----------------------------------------------------------------------------
(* What a step does to an instance: it leaves it, makes it ready, or is    *)
(* the write of the evaluation in progress.                                *)
Written(a) ==
  /\ RunWrite /\ a = job.of
  /\ \E next \in Nat : /\ data[a].date < next
                       /\ data'[a] = WriteResult(JobUpdate, JobObject, seen, data[a], next)

BecomesReady(a) == ~IsReady(data, a) /\ IsReady(data', a) /\ data'[a].date = data[a].date

LEMMA NextDateLater ==
  ASSUME NEW u \in UpdateId, NEW o, NEW D \in [DI -> Instance], NEW r \in Instance,
         NEW next \in NextDate(u, o, D, r)
  PROVE  next \in Nat /\ r.date < next
<1> DEFINE dates == {D[a].date : a \in Moved(u, o, D)} \cup {r.date}
<1>1. PICK m \in {n \in dates : \A k \in dates : k <= n} : next = m + 1
  BY DEF NextDate
<1>2. r.date <= m /\ r.date \in Nat
  BY <1>1 DEF Instance
<1>3. m + 1 \in Nat /\ m \in Nat
  <2>1. dates \subseteq Nat
    BY ArgsType DEF Moved, Instance
  <2> QED
    BY <1>1, <2>1
<1> QED
  BY <1>1, <1>2, <1>3

LEMMA RunWriteParts ==
  ASSUME TypeInv, RunWrite
  PROVE  /\ job \in Task /\ job.of \in DI /\ JobUpdate \in UpdateId /\ JobObject \in Object
         /\ pc = "write" /\ pc' = "report" /\ step' = step /\ job' = job
         /\ \A a \in DI : a # job.of => data'[a] = data[a]
         /\ Written(job.of)
         /\ report' = ReportOf(JobUpdate, JobObject, seen, data[job.of])
         /\ upd' = [upd EXCEPT ![JobUpdate] = [NoteArguments(JobUpdate, JobObject, seen) EXCEPT !.updated_once = TRUE]]
<1>1. /\ job \in Task /\ job.of \in DI /\ JobUpdate \in UpdateId /\ JobObject \in Object
      /\ pc = "write" /\ pc' = "report" /\ step' = step /\ job' = job
  BY JobType DEF RunWrite, Evaluated, TypeInv, WorkerOK, stepVars
<1>2. PICK next \in NextDate(JobUpdate, JobObject, seen, data[job.of]) :
        \E res \in {WriteResult(JobUpdate, JobObject, seen, data[job.of], next)} :
          /\ data' = [data EXCEPT ![job.of] = res]
          /\ file' = IF ~IsReady(data, job.of) /\ res.avail = "Ready"
                     THEN [file EXCEPT ![job.of] = res.val] ELSE file
  BY DEF RunWrite
<1> DEFINE res == WriteResult(JobUpdate, JobObject, seen, data[job.of], next)
<1>3. data' = [data EXCEPT ![job.of] = res]
  BY <1>2
<1>4. (\A a \in DI : a # job.of => data'[a] = data[a]) /\ data'[job.of] = res
  <2> HIDE DEF res
  <2> QED
    BY <1>1, <1>3 DEF TypeInv, TypeOK
<1>5. next \in Nat /\ data[job.of].date < next
  BY <1>1, NextDateLater DEF TypeInv, TypeOK
<1>6. Written(job.of)
  BY <1>4, <1>5 DEF Written
<1>7. /\ report' = ReportOf(JobUpdate, JobObject, seen, data[job.of])
      /\ upd' = [upd EXCEPT ![JobUpdate] = [NoteArguments(JobUpdate, JobObject, seen) EXCEPT !.updated_once = TRUE]]
  BY DEF RunWrite, Evaluated
<1> QED
  BY <1>1, <1>4, <1>6, <1>7

LEMMA SetReadyInstance ==
  ASSUME TypeInv, NEW S, SetReady(S), NEW a \in DI
  PROVE  data'[a] = data[a] \/ BecomesReady(a)
BY DEF SetReady, NowReady, BecomesReady, IsReady, TypeInv, TypeOK, Instance

LEMMA NextInstance ==
  ASSUME Writable \cap Ruled = {}, TypeInv, FileInv, [Next]_vars, NEW a \in DI
  PROVE  data'[a] = data[a] \/ BecomesReady(a) \/ Written(a)
<1>1. CASE UNCHANGED <<data, file>>
  BY <1>1
<1>2. CASE RunWrite
  BY <1>2, RunWriteParts
<1>3. CASE ReportStatus
  BY <1>3, SetReadyInstance DEF ReportStatus
<1>4. CASE NotifyUnblock
  <2>1. UNCHANGED <<data, file>> \/ \E S : SetReady(S)
    BY <1>4 DEF NotifyUnblock
  <2>2. CASE UNCHANGED <<data, file>>
    BY <2>2
  <2>3. CASE \E S : SetReady(S)
    <3>1. PICK S : SetReady(S)
      BY <2>3
    <3> QED
      BY <3>1, SetReadyInstance
  <2> QED
    BY <2>1, <2>2, <2>3
<1>5. /\ data[a] \in Instance /\ (IsReady(data, a) => data[a].val = file[a])
      /\ data[a] = [avail |-> data[a].avail, date |-> data[a].date, val |-> data[a].val]
  BY DEF TypeInv, TypeOK, FileInv, ReadyIsFiled, Instance
<1>6. ASSUME NEW c \in Client, Ping(c) PROVE data'[a] = data[a] \/ BecomesReady(a)
  <2>1. data'[a] = data[a] \/ (file[a] # NoValue /\ data'[a] = [data[a] EXCEPT !.avail = "Ready", !.val = file[a]])
    BY <1>6 DEF Ping, Synced
  <2>2. CASE IsReady(data, a)
    BY <1>5, <2>1, <2>2 DEF IsReady, Instance
  <2>3. CASE ~IsReady(data, a)
    BY <1>5, <2>1, <2>3 DEF IsReady, Instance, BecomesReady
  <2> QED
    BY <2>2, <2>3
<1>7. ASSUME NEW d \in DI, WriteFile(d) PROVE data'[a] = data[a] \/ BecomesReady(a)
  <2>1. data' = data \/ data' = [data EXCEPT ![d].avail = "Ready", ![d].val = FileValue[d]]
    BY <1>7 DEF WriteFile
  <2>2. CASE a # d
    BY <2>1, <2>2 DEF TypeInv, TypeOK
  <2>3. CASE a = d
    <3>1. file[a] = NoValue /\ a \in DI
      BY <1>7, <2>3 DEF WriteFile
    <3>2. ~IsReady(data, a)
      BY <1>5, <3>1, CenterAssumption DEF Instance
    <3>3. data' = data \/ data'[a] = [data[a] EXCEPT !.avail = "Ready", !.val = FileValue[d]]
      BY <2>1, <2>3 DEF TypeInv, TypeOK
    <3> QED
      BY <1>5, <3>2, <3>3 DEF BecomesReady, IsReady, Instance
  <2> QED
    BY <2>2, <2>3
<1> QED
  BY <1>1, <1>2, <1>3, <1>4, <1>6, <1>7, FileActions

(* The instances go on: dates do not go back, what is ready is final, and  *)
(* a value does not change unless its date does or it becomes ready.       *)
Later(D, E) ==
  \A a \in DI :
    /\ D[a].date <= E[a].date
    /\ IsReady(D, a) => E[a].avail = D[a].avail /\ E[a].val = D[a].val
    /\ E[a].val = D[a].val \/ D[a].date < E[a].date \/ (~IsReady(D, a) /\ IsReady(E, a))

LEMMA WrittenLater ==
  ASSUME TypeInv, FileInv, Written(job.of)
  PROVE  /\ ~IsReady(data, job.of) /\ job.of \in DI
         /\ data[job.of].date <= data'[job.of].date
         /\ data'[job.of].val = Computed(JobUpdate, seen)
         /\ \/ Significant(JobUpdate, JobObject, seen, data[job.of])
               /\ data[job.of].date < data'[job.of].date
            \/ ~Significant(JobUpdate, JobObject, seen, data[job.of])
               /\ data'[job.of].date = data[job.of].date /\ data'[job.of].val = data[job.of].val
<1>1. pc = "write" /\ job.of \in DI /\ data[job.of] \in Instance
  BY JobType DEF Written, RunWrite, TypeInv, TypeOK, WorkerOK
<1>2. PICK next \in Nat : /\ data[job.of].date < next
                          /\ data'[job.of] = WriteResult(JobUpdate, JobObject, seen, data[job.of], next)
  BY DEF Written
<1>3. /\ data'[job.of].val = Computed(JobUpdate, seen)
      /\ data'[job.of].date = IF Significant(JobUpdate, JobObject, seen, data[job.of])
                              THEN next ELSE data[job.of].date
  BY <1>2 DEF WriteResult
<1>4. ~Significant(JobUpdate, JobObject, seen, data[job.of]) => Computed(JobUpdate, seen) = data[job.of].val
  BY DEF Significant
<1>5. data[job.of].date \in Nat
  BY <1>1 DEF Instance
<1>6. ~IsReady(data, job.of)
  BY <1>1 DEF FileInv, WritesBusy
<1> QED
  BY <1>1, <1>2, <1>3, <1>4, <1>5, <1>6

LEMMA NextLater ==
  ASSUME Writable \cap Ruled = {}, TypeInv, FileInv, [Next]_vars
  PROVE  Later(data, data')
<1> SUFFICES ASSUME NEW a \in DI
             PROVE  /\ data[a].date <= data'[a].date
                    /\ IsReady(data, a) => data'[a].avail = data[a].avail /\ data'[a].val = data[a].val
                    /\ \/ data'[a].val = data[a].val \/ data[a].date < data'[a].date
                       \/ ~IsReady(data, a) /\ IsReady(data', a)
  BY DEF Later
<1>1. data[a] \in Instance /\ data[a].date \in Nat
  BY DEF TypeInv, TypeOK, Instance
<1>2. CASE data'[a] = data[a]
  BY <1>1, <1>2
<1>3. CASE BecomesReady(a)
  BY <1>1, <1>3 DEF BecomesReady
<1>4. CASE Written(a)
  <2>1. a = job.of
    BY <1>4 DEF Written
  <2> QED
    BY <1>1, <1>4, <2>1, WrittenLater
<1> QED
  BY <1>2, <1>3, <1>4, NextInstance

-----------------------------------------------------------------------------
(* What a step does to an update object. *)
LEMMA NoteArgumentsEffect ==
  ASSUME NEW u \in UpdateId, NEW o \in Object, NEW D \in [DI -> Instance]
  PROVE  LET n == NoteArguments(u, o, D)
         IN  /\ n \in Object /\ n.out_ok /\ n.updated_once = o.updated_once
             /\ \A a \in DI : n.date[a] = IF a \in Moved(u, o, D) THEN D[a].date ELSE o.date[a]
             /\ \A a \in DI : n.availability[a] \in {D[a].avail, o.availability[a]}
             /\ \A a \in InArgs(u) : n.availability[a] = D[a].avail
<1> DEFINE A == InArgs(u) \cup (IF o.out_ok THEN {} ELSE OutArgs(u))
           m == NoteAvailability(o, D, A)
           dates == [a \in DI |-> IF a \in Moved(u, o, D) THEN D[a].date ELSE o.date[a]]
<1>1. m \in Object /\ m.updated_once = o.updated_once
      /\ \A a \in DI : m.availability[a] = IF a \in A THEN D[a].avail ELSE o.availability[a]
  <2>1. m \in Object
    BY NoteAvailabilityType
  <2> QED
    BY <2>1 DEF NoteAvailability, Object
<1>2. NoteArguments(u, o, D) = [m EXCEPT !.out_ok = TRUE, !.date = dates]
  BY DEF NoteArguments
<1>3. InArgs(u) \subseteq A /\ InArgs(u) \subseteq DI
  BY ArgsType
<1> HIDE DEF A, m
<1>4. NoteArguments(u, o, D) \in Object
  BY NoteArgumentsType
<1>5. LET n == NoteArguments(u, o, D)
      IN  n.out_ok /\ n.updated_once = m.updated_once /\ n.date = dates /\ n.availability = m.availability
  BY <1>1, <1>2 DEF Object
<1> QED
  BY <1>1, <1>3, <1>4, <1>5

ObjectStep(u) ==
  \/ upd'[u] = upd[u]
  \/ RunImpossible /\ u = JobUpdate /\ upd'[u] = NoteAvailability(upd[u], data, OutArgs(u))
  \/ RunUnmoved /\ u = JobUpdate /\ upd'[u] = NoteArguments(u, upd[u], data)
  \/ RunWrite /\ u = JobUpdate /\ upd'[u] = [NoteArguments(u, upd[u], seen) EXCEPT !.updated_once = TRUE]
  \/ upd'[u] = NewObject /\ \E c \in Client : Declare(c, Result(u))
  \/ u \in SyncedUpdates /\ upd'[u] = NoteFiled(u) /\ \E c \in Client : Ping(c)

LEMMA NextObject ==
  ASSUME TypeInv, [Next]_vars, NEW u \in UpdateId
  PROVE  ObjectStep(u)
<1>1. upd \in [UpdateId -> Object]
  BY DEF TypeInv, TypeOK
<1>2. CASE Run
  <2>1. job \in Task /\ JobUpdate \in UpdateId
    BY <1>2, JobType DEF Run, RunReady, RunImpossible, RunUnmoved, RunRead, RunWrite, TypeInv, WorkerOK
  <2>2. CASE RunReady
    BY <1>1, <2>1, <2>2 DEF RunReady, Evaluated, JobObject, ObjectStep
  <2>3. CASE RunImpossible
    BY <1>1, <2>1, <2>3 DEF RunImpossible, Evaluated, JobObject, ObjectStep
  <2>4. CASE RunUnmoved
    BY <1>1, <2>1, <2>4 DEF RunUnmoved, Evaluated, JobObject, ObjectStep
  <2>5. CASE RunWrite
    BY <1>1, <2>1, <2>5, RunWriteParts DEF JobObject, ObjectStep
  <2>6. CASE RunRead
    BY <2>6 DEF RunRead, dataVars, ObjectStep
  <2> QED
    BY <1>2, <2>2, <2>3, <2>4, <2>5, <2>6 DEF Run
<1>3. CASE Worker /\ ~Run
  BY <1>3 DEF Worker, TestInteraction, Wait, GetOne, ReportJob, ReportStatus, NotifyDone, NotifyUnblock,
       NotifyReturn, RegisterBlocked, dataVars, ObjectStep
<1>4. ASSUME NEW c \in Client, NEW d \in Ruled, Declare(c, d) PROVE ObjectStep(u)
  <2>1. upd'[u] = upd[u] \/ (Result(u) = d /\ upd'[u] = NewObject)
    BY <1>4 DEF Declare
  <2> QED
    BY <1>4, <2>1 DEF ObjectStep
<1>5. ASSUME NEW c \in Client, Ping(c) PROVE ObjectStep(u)
  BY <1>5 DEF Ping, ObjectStep
<1>6. CASE UNCHANGED upd
  BY <1>6 DEF ObjectStep
<1>7. ASSUME NEW c \in Client, ClientStep(c)
      PROVE  UNCHANGED upd \/ (\E d \in Ruled : Declare(c, d)) \/ Ping(c)
  BY <1>7 DEF ClientStep, Open, Close, Notify, dataVars
<1>8. CASE SpuriousWake \/ (\E d \in DI : WriteFile(d)) \/ UNCHANGED vars
  BY <1>6, <1>8 DEF SpuriousWake, WriteFile, vars, dataVars
<1> QED
  BY <1>2, <1>3, <1>4, <1>5, <1>6, <1>7, <1>8 DEF Next

-----------------------------------------------------------------------------
(* What the objects know of the instances. *)

(* An update that has been computed has read its out-arguments. *)
OnceRead == \A u \in UpdateId : upd[u].updated_once => upd[u].out_ok

(* The dates and the availabilities it has seen are behind those of the    *)
(* instances.                                                              *)
DatesPast == \A u \in UpdateId : \A a \in DI : upd[u].date[a] <= data[a].date

AvailabilityPast == \A u \in UpdateId : \A a \in DI : upd[u].availability[a] = "Ready" => IsReady(data, a)

(* While an evaluation has read and not written, nothing changes what it   *)
(* has read, but for what becomes ready.                                   *)
SeenPast ==
  pc = "write" =>
    /\ \A a \in DI : seen[a] = data[a] \/ (~IsReady(seen, a) /\ IsReady(data, a) /\ seen[a].date = data[a].date)
    /\ \A a \in OutArgs(JobUpdate) : IsReady(seen, a)

PastInv == OnceRead /\ DatesPast /\ AvailabilityPast /\ SeenPast

LEMMA PastInit == Init => PastInv
<1> SUFFICES ASSUME Init PROVE PastInv
  OBVIOUS
<1>1. \A u \in UpdateId : upd[u] = NewObject
  BY DEF Init
<1>2. \A a \in DI : data[a].date = 0
  BY DEF Init
<1> QED
  BY <1>1, <1>2 DEF Init, PastInv, OnceRead, DatesPast, AvailabilityPast, SeenPast, NewObject

LEMMA SeenStep ==
  ASSUME Writable \cap Ruled = {}, TypeInv, FileInv, GroundInv, PastInv, [Next]_vars
  PROVE  SeenPast'
<1> SUFFICES ASSUME pc' = "write" PROVE SeenPast'
  BY DEF SeenPast
<1>1. CASE RunRead
  <2>1. /\ job \in Task /\ JobUpdate \in UpdateId /\ OutReady(JobUpdate, JobObject, data)
        /\ seen' = data /\ data' = data /\ job' = job
    BY <1>1, JobType DEF RunRead, TypeInv, WorkerOK, dataVars
  <2>2. \A a \in OutArgs(JobUpdate) : IsReady(data, a)
    BY <2>1 DEF OutReady, GroundInv, OutKnown, JobObject
  <2> QED
    BY <2>1, <2>2 DEF SeenPast, IsReady, JobUpdate
<1>2. CASE ~RunRead
  <2>1. pc = "write" /\ UNCHANGED <<pc, job, seen>> /\ ~RunWrite
    BY <1>2 DEF Next, Worker, Run, RunReady, RunImpossible, RunUnmoved, RunRead, RunWrite, Evaluated,
       TestInteraction, Wait, GetOne, ReportJob, ReportStatus, AfterReport, NotifyDone, NotifyUnblock,
       NotifyReturn, RegisterBlocked, SpuriousWake, ClientStep, Open, Declare, Ping, Close, Notify,
       WriteFile, vars, workerVars
  <2>2. \A a \in DI : data'[a] = data[a] \/ BecomesReady(a)
    BY <2>1, NextInstance DEF Written
  <2>3. JobUpdate' = JobUpdate
    BY <2>1 DEF JobUpdate
  <2>4. \A a \in DI : seen[a] = data[a] \/ (~IsReady(seen, a) /\ IsReady(data, a) /\ seen[a].date = data[a].date)
    BY <2>1 DEF PastInv, SeenPast
  <2>5. ASSUME NEW a \in DI
        PROVE  \/ seen[a] = data'[a]
               \/ ~IsReady(seen, a) /\ IsReady(data', a) /\ seen[a].date = data'[a].date
    BY <2>2, <2>4 DEF BecomesReady, IsReady
  <2>6. \A a \in OutArgs(JobUpdate) : IsReady(seen, a)
    BY <2>1 DEF PastInv, SeenPast
  <2> QED
    BY <2>1, <2>3, <2>5, <2>6 DEF SeenPast, IsReady
<1> QED
  BY <1>1, <1>2

LEMMA PastStep ==
  ASSUME Writable \cap Ruled = {}, TypeInv, FileInv, GroundInv, PastInv, [Next]_vars
  PROVE  PastInv'
<1>1. Later(data, data')
  BY NextLater
<1>2. ASSUME NEW u \in UpdateId
      PROVE  /\ upd'[u].updated_once => upd'[u].out_ok
             /\ \A a \in DI : upd'[u].date[a] <= data'[a].date
             /\ \A a \in DI : upd'[u].availability[a] = "Ready" => IsReady(data', a)
  <2>1. upd[u] \in Object /\ data \in [DI -> Instance] /\ seen \in [DI -> Instance]
    BY DEF TypeInv, TypeOK
  <2>2. /\ upd[u].updated_once => upd[u].out_ok
        /\ \A a \in DI : upd[u].date[a] <= data[a].date /\ upd[u].date[a] \in Nat /\ data[a].date \in Nat
        /\ \A a \in DI : upd[u].availability[a] = "Ready" => IsReady(data, a)
    BY <2>1 DEF PastInv, OnceRead, DatesPast, AvailabilityPast, Object, Instance
  <2>3. \A a \in DI : data'[a].date \in Nat
    BY NextTypeInv DEF TypeInv, TypeOK, Instance
  <2>4. ASSUME upd'[u].updated_once => upd'[u].out_ok,
               \A a \in DI : upd'[u].date[a] \in Nat /\ upd'[u].date[a] <= data[a].date,
               \A a \in DI : upd'[u].availability[a] = "Ready" => IsReady(data, a)
        PROVE  /\ upd'[u].updated_once => upd'[u].out_ok
               /\ \A a \in DI : upd'[u].date[a] <= data'[a].date
               /\ \A a \in DI : upd'[u].availability[a] = "Ready" => IsReady(data', a)
    <3>1. \A a \in DI : data[a].date \in Nat /\ data[a].date <= data'[a].date
      BY <1>1, <2>2 DEF Later
    <3>2. \A a \in DI : IsReady(data, a) => IsReady(data', a)
      BY <1>1 DEF Later, IsReady
    <3> QED
      BY <2>3, <2>4, <3>1, <3>2
  <2>5. CASE upd'[u] = upd[u]
    BY <2>2, <2>4, <2>5
  <2>6. CASE upd'[u] = NoteAvailability(upd[u], data, OutArgs(u))
    <3> DEFINE o == NoteAvailability(upd[u], data, OutArgs(u))
    <3>1. /\ o.updated_once = upd[u].updated_once /\ o.out_ok = upd[u].out_ok /\ o.date = upd[u].date
          /\ \A a \in DI : o.availability[a] \in {data[a].avail, upd[u].availability[a]}
      BY <2>1 DEF NoteAvailability, Object
    <3> HIDE DEF o
    <3>2. \A a \in DI : o.availability[a] = "Ready" => IsReady(data, a)
      BY <2>2, <3>1 DEF IsReady
    <3> QED
      BY <2>2, <2>4, <2>6, <3>1, <3>2 DEF o
  <2>7. ASSUME NEW D \in [DI -> Instance],
               \A a \in DI : D[a].date <= data[a].date /\ (IsReady(D, a) => IsReady(data, a)),
               upd'[u] = NoteArguments(u, upd[u], D)
                 \/ upd'[u] = [NoteArguments(u, upd[u], D) EXCEPT !.updated_once = TRUE]
        PROVE  /\ upd'[u].updated_once => upd'[u].out_ok
               /\ \A a \in DI : upd'[u].date[a] <= data'[a].date
               /\ \A a \in DI : upd'[u].availability[a] = "Ready" => IsReady(data', a)
    <3> DEFINE n == NoteArguments(u, upd[u], D)
    <3>1. /\ n \in Object /\ n.out_ok
          /\ \A a \in DI : n.date[a] = IF a \in Moved(u, upd[u], D) THEN D[a].date ELSE upd[u].date[a]
          /\ \A a \in DI : n.availability[a] \in {D[a].avail, upd[u].availability[a]}
      BY <2>1, <2>7, NoteArgumentsEffect
    <3>2. upd'[u] = n \/ upd'[u] = [n EXCEPT !.updated_once = TRUE]
      BY <2>7
    <3> HIDE DEF n
    <3>3. upd'[u].out_ok /\ upd'[u].date = n.date /\ upd'[u].availability = n.availability
      BY <3>1, <3>2 DEF Object
    <3>4. \A a \in DI : n.date[a] \in Nat /\ n.date[a] <= data[a].date
      BY <2>2, <2>7, <3>1 DEF Object
    <3>5. \A a \in DI : n.availability[a] = "Ready" => IsReady(data, a)
      BY <2>2, <2>7, <3>1 DEF IsReady
    <3>6. /\ upd'[u].updated_once => upd'[u].out_ok
          /\ \A a \in DI : upd'[u].date[a] \in Nat /\ upd'[u].date[a] <= data[a].date
          /\ \A a \in DI : upd'[u].availability[a] = "Ready" => IsReady(data, a)
      BY <3>3, <3>4, <3>5
    <3> QED
      BY <2>4, <3>6
  <2>8. CASE RunUnmoved /\ upd'[u] = NoteArguments(u, upd[u], data)
    <3>1. \A a \in DI : data[a].date <= data[a].date /\ (IsReady(data, a) => IsReady(data, a))
      BY <2>2
    <3> QED
      BY <2>1, <2>7, <2>8, <3>1
  <2>9. CASE RunWrite /\ upd'[u] = [NoteArguments(u, upd[u], seen) EXCEPT !.updated_once = TRUE]
    <3>1. \A a \in DI : seen[a] = data[a] \/ (~IsReady(seen, a) /\ IsReady(data, a) /\ seen[a].date = data[a].date)
      BY <2>9 DEF PastInv, SeenPast, RunWrite
    <3>2. \A a \in DI : seen[a].date <= data[a].date /\ (IsReady(seen, a) => IsReady(data, a))
      BY <2>2, <3>1 DEF IsReady
    <3> QED
      BY <2>1, <2>7, <2>9, <3>2
  <2>10. CASE upd'[u] = NewObject
    BY <2>2, <2>4, <2>10 DEF NewObject
  <2>11. ASSUME NEW c \in Client, Ping(c), u \in SyncedUpdates, upd'[u] = NoteFiled(u)
         PROVE  /\ upd'[u].updated_once => upd'[u].out_ok
                /\ \A a \in DI : upd'[u].date[a] <= data'[a].date
                /\ \A a \in DI : upd'[u].availability[a] = "Ready" => IsReady(data', a)
    <3>1. /\ upd'[u].updated_once = upd[u].updated_once /\ upd'[u].out_ok = upd[u].out_ok
          /\ upd'[u].date = upd[u].date
          /\ \A a \in DI : upd'[u].availability[a] = IF a \in Args(u) /\ file[a] # NoValue
                                                     THEN "Ready" ELSE upd[u].availability[a]
      BY <2>1, <2>11 DEF NoteFiled, Object
    <3>2. \A a \in DI : upd'[u].date[a] <= data'[a].date
      BY <1>1, <2>2, <2>3, <3>1 DEF Later
    <3>3. ASSUME NEW a \in DI, upd'[u].availability[a] = "Ready" PROVE IsReady(data', a)
      <4>1. CASE upd[u].availability[a] = "Ready"
        BY <1>1, <2>2, <4>1 DEF Later, IsReady
      <4>2. CASE upd[u].availability[a] # "Ready"
        <5>1. a \in Args(u) /\ file[a] # NoValue /\ upd[u].availability[a] = "Busy"
          BY <2>1, <3>1, <3>3, <4>2 DEF Object, Availability
        <5>2. a \in SyncedArgs
          BY <2>11, <5>1 DEF SyncedArgs
        <5>3. data'[a] = [data[a] EXCEPT !.avail = "Ready", !.val = file[a]]
          BY <2>11, <5>1, <5>2 DEF Ping, Synced
        <5> QED
          BY <2>1, <5>3 DEF IsReady, Instance
      <4> QED
        BY <4>1, <4>2
    <3> QED
      BY <2>2, <3>1, <3>2, <3>3
  <2> QED
    BY <2>5, <2>6, <2>8, <2>9, <2>10, <2>11, NextObject DEF ObjectStep
<1> QED
  BY <1>2, SeenStep DEF PastInv, OnceRead, DatesPast, AvailabilityPast

-----------------------------------------------------------------------------
(* What has never been computed: the usual part of an update that is new,  *)
(* impossible, or whose init part is still to be done.                     *)
Usual(d) == <<"usual", d>>
Once(d) == upd[Usual(d)].updated_once

Fresh(s) == s.queues["New"] \cup s.queues["Impossible"] \cup s.inits

FreshInv == \A h \in Mapped : \A d \in step[h].variables : d \in Fresh(step[h]) => ~Once(d)

ImpossibleInv == pc = "report" /\ report = "Impossible" => ~Once(job.of)

FirstTime == FreshInv /\ ImpossibleInv

LEMMA UsualType ==
  ASSUME NEW d \in Ruled
  PROVE  Usual(d) \in UpdateId /\ Result(Usual(d)) = d /\ d \in DI
BY ConstantsAssumption DEF Usual, UpdateId, Phase, Result

(* Two objects of the map that hold updates of one DI are the same.        *)
LEMMA SameMapped ==
  ASSUME NEW h \in Mapped, NEW g \in Mapped, StepId(h) = StepId(g)
  PROVE  h = g
<1>1. h \in Handle /\ g \in Handle
  BY DEF Mapped
<1> QED
  BY <1>1, HandleParts

(* Only the write of its usual part makes an update computed.              *)
LEMMA OnceStep ==
  ASSUME TypeInv, [Next]_vars, NEW d \in Ruled, Once(d)'
  PROVE  Once(d) \/ (RunWrite /\ JobUpdate = Usual(d))
<1> DEFINE u == Usual(d)
<1>1. u \in UpdateId /\ upd[u] \in Object /\ ObjectStep(u)
  BY UsualType, NextObject DEF TypeInv, TypeOK
<1>2. upd'[u].updated_once
  BY DEF Once
<1>3. CASE upd'[u] = upd[u]
  BY <1>2, <1>3 DEF Once
<1>4. CASE upd'[u] = NoteAvailability(upd[u], data, OutArgs(u))
  <2>1. NoteAvailability(upd[u], data, OutArgs(u)).updated_once = upd[u].updated_once
    BY <1>1 DEF NoteAvailability, Object
  <2> QED
    BY <1>2, <1>4, <2>1 DEF Once
<1>5. CASE upd'[u] = NoteArguments(u, upd[u], data)
  <2>1. NoteArguments(u, upd[u], data).updated_once = upd[u].updated_once
    BY <1>1, NoteArgumentsEffect DEF TypeInv, TypeOK
  <2> QED
    BY <1>2, <1>5, <2>1 DEF Once
<1>6. CASE upd'[u] = NewObject
  BY <1>2, <1>6 DEF NewObject
<1>7. CASE upd'[u] = NoteFiled(u)
  <2>1. NoteFiled(u).updated_once = upd[u].updated_once
    BY <1>1 DEF NoteFiled, Object
  <2> QED
    BY <1>2, <1>7, <2>1 DEF Once
<1> QED
  BY <1>1, <1>3, <1>4, <1>5, <1>6, <1>7 DEF ObjectStep

(* A declaration that adds an update starts it anew. *)
LEMMA DeclaredFresh ==
  ASSUME TypeInv, NEW c \in Client, NEW d \in Ruled, Declare(c, d), NEW h \in Handle, StepOf[d] = StepId(h),
         \/ h \in Mapped /\ d \notin step[h].variables
         \/ current[StepId(h)] = 0,
         ~UNCHANGED <<step, current>>
  PROVE  ~Once(d)'
<1> DEFINE t == StepOf[d]
           g == <<t, ObjectOf(t)>>
           s == IF current[t] # 0 THEN step[g] ELSE NewTimeStep
<1>1. upd' = IF d \in s.variables THEN upd
             ELSE [u \in UpdateId |-> IF Result(u) = d THEN NewObject ELSE upd[u]]
  BY DEF Declare
<1>2. d \notin s.variables
  <2>1. CASE h \in Mapped
    <3>1. current[t] # 0 /\ g = h
      BY <2>1, HandleParts DEF ObjectOf
    <3> QED
      BY <2>1, <3>1, HandleParts
  <2>2. CASE current[StepId(h)] = 0
    BY <2>2 DEF NewTimeStep
  <2> QED
    BY <2>1, <2>2
<1> HIDE DEF s
<1>3. upd'[Usual(d)] = NewObject
  BY <1>1, <1>2, UsualType
<1> QED
  BY <1>3 DEF Once, NewObject

(* What becomes new, impossible or with an init part to do.                *)
LEMMA FreshStep ==
  ASSUME TypeInv, TaskInv, [Next]_vars, NEW h \in Mapped, NEW x \in Fresh(step'[h]), x \in step'[h].variables
  PROVE  \/ x \in step[h].variables /\ x \in Fresh(step[h])
         \/ ReportJob /\ h = job.step /\ x = job.of /\ report = "Impossible"
         \/ \E c \in Client : Declare(c, x) /\ StepOf[x] = StepId(h) /\ x \notin step[h].variables
<1>1. h \in Handle /\ step[h] \in TimeStepRecord /\ Changed(h)
  BY NextChanged DEF Mapped, TypeInv, TypeOK
<1>q. {"New", "Impossible", "Unstable", "Stable", "Confirmed"} \subseteq Queue
  BY DEF Queue
<1>2. CASE step'[h].variables = step[h].variables /\ Fresh(step'[h]) \subseteq Fresh(step[h])
  BY <1>2
<1>3. CASE GetOne /\ step'[h] = TakeJobs(CheckUnbound(step[h], data))
  <2> DEFINE k == CheckUnbound(step[h], data)
  <2>1. /\ k \in TimeStepRecord /\ k.queues["New"] = Held(step[h], data)
        /\ k.queues["Impossible"] = step[h].queues["Impossible"]
        /\ k.variables = step[h].variables /\ k.inits = step[h].inits
    BY <1>1, CheckUnboundEffect, AdmitNewEffect DEF SameParts
  <2> HIDE DEF k
  <2>2. step'[h].queues = k.queues /\ step'[h].variables = k.variables /\ step'[h].inits = k.inits
    BY <1>3, <2>1, TakeJobsEffect DEF k
  <2> QED
    BY <1>2, <2>1, <2>2 DEF Fresh, Held
<1>4. CASE ReportJob /\ h = job.step /\ step'[h] = Requeue(step[h], job.of, job.source, report, BlockersOf(JobUpdate, JobObject))
  <2> DEFINE n == Requeue(step[h], job.of, job.source, report, BlockersOf(JobUpdate, JobObject))
             to == UpToDateQueue(step[h], job.source)
  <2>1. /\ n.variables = step[h].variables /\ n.inits \subseteq step[h].inits
        /\ \/ report = "Impossible" /\ MovedTo(n, step[h], job.of, "Impossible")
           \/ MovedTo(n, step[h], job.of, "Unstable")
           \/ MovedTo(n, step[h], job.of, to)
           \/ Dropped(n, step[h], job.of)
    BY <1>1, <1>4, ReportJobParts, RequeueEffect
  <2>2. to \notin {"New", "Impossible"}
    BY DEF UpToDateQueue
  <2> HIDE DEF n, to
  <2>3. CASE report = "Impossible" /\ MovedTo(n, step[h], job.of, "Impossible")
    <3>1. n.queues["New"] \subseteq step[h].queues["New"] /\ n.queues["Impossible"] = step[h].queues["Impossible"] \cup {job.of}
      BY <1>q, <2>3 DEF MovedTo
    <3> QED
      BY <1>4, <2>1, <2>3, <3>1 DEF Fresh, n
  <2>4. CASE MovedTo(n, step[h], job.of, "Unstable") \/ MovedTo(n, step[h], job.of, to) \/ Dropped(n, step[h], job.of)
    <3>1. n.queues["New"] \subseteq step[h].queues["New"] /\ n.queues["Impossible"] \subseteq step[h].queues["Impossible"]
      BY <1>q, <2>2, <2>4 DEF MovedTo, Dropped
    <3> QED
      BY <1>2, <1>4, <2>1, <3>1 DEF Fresh, n
  <2> QED
    BY <2>1, <2>3, <2>4
<1>5. ASSUME NEW s \in TimeStepRecord, s.queues = step[h].queues, s.variables = step[h].variables,
             s.inits = step[h].inits, step'[h] = UpdateStatus(s, data)
      PROVE  step'[h].variables = step[h].variables /\ Fresh(step'[h]) \subseteq Fresh(step[h])
  <2> DEFINE a == AdmitNew(s, data)
  <2>1. /\ a.queues["New"] \subseteq step[h].queues["New"]
        /\ a.queues["Impossible"] = step[h].queues["Impossible"]
    BY <1>5, AdmitNewEffect DEF Held
  <2>2. step'[h].variables = step[h].variables /\ step'[h].inits = step[h].inits
    BY <1>5, UpdatedFields
  <2>3. \/ \A q \in Queue : step'[h].queues[q] = {}
        \/ Unbinds(step'[h], a) \/ Unsettles(step'[h], a) \/ Checks(step'[h], a)
    BY <1>5, UpdateStatusEffect
  <2> HIDE DEF a
  <2>4. step'[h].queues["New"] \subseteq a.queues["New"] /\ step'[h].queues["Impossible"] \subseteq a.queues["Impossible"]
    BY <1>q, <2>3 DEF Unbinds, Unsettles, Checks
  <2> QED
    BY <2>1, <2>2, <2>4 DEF Fresh
<1>6. CASE step'[h] = UpdateStatus(step[h], data)
  BY <1>1, <1>2, <1>5, <1>6
<1>7. CASE step'[h] = Unblock(step[h], Top.done) \/ step'[h] = UpdateStatus(Unblock(step[h], Top.done), data)
  <2>1. LET s == Unblock(step[h], Top.done)
        IN  s \in TimeStepRecord /\ s.queues = step[h].queues /\ s.variables = step[h].variables
            /\ s.inits = step[h].inits
    BY <1>1, UnblockEffect
  <2>2. CASE step'[h] = Unblock(step[h], Top.done)
    BY <1>2, <2>1, <2>2 DEF Fresh
  <2>3. CASE step'[h] = UpdateStatus(Unblock(step[h], Top.done), data)
    BY <1>2, <1>5, <2>1, <2>3
  <2> QED
    BY <1>7, <2>2, <2>3
<1>8. ASSUME NEW c \in Client, NEW d \in Ruled, Declare(c, d), StepOf[d] = StepId(h), step'[h] = Add(step[h], d)
      PROVE  \/ x \in step[h].variables /\ x \in Fresh(step[h])
             \/ \E e \in Client : Declare(e, x) /\ StepOf[x] = StepId(h) /\ x \notin step[h].variables
  <2>1. CASE d \in step[h].variables
    BY <1>2, <1>8, <2>1 DEF Add
  <2>2. CASE d \notin step[h].variables
    <3>1. /\ step'[h].variables = step[h].variables \cup {d}
          /\ step'[h].inits \subseteq step[h].inits \cup {d}
          /\ step'[h].queues["New"] = step[h].queues["New"] \cup {d}
          /\ step'[h].queues["Impossible"] = step[h].queues["Impossible"]
      BY <1>1, <1>q, <1>8, <2>2, AddEffect
    <3> QED
      BY <1>8, <2>2, <3>1 DEF Fresh
  <2> QED
    BY <2>1, <2>2
<1>9. current[StepId(h)] # 0
  BY <1>1, HandleParts
<1>10. CASE step'[h] = ClearBlockingInfo(step[h])
  BY <1>1, <1>2, <1>10, ClearEffect DEF Fresh
<1>11. CASE step'[h] = [step[h] EXCEPT !.new_blockers = {}]
  BY <1>1, <1>2, <1>11 DEF TimeStepRecord, Fresh
<1>12. CASE step'[h] = step[h]
  BY <1>2, <1>12
<1> QED
  BY <1>1, <1>3, <1>4, <1>6, <1>7, <1>8, <1>9, <1>10, <1>11, <1>12 DEF Changed

LEMMA FirstTimeInit == Init => FirstTime
<1> SUFFICES ASSUME Init PROVE FirstTime
  OBVIOUS
<1>1. \A h \in Handle : step[h].variables = {}
  BY DEF Init, NewTimeStep
<1> QED
  BY <1>1 DEF Init, FirstTime, FreshInv, ImpossibleInv, Mapped

(* The job in hand is neither new nor impossible, and when its usual part  *)
(* is run nothing is left of its init part.                                *)
LEMMA JobNotFresh ==
  ASSUME TypeInv, TaskInv, CenterInv, pc \in WithJob, job.phase = "usual"
  PROVE  /\ job.step \in Mapped /\ job.of \in step[job.step].variables
         /\ job.of \notin Fresh(step[job.step]) /\ StepOf[job.of] = StepId(job.step)
<1>1. job \in InHand /\ HandMapped /\ HandPhase /\ TheirSteps
  BY DEF InHand, WithJob, CenterInv
<1>2. /\ job \in Task /\ job.step \in Mapped /\ job.step \in Handle /\ job.of \in step[job.step].taken
      /\ job.of \in step[job.step].variables
  BY <1>1, InHandParts
<1>3. job.of \notin step[job.step].inits
  BY <1>1 DEF HandPhase, Content
<1>4. job.of \notin step[job.step].queues["New"] \cup step[job.step].queues["Impossible"]
  BY <1>2 DEF TaskInv, Placed, Queue
<1> QED
  BY <1>1, <1>2, <1>3, <1>4 DEF Fresh, TheirSteps

LEMMA FreshInvStep ==
  ASSUME TypeInv, TaskInv, CenterInv, FirstTime, [Next]_vars
  PROVE  FreshInv'
<1> SUFFICES ASSUME NEW h \in Mapped', NEW d \in step'[h].variables, d \in Fresh(step'[h]), Once(d)'
             PROVE  FALSE
  BY DEF FreshInv, Fresh
<1>1. h \in Handle
  BY DEF Mapped
<1>2. CASE h \notin Mapped
  <2>1. PICK c \in Client, e \in Ruled : /\ Declare(c, e) /\ StepOf[e] = StepId(h)
                                         /\ current[StepId(h)] = 0 /\ step'[h] = Add(NewTimeStep, e)
    BY <1>1, <1>2, NextMapped
  <2>2. d = e
    BY <2>1, BuiltFields
  <2>3. ~UNCHANGED <<step, current>>
    BY <1>2 DEF Mapped
  <2> QED
    BY <1>1, <2>1, <2>2, <2>3, DeclaredFresh
<1>3. CASE h \in Mapped
  <2>1. \/ d \in step[h].variables /\ d \in Fresh(step[h])
        \/ ReportJob /\ h = job.step /\ d = job.of /\ report = "Impossible"
        \/ \E c \in Client : Declare(c, d) /\ StepOf[d] = StepId(h) /\ d \notin step[h].variables
    BY <1>3, FreshStep
  <2>2. CASE d \in step[h].variables /\ d \in Fresh(step[h])
    <3>1. ~Once(d) /\ d \in Ruled
      BY <1>1, <1>3, <2>2 DEF FirstTime, FreshInv, TypeInv, TypeOK, TimeStepRecord
    <3>2. RunWrite /\ JobUpdate = Usual(d)
      BY <3>1, OnceStep
    <3>3. pc \in WithJob /\ job.of = d /\ job.phase = "usual"
      BY <3>2 DEF RunWrite, WithJob, JobUpdate, Usual
    <3>4. /\ job.step \in Mapped /\ d \notin Fresh(step[job.step]) /\ StepOf[d] = StepId(job.step)
      BY <3>3, JobNotFresh
    <3>5. StepOf[d] = StepId(h)
      BY <1>1, <2>2 DEF CenterInv, TheirSteps
    <3>6. h = job.step
      BY <1>3, <3>4, <3>5, SameMapped
    <3> QED
      BY <2>2, <3>4, <3>6
  <2>3. CASE ReportJob /\ h = job.step /\ d = job.of /\ report = "Impossible"
    <3>1. ~Once(d) /\ ~RunWrite
      BY <2>3 DEF FirstTime, ImpossibleInv, ReportJob, RunWrite
    <3>2. d \in Ruled
      BY <2>3, ReportJobParts DEF Task
    <3> QED
      BY <3>1, <3>2, OnceStep
  <2>4. ASSUME NEW c \in Client, Declare(c, d), StepOf[d] = StepId(h), d \notin step[h].variables PROVE FALSE
    <3>1. d \in Ruled /\ ~UNCHANGED <<step, current>>
      BY <2>4 DEF Declare
    <3> QED
      BY <1>1, <1>3, <2>4, <3>1, DeclaredFresh
  <2> QED
    BY <2>1, <2>2, <2>3, <2>4
<1> QED
  BY <1>2, <1>3

(* A report waits for the worker. *)
LEMMA ReportKept ==
  ASSUME [Next]_vars, ~Run, pc' = "report"
  PROVE  UNCHANGED <<pc, report, job>>
<1>1. ~Worker
  BY DEF Worker, TestInteraction, Wait, GetOne, ReportJob, ReportStatus, AfterReport, NotifyDone,
     NotifyUnblock, NotifyReturn, RegisterBlocked
<1>2. ~SpuriousWake
  BY DEF SpuriousWake
<1>3. ASSUME NEW c \in Client, ClientStep(c) PROVE UNCHANGED <<pc, report, job>>
  BY <1>3 DEF ClientStep, Open, Declare, Ping, Close, Notify, workerVars
<1>4. CASE (\E d \in DI : WriteFile(d)) \/ UNCHANGED vars
  BY <1>4 DEF WriteFile, vars, workerVars
<1> QED
  BY <1>1, <1>2, <1>3, <1>4 DEF Next

LEMMA ImpossibleInvStep ==
  ASSUME TypeInv, TaskInv, CenterInv, FirstTime, PastInv, [Next]_vars
  PROVE  ImpossibleInv'
<1> SUFFICES ASSUME pc' = "report", report' = "Impossible", Once(job.of)' PROVE FALSE
  BY DEF ImpossibleInv, Once, Usual
<1>1. CASE Run
  <2>1. RunImpossible
    BY <1>1 DEF Run, RunReady, RunUnmoved, RunRead, RunWrite, Evaluated, ReportOf
  <2>2. /\ pc \in WithJob /\ job \in Task /\ JobUpdate \in UpdateId /\ job' = job /\ job.of \in Ruled
        /\ ~OutReady(JobUpdate, JobObject, data)
    BY <2>1, JobType DEF RunImpossible, Evaluated, WithJob, TypeInv, WorkerOK, Task
  <2>3. ~upd[JobUpdate].updated_once
    BY <2>2 DEF PastInv, OnceRead, OutReady, JobObject
  <2>4. ~Once(job.of)
    <3>1. CASE job.phase = "usual"
      BY <2>3, <3>1 DEF Once, Usual, JobUpdate
    <3>2. CASE job.phase = "init"
      <4>1. job \in InHand /\ HandMapped
        BY <2>2 DEF InHand, WithJob, CenterInv
      <4>2. job.step \in Mapped /\ job.of \in step[job.step].variables
        BY <4>1, InHandParts
      <4>3. job.of \in step[job.step].inits
        BY <3>2, <4>1 DEF CenterInv, HandPhase, Content
      <4> QED
        BY <4>2, <4>3 DEF FirstTime, FreshInv, Fresh
    <3> QED
      BY <2>2, <3>1, <3>2 DEF Task, Phase
  <2>5. Once(job.of)' => Once(job.of)
    <3>1. ~RunWrite
      BY <2>1 DEF RunImpossible, RunWrite
    <3>2. ASSUME NEW d \in Ruled, Once(d)' PROVE Once(d)
      BY <3>1, <3>2, OnceStep
    <3> QED
      BY <2>2, <3>2 DEF Once
  <2> QED
    BY <2>4, <2>5
<1>2. CASE ~Run
  <2>1. pc = "report" /\ report = "Impossible" /\ job' = job
    BY <1>2, ReportKept
  <2>2. job.of \in Ruled /\ ~RunWrite
    BY <1>2, <2>1, JobType DEF Run, TypeInv, WorkerOK, Task
  <2>3. ASSUME NEW d \in Ruled, Once(d)' PROVE Once(d)
    BY <2>2, <2>3, OnceStep
  <2>4. Once(job.of)
    BY <2>1, <2>2, <2>3 DEF Once
  <2> QED
    BY <2>1, <2>4 DEF FirstTime, ImpossibleInv
<1> QED
  BY <1>1, <1>2

-----------------------------------------------------------------------------
(* The value of a result that has been computed and is not ready is what   *)
(* its rule computes from some values of its arguments, which are still    *)
(* those of all that its update does not find moved.                       *)
Traced(d, D, o) ==
  \E v \in [DI -> Value] :
    /\ D[d].val = Compute(Usual(d), v)
    /\ \A a \in Args(Usual(d)) \ Moved(Usual(d), o, D) : v[a] = D[a].val

TrackInv == \A d \in Ruled : Once(d) /\ ~IsReady(data, d) => Traced(d, data, upd[Usual(d)])

(* What an argument cannot do unseen by an object that was up to date with *)
(* it: change.                                                             *)
LEMMA MovedSeen ==
  ASSUME NEW u \in UpdateId, NEW o \in Object, NEW D \in [DI -> Instance], NEW E \in [DI -> Instance],
         NEW a \in InArgs(u), a \notin Moved(u, o, E),
         o.date[a] <= D[a].date, o.availability[a] = "Ready" => IsReady(D, a),
         \/ E[a].val = D[a].val \/ D[a].date < E[a].date \/ (~IsReady(D, a) /\ IsReady(E, a))
  PROVE  E[a].val = D[a].val
<1>1. a \in DI /\ o.date[a] \in Nat /\ D[a].date \in Nat /\ E[a].date \in Nat /\ o.availability[a] \in Availability
  BY ArgsType DEF Object, Instance
<1>2. ~(E[a].date > o.date[a]) /\ ~(E[a].avail = "Ready" /\ o.availability[a] = "Busy")
  BY <1>1 DEF Moved
<1>3. ~(D[a].date < E[a].date)
  BY <1>1, <1>2
<1>4. ~(~IsReady(D, a) /\ IsReady(E, a))
  BY <1>1, <1>2 DEF IsReady, Availability
<1> QED
  BY <1>3, <1>4

LEMMA WriteTraced ==
  ASSUME Writable \cap Ruled = {}, TypeInv, TypeInv', FileInv, PastInv, [Next]_vars, RunWrite,
         NEW d \in Ruled, JobUpdate = Usual(d)
  PROVE  Traced(d, data', upd'[Usual(d)])
<1> DEFINE u == Usual(d)
           n == NoteArguments(u, upd[u], seen)
           o == [n EXCEPT !.updated_once = TRUE]
           v == [a \in DI |-> seen[a].val]
<1>1. /\ u \in UpdateId /\ upd[u] \in Object /\ job.of = d /\ d \in DI /\ JobObject = upd[u]
      /\ seen \in [DI -> Instance] /\ data \in [DI -> Instance] /\ data' \in [DI -> Instance]
  BY UsualType DEF TypeInv, TypeOK, Usual, JobUpdate, JobObject
<1>2. upd'[u] = o
  <2>1. upd' = [upd EXCEPT ![u] = o]
    BY <1>1, RunWriteParts
  <2> HIDE DEF o
  <2> QED
    BY <1>1, <2>1 DEF TypeInv, TypeOK
<1>3. /\ n \in Object
      /\ \A a \in DI : n.date[a] = IF a \in Moved(u, upd[u], seen) THEN seen[a].date ELSE upd[u].date[a]
      /\ \A a \in InArgs(u) : n.availability[a] = seen[a].avail
  BY <1>1, NoteArgumentsEffect
<1> HIDE DEF n
<1>4. o \in Object /\ o.date = n.date /\ o.availability = n.availability
  BY <1>3 DEF Object
<1> HIDE DEF o
<1>5. /\ \A a \in DI : seen[a] = data[a] \/ (~IsReady(seen, a) /\ IsReady(data, a) /\ seen[a].date = data[a].date)
      /\ \A a \in OutArgs(u) : IsReady(seen, a)
  BY <1>1 DEF PastInv, SeenPast, RunWrite
<1>6. Later(data, data')
  BY NextLater
<1>7. data'[d].val = Compute(u, v)
  BY <1>1, RunWriteParts, WrittenLater DEF Computed
<1>8. ASSUME NEW a \in Args(u), a \notin Moved(u, o, data') PROVE v[a] = data'[a].val
  <2>1. a \in DI /\ (a \in InArgs(u) \/ a \in OutArgs(u))
    BY <1>1, ArgsType DEF OutArgs
  <2>2. CASE a \in OutArgs(u)
    <3>1. IsReady(seen, a) /\ seen[a] = data[a]
      BY <1>5, <2>1, <2>2
    <3> QED
      BY <1>6, <2>1, <3>1 DEF Later, IsReady
  <2>3. CASE a \in InArgs(u)
    <3>1. /\ seen[a].date \in Nat /\ data[a].date \in Nat /\ data'[a].date \in Nat /\ upd[u].date[a] \in Nat
          /\ upd[u].date[a] <= data[a].date /\ seen[a].date = data[a].date
      BY <1>1, <1>5, <2>1 DEF PastInv, DatesPast, Instance, Object
    <3>2. o.date[a] <= seen[a].date /\ (o.availability[a] = "Ready" => IsReady(seen, a))
      BY <1>3, <1>4, <2>1, <2>3, <3>1 DEF IsReady
    <3>3. \/ data'[a].val = seen[a].val \/ seen[a].date < data'[a].date
          \/ ~IsReady(seen, a) /\ IsReady(data', a)
      <4>1. CASE seen[a] = data[a]
        BY <1>6, <2>1, <4>1 DEF Later, IsReady
      <4>2. CASE ~IsReady(seen, a) /\ IsReady(data, a)
        BY <1>6, <2>1, <4>2 DEF Later, IsReady
      <4> QED
        BY <1>5, <2>1, <4>1, <4>2
    <3>4. data'[a].val = seen[a].val
      BY <1>1, <1>4, <1>8, <2>3, <3>2, <3>3, MovedSeen
    <3> QED
      BY <2>1, <3>4
  <2> QED
    BY <2>1, <2>2, <2>3
<1>9. v \in [DI -> Value]
  BY <1>1 DEF Instance
<1> HIDE DEF v
<1> QED
  BY <1>2, <1>7, <1>8, <1>9 DEF Traced

(* Once an update has been computed, its object only changes when it is    *)
(* evaluated or declared anew, never by a ping.                            *)
LEMMA OnceObject ==
  ASSUME TypeInv, TaskInv, CenterInv, FirstTime, PastInv, [Next]_vars,
         NEW d \in Ruled, Once(d), Once(d)'
  PROVE  LET u == Usual(d)
         IN  \/ upd'[u] = upd[u]
             \/ RunUnmoved /\ u = JobUpdate /\ upd'[u] = NoteArguments(u, upd[u], data)
             \/ RunWrite /\ u = JobUpdate
<1> DEFINE u == Usual(d)
<1>1. u \in UpdateId /\ ObjectStep(u)
  BY UsualType, NextObject
<1>2. ~(RunImpossible /\ u = JobUpdate)
  BY <1>1 DEF RunImpossible, OutReady, JobObject, PastInv, OnceRead, Once
<1>3. upd'[u] # NewObject
  BY DEF Once, NewObject
<1>4. u \notin SyncedUpdates
  <2> SUFFICES ASSUME NEW h \in Mapped, NEW x \in Waiting(h), u = Content(step[h], x) PROVE FALSE
    BY DEF SyncedUpdates
  <2>1. h \in Handle /\ x = d
    BY DEF Mapped, Content, Usual
  <2>2. d \in Fresh(step[h])
    BY <2>1 DEF Waiting, Fresh
  <2>3. d \in step[h].variables
    BY <2>1 DEF Waiting, TaskInv, Placed, Queue
  <2> QED
    BY <2>2, <2>3 DEF FirstTime, FreshInv
<1> QED
  BY <1>1, <1>2, <1>3, <1>4 DEF ObjectStep

LEMMA TraceKept ==
  ASSUME Writable \cap Ruled = {}, TypeInv, TypeInv', FileInv, PastInv, OutKnown, [Next]_vars,
         NEW d \in Ruled, Once(d), Traced(d, data, upd[Usual(d)]), data'[d].val = data[d].val,
         upd'[Usual(d)] = upd[Usual(d)]
  PROVE  Traced(d, data', upd'[Usual(d)])
<1> DEFINE u == Usual(d)
<1>1. u \in UpdateId /\ upd[u] \in Object /\ data \in [DI -> Instance] /\ data' \in [DI -> Instance]
  BY UsualType DEF TypeInv, TypeOK
<1>2. PICK v \in [DI -> Value] :
        /\ data[d].val = Compute(u, v)
        /\ \A a \in Args(u) \ Moved(u, upd[u], data) : v[a] = data[a].val
  BY DEF Traced
<1>3. Later(data, data')
  BY NextLater
<1>4. ASSUME NEW a \in Args(u), a \notin Moved(u, upd[u], data') PROVE v[a] = data'[a].val
  <2>1. a \in DI /\ (a \in InArgs(u) \/ a \in OutArgs(u))
    BY <1>1, ArgsType DEF OutArgs
  <2>2. a \notin Moved(u, upd[u], data)
    <3>1. /\ upd[u].date[a] \in Nat /\ data[a].date \in Nat /\ data'[a].date \in Nat
          /\ data[a].date <= data'[a].date
          /\ IsReady(data, a) => IsReady(data', a)
      BY <1>1, <1>3, <2>1 DEF Later, Object, Instance, IsReady
    <3> QED
      BY <1>4, <3>1 DEF Moved, IsReady
  <2>3. data'[a].val = data[a].val
    <3>1. CASE a \in OutArgs(u)
      BY <1>1, <1>3, <2>1, <3>1 DEF Once, PastInv, OnceRead, OutKnown, Later
    <3>2. CASE a \in InArgs(u)
      <4>1. /\ upd[u].date[a] <= data[a].date /\ (upd[u].availability[a] = "Ready" => IsReady(data, a))
            /\ \/ data'[a].val = data[a].val \/ data[a].date < data'[a].date
               \/ ~IsReady(data, a) /\ IsReady(data', a)
        BY <1>1, <1>3, <2>1 DEF PastInv, DatesPast, AvailabilityPast, Later
      <4> QED
        BY <1>1, <1>4, <3>2, <4>1, MovedSeen
    <3> QED
      BY <2>1, <3>1, <3>2
  <2> QED
    BY <1>2, <2>2, <2>3
<1> QED
  BY <1>2, <1>4 DEF Traced

LEMMA UnmovedTraced ==
  ASSUME TypeInv, RunUnmoved, NEW d \in Ruled, JobUpdate = Usual(d), Traced(d, data, upd[Usual(d)]),
         upd'[Usual(d)] = NoteArguments(Usual(d), upd[Usual(d)], data)
  PROVE  Traced(d, data', upd'[Usual(d)])
<1>1. data' = data /\ Moved(Usual(d), upd[Usual(d)], data) = {}
  BY DEF RunUnmoved, NothingMoved, JobObject
<1> QED
  BY <1>1 DEF Traced

LEMMA TrackStep ==
  ASSUME Writable \cap Ruled = {}, TypeInv, TypeInv', FileInv, TaskInv, GroundInv, CenterInv, PastInv,
         FirstTime, TrackInv, [Next]_vars
  PROVE  TrackInv'
<1> SUFFICES ASSUME NEW d \in Ruled, Once(d)', ~IsReady(data', d) PROVE Traced(d, data', upd'[Usual(d)])
  BY DEF TrackInv, Once
<1>1. CASE RunWrite /\ JobUpdate = Usual(d)
  BY <1>1, WriteTraced
<1>2. CASE ~(RunWrite /\ JobUpdate = Usual(d))
  <2>1. Once(d) /\ d \in DI
    BY <1>2, OnceStep, UsualType
  <2>2. ~IsReady(data, d)
    BY <2>1, NextLater DEF Later, IsReady
  <2>3. Traced(d, data, upd[Usual(d)])
    BY <2>1, <2>2 DEF TrackInv
  <2>4. data'[d].val = data[d].val
    <3>1. ~Written(d)
      <4> SUFFICES ASSUME RunWrite, d = job.of PROVE FALSE
        BY DEF Written
      <4>1. pc \in WithJob /\ job \in Task
        BY RunWriteParts DEF WithJob
      <4>2. job.phase = "init"
        BY <1>2, <4>1 DEF Task, Phase, JobUpdate, Usual
      <4>3. job \in InHand /\ HandMapped
        BY <4>1 DEF InHand, WithJob, CenterInv
      <4>4. job.step \in Mapped /\ d \in step[job.step].variables
        BY <4>3, InHandParts
      <4>5. d \in step[job.step].inits
        BY <4>2, <4>3 DEF CenterInv, HandPhase, Content
      <4> QED
        BY <2>1, <4>4, <4>5 DEF FirstTime, FreshInv, Fresh
    <3>2. ~BecomesReady(d)
      BY DEF BecomesReady
    <3> QED
      BY <2>1, <3>1, <3>2, NextInstance
  <2>5. CASE upd'[Usual(d)] = upd[Usual(d)]
    BY <2>1, <2>3, <2>4, <2>5, TraceKept DEF GroundInv
  <2>6. CASE RunUnmoved /\ Usual(d) = JobUpdate /\ upd'[Usual(d)] = NoteArguments(Usual(d), upd[Usual(d)], data)
    BY <2>3, <2>6, UnmovedTraced
  <2> QED
    BY <1>2, <2>1, <2>5, <2>6, OnceObject
<1> QED
  BY <1>1, <1>2

DatedInv == PastInv /\ FirstTime /\ TrackInv

LEMMA DatedInit == Init => DatedInv
<1>1. Init => \A u \in UpdateId : ~upd[u].updated_once
  BY DEF Init, NewObject
<1>2. Init => TrackInv
  BY <1>1, UsualType DEF TrackInv, Once
<1> QED
  BY <1>2, PastInit, FirstTimeInit DEF DatedInv

LEMMA DatedStep ==
  ASSUME Writable \cap Ruled = {}
  PROVE  TypeInv /\ TypeInv' /\ FileInv /\ TaskInv /\ GroundInv /\ CenterInv /\ DatedInv /\ [Next]_vars => DatedInv'
BY PastStep, FreshInvStep, ImpossibleInvStep, TrackStep DEF DatedInv, FirstTime

(* The dates are sound: when an update finds that none of its in-arguments *)
(* moved and skips the computation, its result is what it would compute    *)
(* from their current values (update::Base::operator(), cxsomUpdate.hpp).  *)
THEOREM SkipSound ==
  ASSUME Writable \cap Ruled = {}
  PROVE  Spec => []SkipIsSound
<1>1. TypeInv /\ DatedInv => SkipIsSound
  <2> SUFFICES ASSUME TypeInv, DatedInv, NEW d \in Ruled, ~IsReady(data, d),
                      NothingMoved(Usual(d), upd[Usual(d)], data)
               PROVE  data[d].val = Computed(Usual(d), data)
    BY DEF SkipIsSound, Usual
  <2> DEFINE w == [a \in DI |-> data[a].val]
  <2>1. Once(d) /\ Moved(Usual(d), upd[Usual(d)], data) = {} /\ Usual(d) \in UpdateId
    BY UsualType DEF NothingMoved, Once
  <2>2. PICK v \in [DI -> Value] : /\ data[d].val = Compute(Usual(d), v)
                                   /\ \A a \in Args(Usual(d)) : v[a] = data[a].val
    BY <2>1 DEF DatedInv, TrackInv, Traced
  <2>3. w \in [DI -> Value] /\ \A a \in Args(Usual(d)) : v[a] = w[a]
    BY <2>1, <2>2, ArgsType DEF TypeInv, TypeOK, Instance
  <2> HIDE DEF w
  <2>4. Compute(Usual(d), v) = Compute(Usual(d), w)
    BY <2>1, <2>2, <2>3, ComputeAssumption
  <2> QED
    BY <2>2, <2>4 DEF Computed, w
<1>2. TypeInv /\ FileInv /\ [Next]_vars => FileInv'
  BY NextFileInv
<1>3. GroundInv => FiledElsewhere
  BY DEF GroundInv
<1>4. TypeInv /\ TypeInv' /\ FileInv /\ TaskInv /\ GroundInv /\ CenterInv /\ DatedInv /\ [Next]_vars => DatedInv'
  BY DatedStep
<1> QED
  BY <1>1, <1>2, <1>3, <1>4, DatedInit, CenterInit, CenterStep, GroundInit, GroundStep, TaskInitial, TaskStep,
     InitFileInv, InitTypeInv, NextTypeInv, PTL DEF Spec

-----------------------------------------------------------------------------
(* The confirmed updates.  An object is steady when it has seen the dates  *)
(* of all its in-arguments that are not ready.                             *)
Steady(u) ==
  /\ upd[u].updated_once
  /\ \A a \in InArgs(u) : upd[u].date[a] = data[a].date \/ IsReady(data, a)

(* A report is about to take the confirmed updates of h back.              *)
Restless(h) ==
  /\ h = job.step
  /\ \/ pc = "report" /\ report = "Updated"
     \/ pc = "status" /\ step[h].queues["Unstable"] # {}

ConfInv ==
  \A h \in Handle : \A d \in step[h].queues["Confirmed"] :
    d \notin step[h].inits /\ Once(d) /\ (Steady(Usual(d)) \/ Restless(h))

SteadyReport == pc = "report" /\ report = "UpToDate" => Steady(JobUpdate)

(* What keeps the dates an object has seen up to date: all but the write   *)
(* of a new value of one of its in-arguments.                              *)
LEMMA SteadyStep ==
  ASSUME Writable \cap Ruled = {}, TypeInv, TypeInv', FileInv, PastInv, [Next]_vars,
         NEW u \in UpdateId, Steady(u), upd'[u].updated_once
  PROVE  Steady(u)' \/ (RunWrite /\ report' = "Updated" /\ job.of \in InArgs(u))
<1> SUFFICES ASSUME ~(RunWrite /\ report' = "Updated" /\ job.of \in InArgs(u)) PROVE Steady(u)'
  OBVIOUS
<1> SUFFICES ASSUME NEW a \in InArgs(u), ~IsReady(data', a) PROVE upd'[u].date[a] = data'[a].date
  BY DEF Steady
<1>1. /\ a \in DI /\ upd[u] \in Object /\ data \in [DI -> Instance] /\ seen \in [DI -> Instance]
      /\ data[a].date \in Nat /\ data'[a].date \in Nat
  BY ArgsType DEF TypeInv, TypeOK, Instance
<1>2. ~IsReady(data, a) /\ upd[u].date[a] = data[a].date
  BY <1>1, NextLater DEF Later, IsReady, Steady
<1>3. data'[a].date = data[a].date
  <2>1. CASE Written(a)
    <3>1. RunWrite /\ a = job.of /\ pc = "write"
      BY <2>1 DEF Written, RunWrite
    <3>2. report' = ReportOf(JobUpdate, JobObject, seen, data[job.of])
      BY <3>1, RunWriteParts
    <3>3. report' # "Updated"
      BY <3>1
    <3>4. ~(AllInReady(JobUpdate, seen) /\ ~IsInit(JobUpdate))
      <4> SUFFICES ASSUME AllInReady(JobUpdate, seen), ~IsInit(JobUpdate) PROVE FALSE
        OBVIOUS
      <4>1. PICK next \in Nat : data'[a] = WriteResult(JobUpdate, JobObject, seen, data[a], next)
        BY <2>1 DEF Written
      <4>2. data'[a].avail = "Ready"
        BY <4>1 DEF WriteResult
      <4> QED
        BY <4>2 DEF IsReady
    <3>5. ~Significant(JobUpdate, JobObject, seen, data[job.of])
      BY <3>2, <3>3, <3>4 DEF ReportOf
    <3> QED
      BY <2>1, <3>1, <3>5, WrittenLater
  <2>2. CASE ~Written(a)
    BY <1>1, <2>2, NextInstance DEF BecomesReady
  <2> QED
    BY <2>1, <2>2
<1>4. CASE upd'[u] = upd[u]
  BY <1>2, <1>3, <1>4
<1>5. CASE upd'[u] = NoteAvailability(upd[u], data, OutArgs(u))
  <2>1. NoteAvailability(upd[u], data, OutArgs(u)).date = upd[u].date
    BY <1>1 DEF NoteAvailability, Object
  <2> QED
    BY <1>2, <1>3, <1>5, <2>1
<1>6. CASE upd'[u] = NoteArguments(u, upd[u], data)
  <2>1. NoteArguments(u, upd[u], data).date[a] \in {data[a].date, upd[u].date[a]}
    BY <1>1, NoteArgumentsEffect
  <2> QED
    BY <1>2, <1>3, <1>6, <2>1
<1>7. CASE RunWrite /\ upd'[u] = [NoteArguments(u, upd[u], seen) EXCEPT !.updated_once = TRUE]
  <2> DEFINE n == NoteArguments(u, upd[u], seen)
  <2>1. n \in Object /\ n.date[a] \in {seen[a].date, upd[u].date[a]}
    BY <1>1, NoteArgumentsEffect
  <2>2. seen[a].date = data[a].date
    BY <1>1, <1>7 DEF PastInv, SeenPast, RunWrite
  <2>3. upd'[u] = [n EXCEPT !.updated_once = TRUE]
    BY <1>7
  <2> HIDE DEF n
  <2>4. upd'[u].date = n.date
    BY <2>1, <2>3 DEF Object
  <2> QED
    BY <1>2, <1>3, <2>1, <2>2, <2>4
<1>8. upd'[u] # NewObject
  BY DEF NewObject
<1>9. CASE upd'[u] = NoteFiled(u)
  <2>1. NoteFiled(u).date = upd[u].date
    BY <1>1 DEF NoteFiled, Object
  <2> QED
    BY <1>2, <1>3, <1>9, <2>1
<1> QED
  BY <1>4, <1>5, <1>6, <1>7, <1>8, <1>9, NextObject DEF ObjectStep

(* A rule is not declared anew while its timestep holds it. *)
LEMMA OnceKept ==
  ASSUME TypeInv, [Next]_vars, NEW u \in UpdateId, upd[u].updated_once,
         NEW h \in Mapped, Result(u) \in step[h].variables, StepOf[Result(u)] = StepId(h)
  PROVE  upd'[u].updated_once
<1>1. upd[u] \in Object /\ ObjectStep(u) /\ data \in [DI -> Instance] /\ seen \in [DI -> Instance]
  BY NextObject DEF TypeInv, TypeOK
<1>2. CASE upd'[u] = NoteAvailability(upd[u], data, OutArgs(u))
  <2>1. NoteAvailability(upd[u], data, OutArgs(u)).updated_once = upd[u].updated_once
    BY <1>1 DEF NoteAvailability, Object
  <2> QED
    BY <1>2, <2>1
<1>3. CASE upd'[u] = NoteArguments(u, upd[u], data)
  <2>1. NoteArguments(u, upd[u], data).updated_once = upd[u].updated_once
    BY <1>1, NoteArgumentsEffect
  <2> QED
    BY <1>3, <2>1
<1>4. CASE upd'[u] = [NoteArguments(u, upd[u], seen) EXCEPT !.updated_once = TRUE]
  <2> DEFINE n == NoteArguments(u, upd[u], seen)
  <2>1. n \in Object /\ upd'[u] = [n EXCEPT !.updated_once = TRUE]
    BY <1>1, <1>4, NoteArgumentsEffect
  <2> HIDE DEF n
  <2> QED
    BY <2>1 DEF Object
<1>5. ASSUME NEW c \in Client, Declare(c, Result(u)) PROVE upd'[u] = upd[u]
  <2> DEFINE t == StepOf[Result(u)]
             g == <<t, ObjectOf(t)>>
             s == IF current[t] # 0 THEN step[g] ELSE NewTimeStep
  <2>1. h \in Handle
    BY DEF Mapped
  <2>2. current[t] # 0 /\ g = h
    BY <2>1, HandleParts DEF ObjectOf
  <2>3. Result(u) \in s.variables
    BY <2>2
  <2>4. UNCHANGED upd \/ (Result(u) \in s.variables => UNCHANGED upd)
    BY <1>5 DEF Declare
  <2> QED
    BY <2>3, <2>4
<1>6. CASE upd'[u] = NoteFiled(u)
  <2>1. NoteFiled(u).updated_once = upd[u].updated_once
    BY <1>1 DEF NoteFiled, Object
  <2> QED
    BY <1>6, <2>1
<1>7. CASE upd'[u] = upd[u]
  BY <1>7
<1> QED
  BY <1>1, <1>2, <1>3, <1>4, <1>5, <1>6, <1>7 DEF ObjectStep

LEMMA JobHeld ==
  ASSUME TypeInv, TaskInv, CenterInv, pc \in WithJob
  PROVE  /\ job \in Task /\ job.step \in Mapped /\ job.step \in Handle /\ job.of \in Ruled
         /\ JobUpdate \in UpdateId /\ Result(JobUpdate) = job.of
         /\ job.of \in step[job.step].variables /\ StepOf[job.of] = StepId(job.step)
         /\ job.of \in step[job.step].taken
         /\ JobUpdate = Content(step[job.step], job.of)
<1>1. job \in InHand /\ HandMapped /\ HandPhase /\ TheirSteps
  BY DEF InHand, WithJob, CenterInv
<1>2. /\ job \in Task /\ job.step \in Mapped /\ job.step \in Handle /\ job.of \in step[job.step].taken
      /\ job.of \in step[job.step].variables
  BY <1>1, InHandParts
<1>3. JobUpdate = Content(step[job.step], job.of)
  BY <1>1 DEF HandPhase, JobUpdate
<1>4. JobUpdate \in UpdateId /\ Result(JobUpdate) = job.of
  BY <1>2, JobType DEF TypeInv
<1> QED
  BY <1>1, <1>2, <1>3, <1>4 DEF TheirSteps, Task

LEMMA UnmovedSteady ==
  ASSUME TypeInv, PastInv, RunUnmoved, report' = "UpToDate"
  PROVE  Steady(JobUpdate)'
<1> DEFINE u == JobUpdate
           n == NoteArguments(u, upd[u], data)
<1>1. /\ pc \in WithJob /\ u \in UpdateId /\ upd[u] \in Object /\ data \in [DI -> Instance]
      /\ JobObject = upd[u] /\ data' = data /\ job' = job /\ JobUpdate' = u
  <2>1. pc = "run" /\ job' = job /\ data' = data /\ JobUpdate' = u
    BY DEF RunUnmoved, Evaluated, JobUpdate
  <2>2. job \in Task
    BY <2>1 DEF TypeInv, WorkerOK
  <2>3. u \in UpdateId
    BY <2>2, JobType DEF TypeInv
  <2>4. upd \in [UpdateId -> Object] /\ data \in [DI -> Instance]
    BY DEF TypeInv, TypeOK
  <2>5. JobObject = upd[u]
    BY DEF JobObject
  <2> QED
    BY <2>1, <2>3, <2>4, <2>5 DEF WithJob
<1>2. Moved(u, upd[u], data) = {} /\ upd[u].updated_once
  BY <1>1 DEF RunUnmoved, NothingMoved
<1>3. n.updated_once = upd[u].updated_once /\ \A a \in DI : n.date[a] = upd[u].date[a]
  <2>1. /\ n.updated_once = upd[u].updated_once
        /\ \A a \in DI : n.date[a] = IF a \in Moved(u, upd[u], data) THEN data[a].date ELSE upd[u].date[a]
    BY <1>1, NoteArgumentsEffect
  <2> HIDE DEF n
  <2> QED
    BY <1>2, <2>1
<1>4. upd' = [upd EXCEPT ![u] = n]
  BY <1>1 DEF RunUnmoved, Evaluated
<1> HIDE DEF n
<1>5. upd'[u] = n
  BY <1>1, <1>4 DEF TypeInv, TypeOK
<1>6. ASSUME NEW a \in InArgs(u) PROVE upd[u].date[a] = data[a].date
  <2>1. a \in DI /\ upd[u].date[a] \in Nat /\ data[a].date \in Nat
    BY <1>1, ArgsType DEF Object, Instance
  <2>2. upd[u].date[a] <= data[a].date /\ ~(data[a].date > upd[u].date[a])
    BY <1>1, <1>2, <2>1 DEF PastInv, DatesPast, Moved
  <2> QED
    BY <2>1, <2>2
<1>7. InArgs(u) \subseteq DI
  BY <1>1, ArgsType
<1> HIDE DEF u
<1> QED
  BY <1>1, <1>2, <1>3, <1>5, <1>6, <1>7 DEF Steady

LEMMA WriteSteady ==
  ASSUME TypeInv, FileInv, PastInv, RunWrite, report' = "UpToDate"
  PROVE  Steady(JobUpdate)'
<1> DEFINE u == JobUpdate
           n == NoteArguments(u, upd[u], seen)
           o == [n EXCEPT !.updated_once = TRUE]
<1>1. /\ u \in UpdateId /\ upd[u] \in Object /\ data \in [DI -> Instance] /\ seen \in [DI -> Instance]
      /\ JobObject = upd[u] /\ JobUpdate' = u /\ pc = "write"
  BY RunWriteParts DEF TypeInv, TypeOK, JobObject, JobUpdate
<1>2. upd'[u] = o
  <2>1. upd' = [upd EXCEPT ![u] = o]
    BY <1>1, RunWriteParts
  <2> HIDE DEF o
  <2> QED
    BY <1>1, <2>1 DEF TypeInv, TypeOK
<1>3. n \in Object /\ \A a \in DI : n.date[a] = IF a \in Moved(u, upd[u], seen) THEN seen[a].date ELSE upd[u].date[a]
  BY <1>1, NoteArgumentsEffect
<1> HIDE DEF n
<1>4. o.updated_once /\ o.date = n.date
  BY <1>3 DEF Object
<1> HIDE DEF o
<1>5. ~Significant(u, upd[u], seen, data[job.of])
  BY <1>1, RunWriteParts DEF ReportOf
<1>6. ASSUME NEW a \in InArgs(u) PROVE o.date[a] = data'[a].date
  <2>1. a \in DI /\ upd[u].date[a] \in Nat /\ data[a].date \in Nat /\ seen[a].date = data[a].date
    BY <1>1, ArgsType DEF Object, Instance, PastInv, SeenPast
  <2>2. data'[a].date = data[a].date
    <3>1. CASE a = job.of
      BY <1>1, <1>5, <3>1, RunWriteParts, WrittenLater
    <3>2. CASE a # job.of
      BY <2>1, <3>2, RunWriteParts
    <3> QED
      BY <3>1, <3>2
  <2>3. upd[u].date[a] <= data[a].date
    BY <1>1, <2>1 DEF PastInv, DatesPast
  <2>4. n.date[a] = data[a].date
    <3>1. CASE a \in Moved(u, upd[u], seen)
      BY <1>3, <2>1, <3>1
    <3>2. CASE a \notin Moved(u, upd[u], seen)
      <4>1. ~(seen[a].date > upd[u].date[a])
        BY <3>2 DEF Moved
      <4> QED
        BY <1>3, <2>1, <2>3, <3>2, <4>1
    <3> QED
      BY <3>1, <3>2
  <2> QED
    BY <1>4, <2>2, <2>4
<1> HIDE DEF u
<1> QED
  BY <1>1, <1>2, <1>4, <1>6 DEF Steady

LEMMA SteadyReportStep ==
  ASSUME Writable \cap Ruled = {}, TypeInv, TypeInv', FileInv, TaskInv, CenterInv, PastInv, SteadyReport, [Next]_vars
  PROVE  SteadyReport'
<1> SUFFICES ASSUME pc' = "report", report' = "UpToDate" PROVE Steady(JobUpdate)'
  BY DEF SteadyReport, Steady, JobUpdate
<1>1. CASE Run
  <2>1. RunUnmoved \/ RunWrite
    BY <1>1 DEF Run, RunReady, RunImpossible, RunRead, Evaluated
  <2> QED
    BY <2>1, UnmovedSteady, WriteSteady
<1>2. CASE ~Run
  <2>1. pc = "report" /\ report = "UpToDate" /\ JobUpdate' = JobUpdate /\ ~RunWrite /\ pc \in WithJob
    BY <1>2, ReportKept DEF JobUpdate, Run, WithJob
  <2>2. Steady(JobUpdate)
    BY <2>1 DEF SteadyReport
  <2>3. upd'[JobUpdate].updated_once
    BY <2>1, <2>2, JobHeld, OnceKept DEF Steady
  <2>4. \A u \in UpdateId : Steady(u) /\ upd'[u].updated_once => Steady(u)'
    BY <2>1, SteadyStep
  <2>5. JobUpdate \in UpdateId
    BY <2>1, JobHeld
  <2>6. ASSUME NEW u \in UpdateId, u = JobUpdate PROVE Steady(u)'
    BY <2>2, <2>3, <2>4, <2>6
  <2> QED
    BY <2>1, <2>5, <2>6 DEF Steady
<1> QED
  BY <1>1, <1>2

(* No timestep is Unbound with confirmed updates: none of its rules was    *)
(* declared, with an argument that is missing, while it was checking.      *)
BoundConfirmed == \A h \in Handle : step[h].status = "Unbound" => step[h].queues["Confirmed"] = {}

(* An update is confirmed by the report that finds it up to date.          *)
LEMMA ConfirmedStep ==
  ASSUME TypeInv, TaskInv, [Next]_vars, NEW h \in Handle, NEW d \in step'[h].queues["Confirmed"]
  PROVE  \/ d \in step[h].queues["Confirmed"]
         \/ ReportJob /\ h = job.step /\ d = job.of /\ report = "UpToDate" /\ d \notin step'[h].inits
            /\ d \notin step[h].inits
<1>1. step[h] \in TimeStepRecord /\ Changed(h)
  BY NextChanged DEF TypeInv, TypeOK
<1>q. {"New", "Impossible", "Unstable", "Stable", "Confirmed"} \subseteq Queue
  BY DEF Queue
<1>2. CASE step'[h].queues["Confirmed"] \subseteq step[h].queues["Confirmed"]
  BY <1>2
<1>3. CASE GetOne /\ step'[h] = TakeJobs(CheckUnbound(step[h], data))
  BY <1>1, <1>2, <1>3, TakenFields
<1>4. CASE ReportJob /\ h = job.step /\ step'[h] = Requeue(step[h], job.of, job.source, report, BlockersOf(JobUpdate, JobObject))
  <2> DEFINE n == Requeue(step[h], job.of, job.source, report, BlockersOf(JobUpdate, JobObject))
             to == UpToDateQueue(step[h], job.source)
  <2>1. \/ MovedTo(n, step[h], job.of, "Impossible")
        \/ MovedTo(n, step[h], job.of, "Unstable")
        \/ /\ report = "UpToDate" /\ job.of \notin step[h].inits /\ n.inits = step[h].inits
           /\ MovedTo(n, step[h], job.of, to)
        \/ Dropped(n, step[h], job.of)
    BY <1>1, <1>4, ReportJobParts, RequeueEffect
  <2> HIDE DEF n, to
  <2>2. \/ n.queues["Confirmed"] \subseteq step[h].queues["Confirmed"]
        \/ /\ report = "UpToDate" /\ job.of \notin step[h].inits /\ n.inits = step[h].inits
           /\ n.queues["Confirmed"] \subseteq step[h].queues["Confirmed"] \cup {job.of}
    BY <1>q, <2>1 DEF MovedTo, Dropped
  <2> QED
    BY <1>4, <2>2 DEF n
<1>5. CASE step'[h] = UpdateStatus(step[h], data)
  BY <1>1, <1>2, <1>5, UpdatedFields
<1>6. CASE step'[h] = Unblock(step[h], Top.done) \/ step'[h] = UpdateStatus(Unblock(step[h], Top.done), data)
  BY <1>1, <1>2, <1>6, UnblockEffect, UpdatedFields
<1>7. ASSUME NEW e \in Ruled, step'[h] = Add(step[h], e)
      PROVE  step'[h].queues["Confirmed"] = step[h].queues["Confirmed"]
  <2>1. CASE e \in step[h].variables
    BY <1>7, <2>1 DEF Add
  <2>2. CASE e \notin step[h].variables
    BY <1>1, <1>7, <1>q, <2>2, AddEffect
  <2> QED
    BY <2>1, <2>2
<1>8. ASSUME NEW e \in Ruled, step'[h] = Add(NewTimeStep, e) PROVE FALSE
  BY <1>8, BuiltFields
<1>9. CASE step'[h] = ClearBlockingInfo(step[h])
  BY <1>1, <1>2, <1>9, ClearEffect
<1>10. CASE step'[h] = [step[h] EXCEPT !.new_blockers = {}]
  BY <1>1, <1>2, <1>10 DEF TimeStepRecord
<1>11. CASE step'[h] = step[h]
  BY <1>2, <1>11
<1> QED
  BY <1>1, <1>2, <1>3, <1>4, <1>5, <1>6, <1>7, <1>8, <1>9, <1>10, <1>11 DEF Changed

(* A report that takes confirmed updates back does it before anything else *)
(* is evaluated, unless it makes the timestep Unbound.                     *)
LEMMA RestlessStep ==
  ASSUME TypeInv, TypeInv', TaskInv, BoundConfirmed', [Next]_vars, NEW h \in Mapped, Restless(h)
  PROVE  Restless(h)' \/ step'[h].queues["Confirmed"] = {}
<1>1. h \in Handle /\ step[h] \in TimeStepRecord /\ h = job.step
  BY DEF Restless, Mapped, TypeInv, TypeOK
<1>q. {"Unstable", "Confirmed"} \subseteq Queue
  BY DEF Queue
<1>2. CASE ReportJob
  <2> DEFINE n == Requeue(step[h], job.of, job.source, report, BlockersOf(JobUpdate, JobObject))
  <2>1. report = "Updated" /\ step'[h] = n /\ pc' = "status" /\ job' = job
    BY <1>1, <1>2 DEF ReportJob, Restless, TypeInv, TypeOK
  <2>2. MovedTo(n, step[h], job.of, "Unstable")
    BY <1>1, <1>2, <2>1, ReportJobParts, RequeueEffect
  <2> HIDE DEF n
  <2>3. job.of \in n.queues["Unstable"]
    BY <1>q, <2>2 DEF MovedTo
  <2> QED
    BY <1>1, <2>1, <2>3 DEF Restless
<1>3. CASE ReportStatus
  <2> DEFINE a == AdmitNew(step[h], data)
  <2>1. step'[h] = UpdateStatus(step[h], data) /\ step[h].queues["Unstable"] # {}
    BY <1>1, <1>3 DEF ReportStatus, Restless, TypeInv, TypeOK
  <2>2. a.queues["Unstable"] # {}
    BY <1>1, <2>1, AdmitNewEffect
  <2>3. \/ \A q \in Queue : step'[h].queues[q] = {}
        \/ Unbinds(step'[h], a) \/ Unsettles(step'[h], a) \/ Checks(step'[h], a)
    BY <1>1, <2>1, UpdateStatusEffect
  <2> HIDE DEF a
  <2>4. CASE Unbinds(step'[h], a)
    BY <1>1, <2>4 DEF Unbinds, BoundConfirmed
  <2>5. CASE Unsettles(step'[h], a)
    BY <2>5 DEF Unsettles
  <2> QED
    BY <1>q, <2>2, <2>3, <2>4, <2>5 DEF Checks
<1>4. CASE ~ReportJob /\ ~ReportStatus
  <2>1. UNCHANGED <<pc, report, job>> /\ ~Worker
    <3>a. pc \in {"report", "status"}
      BY DEF Restless
    <3>1. ~Worker
      BY <1>4, <3>a DEF Worker, Run, RunReady, RunImpossible, RunUnmoved, RunRead, RunWrite,
         TestInteraction, Wait, GetOne, NotifyDone, NotifyUnblock, NotifyReturn, RegisterBlocked
    <3>2. ~SpuriousWake
      BY <3>a DEF SpuriousWake
    <3>3. ASSUME NEW c \in Client, ClientStep(c) PROVE UNCHANGED <<pc, report, job>>
      BY <3>a, <3>3 DEF ClientStep, Open, Declare, Ping, Close, Notify, workerVars
    <3>4. CASE (\E d \in DI : WriteFile(d)) \/ UNCHANGED vars
      BY <3>1, <3>4 DEF WriteFile, vars, workerVars
    <3> QED
      BY <3>1, <3>2, <3>3, <3>4 DEF Next
  <2>2. step[h].queues["Unstable"] \subseteq step'[h].queues["Unstable"]
    <3>1. ~GetOne /\ ~NotifyUnblock /\ ~RegisterBlocked
      BY <2>1 DEF Worker
    <3>2. current[StepId(h)] # 0
      BY <1>1, HandleParts
    <3>3. CASE step'[h] = step[h]
      BY <3>3
    <3>4. ASSUME NEW e \in Ruled, step'[h] = Add(step[h], e)
          PROVE  step'[h].queues["Unstable"] = step[h].queues["Unstable"]
      <4>1. CASE e \in step[h].variables
        BY <3>4, <4>1 DEF Add
      <4>2. CASE e \notin step[h].variables
        BY <1>1, <1>q, <3>4, <4>2, AddEffect
      <4> QED
        BY <4>1, <4>2
    <3>5. CASE step'[h] = ClearBlockingInfo(step[h])
      BY <1>1, <3>5, ClearEffect
    <3> QED
      BY <1>1, <1>4, <3>1, <3>2, <3>3, <3>4, <3>5, NextChanged DEF Changed
  <2> QED
    BY <1>1, <2>1, <2>2 DEF Restless
<1> QED
  BY <1>2, <1>3, <1>4

LEMMA ConfStep ==
  ASSUME Writable \cap Ruled = {}, TypeInv, TypeInv', FileInv, TaskInv, CenterInv, CenterInv', PastInv,
         SteadyReport, ConfInv, BoundConfirmed', [Next]_vars
  PROVE  ConfInv'
<1> SUFFICES ASSUME NEW h \in Handle, NEW d \in step'[h].queues["Confirmed"]
             PROVE  d \notin step'[h].inits /\ Once(d)' /\ (Steady(Usual(d))' \/ Restless(h)')
  BY DEF ConfInv, Once, Steady, Usual
<1> DEFINE u == Usual(d)
<1>q. {"Unstable", "Stable", "Confirmed"} \subseteq Queue
  BY DEF Queue
<1>1. CASE d \in step[h].queues["Confirmed"]
  <2>1. h \in Mapped /\ d \in step[h].variables /\ d \in Ruled /\ StepOf[d] = StepId(h)
    <3>1. h \in Mapped
      BY <1>1 DEF CenterInv, IdleInv
    <3>2. d \in step[h].variables /\ step[h] \in TimeStepRecord
      BY <1>1, <1>q DEF TaskInv, Placed, TypeInv, TypeOK
    <3> QED
      BY <3>1, <3>2 DEF CenterInv, TheirSteps, TimeStepRecord
  <2>2. d \notin step[h].inits /\ Once(d) /\ (Steady(u) \/ Restless(h))
    BY <1>1 DEF ConfInv
  <2>3. u \in UpdateId /\ Result(u) = d
    BY <2>1, UsualType
  <2>4. upd'[u].updated_once
    BY <2>1, <2>2, <2>3, OnceKept DEF Once
  <2>5. ~(ReportJob /\ h = job.step /\ d = job.of)
    <3> SUFFICES ASSUME ReportJob, h = job.step, d = job.of PROVE FALSE
      OBVIOUS
    <3>1. d \in step[h].taken /\ Placed(step[h])
      BY ReportJobParts
    <3> QED
      BY <1>1, <1>q, <3>1 DEF Placed
  <2>6. d \notin step'[h].inits
    BY <2>1, <2>2, <2>5, InitsKept
  <2>7. CASE Steady(u)
    <3>1. Steady(u)' \/ (RunWrite /\ report' = "Updated" /\ job.of \in InArgs(u))
      BY <2>3, <2>4, <2>7, SteadyStep
    <3>2. ASSUME RunWrite, report' = "Updated", job.of \in InArgs(u) PROVE Restless(h)'
      <4>1. pc \in WithJob /\ pc' = "report" /\ job' = job
        BY <3>2, RunWriteParts DEF WithJob
      <4>2. job.step \in Mapped /\ StepOf[job.of] = StepId(job.step)
        BY <4>1, JobHeld
      <4>3. StepId(job.step) = StepId(h)
        BY <2>1, <2>3, <3>2, <4>2 DEF InArgs
      <4>4. h = job.step
        BY <2>1, <4>2, <4>3, SameMapped
      <4> QED
        BY <3>2, <4>1, <4>4 DEF Restless
    <3> QED
      BY <2>4, <2>6, <3>1, <3>2 DEF Once
  <2>8. CASE Restless(h)
    BY <2>1, <2>4, <2>6, <2>8, RestlessStep DEF Once
  <2> QED
    BY <2>2, <2>7, <2>8
<1>2. CASE /\ ReportJob /\ h = job.step /\ d = job.of /\ report = "UpToDate"
           /\ d \notin step'[h].inits /\ d \notin step[h].inits
  <2>1. pc = "report" /\ pc \in WithJob /\ UNCHANGED <<data, upd>>
    BY <1>2 DEF ReportJob, WithJob, dataVars
  <2>2. JobUpdate = u
    BY <1>2, <2>1, JobHeld DEF Content, Usual
  <2>3. Steady(u)
    BY <1>2, <2>1, <2>2 DEF SteadyReport
  <2> QED
    BY <1>2, <2>1, <2>3 DEF Steady, Once, IsReady
<1> QED
  BY <1>1, <1>2, ConfirmedStep

(* The relaxation keeps its promise to a confirmed update ("Updates whose  *)
(* stability is confirmed", cxsomTimeStep.hpp): as long as no declaration  *)
(* makes a timestep Unbound while it has confirmed updates, none of the    *)
(* in-arguments of these has changed since they were evaluated, unless     *)
(* that change is their last one.  The condition is needed: update_status  *)
(* leaves the confirmed updates of an Unbound timestep alone.              *)
THEOREM ConfirmedStable ==
  ASSUME Writable \cap Ruled = {}
  PROVE  Spec /\ []BoundConfirmed => []ConfirmedIsStable
<1>1. ConfInv => ConfirmedIsStable
  BY DEF ConfInv, ConfirmedIsStable, Restless, Steady, Once, Usual
<1>2. Init => SteadyReport /\ ConfInv
  <2> SUFFICES ASSUME Init PROVE SteadyReport /\ ConfInv
    OBVIOUS
  <2>1. \A h \in Handle : step[h].queues["Confirmed"] = {}
    BY DEF Init, NewTimeStep, Queue
  <2> QED
    BY <2>1 DEF Init, SteadyReport, ConfInv
<1>3. TypeInv /\ TypeInv' /\ FileInv /\ TaskInv /\ CenterInv /\ CenterInv' /\ DatedInv /\ SteadyReport
        /\ ConfInv /\ BoundConfirmed' /\ [Next]_vars => SteadyReport' /\ ConfInv'
  BY SteadyReportStep, ConfStep DEF DatedInv
<1>4. TypeInv /\ FileInv /\ [Next]_vars => FileInv'
  BY NextFileInv
<1>5. GroundInv => FiledElsewhere
  BY DEF GroundInv
<1>6. TypeInv /\ TypeInv' /\ FileInv /\ TaskInv /\ GroundInv /\ CenterInv /\ DatedInv /\ [Next]_vars => DatedInv'
  BY DatedStep
<1> QED
  BY <1>1, <1>2, <1>3, <1>4, <1>5, <1>6, DatedInit, CenterInit, CenterStep, GroundInit, GroundStep,
     TaskInitial, TaskStep, InitFileInv, InitTypeInv, NextTypeInv, PTL DEF Spec
=============================================================================
