----------------------------- MODULE JobsProofs -----------------------------
(***************************************************************************)
(* Theorems about the job center, for every value of its constants: its    *)
(* types, its files, the writer scope, the queues and the tasks, what the  *)
(* worker may sleep on and what ready values rest on.                      *)
(***************************************************************************)
EXTENDS JobsProperties, SequenceTheorems, TLAPS

-----------------------------------------------------------------------------
(* Types of the operators on update objects and timesteps. *)

(* The arguments of the rules are data instances. *)
LEMMA ArgsType ==
  ASSUME NEW u \in UpdateId
  PROVE  /\ Args(u) \subseteq DI
         /\ InArgs(u) \subseteq DI
         /\ OutArgs(u) \subseteq DI
         /\ Result(u) \in DI
  BY ConstantsAssumption DEF Args, InArgs, OutArgs, Result, UpdateId, Phase

LEMMA BlockersType ==
  ASSUME NEW u \in UpdateId, NEW o \in Object
  PROVE  BlockersOf(u, o) \subseteq TS
  BY ArgsType, ConstantsAssumption DEF BlockersOf

LEMMA NoteAvailabilityType ==
  ASSUME NEW o \in Object, NEW D \in [DI -> Instance], NEW A
  PROVE  NoteAvailability(o, D, A) \in Object
  BY DEF NoteAvailability, Object, Instance

LEMMA NoteArgumentsType ==
  ASSUME NEW u \in UpdateId, NEW o \in Object, NEW D \in [DI -> Instance]
  PROVE  NoteArguments(u, o, D) \in Object
<1> DEFINE A == InArgs(u) \cup (IF o.out_ok THEN {} ELSE OutArgs(u))
<1>1. NoteAvailability(o, D, A) \in Object
  BY NoteAvailabilityType
<1>2. [a \in DI |-> IF a \in Moved(u, o, D) THEN D[a].date ELSE o.date[a]]
        \in [DI -> Nat]
  BY <1>1 DEF Object, Instance
<1> QED
  BY <1>1, <1>2 DEF NoteArguments, Object

LEMMA NextDateType ==
  ASSUME NEW u \in UpdateId, NEW o, NEW D \in [DI -> Instance], NEW r \in Instance,
         NEW next \in NextDate(u, o, D, r)
  PROVE  next \in Nat
<1>1. Moved(u, o, D) \subseteq DI
  BY ArgsType DEF Moved
<1> QED
  BY <1>1 DEF NextDate, Instance

LEMMA WriteResultType ==
  ASSUME NEW u \in UpdateId, NEW o, NEW D \in [DI -> Instance], NEW r \in Instance,
         NEW next \in Nat
  PROVE  WriteResult(u, o, D, r, next) \in Instance
<1>1. [a \in DI |-> D[a].val] \in [DI -> Value]
  BY DEF Instance
<1>2. Computed(u, D) \in Value
  BY <1>1, ComputeAssumption DEF Computed
<1> QED
  BY <1>2, ArgsType DEF WriteResult, Instance, Availability

LEMMA AdmitNewType ==
  ASSUME NEW s \in TimeStepRecord, NEW D
  PROVE  AdmitNew(s, D) \in TimeStepRecord
<1>1. Held(s, D) \subseteq Ruled
  BY DEF Held, TimeStepRecord, Queue
<1> QED
  BY <1>1 DEF AdmitNew, TimeStepRecord, Queue

LEMMA MoveQueueType ==
  ASSUME NEW s \in TimeStepRecord, NEW p \in Queue, NEW q \in Queue
  PROVE  MoveQueue(s, p, q) \in TimeStepRecord
  BY DEF MoveQueue, TimeStepRecord

LEMMA SetStatusType ==
  ASSUME NEW s \in TimeStepRecord, NEW x \in Status
  PROVE  SetStatus(s, x) \in TimeStepRecord
  BY DEF SetStatus, TimeStepRecord

LEMMA ReconsiderType ==
  ASSUME NEW s \in TimeStepRecord
  PROVE  Reconsider(s) \in TimeStepRecord
<1> DEFINE c == MoveQueue(s, "Confirmed", "Stable")
<1>1. c \in TimeStepRecord
  BY MoveQueueType DEF Queue
<1>2. MoveQueue(c, "Impossible", "Unstable") \in TimeStepRecord
  BY <1>1, MoveQueueType DEF Queue
<1>3. \A x \in Status : /\ SetStatus(s, x) \in TimeStepRecord
                        /\ SetStatus(c, x) \in TimeStepRecord
                        /\ SetStatus(MoveQueue(c, "Impossible", "Unstable"), x) \in TimeStepRecord
  BY <1>1, <1>2, SetStatusType
<1> QED
  BY <1>3 DEF Reconsider, Status

LEMMA UpdateStatusType ==
  ASSUME NEW s \in TimeStepRecord, NEW D
  PROVE  UpdateStatus(s, D) \in TimeStepRecord
<1>1. AdmitNew(s, D) \in TimeStepRecord
  BY AdmitNewType
<1>2. SetStatus(AdmitNew(s, D), "Done") \in TimeStepRecord
  BY <1>1, SetStatusType DEF Status
<1>3. [SetStatus(AdmitNew(s, D), "Done") EXCEPT !.queues["Confirmed"] = {}]
        \in TimeStepRecord
  BY <1>2 DEF TimeStepRecord, Queue
<1> QED
  BY <1>1, <1>3, ReconsiderType DEF UpdateStatus

LEMMA AddType ==
  ASSUME NEW s \in TimeStepRecord, NEW d \in Ruled
  PROVE  Add(s, d) \in TimeStepRecord
  BY DEF Add, TimeStepRecord, Queue

LEMMA CheckUnboundType ==
  ASSUME NEW s \in TimeStepRecord, NEW D
  PROVE  CheckUnbound(s, D) \in TimeStepRecord
  BY AdmitNewType, SetStatusType DEF CheckUnbound, Status

LEMMA JobsType ==
  ASSUME NEW s \in TimeStepRecord
  PROVE  Jobs(s) \subseteq Ruled \X Queue
<1>1. Sources(s) \subseteq Queue
  BY DEF Sources, Queue
<1> QED
  BY <1>1 DEF Jobs, TimeStepRecord

LEMMA TakeJobsType ==
  ASSUME NEW s \in TimeStepRecord
  PROVE  TakeJobs(s) \in TimeStepRecord
<1>1. {j[1] : j \in Jobs(s)} \subseteq Ruled
  BY JobsType
<1> QED
  BY <1>1 DEF TakeJobs, TimeStepRecord

LEMMA RequeueType ==
  ASSUME NEW s \in TimeStepRecord, NEW d \in Ruled, NEW src, NEW r, NEW B \in SUBSET TS
  PROVE  Requeue(s, d, src, r, B) \in TimeStepRecord
<1> DEFINE rest == RemoveUpdate(s, d)
<1>1. rest \in TimeStepRecord
  BY DEF RemoveUpdate, TimeStepRecord
<1>2. \A t \in TimeStepRecord, q \in Queue : PushBack(t, q, d) \in TimeStepRecord
  BY DEF PushBack, TimeStepRecord
<1>3. InitDone(rest, d) \in TimeStepRecord
  BY <1>1 DEF InitDone, TimeStepRecord
<1>4. [PushBack(rest, "Impossible", d) EXCEPT !.blockers = @ \cup B, !.new_blockers = @ \cup B]
        \in TimeStepRecord
<2>1. PushBack(rest, "Impossible", d) \in TimeStepRecord
  BY <1>1, <1>2 DEF Queue
<2> QED
  BY <2>1 DEF TimeStepRecord
<1>5. PushBack(InitDone(rest, d), "Unstable", d) \in TimeStepRecord
  BY <1>2, <1>3 DEF Queue
<1>6. PushBack(rest, UpToDateQueue(s, src), d) \in TimeStepRecord
  BY <1>1, <1>2 DEF UpToDateQueue, Queue
<1> QED
  BY <1>1, <1>4, <1>5, <1>6 DEF Requeue

LEMMA UnblockType ==
  ASSUME NEW s \in TimeStepRecord, NEW t
  PROVE  Unblock(s, t) \in TimeStepRecord
  BY DEF Unblock, TimeStepRecord

LEMMA ClearBlockingInfoType ==
  ASSUME NEW s \in TimeStepRecord
  PROVE  ClearBlockingInfo(s) \in TimeStepRecord
<1>1. [s EXCEPT !.blockers = {}] \in TimeStepRecord
  BY DEF TimeStepRecord
<1> QED
  BY <1>1, MoveQueueType, SetStatusType DEF ClearBlockingInfo, Queue, Status

-----------------------------------------------------------------------------
(* Type correctness.  It needs two facts about where the worker is: it has *)
(* a task from the moment it gets one, and a call of notify_done while it  *)
(* notifies.                                                               *)
WorkerOK ==
  /\ pc \in {"run", "write", "report", "status", "done", "notify", "register"} => job \in Task
  /\ pc = "notify" => Len(stack) > 0

TypeInv == TypeOK /\ WorkerOK

Call == [done : TS, todo : SUBSET Handle]

LEMMA HandleType ==
  ASSUME NEW h \in Handle
  PROVE  StepId(h) \in TS
  BY DEF Handle, StepId

LEMMA JobType ==
  ASSUME TypeOK, job \in Task
  PROVE  /\ job.step \in Handle
         /\ job.of \in Ruled
         /\ job.of \in DI
         /\ job.phase \in Phase
         /\ JobUpdate \in UpdateId
         /\ JobObject \in Object
         /\ Result(JobUpdate) = job.of
  BY ConstantsAssumption DEF TypeOK, Task, JobUpdate, JobObject, UpdateId, Phase, Result

LEMMA FrameType ==
  ASSUME TypeOK, NEW t \in TS
  PROVE  Frame(t) \in Call
  BY DEF Frame, Call, TypeOK

LEMMA SetReadyType ==
  ASSUME TypeOK, NEW S, SetReady(S)
  PROVE  /\ data' \in [DI -> Instance]
         /\ file' \in [DI -> Value \cup {NoValue}]
<1>1. ASSUME NEW d \in DI
      PROVE  /\ data[d] \in Instance /\ data[d].val \in Value
             /\ file[d] \in Value \cup {NoValue}
             /\ [data[d] EXCEPT !.avail = "Ready"] \in Instance
  <2>1. data[d] \in Instance /\ file[d] \in Value \cup {NoValue}
    BY DEF TypeOK
  <2> QED
    BY <2>1 DEF Instance, Availability
<1>2. data' \in [DI -> Instance]
  BY <1>1 DEF SetReady
<1>3. file' \in [DI -> Value \cup {NoValue}]
  BY <1>1 DEF SetReady
<1> QED
  BY <1>2, <1>3

LEMMA InitTypeInv == Init => TypeInv
<1> SUFFICES ASSUME Init PROVE TypeInv
  OBVIOUS
<1> USE DEF Init
<1>1. NewObject \in Object
  BY DEF NewObject, Object, Availability
<1>2. NewTimeStep \in TimeStepRecord
  BY DEF NewTimeStep, TimeStepRecord, Status
<1>3. data \in [DI -> Instance]
  BY ConstantsAssumption DEF Instance, Availability
<1>4. /\ current \in [TS -> 0..MaxObjects]
      /\ built \in [TS -> 0..MaxObjects]
      /\ sessions \in 0..MaxSessions
  BY CenterAssumption
<1>5. stack \in Seq([done : TS, todo : SUBSET Handle])
  OBVIOUS
<1>6. client \in [Client -> ClientPC] /\ pc \in WorkerPC /\ report \in Report
  BY DEF ClientPC, WorkerPC, Report
<1> QED
  BY <1>1, <1>2, <1>3, <1>4, <1>5, <1>6 DEF TypeInv, TypeOK, WorkerOK

LEMMA NextTypeInv == TypeInv /\ [Next]_vars => TypeInv'
<1> SUFFICES ASSUME TypeInv, [Next]_vars PROVE TypeInv'
  OBVIOUS
<1> USE DEF TypeInv
<1>1. CASE TestInteraction
  BY <1>1 DEF TestInteraction, TypeOK, WorkerOK, WorkerPC, dataVars, stepVars, clientVars
<1>2. CASE Wait
  BY <1>2 DEF Wait, TypeOK, WorkerOK, WorkerPC, dataVars, stepVars, clientVars
<1>3. CASE GetOne
<2>1. \A h \in Handle : TasksOf(h) \subseteq Task
<3> SUFFICES ASSUME NEW h \in Handle PROVE TasksOf(h) \subseteq Task
  OBVIOUS
<3>1. Jobs(CheckUnbound(step[h], data)) \subseteq Ruled \X Queue
  BY JobsType, CheckUnboundType DEF TypeOK
<3> QED
  BY <3>1 DEF TasksOf, Task, Content, Phase
<2>2. Batch \subseteq Task
  BY <2>1 DEF Batch, Asked, TypeOK
<2>3. step' \in [Handle -> TimeStepRecord] /\ current' \in [TS -> 0..MaxObjects]
<3>1. \A h \in Handle : TakeJobs(CheckUnbound(step[h], data)) \in TimeStepRecord
  BY CheckUnboundType, TakeJobsType DEF TypeOK
<3>2. Cleaned \in [TS -> 0..MaxObjects]
  BY CenterAssumption DEF Cleaned, TypeOK
<3> QED
  BY <1>3, <3>1, <3>2 DEF GetOne, TypeOK
<2>4. tasks' \subseteq Task /\ job' \in Task \cup {IdleTask} /\ flushing' \in BOOLEAN /\ pc' \in WorkerPC
  BY <1>3, <2>2 DEF GetOne, EndFlushing, TypeOK, WorkerPC
<2>5. WorkerOK'
  BY <1>3, <2>2 DEF GetOne, WorkerOK
<2> QED
  BY <1>3, <2>3, <2>4, <2>5 DEF GetOne, TypeOK, dataVars, clientVars
<1>4. CASE Run
<2>1. CASE RunRead
  BY <2>1 DEF RunRead, TypeOK, WorkerOK, WorkerPC, dataVars, stepVars, clientVars
<2> SUFFICES ASSUME pc \in {"run", "write"},
                    NEW o \in Object, NEW r \in Report, Evaluated(r, o),
                    data' \in [DI -> Instance], file' \in [DI -> Value \cup {NoValue}]
             PROVE  TypeInv'
<3> USE JobType DEF WorkerOK
<3>1. CASE RunRead
  BY <2>1, <3>1
<3>2. CASE RunReady
  BY <3>2 DEF RunReady, TypeOK, Report
<3>3. CASE RunImpossible
  BY <3>3, NoteAvailabilityType DEF RunImpossible, TypeOK, Report
<3>4. CASE RunUnmoved
  BY <3>4, NoteArgumentsType DEF RunUnmoved, TypeOK, Report
<3>5. CASE RunWrite
<4>1. [NoteArguments(JobUpdate, JobObject, seen) EXCEPT !.updated_once = TRUE] \in Object
<5>1. NoteArguments(JobUpdate, JobObject, seen) \in Object
  BY <3>5, NoteArgumentsType DEF RunWrite, TypeOK
<5> QED
  BY <5>1 DEF Object
<4>2. PICK next \in NextDate(JobUpdate, JobObject, seen, data[job.of]) :
        \E res \in {WriteResult(JobUpdate, JobObject, seen, data[job.of], next)} :
          /\ data' = [data EXCEPT ![job.of] = res]
          /\ file' = IF ~IsReady(data, job.of) /\ res.avail = "Ready"
                     THEN [file EXCEPT ![job.of] = res.val] ELSE file
  BY <3>5 DEF RunWrite
<4>3. WriteResult(JobUpdate, JobObject, seen, data[job.of], next) \in Instance
  BY <3>5, <4>2, NextDateType, WriteResultType DEF RunWrite, TypeOK
<4>4. data' \in [DI -> Instance] /\ file' \in [DI -> Value \cup {NoValue}]
<5>1. PICK res \in Instance :
        /\ data' = [data EXCEPT ![job.of] = res]
        /\ file' = IF ~IsReady(data, job.of) /\ res.avail = "Ready"
                   THEN [file EXCEPT ![job.of] = res.val] ELSE file
  BY <4>2, <4>3
<5>2. data' \in [DI -> Instance]
  BY <5>1 DEF TypeOK
<5>3. res.val \in Value
  BY DEF Instance
<5>4. file' \in [DI -> Value \cup {NoValue}]
  BY <5>1, <5>3 DEF TypeOK
<5> QED
  BY <5>2, <5>4
<4> QED
  BY <3>5, <4>1, <4>4 DEF RunWrite, ReportOf, Report
<3> QED
  BY <1>4, <3>1, <3>2, <3>3, <3>4, <3>5 DEF Run
<2>2. upd' \in [UpdateId -> Object] /\ pc' = "report" /\ report' \in Report /\ job' \in Task
  BY DEF Evaluated, TypeOK, WorkerOK
<2> QED
  BY <2>2 DEF Evaluated, TypeOK, WorkerOK, WorkerPC, stepVars, clientVars
<1>5. CASE ReportJob
<2>1. job \in Task /\ pc = "report"
  BY <1>5 DEF ReportJob, WorkerOK
<2>2. BlockersOf(JobUpdate, JobObject) \subseteq TS
  BY <2>1, JobType, BlockersType
<2>3. Requeue(step[job.step], job.of, job.source, report, BlockersOf(JobUpdate, JobObject))
        \in TimeStepRecord
  BY <2>1, <2>2, JobType, RequeueType DEF TypeOK
<2>4. step' \in [Handle -> TimeStepRecord]
  BY <1>5, <2>3 DEF ReportJob, TypeOK
<2> QED
  BY <1>5, <2>1, <2>4 DEF ReportJob, TypeOK, WorkerOK, WorkerPC, dataVars, clientVars
<1>6. CASE ReportStatus
<2>1. job \in Task /\ pc = "status"
  BY <1>6 DEF ReportStatus, WorkerOK
<2>2. UpdateStatus(step[job.step], data) \in TimeStepRecord
  BY <2>1, JobType, UpdateStatusType DEF TypeOK
<2>3. step' \in [Handle -> TimeStepRecord]
  BY <1>6, <2>2 DEF ReportStatus, TypeOK
<2>4. data' \in [DI -> Instance] /\ file' \in [DI -> Value \cup {NoValue}]
  BY <1>6, SetReadyType DEF ReportStatus
<2>5. pc' \in {"done", "register", "loop"}
  BY <1>6 DEF ReportStatus, AfterReport
<2> QED
  BY <1>6, <2>1, <2>3, <2>4, <2>5 DEF ReportStatus, TypeOK, WorkerOK, WorkerPC, clientVars
<1>7. CASE NotifyDone
<2>1. Frame(StepId(job.step)) \in Call
  BY <1>7, JobType, HandleType, FrameType DEF NotifyDone, WorkerOK
<2>2. stack' \in Seq(Call) /\ Len(stack') > 0
  BY <1>7, <2>1 DEF NotifyDone
<2> QED
  BY <1>7, <2>2 DEF NotifyDone, TypeOK, WorkerOK, WorkerPC, Call, dataVars, stepVars, clientVars
<1>8. CASE NotifyUnblock
<2> DEFINE top == Len(stack)
<2>1. stack \in Seq(Call) /\ top \in 1..Len(stack) /\ stack[top] \in Call
<3>1. stack \in Seq(Call)
  BY DEF TypeOK, Call
<3>2. Len(stack) > 0
  BY <1>8 DEF NotifyUnblock, WorkerOK
<3> QED
  BY <3>1, <3>2
<2>2. PICK h \in stack[top].todo :
        \E s \in {Unblock(step[h], stack[top].done)} :
        \E rest \in {[stack EXCEPT ![top].todo = @ \ {h}]} :
          \/ /\ s.blockers # {}
             /\ step' = [step EXCEPT ![h] = s]
             /\ stack' = rest
             /\ UNCHANGED <<data, file>>
          \/ /\ s.blockers = {}
             /\ step' = [step EXCEPT ![h] = UpdateStatus(s, data)]
             /\ SetReady(SetReadyBy(s, data))
             /\ stack' = IF Terminates(s, data) THEN Append(rest, Frame(StepId(h))) ELSE rest
  BY <1>8 DEF NotifyUnblock
<2> DEFINE s == Unblock(step[h], stack[top].done)
           rest == [stack EXCEPT ![top].todo = @ \ {h}]
<2>3. h \in Handle
  BY <2>1, <2>2 DEF Call
<2>4. s \in TimeStepRecord /\ UpdateStatus(s, data) \in TimeStepRecord
  BY <2>3, UnblockType, UpdateStatusType DEF TypeOK
<2>5. step' \in [Handle -> TimeStepRecord]
<3>1. PICK next \in {s, UpdateStatus(s, data)} : step' = [step EXCEPT ![h] = next]
  BY <2>2
<3>2. next \in TimeStepRecord
  BY <2>4, <3>1
<3>3. step \in [Handle -> TimeStepRecord]
  BY DEF TypeOK
<3> HIDE DEF s, rest
<3> QED
  BY <2>3, <3>1, <3>2, <3>3
<2>6. rest \in Seq(Call) /\ Len(rest) = Len(stack)
<3>1. [stack[top] EXCEPT !.todo = @ \ {h}] \in Call
  BY <2>1 DEF Call
<3>2. rest = [stack EXCEPT ![top] = [stack[top] EXCEPT !.todo = @ \ {h}]]
  OBVIOUS
<3> QED
  BY <2>1, <3>1, <3>2
<2>7. Frame(StepId(h)) \in Call
  BY <2>3, HandleType, FrameType
<2>8. stack' \in Seq(Call) /\ Len(stack') > 0
<3>1. stack' \in {rest, Append(rest, Frame(StepId(h)))}
  BY <2>2
<3> HIDE DEF rest
<3> QED
  BY <2>1, <2>6, <2>7, <3>1, AppendProperties
<2>9. data' \in [DI -> Instance] /\ file' \in [DI -> Value \cup {NoValue}]
<3>1. UNCHANGED <<data, file>> \/ SetReady(SetReadyBy(s, data))
  BY <2>2
<3> HIDE DEF s, rest
<3>2. CASE UNCHANGED <<data, file>>
  BY <3>2 DEF TypeOK
<3>3. CASE SetReady(SetReadyBy(s, data))
  BY <3>3, SetReadyType
<3> QED
  BY <3>1, <3>2, <3>3
<2> QED
  BY <1>8, <2>5, <2>8, <2>9 DEF NotifyUnblock, TypeOK, WorkerOK, Call, clientVars
<1>9. CASE NotifyReturn
<2>1. stack \in Seq(Call) /\ Len(stack) \in Nat \ {0}
<3>1. stack \in Seq(Call)
  BY DEF TypeOK, Call
<3>2. Len(stack) > 0
  BY <1>9 DEF NotifyReturn, WorkerOK
<3> QED
  BY <3>1, <3>2
<2>2. /\ SubSeq(stack, 1, Len(stack) - 1) \in Seq(Call)
      /\ Len(SubSeq(stack, 1, Len(stack) - 1)) = Len(stack) - 1
<3>1. \A i \in 1..(Len(stack) - 1) : stack[i] \in Call
  BY <2>1
<3>2. PICK n \in Nat : n = Len(stack) - 1
  BY <2>1
<3>3. \A i \in 1..n : stack[i] \in Call
  BY <3>1, <3>2
<3>4. /\ SubSeq(stack, 1, n) \in Seq(Call)
      /\ Len(SubSeq(stack, 1, n)) = IF 1 <= n THEN n - 1 + 1 ELSE 0
  BY <3>3, SubSeqProperties
<3> QED
  BY <3>2, <3>4
<2>3. stack' \in Seq(Call) /\ Len(stack') = Len(stack) - 1
  BY <1>9, <2>2 DEF NotifyReturn
<2>4. pc' = IF Len(stack) = 1 THEN AfterReport ELSE "notify"
  BY <1>9 DEF NotifyReturn
<2>5. UNCHANGED <<dataVars, stepVars, tasks, flushing, job, seen, report, clientVars>>
  BY <1>9 DEF NotifyReturn
<2>6. CASE Len(stack) = 1
<3>1. pc' \in {"register", "loop"} /\ (pc' = "register" => job \in Task)
  BY <2>4, <2>6, <1>9 DEF NotifyReturn, AfterReport, WorkerOK
<3> QED
  BY <2>3, <2>5, <3>1 DEF TypeOK, WorkerOK, WorkerPC, Call, dataVars, stepVars, clientVars
<2>7. CASE Len(stack) # 1
<3>1. pc' = "notify" /\ Len(stack') > 0 /\ job \in Task
  BY <1>9, <2>1, <2>3, <2>4, <2>7 DEF NotifyReturn, WorkerOK
<3> QED
  BY <2>3, <2>5, <3>1 DEF TypeOK, WorkerOK, WorkerPC, Call, dataVars, stepVars, clientVars
<2> QED
  BY <2>6, <2>7
<1>10. CASE RegisterBlocked
<2>1. job \in Task /\ pc = "register"
  BY <1>10 DEF RegisterBlocked, WorkerOK
<2>2. [step[job.step] EXCEPT !.new_blockers = {}] \in TimeStepRecord
<3>1. step[job.step] \in TimeStepRecord
  BY <2>1, JobType DEF TypeOK
<3> QED
  BY <3>1 DEF TimeStepRecord
<2>3. step' \in [Handle -> TimeStepRecord]
  BY <1>10, <2>2 DEF RegisterBlocked, TypeOK
<2>4. blockees' \in [TS -> SUBSET Handle]
  BY <1>10, <2>1, JobType DEF RegisterBlocked, TypeOK
<2> QED
  BY <1>10, <2>1, <2>3, <2>4 DEF RegisterBlocked, TypeOK, WorkerOK, WorkerPC, dataVars, clientVars
<1>11. CASE SpuriousWake
  BY <1>11 DEF SpuriousWake, TypeOK, WorkerOK, WorkerPC, dataVars, stepVars, clientVars
<1>12. ASSUME NEW c \in Client, NEW what \in {"update", "ping"}, Open(c, what) PROVE TypeInv'
<2>1. sessions' \in 0..MaxSessions
  BY <1>12, CenterAssumption DEF Open, TypeOK
<2> QED
  BY <1>12, <2>1 DEF Open, TypeOK, WorkerOK, ClientPC, dataVars, stepVars, workerVars
<1>13. ASSUME NEW c \in Client, NEW d \in Ruled, Declare(c, d) PROVE TypeInv'
<2> DEFINE t == StepOf[d]
           h == <<t, ObjectOf(t)>>
           s == IF current[t] # 0 THEN step[h] ELSE NewTimeStep
<2>1. d \in DI /\ t \in TS
  BY ConstantsAssumption
<2>2. declared' \subseteq Ruled /\ UNCHANGED <<data, file, blockees, workerVars, interaction, client, sessions>>
  BY <1>13 DEF Declare, TypeOK
<2>3. CASE IsReady(data, d)
  BY <1>13, <2>2, <2>3 DEF Declare, TypeOK, WorkerOK, workerVars
<2>4. CASE ~IsReady(data, d)
<3>1. /\ ObjectOf(t) \in 1..MaxObjects
      /\ current' = [current EXCEPT ![t] = h[2]]
      /\ built' = IF current[t] # 0 THEN built ELSE [built EXCEPT ![t] = @ + 1]
      /\ step' = [step EXCEPT ![h] = Add(s, d)]
      /\ upd' = IF d \in s.variables THEN upd
                ELSE [u \in UpdateId |-> IF Result(u) = d THEN NewObject ELSE upd[u]]
  BY <1>13, <2>4 DEF Declare
<3>2. h \in Handle
  BY <2>1, <3>1 DEF Handle
<3>3. s \in TimeStepRecord
  BY <3>2 DEF NewTimeStep, TimeStepRecord, Status, TypeOK
<3>4. Add(s, d) \in TimeStepRecord
  BY <2>1, <3>3, AddType
<3>5. NewObject \in Object
  BY DEF NewObject, Object, Availability
<3>6. current' \in [TS -> 0..MaxObjects] /\ built' \in [TS -> 0..MaxObjects]
  BY <2>1, <3>1, CenterAssumption DEF TypeOK, ObjectOf
<3> QED
  BY <2>2, <3>1, <3>4, <3>5, <3>6 DEF TypeOK, WorkerOK, workerVars
<2> QED
  BY <2>3, <2>4
<1>14. ASSUME NEW c \in Client, Ping(c) PROVE TypeInv'
<2>1. data' \in [DI -> Instance]
<3>1. ASSUME NEW a \in DI PROVE data[a] \in Instance /\ Synced(a) \in Instance
  <4>1. data[a] \in Instance /\ file[a] \in Value \cup {NoValue}
    BY DEF TypeOK
  <4>2. file[a] # NoValue => [data[a] EXCEPT !.avail = "Ready", !.val = file[a]] \in Instance
    BY <4>1 DEF Instance, Availability
  <4> QED
    BY <4>1, <4>2 DEF Synced
<3> QED
  BY <1>14, <3>1 DEF Ping
<2>2. ASSUME NEW u \in UpdateId PROVE NoteFiled(u) \in Object
<3>1. upd[u] \in Object
  BY DEF TypeOK
<3> QED
  BY <3>1 DEF NoteFiled, Object, Availability
<2>3. upd' \in [UpdateId -> Object]
  BY <1>14, <2>2 DEF Ping, TypeOK
<2>4. step' \in [Handle -> TimeStepRecord]
  BY <1>14, ClearBlockingInfoType DEF Ping, TypeOK
<2>5. blockees' \in [TS -> SUBSET Handle] /\ client' \in [Client -> ClientPC]
  BY <1>14 DEF Ping, TypeOK, ClientPC
<2> QED
  BY <1>14, <2>1, <2>3, <2>4, <2>5 DEF Ping, TypeOK, WorkerOK, workerVars
<1>15. ASSUME NEW c \in Client, Close(c) PROVE TypeInv'
  BY <1>15 DEF Close, TypeOK, WorkerOK, ClientPC, dataVars, stepVars, workerVars
<1>16. ASSUME NEW c \in Client, Notify(c) PROVE TypeInv'
  BY <1>16 DEF Notify, TypeOK, WorkerOK, ClientPC, WorkerPC, dataVars, stepVars
<1>17. ASSUME NEW d \in DI, WriteFile(d) PROVE TypeInv'
<2>1. data' \in [DI -> Instance]
<3>1. data[d] \in Instance /\ FileValue[d] \in Value
  BY CenterAssumption DEF TypeOK
<3>2. [data[d] EXCEPT !.avail = "Ready", !.val = FileValue[d]] \in Instance
  BY <3>1 DEF Instance, Availability
<3>3. \/ data' = data
      \/ data' = [data EXCEPT ![d] = [data[d] EXCEPT !.avail = "Ready", !.val = FileValue[d]]]
  BY <1>17 DEF WriteFile, TypeOK
<3> QED
  BY <3>2, <3>3 DEF TypeOK
<2>2. file' \in [DI -> Value \cup {NoValue}]
  BY <1>17, CenterAssumption DEF WriteFile, TypeOK
<2> QED
  BY <1>17, <2>1, <2>2 DEF WriteFile, TypeOK, WorkerOK, stepVars, workerVars, clientVars
<1>18. CASE UNCHANGED vars
  BY <1>18 DEF TypeOK, WorkerOK, vars, dataVars, stepVars, workerVars, clientVars
<1> QED
  BY <1>1, <1>2, <1>3, <1>4, <1>5, <1>6, <1>7, <1>8, <1>9, <1>10, <1>11, <1>12, <1>13,
     <1>14, <1>15, <1>16, <1>17, <1>18
  DEF Next, Worker, ClientStep

(* Each variable keeps its type; in particular the worker never reports,   *)
(* notifies or registers without a task, and never returns from a          *)
(* notification it did not begin.                                          *)
THEOREM TypeCorrect == Spec => []TypeOK
<1>1. TypeInv => TypeOK
  BY DEF TypeInv
<1> QED
  BY <1>1, InitTypeInv, NextTypeInv, PTL DEF Spec

-----------------------------------------------------------------------------
(* Ready values are final, where the files other programs fill belong to   *)
(* DIs no rule updates.  The inductive invariant adds to ReadyIsFiled that *)
(* a computed DI is ready in memory whenever its file is, so that a ping   *)
(* cannot make the result of the evaluation in progress ready, and that    *)
(* this result is busy until it is written.                                *)
FiledIsReady == \A d \in Ruled : file[d] # NoValue => IsReady(data, d)
WritesBusy == pc = "write" => ~IsReady(data, job.of)

FileInv == ReadyIsFiled /\ FiledIsReady /\ WritesBusy

FileStep ==
  \A d \in DI :
    /\ IsReady(data, d) => IsReady(data', d) /\ data'[d].val = data[d].val
    /\ IsReady(data', d) => file'[d] = data'[d].val
    /\ d \in Ruled /\ file'[d] # NoValue => IsReady(data', d)

LEMMA SameFileStep ==
  ASSUME ReadyIsFiled, FiledIsReady, UNCHANGED <<data, file>>
  PROVE  FileStep
  BY DEF ReadyIsFiled, FiledIsReady, FileStep, IsReady

LEMMA SetReadyFileStep ==
  ASSUME TypeOK, ReadyIsFiled, FiledIsReady, NEW S, SetReady(S)
  PROVE  FileStep
<1> SUFFICES ASSUME NEW d \in DI
             PROVE  /\ IsReady(data, d) => IsReady(data', d) /\ data'[d].val = data[d].val
                    /\ IsReady(data', d) => file'[d] = data'[d].val
                    /\ d \in Ruled /\ file'[d] # NoValue => IsReady(data', d)
  BY DEF FileStep
<1>1. data[d] \in Instance /\ (IsReady(data, d) => file[d] = data[d].val)
  BY DEF TypeOK, ReadyIsFiled
<1>2. CASE d \in NowReady(S)
  BY <1>1, <1>2 DEF SetReady, NowReady, IsReady, Instance
<1>3. CASE d \notin NowReady(S)
  BY <1>1, <1>3 DEF SetReady, IsReady, FiledIsReady
<1> QED
  BY <1>2, <1>3

LEMMA PingFileStep ==
  ASSUME TypeOK, ReadyIsFiled, FiledIsReady, NEW c \in Client, Ping(c)
  PROVE  FileStep
<1>1. \A a \in DI : data'[a] = IF a \in SyncedArgs /\ file[a] # NoValue
                                THEN [data[a] EXCEPT !.avail = "Ready", !.val = file[a]]
                                ELSE data[a]
  BY DEF Ping, Synced
<1>2. file' = file
  BY DEF Ping
<1>3. \A a \in DI : data[a] \in Instance
  BY DEF TypeOK
<1> QED
  BY <1>1, <1>2, <1>3 DEF ReadyIsFiled, FiledIsReady, FileStep, IsReady, Instance

LEMMA WriteFileFileStep ==
  ASSUME Writable \cap Ruled = {}, TypeOK, ReadyIsFiled, FiledIsReady,
         NEW d \in DI, WriteFile(d)
  PROVE  FileStep
<1>1. file[d] = NoValue /\ ~IsReady(data, d) /\ d \notin Ruled
  BY CenterAssumption DEF WriteFile, ReadyIsFiled, TypeOK, IsReady, Instance
<1>2. ASSUME NEW a \in DI, a # d PROVE data'[a] = data[a] /\ file'[a] = file[a]
  BY <1>2 DEF WriteFile, TypeOK
<1>3. /\ file'[d] = FileValue[d]
      /\ data'[d] = data[d] \/ data'[d] = [data[d] EXCEPT !.avail = "Ready", !.val = FileValue[d]]
  BY DEF WriteFile, TypeOK
<1>4. IsReady(data', d) => file'[d] = data'[d].val
<2>1. data[d] \in Instance
  BY DEF TypeOK
<2>2. CASE data'[d] = data[d]
  BY <1>1, <2>2 DEF IsReady
<2>3. CASE data'[d] = [data[d] EXCEPT !.avail = "Ready", !.val = FileValue[d]]
  BY <1>3, <2>1, <2>3 DEF Instance
<2> QED
  BY <1>3, <2>2, <2>3
<1> QED
  BY <1>1, <1>2, <1>4 DEF ReadyIsFiled, FiledIsReady, FileStep, IsReady

LEMMA RunWriteFileStep ==
  ASSUME TypeInv, FileInv, RunWrite
  PROVE  FileStep
<1>1. job.of \in DI /\ ~IsReady(data, job.of)
  BY JobType DEF RunWrite, TypeInv, WorkerOK, FileInv, WritesBusy
<1>2. PICK next \in NextDate(JobUpdate, JobObject, seen, data[job.of]) :
        \E res \in {WriteResult(JobUpdate, JobObject, seen, data[job.of], next)} :
          /\ data' = [data EXCEPT ![job.of] = res]
          /\ file' = IF ~IsReady(data, job.of) /\ res.avail = "Ready"
                     THEN [file EXCEPT ![job.of] = res.val] ELSE file
  BY DEF RunWrite
<1>3. PICK res : /\ data' = [data EXCEPT ![job.of] = res]
                 /\ file' = IF res.avail = "Ready" THEN [file EXCEPT ![job.of] = res.val] ELSE file
  BY <1>1, <1>2
<1>4. ASSUME NEW d \in DI, d # job.of PROVE data'[d] = data[d] /\ file'[d] = file[d]
  BY <1>3, <1>4 DEF TypeInv, TypeOK
<1>5. data'[job.of] = res /\ file'[job.of] = IF res.avail = "Ready" THEN res.val ELSE file[job.of]
  BY <1>1, <1>3 DEF TypeInv, TypeOK
<1> QED
  BY <1>1, <1>4, <1>5 DEF FileInv, ReadyIsFiled, FiledIsReady, FileStep, IsReady

(* The actions that change the instances or the files. *)
LEMMA FileActions ==
  ASSUME [Next]_vars
  PROVE  \/ UNCHANGED <<data, file>>
         \/ RunWrite \/ ReportStatus \/ NotifyUnblock
         \/ \E c \in Client : Ping(c)
         \/ \E d \in DI : WriteFile(d)
<1>1. CASE Worker
  BY <1>1 DEF Worker, Run, RunReady, RunImpossible, RunUnmoved, RunRead, TestInteraction, Wait,
              GetOne, ReportJob, NotifyDone, NotifyReturn, RegisterBlocked, dataVars
<1>2. CASE SpuriousWake
  BY <1>2 DEF SpuriousWake, dataVars
<1>3. ASSUME NEW c \in Client, ClientStep(c) PROVE Ping(c) \/ UNCHANGED <<data, file>>
  BY <1>3 DEF ClientStep, Open, Declare, Close, Notify, dataVars
<1>4. CASE UNCHANGED vars
  BY <1>4 DEF vars, dataVars
<1> QED
  BY <1>1, <1>2, <1>3, <1>4 DEF Next

LEMMA NextFileStep ==
  ASSUME Writable \cap Ruled = {}, TypeInv, FileInv, [Next]_vars
  PROVE  FileStep
<1> USE DEF FileInv, TypeInv
<1>1. CASE UNCHANGED <<data, file>>
  BY <1>1, SameFileStep
<1>2. CASE RunWrite
  BY <1>2, RunWriteFileStep
<1>3. CASE ReportStatus
  BY <1>3, SetReadyFileStep DEF ReportStatus
<1>4. CASE NotifyUnblock
<2>1. UNCHANGED <<data, file>> \/ \E S : SetReady(S)
  BY <1>4 DEF NotifyUnblock
<2> QED
  BY <2>1, <1>1, SetReadyFileStep
<1> QED
  BY <1>1, <1>2, <1>3, <1>4, FileActions, PingFileStep, WriteFileFileStep

LEMMA NextWritesBusy ==
  ASSUME Writable \cap Ruled = {}, TypeInv, FileInv, [Next]_vars
  PROVE  WritesBusy'
<1> SUFFICES ASSUME pc' = "write" PROVE ~IsReady(data', job'.of)
  BY DEF WritesBusy
<1> USE DEF FileInv, TypeInv
<1>1. CASE RunRead
  BY <1>1 DEF RunRead, dataVars, IsReady
<1>2. CASE ~RunRead
<2>1. pc = "write" /\ UNCHANGED <<pc, job>> /\ ~Worker /\ ~SpuriousWake
  BY <1>2 DEF Next, Worker, Run, RunReady, RunImpossible, RunUnmoved, RunRead, RunWrite, Evaluated,
     TestInteraction, Wait, GetOne, ReportJob, ReportStatus, AfterReport, NotifyDone, NotifyUnblock,
     NotifyReturn, RegisterBlocked, SpuriousWake, ClientStep, Open, Declare, Ping, Close, Notify,
     WriteFile, vars, workerVars
<2>2. job.of \in Ruled /\ job.of \in DI /\ ~IsReady(data, job.of) /\ file[job.of] = NoValue
  BY <2>1, JobType DEF WorkerOK, WritesBusy, FiledIsReady
<2>3. ASSUME NEW c \in Client, Ping(c) PROVE data'[job.of] = data[job.of]
  BY <2>2, <2>3 DEF Ping, Synced
<2>4. ASSUME NEW d \in DI, WriteFile(d) PROVE data'[job.of] = data[job.of]
  BY <2>2, <2>4 DEF WriteFile, TypeOK
<2>5. CASE UNCHANGED data
  BY <2>1, <2>2, <2>5 DEF IsReady
<2>6. UNCHANGED data \/ (\E c \in Client : Ping(c)) \/ (\E d \in DI : WriteFile(d))
<3>1. ASSUME NEW c \in Client, ClientStep(c) PROVE Ping(c) \/ UNCHANGED data
  BY <3>1 DEF ClientStep, Open, Declare, Close, Notify, dataVars
<3>2. CASE UNCHANGED vars
  BY <3>2 DEF vars, dataVars
<3> QED
  BY <2>1, <3>1, <3>2 DEF Next
<2> QED
  BY <2>1, <2>2, <2>3, <2>4, <2>5, <2>6 DEF IsReady
<1> QED
  BY <1>1, <1>2

LEMMA InitFileInv == Init => FileInv
  BY ConstantsAssumption DEF Init, FileInv, ReadyIsFiled, FiledIsReady, WritesBusy, IsReady

LEMMA NextFileInv ==
  ASSUME Writable \cap Ruled = {}
  PROVE  TypeInv /\ FileInv /\ [Next]_vars => FileInv'
<1> SUFFICES ASSUME TypeInv, FileInv, [Next]_vars PROVE FileInv'
  OBVIOUS
<1>1. FileStep /\ WritesBusy'
  BY NextFileStep, NextWritesBusy
<1> QED
  BY <1>1, ConstantsAssumption DEF FileStep, FileInv, ReadyIsFiled, FiledIsReady, IsReady

(* Whatever is ready in memory is what the file of that DI holds, for any  *)
(* rules, any number of clients and any programs that fill the empty files *)
(* of DIs no rule updates.                                                 *)
THEOREM ReadyFiled ==
  ASSUME Writable \cap Ruled = {}
  PROVE  Spec => []ReadyIsFiled
<1>1. FileInv => ReadyIsFiled
  BY DEF FileInv
<1>2. TypeInv /\ FileInv /\ [Next]_vars => FileInv'
  BY NextFileInv
<1> QED
  BY <1>1, <1>2, InitTypeInv, NextTypeInv, InitFileInv, PTL DEF Spec

(* No step changes a ready value: not an evaluation, not the end of a      *)
(* timestep, not the synchronisation of a ping, not another program (again *)
(* one that fills files of DIs no rule updates; without that assumption    *)
(* the code changes a ready value, which a run shows).                     *)
THEOREM ReadyFinal ==
  ASSUME Writable \cap Ruled = {}
  PROVE  Spec => ReadyIsFinal
<1>1. TypeInv /\ FileInv /\ [Next]_vars
        => [\A d \in DI : IsReady(data, d) => IsReady(data', d) /\ data'[d].val = data[d].val]_vars
  BY NextFileStep DEF FileStep
<1>2. TypeInv /\ FileInv /\ [Next]_vars => FileInv'
  BY NextFileInv
<1> QED
  BY <1>1, <1>2, InitTypeInv, NextTypeInv, InitFileInv, PTL DEF Spec, ReadyIsFinal

-----------------------------------------------------------------------------
(* The writer scope.  While the worker waits inside the scope, a client    *)
(* is going to wake it.                                                    *)
ScopeInv ==
  /\ interaction => \E c \in Client : client[c] \in {"update", "ping", "pinged"}
  /\ flushing /\ pc = "park" => \E c \in Client : client[c] # "idle"
  /\ flushing /\ pc = "wait" => \E c \in Client : client[c] # "idle"
  /\ pc \in {"run", "write", "report", "status", "done", "notify", "register"} => flushing

LEMMA ScopeStep == TypeOK /\ ScopeInv /\ [Next]_vars => ScopeInv'
<1> SUFFICES ASSUME TypeOK, ScopeInv, [Next]_vars PROVE ScopeInv'
  OBVIOUS
<1>a. client \in [Client -> ClientPC]
  BY DEF TypeOK
<1> USE DEF ScopeInv
<1>1. CASE TestInteraction
  BY <1>1 DEF TestInteraction, clientVars
<1>2. CASE Wait
  BY <1>2 DEF Wait, clientVars
<1>3. CASE GetOne
  BY <1>3 DEF GetOne, EndFlushing, clientVars
<1>4. CASE Run
  BY <1>4 DEF Run, RunReady, RunImpossible, RunUnmoved, RunRead, RunWrite, Evaluated, clientVars
<1>5. CASE ReportJob \/ ReportStatus \/ NotifyDone \/ NotifyUnblock \/ NotifyReturn \/ RegisterBlocked
  BY <1>5 DEF ReportJob, ReportStatus, NotifyDone, NotifyUnblock, NotifyReturn, RegisterBlocked,
              AfterReport, clientVars
<1>6. CASE SpuriousWake
  BY <1>6 DEF SpuriousWake, clientVars
<1>7. ASSUME NEW c \in Client, NEW what \in {"update", "ping"}, Open(c, what) PROVE ScopeInv'
  <2>1. client'[c] \in {"update", "ping"} /\ UNCHANGED <<pc, flushing>>
    BY <1>a, <1>7 DEF Open, workerVars
  <2> QED
    BY <2>1
<1>8. ASSUME NEW c \in Client, NEW d \in Ruled, Declare(c, d) PROVE ScopeInv'
  BY <1>8 DEF Declare, workerVars
<1>9. ASSUME NEW c \in Client, Ping(c) PROVE ScopeInv'
  <2>1. client'[c] = "pinged" /\ UNCHANGED <<pc, flushing, interaction>>
    BY <1>a, <1>9 DEF Ping, workerVars
  <2> QED
    BY <2>1
<1>10. ASSUME NEW c \in Client, Close(c) PROVE ScopeInv'
  <2>1. client'[c] = "release" /\ interaction' = FALSE /\ UNCHANGED <<pc, flushing>>
    BY <1>a, <1>10 DEF Close, workerVars
  <2> QED
    BY <2>1
<1>11. ASSUME NEW c \in Client, Notify(c) PROVE ScopeInv'
  <2>1. /\ client[c] = "release" /\ pc' = "loop" /\ UNCHANGED <<flushing, interaction>>
        /\ \A e \in Client : e # c => client'[e] = client[e]
    BY <1>a, <1>11 DEF Notify
  <2> QED
    BY <2>1
<1>12. ASSUME NEW d \in DI, WriteFile(d) PROVE ScopeInv'
  BY <1>12 DEF WriteFile, workerVars, clientVars
<1>13. CASE UNCHANGED vars
  BY <1>13 DEF vars, workerVars, clientVars
<1> QED
  BY <1>1, <1>2, <1>3, <1>4, <1>5, <1>6, <1>7, <1>8, <1>9, <1>10, <1>11, <1>12, <1>13
  DEF Next, Worker, ClientStep

(* The writer scope of the scheduler brackets the evaluations whatever the *)
(* rules and however many interactions interrupt them.                     *)
THEOREM ScopeBrackets == Spec => []WriterScope
<1>1. Init => ScopeInv
  BY DEF Init, ScopeInv
<1>2. ScopeInv => WriterScope
  BY DEF ScopeInv, WriterScope, AllIdle
<1> QED
  BY <1>1, <1>2, ScopeStep, TypeCorrect, PTL DEF Spec

-----------------------------------------------------------------------------
(* An update is in one queue.  The updates that are handed out are in the  *)
(* queues jobs are taken from, so that no status drops them; those that    *)
(* are queued are known, so that a declaration does not queue them again.  *)
Placed(s) ==
  /\ \A p, q \in Queue : p # q => s.queues[p] \cap s.queues[q] = {}
  /\ s.taken \subseteq s.queues["Unstable"] \cup s.queues["Stable"]
  /\ \A q \in Queue : s.queues[q] \subseteq s.variables

LEMMA PlacedNew == Placed(NewTimeStep) /\ NewTimeStep.taken = {}
BY DEF Placed, NewTimeStep, Queue

LEMMA PlacedAdmitNew ==
  ASSUME NEW s \in TimeStepRecord, Placed(s), NEW D
  PROVE  Placed(AdmitNew(s, D)) /\ AdmitNew(s, D).taken = s.taken
<1> DEFINE a == AdmitNew(s, D)
<1>1. Held(s, D) \subseteq s.queues["New"]
  BY DEF Held
<1>2. /\ a.taken = s.taken /\ a.variables = s.variables
      /\ a.queues["New"] = Held(s, D)
      /\ a.queues["Unstable"] = s.queues["Unstable"] \cup (s.queues["New"] \ Held(s, D))
      /\ \A q \in Queue : q \notin {"New", "Unstable"} => a.queues[q] = s.queues[q]
  BY DEF AdmitNew, TimeStepRecord, Queue
<1> HIDE DEF a
<1> QED
  BY <1>1, <1>2 DEF Placed, Queue, a

LEMMA PlacedMove ==
  ASSUME NEW s \in TimeStepRecord, Placed(s), NEW from \in Queue \ {"Unstable", "Stable"}, NEW to \in Queue, from # to
  PROVE  Placed(MoveQueue(s, from, to)) /\ MoveQueue(s, from, to).taken = s.taken
<1> DEFINE m == MoveQueue(s, from, to)
<1>1. /\ m.taken = s.taken /\ m.variables = s.variables
      /\ m.queues[to] = s.queues[to] \cup s.queues[from]
      /\ m.queues[from] = {}
      /\ \A q \in Queue : q \notin {from, to} => m.queues[q] = s.queues[q]
  BY DEF MoveQueue, TimeStepRecord
<1>2. m.taken \subseteq m.queues["Unstable"] \cup m.queues["Stable"]
  <2>1. "Unstable" \in Queue /\ "Stable" \in Queue
    BY DEF Queue
  <2> HIDE DEF m
  <2> QED
    BY <1>1, <2>1 DEF Placed
<1>3. \A p, q \in Queue : p # q => m.queues[p] \cap m.queues[q] = {}
  <2> HIDE DEF m
  <2> QED
    BY <1>1 DEF Placed
<1>4. \A q \in Queue : m.queues[q] \subseteq m.variables
  <2> HIDE DEF m
  <2> QED
    BY <1>1 DEF Placed
<1> QED
  BY <1>1, <1>2, <1>3, <1>4 DEF Placed

(* What only changes the status, the blockers or the inits. *)
LEMMA PlacedSame ==
  ASSUME NEW s, Placed(s), NEW r, r.queues = s.queues, r.taken = s.taken, r.variables = s.variables
  PROVE  Placed(r)
BY DEF Placed

LEMMA PlacedStatus ==
  ASSUME NEW s \in TimeStepRecord, Placed(s), NEW x
  PROVE  Placed(SetStatus(s, x)) /\ SetStatus(s, x).taken = s.taken
<1>1. LET r == SetStatus(s, x)
      IN  r.queues = s.queues /\ r.taken = s.taken /\ r.variables = s.variables
  BY DEF SetStatus, TimeStepRecord
<1> QED
  BY <1>1, PlacedSame

LEMMA PlacedReconsider ==
  ASSUME NEW s \in TimeStepRecord, Placed(s)
  PROVE  Placed(Reconsider(s)) /\ Reconsider(s).taken = s.taken
<1> DEFINE c == MoveQueue(s, "Confirmed", "Stable")
           i == MoveQueue(c, "Impossible", "Unstable")
<1>1. c \in TimeStepRecord /\ Placed(c) /\ c.taken = s.taken
  BY MoveQueueType, PlacedMove DEF Queue
<1>2. i \in TimeStepRecord /\ Placed(i) /\ i.taken = s.taken
  <2> HIDE DEF c
  <2> QED
    BY <1>1, MoveQueueType, PlacedMove DEF Queue
<1>3. \A x : /\ Placed(SetStatus(s, x)) /\ SetStatus(s, x).taken = s.taken
             /\ Placed(SetStatus(c, x)) /\ SetStatus(c, x).taken = s.taken
             /\ Placed(SetStatus(i, x)) /\ SetStatus(i, x).taken = s.taken
  <2> HIDE DEF c, i
  <2> QED
    BY <1>1, <1>2, PlacedStatus
<1>4. \/ \E x : Reconsider(s) = SetStatus(s, x)
      \/ \E x : Reconsider(s) = SetStatus(c, x)
      \/ \E x : Reconsider(s) = SetStatus(i, x)
  BY DEF Reconsider
<1> QED
  BY <1>3, <1>4

LEMMA PlacedUpdateStatus ==
  ASSUME NEW s \in TimeStepRecord, Placed(s), NEW D
  PROVE  Placed(UpdateStatus(s, D)) /\ UpdateStatus(s, D).taken = s.taken
<1> DEFINE a == AdmitNew(s, D)
           e == SetStatus(a, "Done")
           f == [e EXCEPT !.queues["Confirmed"] = {}]
<1>1. a \in TimeStepRecord /\ Placed(a) /\ a.taken = s.taken
  BY AdmitNewType, PlacedAdmitNew
<1>2. e \in TimeStepRecord /\ Placed(e) /\ e.taken = s.taken
  <2> HIDE DEF a
  <2> QED
    BY <1>1, SetStatusType, PlacedStatus DEF Status
<1>3. Placed(f) /\ f.taken = s.taken
  <2> HIDE DEF e
  <2>1. /\ f.taken = e.taken /\ f.variables = e.variables
        /\ f.queues["Confirmed"] = {}
        /\ \A q \in Queue : q # "Confirmed" => f.queues[q] = e.queues[q]
    BY <1>2 DEF TimeStepRecord, Queue
  <2> HIDE DEF f
  <2> QED
    BY <1>2, <2>1 DEF Placed, Queue
<1>4. Placed(Reconsider(a)) /\ Reconsider(a).taken = s.taken
  <2> HIDE DEF a
  <2> QED
    BY <1>1, PlacedReconsider
<1>5. UpdateStatus(s, D) \in {f, Reconsider(a)}
  BY DEF UpdateStatus
<1> QED
  BY <1>3, <1>4, <1>5

LEMMA PlacedAdd ==
  ASSUME NEW s \in TimeStepRecord, Placed(s), NEW d \in Ruled
  PROVE  Placed(Add(s, d)) /\ Add(s, d).taken = s.taken
<1> DEFINE r == Add(s, d)
<1>1. CASE d \in s.variables
  BY <1>1 DEF Add
<1>2. CASE d \notin s.variables
  <2>1. /\ r.taken = s.taken /\ r.variables = s.variables \cup {d}
        /\ r.queues["New"] = s.queues["New"] \cup {d}
        /\ \A q \in Queue : q # "New" => r.queues[q] = s.queues[q]
    BY <1>2 DEF Add, TimeStepRecord, Queue
  <2> HIDE DEF r
  <2>2. \A q \in Queue : d \notin s.queues[q]
    BY <1>2 DEF Placed
  <2>3. Placed(r)
    BY <2>1, <2>2 DEF Placed, Queue
  <2> QED
    BY <2>1, <2>3 DEF r
<1> QED
  BY <1>1, <1>2

LEMMA PlacedCheckUnbound ==
  ASSUME NEW s \in TimeStepRecord, Placed(s), NEW D
  PROVE  Placed(CheckUnbound(s, D)) /\ CheckUnbound(s, D).taken = s.taken
<1> DEFINE a == AdmitNew(s, D)
<1>1. a \in TimeStepRecord /\ Placed(a) /\ a.taken = s.taken
  BY AdmitNewType, PlacedAdmitNew
<1>2. Placed(SetStatus(a, "Unbound")) /\ SetStatus(a, "Unbound").taken = s.taken
  <2> HIDE DEF a
  <2> QED
    BY <1>1, PlacedStatus
<1>3. CheckUnbound(s, D) \in {a, SetStatus(a, "Unbound")}
  BY DEF CheckUnbound
<1> QED
  BY <1>1, <1>2, <1>3

LEMMA PlacedClear ==
  ASSUME NEW s \in TimeStepRecord, Placed(s)
  PROVE  Placed(ClearBlockingInfo(s)) /\ ClearBlockingInfo(s).taken = s.taken
<1> DEFINE b == [s EXCEPT !.blockers = {}]
           m == MoveQueue(b, "Impossible", "Unstable")
<1>1. b \in TimeStepRecord /\ b.queues = s.queues /\ b.taken = s.taken /\ b.variables = s.variables
  BY DEF TimeStepRecord
<1>2. m \in TimeStepRecord /\ Placed(m) /\ m.taken = s.taken
  <2>1. Placed(b)
    BY <1>1, PlacedSame
  <2> HIDE DEF b
  <2> QED
    BY <1>1, <2>1, MoveQueueType, PlacedMove DEF Queue
<1> QED
  BY <1>2, PlacedStatus DEF ClearBlockingInfo

(* Jobs are the updates of the queues asked, each once. *)
LEMMA PlacedTakeJobs ==
  ASSUME NEW s \in TimeStepRecord, Placed(s)
  PROVE  /\ Placed(TakeJobs(s))
         /\ TakeJobs(s).taken = s.taken \cup {j[1] : j \in Jobs(s)}
         /\ \A j, k \in Jobs(s) : j[1] = k[1] => j = k
<1> DEFINE r == TakeJobs(s)
<1>1. Sources(s) \subseteq {"Unstable", "Stable"} /\ Sources(s) \subseteq Queue
  BY DEF Sources, Queue
<1>2. \A j \in Jobs(s) : j[2] \in Sources(s) /\ j[1] \in s.queues[j[2]] /\ j = <<j[1], j[2]>>
  BY DEF Jobs
<1>3. r.queues = s.queues /\ r.variables = s.variables /\ r.taken = s.taken \cup {j[1] : j \in Jobs(s)}
  BY DEF TakeJobs, TimeStepRecord
<1>4. {j[1] : j \in Jobs(s)} \subseteq s.queues["Unstable"] \cup s.queues["Stable"]
  BY <1>1, <1>2
<1>5. Placed(r)
  <2> HIDE DEF r
  <2> QED
    BY <1>3, <1>4 DEF Placed
<1>6. ASSUME NEW j \in Jobs(s), NEW k \in Jobs(s), j[1] = k[1] PROVE j = k
  <2>1. j[2] = k[2]
    BY <1>1, <1>2, <1>6 DEF Placed
  <2> QED
    BY <1>2, <1>6, <2>1
<1> QED
  BY <1>3, <1>5, <1>6

(* The update that is reported leaves its queue, and goes to one at most.  *)
LEMMA PlacedRequeue ==
  ASSUME NEW s \in TimeStepRecord, Placed(s), NEW d \in s.taken, NEW src, NEW r, NEW B
  PROVE  Placed(Requeue(s, d, src, r, B)) /\ Requeue(s, d, src, r, B).taken = s.taken \ {d}
<1> DEFINE rest == RemoveUpdate(s, d)
<1>1. PICK p \in Queue : d \in s.queues[p]
  BY DEF Placed, Queue
<1>2. \A q \in Queue : q # p => d \notin s.queues[q]
  BY <1>1 DEF Placed
<1>3. FirstWith(s, d) = {p}
  <2>1. QueueRank[p] <= QueueRank[p]
    BY DEF Queue, QueueRank
  <2> QED
    BY <1>1, <1>2, <2>1 DEF FirstWith
<1>4. /\ rest \in TimeStepRecord
      /\ rest.taken = s.taken \ {d} /\ rest.variables = s.variables
      /\ \A q \in Queue : rest.queues[q] = s.queues[q] \ {d}
  <2>1. \A q \in Queue : s.queues[q] \ {d} = (IF q = p THEN s.queues[q] \ {d} ELSE s.queues[q])
    BY <1>2
  <2>2. rest = [s EXCEPT !.taken = @ \ {d},
                         !.queues = [q \in Queue |-> IF q \in {p} THEN s.queues[q] \ {d} ELSE s.queues[q]]]
    BY <1>3 DEF RemoveUpdate
  <2> HIDE DEF rest
  <2> QED
    BY <2>1, <2>2 DEF TimeStepRecord
<1>5. Placed(rest) /\ d \in s.variables
  <2> HIDE DEF rest
  <2>1. d \in s.variables
    BY <1>1 DEF Placed
  <2> QED
    BY <1>4, <2>1 DEF Placed, Queue
<1>6. ASSUME NEW t \in TimeStepRecord, t.queues = rest.queues, t.taken = rest.taken,
             t.variables = rest.variables, NEW q \in Queue
      PROVE  /\ Placed(PushBack(t, q, d))
             /\ PushBack(t, q, d).taken = s.taken \ {d}
             /\ PushBack(t, q, d) \in TimeStepRecord
  <2> HIDE DEF rest
  <2> DEFINE u == PushBack(t, q, d)
  <2>1. /\ u.taken = rest.taken /\ u.variables = rest.variables
        /\ u.queues[q] = rest.queues[q] \cup {d}
        /\ \A e \in Queue : e # q => u.queues[e] = rest.queues[e]
        /\ u \in TimeStepRecord
    BY <1>6, <1>5 DEF PushBack, TimeStepRecord
  <2>2. \A e \in Queue : d \notin rest.queues[e]
    BY <1>4
  <2> HIDE DEF u
  <2>3. \A e \in Queue : u.queues[e] \subseteq u.variables
    BY <1>4, <1>5, <2>1 DEF Placed
  <2>4. \A e, f \in Queue : e # f => u.queues[e] \cap u.queues[f] = {}
    BY <1>5, <2>1, <2>2 DEF Placed
  <2>5. u.taken \subseteq u.queues["Unstable"] \cup u.queues["Stable"]
    <3>1. "Unstable" \in Queue /\ "Stable" \in Queue
      BY DEF Queue
    <3> QED
      BY <1>5, <2>1, <3>1 DEF Placed
  <2>6. Placed(u)
    BY <2>3, <2>4, <2>5 DEF Placed
  <2> QED
    BY <1>4, <2>1, <2>6 DEF u
<1>7. LET t == InitDone(rest, d)
      IN  t \in TimeStepRecord /\ t.queues = rest.queues /\ t.taken = rest.taken /\ t.variables = rest.variables
  <2> HIDE DEF rest
  <2> QED
    BY <1>4 DEF InitDone, TimeStepRecord
<1>8. LET u == PushBack(rest, "Impossible", d)
          v == [u EXCEPT !.blockers = @ \cup B, !.new_blockers = @ \cup B]
      IN  Placed(v) /\ v.taken = s.taken \ {d}
  <2> DEFINE u == PushBack(rest, "Impossible", d)
             v == [u EXCEPT !.blockers = @ \cup B, !.new_blockers = @ \cup B]
  <2>1. Placed(u) /\ u.taken = s.taken \ {d} /\ u \in TimeStepRecord
    <3> HIDE DEF rest
    <3> QED
      BY <1>4, <1>6 DEF Queue
  <2> HIDE DEF u
  <2>2. v.queues = u.queues /\ v.taken = u.taken /\ v.variables = u.variables
    BY <2>1 DEF TimeStepRecord
  <2>3. Placed(v)
    <3> HIDE DEF v
    <3> QED
      BY <2>1, <2>2, PlacedSame
  <2> QED
    BY <2>1, <2>2, <2>3 DEF u
<1>9. LET w == PushBack(InitDone(rest, d), "Unstable", d)
      IN  Placed(w) /\ w.taken = s.taken \ {d}
  <2> HIDE DEF rest
  <2> QED
    BY <1>6, <1>7 DEF Queue
<1>10. LET x == PushBack(rest, UpToDateQueue(s, src), d)
       IN  Placed(x) /\ x.taken = s.taken \ {d}
  <2>1. UpToDateQueue(s, src) \in Queue
    BY DEF UpToDateQueue, Queue
  <2> HIDE DEF rest
  <2> QED
    BY <1>4, <1>6, <2>1
<1>11. Placed(rest) /\ rest.taken = s.taken \ {d}
  BY <1>4, <1>5
<1> HIDE DEF rest
<1> QED
  BY <1>8, <1>9, <1>10, <1>11 DEF Requeue, rest

-----------------------------------------------------------------------------
(* The tasks in hand are those of the marked updates.  An object that has  *)
(* not been built yet has none, so that building it loses no task.         *)
WithJob == {"run", "write", "report"}

TaskInv ==
  /\ \A h \in Handle : Placed(step[h])
  /\ \A h \in Handle : step[h].taken = {t.of : t \in {k \in InHand : k.step = h}}
  /\ \A t, k \in InHand : t.step = k.step /\ t.of = k.of => t = k
  /\ pc \in WithJob => job \notin tasks
  /\ \A t \in TS : current[t] <= built[t]
  /\ \A h \in Handle : built[StepId(h)] < h[2] => step[h].taken = {}

(* A step that hands no task out and reports none. *)
SameMarks == \A h \in Handle : Placed(step'[h]) /\ step'[h].taken = step[h].taken

LEMMA KeepsTasks ==
  ASSUME TypeInv, TaskInv, TypeInv', SameMarks, tasks' = tasks,
         pc \in WithJob <=> pc' \in WithJob,
         pc \in WithJob => job' = job,
         \A t \in TS : current'[t] <= built'[t] /\ built[t] <= built'[t]
  PROVE  TaskInv'
<1>1. InHand' = InHand
  BY DEF InHand, WithJob
<1>2. \A h \in Handle : StepId(h) \in TS /\ h[2] \in Nat
  BY CenterAssumption DEF Handle, StepId
<1>3. \A t \in TS : built[t] \in Int /\ built'[t] \in Int
  BY CenterAssumption DEF TypeInv, TypeOK
<1>4. \A h \in Handle : built'[StepId(h)] < h[2] => built[StepId(h)] < h[2]
  BY <1>2, <1>3
<1> QED
  BY <1>1, <1>4 DEF TaskInv, SameMarks

LEMMA KeepsTimeSteps ==
  ASSUME TypeInv, TaskInv, TypeInv', UNCHANGED <<stepVars, tasks>>,
         pc \in WithJob <=> pc' \in WithJob,
         pc \in WithJob => job' = job
  PROVE  TaskInv'
<1>1. SameMarks /\ \A t \in TS : current'[t] <= built'[t] /\ built[t] <= built'[t]
  <2>1. \A t \in TS : built[t] \in Int
    BY CenterAssumption DEF TypeInv, TypeOK
  <2> QED
    BY <2>1 DEF SameMarks, TaskInv, stepVars
<1> QED
  BY <1>1, KeepsTasks

LEMMA TaskInitial == Init => TaskInv
<1> SUFFICES ASSUME Init PROVE TaskInv
  OBVIOUS
<1>1. InHand = {}
  BY DEF Init, InHand
<1>2. \A h \in Handle : Placed(step[h]) /\ step[h].taken = {}
  BY PlacedNew DEF Init
<1> QED
  BY <1>1, <1>2 DEF Init, TaskInv, WithJob

LEMMA GetOneTasks ==
  ASSUME TypeInv, TaskInv, GetOne
  PROVE  TaskInv'
<1>1. pc = "get" /\ InHand = tasks
  BY DEF GetOne, InHand
<1>2. InHand' = Batch /\ (pc' \in WithJob => job' \notin tasks')
  <2>1. CASE Batch = {} /\ pc' = "wait" /\ tasks' = tasks
    <3>1. tasks = {}
      BY <2>1 DEF Batch
    <3> QED
      BY <2>1, <3>1 DEF InHand, WithJob
  <2>2. CASE \E t \in Batch : tasks' = Batch \ {t} /\ job' = t /\ pc' = "run"
    BY <2>2 DEF InHand
  <2> QED
    BY <2>1, <2>2 DEF GetOne
<1>3. CASE tasks # {}
  <2>1. UNCHANGED <<step, current, built>> /\ InHand' = InHand
    BY <1>1, <1>2, <1>3 DEF GetOne, Batch
  <2> QED
    BY <1>2, <2>1 DEF TaskInv
<1>4. CASE tasks = {}
  <2> DEFINE s(h) == CheckUnbound(step[h], data)
  <2>1. /\ built' = built /\ current' = Cleaned
        /\ \A h \in Handle : step'[h] = (IF h \in Asked THEN TakeJobs(s(h)) ELSE step[h])
    BY <1>4 DEF GetOne
  <2>2. InHand' = UNION {TasksOf(h) : h \in Asked}
    BY <1>2, <1>4 DEF Batch
  <2>3. ASSUME NEW h \in Handle
        PROVE  /\ s(h) \in TimeStepRecord /\ Placed(s(h)) /\ s(h).taken = {}
               /\ Placed(step[h]) /\ step[h].taken = {}
    <3>1. step[h] \in TimeStepRecord /\ Placed(step[h]) /\ step[h].taken = {}
      BY <1>1, <1>4 DEF TaskInv, TypeInv, TypeOK
    <3> QED
      BY <3>1, CheckUnboundType, PlacedCheckUnbound
  <2>4. ASSUME NEW h \in Handle
        PROVE  /\ Placed(TakeJobs(s(h)))
               /\ TakeJobs(s(h)).taken = {j[1] : j \in Jobs(s(h))}
               /\ \A j, k \in Jobs(s(h)) : j[1] = k[1] => j = k
    <3> HIDE DEF s
    <3> QED
      BY <2>3, PlacedTakeJobs
  <2>5. ASSUME NEW h \in Handle
        PROVE  TasksOf(h) = {[step |-> h, of |-> j[1], phase |-> Content(s(h), j[1])[1], source |-> j[2]] : j \in Jobs(s(h))}
    BY DEF TasksOf
  <2>6. ASSUME NEW h \in Handle
        PROVE  /\ \A t \in TasksOf(h) : t.step = h
               /\ {t.of : t \in TasksOf(h)} = {j[1] : j \in Jobs(s(h))}
               /\ \A t, k \in TasksOf(h) : t.of = k.of => t = k
    <3> HIDE DEF s
    <3>1. \A t \in TasksOf(h) : t.step = h
      BY <2>5
    <3>2. {t.of : t \in TasksOf(h)} = {j[1] : j \in Jobs(s(h))}
      <4>1. ASSUME NEW j \in Jobs(s(h)) PROVE \E t \in TasksOf(h) : t.of = j[1]
        <5> DEFINE t == [step |-> h, of |-> j[1], phase |-> Content(s(h), j[1])[1], source |-> j[2]]
        <5>1. t \in TasksOf(h)
          BY <2>5
        <5>2. t.of = j[1]
          OBVIOUS
        <5> QED
          BY <5>1, <5>2
      <4>2. ASSUME NEW t \in TasksOf(h) PROVE \E j \in Jobs(s(h)) : t.of = j[1]
        BY <2>5
      <4> QED
        BY <4>1, <4>2
    <3>3. ASSUME NEW t \in TasksOf(h), NEW k \in TasksOf(h), t.of = k.of PROVE t = k
      <4>1. PICK i \in Jobs(s(h)) : t = [step |-> h, of |-> i[1], phase |-> Content(s(h), i[1])[1], source |-> i[2]]
        BY <2>5
      <4>2. PICK j \in Jobs(s(h)) : k = [step |-> h, of |-> j[1], phase |-> Content(s(h), j[1])[1], source |-> j[2]]
        BY <2>5
      <4>3. i = j
        BY <2>4, <3>3, <4>1, <4>2
      <4> QED
        BY <4>1, <4>2, <4>3
    <3> QED
      BY <3>1, <3>2, <3>3
  <2>a. Asked \subseteq Handle
    BY DEF Asked
  <2>7. ASSUME NEW h \in Handle PROVE {k \in InHand' : k.step = h} = IF h \in Asked THEN TasksOf(h) ELSE {}
    BY <2>2, <2>6, <2>a
  <2>8. \A h \in Handle : Placed(step'[h])
    BY <2>1, <2>3, <2>4
  <2>9. \A h \in Handle : step'[h].taken = {t.of : t \in {k \in InHand' : k.step = h}}
    <3> SUFFICES ASSUME NEW h \in Handle PROVE step'[h].taken = {t.of : t \in {k \in InHand' : k.step = h}}
      OBVIOUS
    <3>1. CASE h \in Asked
      BY <2>1, <2>4, <2>6, <2>7, <3>1
    <3>2. CASE h \notin Asked
      BY <2>1, <2>3, <2>7, <3>2
    <3> QED
      BY <3>1, <3>2
  <2>10. \A t, k \in InHand' : t.step = k.step /\ t.of = k.of => t = k
    BY <2>2, <2>6, <2>a
  <2>11. \A t \in TS : current'[t] <= built'[t]
    <3>1. \A t \in TS : Cleaned[t] \in {0, current[t]} /\ built[t] \in Nat
      BY CenterAssumption DEF Cleaned, TypeInv, TypeOK
    <3> QED
      BY <2>1, <3>1 DEF TaskInv
  <2>12. ASSUME NEW h \in Handle, built'[StepId(h)] < h[2] PROVE step'[h].taken = {}
    <3>1. StepId(h) \in TS /\ h[2] \in Nat \ {0}
      BY CenterAssumption DEF Handle, StepId
    <3>2. Cleaned[StepId(h)] \in {0, current[StepId(h)]} /\ current[StepId(h)] <= built[StepId(h)]
      BY <3>1 DEF Cleaned, TaskInv
    <3>3. built[StepId(h)] \in Nat /\ current[StepId(h)] \in Nat
      BY <3>1, CenterAssumption DEF TypeInv, TypeOK
    <3>4. h \notin Asked
      BY <2>1, <2>12, <3>1, <3>2, <3>3 DEF Asked
    <3> QED
      BY <2>1, <2>3, <3>4
  <2> QED
    BY <1>2, <2>8, <2>9, <2>10, <2>11, <2>12 DEF TaskInv
<1> QED
  BY <1>3, <1>4

LEMMA ReportJobTasks ==
  ASSUME TypeInv, TaskInv, ReportJob
  PROVE  TaskInv'
<1> DEFINE B == BlockersOf(JobUpdate, JobObject)
           s == step[job.step]
<1>1. pc = "report" /\ pc' = "status" /\ job \in Task /\ job.step \in Handle
  BY DEF ReportJob, TypeInv, WorkerOK, Task
<1>2. InHand = tasks \cup {job} /\ InHand' = tasks /\ job \notin tasks
  BY <1>1 DEF InHand, ReportJob, TaskInv, WithJob
<1>3. s \in TimeStepRecord /\ Placed(s) /\ job.of \in s.taken
  BY <1>1, <1>2 DEF TaskInv, TypeInv, TypeOK
<1>4. /\ Placed(Requeue(s, job.of, job.source, report, B))
      /\ Requeue(s, job.of, job.source, report, B).taken = s.taken \ {job.of}
  <2> HIDE DEF s, B
  <2> QED
    BY <1>3, PlacedRequeue
<1>5. /\ step'[job.step] = Requeue(s, job.of, job.source, report, B)
      /\ \A h \in Handle : h # job.step => step'[h] = step[h]
      /\ UNCHANGED <<current, built, tasks>>
  BY <1>1 DEF ReportJob, TypeInv, TypeOK
<1>6. \A h \in Handle : Placed(step'[h])
  BY <1>4, <1>5 DEF TaskInv
<1>7. ASSUME NEW h \in Handle PROVE step'[h].taken = {t.of : t \in {k \in InHand' : k.step = h}}
  <2>1. CASE h = job.step
    <3>1. {k \in InHand : k.step = h} = {k \in InHand' : k.step = h} \cup {job}
      BY <1>2, <2>1
    <3>2. \A k \in InHand' : k.step = h => k.of # job.of
      BY <1>2, <2>1 DEF TaskInv
    <3>3. s.taken = {t.of : t \in {k \in InHand : k.step = h}}
      BY <2>1 DEF TaskInv
    <3> QED
      BY <1>4, <1>5, <2>1, <3>1, <3>2, <3>3
  <2>2. CASE h # job.step
    <3>1. {k \in InHand : k.step = h} = {k \in InHand' : k.step = h}
      BY <1>2, <2>2
    <3> QED
      BY <1>5, <2>2, <3>1 DEF TaskInv
  <2> QED
    BY <2>1, <2>2
<1>8. ASSUME NEW h \in Handle, built'[StepId(h)] < h[2] PROVE step'[h].taken = {}
  BY <1>3, <1>4, <1>5, <1>8 DEF TaskInv
<1> QED
  BY <1>1, <1>2, <1>5, <1>6, <1>7, <1>8 DEF TaskInv, WithJob

LEMMA OneTimeStep ==
  ASSUME TypeInv, TaskInv, TypeInv', NEW h \in Handle, NEW s, step' = [step EXCEPT ![h] = s],
         Placed(s), s.taken = step[h].taken,
         UNCHANGED <<current, built, tasks>>,
         pc \in WithJob <=> pc' \in WithJob,
         pc \in WithJob => job' = job
  PROVE  TaskInv'
<1>1. SameMarks
  BY DEF SameMarks, TaskInv, TypeInv, TypeOK
<1>2. \A t \in TS : current'[t] <= built'[t] /\ built[t] <= built'[t]
  BY CenterAssumption DEF TaskInv, TypeInv, TypeOK
<1> QED
  BY <1>1, <1>2, KeepsTasks

LEMMA ReportStatusTasks ==
  ASSUME TypeInv, TaskInv, TypeInv', ReportStatus
  PROVE  TaskInv'
<1>1. job.step \in Handle /\ pc \notin WithJob
  BY DEF ReportStatus, TypeInv, WorkerOK, Task, WithJob
<1>2. pc' \notin WithJob /\ UNCHANGED <<current, built, tasks>>
  BY DEF ReportStatus, AfterReport, WithJob
<1>3. step[job.step] \in TimeStepRecord /\ Placed(step[job.step])
  BY <1>1 DEF TaskInv, TypeInv, TypeOK
<1>4. /\ Placed(UpdateStatus(step[job.step], data))
      /\ UpdateStatus(step[job.step], data).taken = step[job.step].taken
  BY <1>3, PlacedUpdateStatus
<1>5. step' = [step EXCEPT ![job.step] = UpdateStatus(step[job.step], data)]
  BY DEF ReportStatus
<1> QED
  BY <1>1, <1>2, <1>4, <1>5, OneTimeStep

LEMMA NotifyUnblockTasks ==
  ASSUME TypeInv, TaskInv, TypeInv', NotifyUnblock
  PROVE  TaskInv'
<1>1. stack \in Seq(Call) /\ Len(stack) > 0 /\ pc = "notify"
  BY DEF NotifyUnblock, TypeInv, TypeOK, WorkerOK, Call
<1>2. stack[Len(stack)] \in Call
  BY <1>1
<1>3. PICK h \in stack[Len(stack)].todo :
        \/ step' = [step EXCEPT ![h] = Unblock(step[h], stack[Len(stack)].done)]
        \/ step' = [step EXCEPT ![h] = UpdateStatus(Unblock(step[h], stack[Len(stack)].done), data)]
  BY DEF NotifyUnblock
<1>4. h \in Handle
  BY <1>2, <1>3 DEF Call
<1> DEFINE s == Unblock(step[h], stack[Len(stack)].done)
<1>5. step[h] \in TimeStepRecord /\ Placed(step[h])
  BY <1>4 DEF TaskInv, TypeInv, TypeOK
<1>6. s \in TimeStepRecord
  BY <1>5, UnblockType
<1>7. s.queues = step[h].queues /\ s.taken = step[h].taken /\ s.variables = step[h].variables
  BY <1>5 DEF Unblock, TimeStepRecord
<1>8. /\ Placed(s) /\ s.taken = step[h].taken
      /\ Placed(UpdateStatus(s, data)) /\ UpdateStatus(s, data).taken = step[h].taken
  <2> HIDE DEF s
  <2>1. Placed(s)
    BY <1>5, <1>7, PlacedSame
  <2> QED
    BY <1>6, <1>7, <2>1, PlacedUpdateStatus
<1>9. UNCHANGED <<current, built, tasks, pc, job>>
  BY DEF NotifyUnblock
<1>10. step' = [step EXCEPT ![h] = s] \/ step' = [step EXCEPT ![h] = UpdateStatus(s, data)]
  BY <1>3
<1> HIDE DEF s
<1> QED
  BY <1>4, <1>8, <1>9, <1>10, OneTimeStep

LEMMA DeclareTasks ==
  ASSUME TypeInv, TaskInv, TypeInv', NEW c \in Client, NEW d \in Ruled, Declare(c, d)
  PROVE  TaskInv'
<1> DEFINE t == StepOf[d]
           h == <<t, ObjectOf(t)>>
           s == IF current[t] # 0 THEN step[h] ELSE NewTimeStep
<1>1. d \in DI /\ t \in TS
  BY ConstantsAssumption
<1>2. UNCHANGED <<tasks, pc, job, blockees>>
  BY DEF Declare, workerVars
<1>3. CASE IsReady(data, d)
  <2>1. UNCHANGED stepVars
    BY <1>2, <1>3 DEF Declare, stepVars
  <2> QED
    BY <1>2, <2>1, KeepsTimeSteps
<1>4. CASE ~IsReady(data, d)
  <2>1. /\ ObjectOf(t) \in 1..MaxObjects
        /\ current' = [current EXCEPT ![t] = h[2]]
        /\ built' = IF current[t] # 0 THEN built ELSE [built EXCEPT ![t] = @ + 1]
        /\ step' = [step EXCEPT ![h] = Add(s, d)]
    BY <1>4 DEF Declare
  <2>2. h \in Handle /\ StepId(h) = t /\ h[2] = ObjectOf(t)
    BY <1>1, <2>1 DEF Handle, StepId
  <2>3. built[t] \in Nat /\ current[t] \in Nat /\ current[t] <= built[t]
    BY <1>1, CenterAssumption DEF TypeInv, TypeOK, TaskInv
  <2>4. s \in TimeStepRecord /\ Placed(s) /\ s.taken = step[h].taken
    <3>1. CASE current[t] # 0
      BY <2>2, <3>1 DEF TaskInv, TypeInv, TypeOK
    <3>2. CASE current[t] = 0
      <4>1. built[StepId(h)] < h[2]
        BY <2>2, <2>3, <3>2 DEF ObjectOf
      <4>2. step[h].taken = {}
        BY <2>2, <4>1 DEF TaskInv
      <4>3. NewTimeStep \in TimeStepRecord
        BY DEF NewTimeStep, TimeStepRecord, Status
      <4> QED
        BY <3>2, <4>2, <4>3, PlacedNew
    <3> QED
      BY <3>1, <3>2
  <2>5. Placed(Add(s, d)) /\ Add(s, d).taken = step[h].taken
    <3> HIDE DEF s
    <3> QED
      BY <2>4, PlacedAdd
  <2>6. \A u \in TS : current'[u] <= built'[u] /\ built[u] <= built'[u]
    <3> SUFFICES ASSUME NEW u \in TS PROVE current'[u] <= built'[u] /\ built[u] <= built'[u]
      OBVIOUS
    <3>1. built[u] \in Nat /\ current[u] \in Nat /\ current[u] <= built[u]
      BY CenterAssumption DEF TypeInv, TypeOK, TaskInv
    <3>2. CASE u # t
      BY <2>1, <3>1, <3>2 DEF TypeInv, TypeOK
    <3>3. CASE u = t
      <4>1. current'[t] = ObjectOf(t)
        BY <1>1, <2>1, <2>2 DEF TypeInv, TypeOK
      <4>2. built'[t] = IF current[t] # 0 THEN built[t] ELSE built[t] + 1
        BY <1>1, <2>1 DEF TypeInv, TypeOK
      <4> QED
        BY <2>3, <3>3, <4>1, <4>2 DEF ObjectOf
    <3> QED
      BY <3>2, <3>3
  <2>7. SameMarks
    <3> HIDE DEF s, h
    <3> QED
      BY <2>1, <2>2, <2>5 DEF SameMarks, TaskInv, TypeInv, TypeOK
  <2> QED
    BY <1>2, <2>6, <2>7, KeepsTasks
<1> QED
  BY <1>3, <1>4

LEMMA PingTasks ==
  ASSUME TypeInv, TaskInv, TypeInv', NEW c \in Client, Ping(c)
  PROVE  TaskInv'
<1>1. UNCHANGED <<tasks, pc, job, current, built>>
  BY DEF Ping, workerVars
<1>2. SameMarks
  <2> SUFFICES ASSUME NEW h \in Handle PROVE Placed(step'[h]) /\ step'[h].taken = step[h].taken
    BY DEF SameMarks
  <2>1. step[h] \in TimeStepRecord /\ Placed(step[h])
    BY DEF TaskInv, TypeInv, TypeOK
  <2>2. step'[h] \in {step[h], ClearBlockingInfo(step[h])}
    BY DEF Ping
  <2> QED
    BY <2>1, <2>2, PlacedClear
<1>3. \A t \in TS : current'[t] <= built'[t] /\ built[t] <= built'[t]
  BY <1>1, CenterAssumption DEF TaskInv, TypeInv, TypeOK
<1> QED
  BY <1>1, <1>2, <1>3, KeepsTasks

LEMMA RegisterTasks ==
  ASSUME TypeInv, TaskInv, TypeInv', RegisterBlocked
  PROVE  TaskInv'
<1> DEFINE s == [step[job.step] EXCEPT !.new_blockers = {}]
<1>1. job.step \in Handle /\ pc = "register" /\ pc' = "loop" /\ UNCHANGED <<current, built, tasks>>
  BY DEF RegisterBlocked, TypeInv, WorkerOK, Task
<1>2. step[job.step] \in TimeStepRecord /\ Placed(step[job.step])
  BY <1>1 DEF TaskInv, TypeInv, TypeOK
<1>3. s.queues = step[job.step].queues /\ s.taken = step[job.step].taken /\ s.variables = step[job.step].variables
  BY <1>2 DEF TimeStepRecord
<1>4. step' = [step EXCEPT ![job.step] = s]
  BY DEF RegisterBlocked
<1> HIDE DEF s
<1>5. Placed(s)
  BY <1>2, <1>3, PlacedSame
<1> QED
  BY <1>1, <1>3, <1>4, <1>5, OneTimeStep DEF WithJob

LEMMA TaskStep == TypeInv /\ TaskInv /\ TypeInv' /\ [Next]_vars => TaskInv'
<1> SUFFICES ASSUME TypeInv, TaskInv, TypeInv', [Next]_vars PROVE TaskInv'
  OBVIOUS
<1>1. CASE TestInteraction \/ Wait \/ NotifyDone \/ NotifyReturn \/ SpuriousWake
  BY <1>1, KeepsTimeSteps DEF TestInteraction, Wait, NotifyDone, NotifyReturn, SpuriousWake, AfterReport, WithJob
<1>2. CASE Run
  <2>1. UNCHANGED <<stepVars, tasks, job>> /\ pc \in WithJob /\ pc' \in WithJob
    BY <1>2 DEF Run, RunReady, RunImpossible, RunUnmoved, RunRead, RunWrite, Evaluated, WithJob
  <2> QED
    BY <2>1, KeepsTimeSteps
<1>3. ASSUME NEW c \in Client, NEW what \in {"update", "ping"}, Open(c, what) PROVE TaskInv'
  BY <1>3, KeepsTimeSteps DEF Open, workerVars
<1>4. ASSUME NEW c \in Client, Close(c) PROVE TaskInv'
  BY <1>4, KeepsTimeSteps DEF Close, workerVars
<1>5. ASSUME NEW c \in Client, Notify(c) PROVE TaskInv'
  BY <1>5, KeepsTimeSteps DEF Notify, WithJob
<1>6. ASSUME NEW d \in DI, WriteFile(d) PROVE TaskInv'
  BY <1>6, KeepsTimeSteps DEF WriteFile, workerVars
<1>7. CASE UNCHANGED vars
  BY <1>7, KeepsTimeSteps DEF vars, workerVars
<1> QED
  BY <1>1, <1>2, <1>3, <1>4, <1>5, <1>6, <1>7, GetOneTasks, ReportJobTasks, ReportStatusTasks,
     NotifyUnblockTasks, RegisterTasks, DeclareTasks, PingTasks
  DEF Next, Worker, ClientStep

(* An update is in one queue of its timestep and a task is in hand for it  *)
(* exactly when it is marked, for any rules, commands and order of tasks:  *)
(* none is evaluated twice in a batch, none is forgotten.                  *)
THEOREM QueuedOnceAlways == Spec => []QueuedOnce
<1>1. TaskInv => QueuedOnce
  <2> SUFFICES ASSUME TaskInv, NEW h \in Handle
               PROVE  /\ \A p, q \in Queue : p # q => step[h].queues[p] \cap step[h].queues[q] = {}
                      /\ step[h].taken = {t.of : t \in {k \in InHand : k.step = h}}
                      /\ step[h].taken \subseteq Queued(step[h])
                      /\ \A t, k \in InHand : t.step = k.step /\ t.of = k.of => t = k
    BY DEF QueuedOnce
  <2>1. step[h].taken \subseteq Queued(step[h])
    BY DEF TaskInv, Placed, Queued, Queue
  <2> QED
    BY <2>1 DEF TaskInv, Placed
<1>2. TypeInv /\ TaskInv /\ TypeInv' /\ [Next]_vars => TaskInv'
  BY TaskStep
<1> QED
  BY <1>1, <1>2, TaskInitial, InitTypeInv, NextTypeInv, PTL DEF Spec

-----------------------------------------------------------------------------
(* What the operators do to a timestep. *)

LEMMA AdmitNewEffect ==
  ASSUME NEW s \in TimeStepRecord, NEW D
  PROVE  LET a == AdmitNew(s, D)
         IN  /\ a \in TimeStepRecord
             /\ a.status = s.status /\ a.blockers = s.blockers /\ a.new_blockers = s.new_blockers
             /\ a.variables = s.variables /\ a.inits = s.inits /\ a.taken = s.taken
             /\ a.unbounds_ready = s.unbounds_ready \cup
                  {x \in DI : IsReady(D, x) /\ \E d \in s.queues["New"] : x \in Unbounds(s, d)}
             /\ a.queues["New"] = Held(s, D)
             /\ a.queues["Unstable"] = s.queues["Unstable"] \cup (s.queues["New"] \ Held(s, D))
             /\ a.queues["Impossible"] = s.queues["Impossible"]
             /\ a.queues["Stable"] = s.queues["Stable"]
             /\ a.queues["Confirmed"] = s.queues["Confirmed"]
<1>1. AdmitNew(s, D) \in TimeStepRecord
  BY AdmitNewType
<1> QED
  BY <1>1 DEF AdmitNew, TimeStepRecord, Queue

LEMMA MoveQueueEffect ==
  ASSUME NEW s \in TimeStepRecord, NEW from \in Queue, NEW to \in Queue, from # to
  PROVE  LET m == MoveQueue(s, from, to)
         IN  /\ m \in TimeStepRecord
             /\ m.status = s.status /\ m.blockers = s.blockers /\ m.new_blockers = s.new_blockers
             /\ m.variables = s.variables /\ m.inits = s.inits /\ m.taken = s.taken
             /\ m.unbounds_ready = s.unbounds_ready
             /\ m.queues[to] = s.queues[to] \cup s.queues[from]
             /\ m.queues[from] = {}
             /\ \A q \in Queue : q \notin {from, to} => m.queues[q] = s.queues[q]
<1>1. MoveQueue(s, from, to) \in TimeStepRecord
  BY MoveQueueType
<1> QED
  BY <1>1 DEF MoveQueue, TimeStepRecord

LEMMA SetStatusEffect ==
  ASSUME NEW s \in TimeStepRecord, NEW x \in Status
  PROVE  LET m == SetStatus(s, x)
         IN  /\ m \in TimeStepRecord
             /\ m.status = x /\ m.blockers = s.blockers /\ m.new_blockers = s.new_blockers
             /\ m.variables = s.variables /\ m.inits = s.inits /\ m.taken = s.taken
             /\ m.unbounds_ready = s.unbounds_ready /\ m.queues = s.queues
<1>1. SetStatus(s, x) \in TimeStepRecord
  BY SetStatusType
<1> QED
  BY <1>1 DEF SetStatus, TimeStepRecord

(* update_status never changes these parts of a timestep. *)
SameParts(r, s) ==
  /\ r.blockers = s.blockers /\ r.new_blockers = s.new_blockers
  /\ r.variables = s.variables /\ r.inits = s.inits /\ r.taken = s.taken
  /\ r.unbounds_ready = s.unbounds_ready

(* The branches of update_status that do not end the timestep. *)
Unbinds(r, a) ==
  /\ a.queues["New"] # {}
  /\ r.status = "Unbound" /\ r.queues = a.queues

Unsettles(r, a) ==
  /\ a.queues["New"] = {}
  /\ r.queues["New"] = {} /\ r.queues["Confirmed"] = {}
  /\ r.queues["Stable"] = a.queues["Stable"] \cup a.queues["Confirmed"]
  /\ \/ /\ a.queues["Impossible"] # {} /\ a.blockers = {}
        /\ r.status = "Relaxing"
        /\ r.queues["Impossible"] = {}
        /\ r.queues["Unstable"] = a.queues["Unstable"] \cup a.queues["Impossible"]
     \/ /\ a.queues["Impossible"] # {} /\ a.blockers # {}
        /\ r.status = "Blocked"
        /\ r.queues["Impossible"] = a.queues["Impossible"]
        /\ r.queues["Unstable"] = a.queues["Unstable"]
     \/ /\ a.queues["Impossible"] = {} /\ a.queues["Unstable"] # {}
        /\ r.status = "Relaxing"
        /\ r.queues["Impossible"] = {}
        /\ r.queues["Unstable"] = a.queues["Unstable"]

Checks(r, a) ==
  /\ a.queues["New"] = {} /\ a.queues["Impossible"] = {} /\ a.queues["Unstable"] = {}
  /\ r.status = "Checking" /\ r.queues = a.queues

LEMMA ReconsiderEffect ==
  ASSUME NEW a \in TimeStepRecord
  PROVE  /\ SameParts(Reconsider(a), a)
         /\ Unbinds(Reconsider(a), a) \/ Unsettles(Reconsider(a), a) \/ Checks(Reconsider(a), a)
<1> DEFINE c == MoveQueue(a, "Confirmed", "Stable")
           i == MoveQueue(c, "Impossible", "Unstable")
<1>1. /\ c \in TimeStepRecord /\ SameParts(c, a)
      /\ c.queues["Stable"] = a.queues["Stable"] \cup a.queues["Confirmed"]
      /\ c.queues["Confirmed"] = {}
      /\ c.queues["New"] = a.queues["New"]
      /\ c.queues["Impossible"] = a.queues["Impossible"]
      /\ c.queues["Unstable"] = a.queues["Unstable"]
  <2> HIDE DEF i
  <2> QED
    BY MoveQueueEffect DEF Queue, SameParts
<1>2. /\ i \in TimeStepRecord /\ SameParts(i, a)
      /\ i.queues["Stable"] = a.queues["Stable"] \cup a.queues["Confirmed"]
      /\ i.queues["Confirmed"] = {}
      /\ i.queues["New"] = a.queues["New"]
      /\ i.queues["Impossible"] = {}
      /\ i.queues["Unstable"] = a.queues["Unstable"] \cup a.queues["Impossible"]
  <2> HIDE DEF c
  <2> QED
    BY <1>1, MoveQueueEffect DEF Queue, SameParts
<1>3. \A x \in Status :
        /\ SetStatus(a, x).status = x /\ SetStatus(a, x).queues = a.queues /\ SameParts(SetStatus(a, x), a)
        /\ SetStatus(c, x).status = x /\ SetStatus(c, x).queues = c.queues /\ SameParts(SetStatus(c, x), a)
        /\ SetStatus(i, x).status = x /\ SetStatus(i, x).queues = i.queues /\ SameParts(SetStatus(i, x), a)
  <2> HIDE DEF c, i
  <2> QED
    BY <1>1, <1>2, SetStatusEffect DEF SameParts
<1>4. {"Unbound", "Relaxing", "Blocked", "Checking"} \subseteq Status
  BY DEF Status
<1>5. c.blockers = a.blockers
  BY <1>1 DEF SameParts
<1>6. Reconsider(a) = IF a.queues["New"] # {} THEN SetStatus(a, "Unbound")
                      ELSE IF a.queues["Impossible"] # {}
                      THEN IF c.blockers = {} THEN SetStatus(i, "Relaxing") ELSE SetStatus(c, "Blocked")
                      ELSE IF a.queues["Unstable"] # {} THEN SetStatus(c, "Relaxing")
                      ELSE SetStatus(a, "Checking")
  BY DEF Reconsider
<1> HIDE DEF c, i
<1>7. CASE a.queues["New"] # {}
  BY <1>3, <1>4, <1>6, <1>7 DEF Unbinds
<1>8. CASE a.queues["New"] = {} /\ a.queues["Impossible"] # {} /\ a.blockers = {}
  BY <1>2, <1>3, <1>4, <1>5, <1>6, <1>8 DEF Unsettles
<1>9. CASE a.queues["New"] = {} /\ a.queues["Impossible"] # {} /\ a.blockers # {}
  BY <1>1, <1>3, <1>4, <1>5, <1>6, <1>9 DEF Unsettles
<1>10. CASE a.queues["New"] = {} /\ a.queues["Impossible"] = {} /\ a.queues["Unstable"] # {}
  BY <1>1, <1>3, <1>4, <1>6, <1>10 DEF Unsettles
<1>11. CASE a.queues["New"] = {} /\ a.queues["Impossible"] = {} /\ a.queues["Unstable"] = {}
  BY <1>3, <1>4, <1>6, <1>11 DEF Checks
<1> QED
  BY <1>7, <1>8, <1>9, <1>10, <1>11

LEMMA UpdateStatusEffect ==
  ASSUME NEW s \in TimeStepRecord, NEW D
  PROVE  LET a == AdmitNew(s, D)
             r == UpdateStatus(s, D)
         IN  /\ SameParts(r, a)
             /\ Terminates(s, D) =>
                  /\ r.status = "Done" /\ \A q \in Queue : r.queues[q] = {}
                  /\ \A q \in Queue \ {"Confirmed"} : a.queues[q] = {}
             /\ ~Terminates(s, D) =>
                  /\ Unbinds(r, a) \/ Unsettles(r, a) \/ Checks(r, a)
                  /\ \E q \in Queue \ {"Confirmed"} : a.queues[q] # {}
<1> DEFINE a == AdmitNew(s, D)
           e == SetStatus(a, "Done")
           f == [e EXCEPT !.queues["Confirmed"] = {}]
<1>1. a \in TimeStepRecord
  BY AdmitNewType
<1>2. CASE Terminates(s, D)
  <2>1. UpdateStatus(s, D) = f /\ \A q \in Queue \ {"Confirmed"} : a.queues[q] = {}
    BY <1>2 DEF UpdateStatus, Terminates
  <2> HIDE DEF a
  <2>2. e \in TimeStepRecord /\ e.status = "Done" /\ e.queues = a.queues /\ SameParts(e, a)
    BY <1>1, SetStatusEffect DEF Status, SameParts
  <2> HIDE DEF e
  <2>3. SameParts(f, a) /\ f.status = "Done" /\ \A q \in Queue : f.queues[q] = {}
    BY <2>1, <2>2 DEF SameParts, TimeStepRecord, Queue
  <2> QED
    BY <1>2, <2>1, <2>3 DEF a
<1>3. CASE ~Terminates(s, D)
  <2>1. UpdateStatus(s, D) = Reconsider(a) /\ \E q \in Queue \ {"Confirmed"} : a.queues[q] # {}
    BY <1>3 DEF UpdateStatus, Terminates
  <2> HIDE DEF a
  <2> QED
    BY <1>1, <1>3, <2>1, ReconsiderEffect DEF a
<1> QED
  BY <1>2, <1>3

LEMMA CheckUnboundEffect ==
  ASSUME NEW s \in TimeStepRecord, NEW D
  PROVE  LET a == AdmitNew(s, D)
             r == CheckUnbound(s, D)
         IN  /\ r \in TimeStepRecord /\ SameParts(r, a) /\ r.queues = a.queues
             /\ r.status = IF a.queues["New"] # {} THEN "Unbound" ELSE s.status
<1> DEFINE a == AdmitNew(s, D)
<1>1. a \in TimeStepRecord /\ a.status = s.status
  BY AdmitNewEffect
<1>2. CheckUnbound(s, D) = IF a.queues["New"] # {} THEN SetStatus(a, "Unbound") ELSE a
  BY DEF CheckUnbound
<1> HIDE DEF a
<1>3. /\ SetStatus(a, "Unbound") \in TimeStepRecord /\ SameParts(SetStatus(a, "Unbound"), a)
      /\ SetStatus(a, "Unbound").queues = a.queues /\ SetStatus(a, "Unbound").status = "Unbound"
  BY <1>1, SetStatusEffect DEF Status, SameParts
<1> QED
  BY <1>1, <1>2, <1>3 DEF a, SameParts

LEMMA ClearEffect ==
  ASSUME NEW s \in TimeStepRecord
  PROVE  LET r == ClearBlockingInfo(s)
         IN  /\ r \in TimeStepRecord
             /\ r.status = "Relaxing" /\ r.blockers = {} /\ r.new_blockers = s.new_blockers
             /\ r.variables = s.variables /\ r.inits = s.inits /\ r.taken = s.taken
             /\ r.unbounds_ready = s.unbounds_ready
             /\ r.queues["Unstable"] = s.queues["Unstable"] \cup s.queues["Impossible"]
             /\ r.queues["Impossible"] = {}
             /\ r.queues["New"] = s.queues["New"]
             /\ r.queues["Stable"] = s.queues["Stable"]
             /\ r.queues["Confirmed"] = s.queues["Confirmed"]
<1> DEFINE b == [s EXCEPT !.blockers = {}]
           m == MoveQueue(b, "Impossible", "Unstable")
<1>1. /\ b \in TimeStepRecord /\ b.blockers = {} /\ b.new_blockers = s.new_blockers
      /\ b.variables = s.variables /\ b.inits = s.inits /\ b.taken = s.taken
      /\ b.unbounds_ready = s.unbounds_ready /\ b.queues = s.queues
  BY DEF TimeStepRecord
<1>2. ClearBlockingInfo(s) = SetStatus(m, "Relaxing")
  BY DEF ClearBlockingInfo
<1> HIDE DEF b
<1>3. /\ m \in TimeStepRecord /\ SameParts(m, b)
      /\ m.queues["Unstable"] = b.queues["Unstable"] \cup b.queues["Impossible"]
      /\ m.queues["Impossible"] = {}
      /\ m.queues["New"] = b.queues["New"]
      /\ m.queues["Stable"] = b.queues["Stable"]
      /\ m.queues["Confirmed"] = b.queues["Confirmed"]
  BY <1>1, MoveQueueEffect DEF Queue, SameParts
<1> HIDE DEF m
<1>4. LET r == SetStatus(m, "Relaxing")
      IN  r \in TimeStepRecord /\ r.status = "Relaxing" /\ r.queues = m.queues /\ SameParts(r, m)
  BY <1>3, SetStatusEffect DEF Status, SameParts
<1> QED
  BY <1>1, <1>2, <1>3, <1>4 DEF SameParts

LEMMA AddEffect ==
  ASSUME NEW s \in TimeStepRecord, NEW d \in Ruled, d \notin s.variables
  PROVE  LET r == Add(s, d)
         IN  /\ r \in TimeStepRecord
             /\ r.status = s.status /\ r.blockers = s.blockers /\ r.new_blockers = s.new_blockers
             /\ r.variables = s.variables \cup {d} /\ r.inits = s.inits \cup ({d} \cap WithInit)
             /\ r.taken = s.taken /\ r.unbounds_ready = s.unbounds_ready
             /\ r.queues["New"] = s.queues["New"] \cup {d}
             /\ \A q \in Queue : q # "New" => r.queues[q] = s.queues[q]
<1>1. Add(s, d) \in TimeStepRecord
  BY AddType
<1> QED
  BY <1>1 DEF Add, TimeStepRecord, Queue

LEMMA TakeJobsEffect ==
  ASSUME NEW s \in TimeStepRecord
  PROVE  LET r == TakeJobs(s)
         IN  /\ r.status = s.status /\ r.blockers = s.blockers /\ r.new_blockers = s.new_blockers
             /\ r.variables = s.variables /\ r.inits = s.inits
             /\ r.unbounds_ready = s.unbounds_ready /\ r.queues = s.queues
BY DEF TakeJobs, TimeStepRecord

LEMMA UnblockEffect ==
  ASSUME NEW s \in TimeStepRecord, NEW t
  PROVE  LET r == Unblock(s, t)
         IN  /\ r \in TimeStepRecord
             /\ r.status = s.status /\ r.blockers = s.blockers \ {t} /\ r.new_blockers = s.new_blockers
             /\ r.variables = s.variables /\ r.inits = s.inits /\ r.taken = s.taken
             /\ r.unbounds_ready = s.unbounds_ready /\ r.queues = s.queues
BY UnblockType DEF Unblock, TimeStepRecord

(* The update of d leaves its queue for the queue to, or for none. *)
MovedTo(n, s, d, to) ==
  \A q \in Queue : n.queues[q] = IF q = to THEN s.queues[q] \cup {d} ELSE s.queues[q] \ {d}

Dropped(n, s, d) == \A q \in Queue : n.queues[q] = s.queues[q] \ {d}

LEMMA PushBackEffect ==
  ASSUME NEW s \in TimeStepRecord, NEW q \in Queue, NEW d \in Ruled
  PROVE  LET r == PushBack(s, q, d)
         IN  /\ r \in TimeStepRecord /\ r.status = s.status /\ SameParts(r, s)
             /\ r.queues[q] = s.queues[q] \cup {d}
             /\ \A p \in Queue : p # q => r.queues[p] = s.queues[p]
BY DEF PushBack, SameParts, TimeStepRecord

LEMMA RequeueEffect ==
  ASSUME NEW s \in TimeStepRecord, Placed(s), NEW d \in s.taken, NEW src, NEW r, NEW B \in SUBSET TS
  PROVE  LET n == Requeue(s, d, src, r, B)
         IN  /\ n \in TimeStepRecord
             /\ n.status = s.status /\ n.variables = s.variables
             /\ n.taken = s.taken \ {d} /\ n.unbounds_ready = s.unbounds_ready
             /\ \/ /\ r = "Impossible"
                   /\ MovedTo(n, s, d, "Impossible") /\ n.inits = s.inits
                   /\ n.blockers = s.blockers \cup B /\ n.new_blockers = s.new_blockers \cup B
                \/ /\ r # "Impossible"
                   /\ MovedTo(n, s, d, "Unstable") /\ n.inits = s.inits \ {d}
                   /\ n.blockers = s.blockers /\ n.new_blockers = s.new_blockers
                \/ /\ r = "UpToDate" /\ d \notin s.inits
                   /\ MovedTo(n, s, d, UpToDateQueue(s, src)) /\ n.inits = s.inits
                   /\ n.blockers = s.blockers /\ n.new_blockers = s.new_blockers
                \/ /\ r \notin {"Impossible", "Updated", "UpToDate"} /\ d \notin s.inits
                   /\ Dropped(n, s, d) /\ n.inits = s.inits
                   /\ n.blockers = s.blockers /\ n.new_blockers = s.new_blockers
<1> DEFINE rest == RemoveUpdate(s, d)
           u == PushBack(rest, "Impossible", d)
           v == [u EXCEPT !.blockers = @ \cup B, !.new_blockers = @ \cup B]
           i == InitDone(rest, d)
           w == PushBack(i, "Unstable", d)
           x == PushBack(rest, UpToDateQueue(s, src), d)
<1>1. PICK p \in Queue : d \in s.queues[p]
  BY DEF Placed, Queue
<1>2. \A q \in Queue : q # p => d \notin s.queues[q]
  BY <1>1 DEF Placed
<1>3. FirstWith(s, d) = {p}
  <2>1. QueueRank[p] <= QueueRank[p]
    BY DEF Queue, QueueRank
  <2> QED
    BY <1>1, <1>2, <2>1 DEF FirstWith
<1>a. d \in Ruled
  BY DEF TimeStepRecord
<1>4. /\ rest \in TimeStepRecord /\ rest.status = s.status
      /\ rest.taken = s.taken \ {d} /\ rest.variables = s.variables
      /\ rest.inits = s.inits /\ rest.unbounds_ready = s.unbounds_ready
      /\ rest.blockers = s.blockers /\ rest.new_blockers = s.new_blockers
      /\ \A q \in Queue : rest.queues[q] = s.queues[q] \ {d}
  <2>1. \A q \in Queue : s.queues[q] \ {d} = (IF q = p THEN s.queues[q] \ {d} ELSE s.queues[q])
    BY <1>2
  <2>2. rest = [s EXCEPT !.taken = @ \ {d},
                         !.queues = [q \in Queue |-> IF q \in {p} THEN s.queues[q] \ {d} ELSE s.queues[q]]]
    BY <1>3 DEF RemoveUpdate
  <2> HIDE DEF rest
  <2> QED
    BY <2>1, <2>2 DEF TimeStepRecord
<1>5. /\ v \in TimeStepRecord /\ v.status = s.status /\ v.variables = s.variables
      /\ v.taken = s.taken \ {d} /\ v.unbounds_ready = s.unbounds_ready
      /\ MovedTo(v, s, d, "Impossible") /\ v.inits = s.inits
      /\ v.blockers = s.blockers \cup B /\ v.new_blockers = s.new_blockers \cup B
  <2> HIDE DEF rest
  <2>i. "Impossible" \in Queue /\ rest \in TimeStepRecord
    BY <1>4 DEF Queue
  <2>a. /\ u \in TimeStepRecord /\ u.status = rest.status /\ SameParts(u, rest)
        /\ u.queues["Impossible"] = rest.queues["Impossible"] \cup {d}
        /\ \A q \in Queue : q # "Impossible" => u.queues[q] = rest.queues[q]
    BY <2>i, <1>a, PushBackEffect
  <2> HIDE DEF u
  <2>1. /\ u \in TimeStepRecord /\ u.status = rest.status /\ SameParts(u, rest)
        /\ MovedTo(u, s, d, "Impossible")
    BY <1>4, <2>a DEF MovedTo, Queue
  <2>2. /\ v \in TimeStepRecord /\ v.status = u.status /\ v.variables = u.variables
        /\ v.taken = u.taken /\ v.unbounds_ready = u.unbounds_ready
        /\ v.queues = u.queues /\ v.inits = u.inits
        /\ v.blockers = u.blockers \cup B /\ v.new_blockers = u.new_blockers \cup B
    BY <2>1 DEF TimeStepRecord
  <2> HIDE DEF v
  <2> QED
    BY <1>4, <2>1, <2>2 DEF SameParts, MovedTo
<1>6. /\ w \in TimeStepRecord /\ w.status = s.status /\ w.variables = s.variables
      /\ w.taken = s.taken \ {d} /\ w.unbounds_ready = s.unbounds_ready
      /\ MovedTo(w, s, d, "Unstable") /\ w.inits = s.inits \ {d}
      /\ w.blockers = s.blockers /\ w.new_blockers = s.new_blockers
  <2> HIDE DEF rest
  <2>1. /\ i \in TimeStepRecord /\ i.status = rest.status /\ i.variables = rest.variables
        /\ i.taken = rest.taken /\ i.unbounds_ready = rest.unbounds_ready
        /\ i.queues = rest.queues /\ i.inits = rest.inits \ {d}
        /\ i.blockers = rest.blockers /\ i.new_blockers = rest.new_blockers
    BY <1>4 DEF InitDone, TimeStepRecord
  <2> HIDE DEF i
  <2>2. /\ w \in TimeStepRecord /\ w.status = i.status /\ SameParts(w, i)
        /\ w.queues["Unstable"] = i.queues["Unstable"] \cup {d}
        /\ \A q \in Queue : q # "Unstable" => w.queues[q] = i.queues[q]
    BY <1>a, <2>1, PushBackEffect DEF Queue
  <2> HIDE DEF w
  <2> QED
    BY <1>4, <2>1, <2>2 DEF SameParts, MovedTo, Queue
<1>7. /\ x \in TimeStepRecord /\ x.status = s.status /\ x.variables = s.variables
      /\ x.taken = s.taken \ {d} /\ x.unbounds_ready = s.unbounds_ready
      /\ MovedTo(x, s, d, UpToDateQueue(s, src)) /\ x.inits = s.inits
      /\ x.blockers = s.blockers /\ x.new_blockers = s.new_blockers
  <2> DEFINE to == UpToDateQueue(s, src)
  <2>1. to \in Queue
    BY DEF UpToDateQueue, Queue
  <2> HIDE DEF rest, to
  <2>2. /\ x \in TimeStepRecord /\ x.status = rest.status /\ SameParts(x, rest)
        /\ x.queues[to] = rest.queues[to] \cup {d}
        /\ \A q \in Queue : q # to => x.queues[q] = rest.queues[q]
    BY <1>4, <1>a, <2>1, PushBackEffect DEF to
  <2> HIDE DEF x
  <2>3. MovedTo(x, s, d, to)
    BY <1>4, <2>1, <2>2 DEF MovedTo
  <2> QED
    BY <1>4, <2>2, <2>3 DEF SameParts, to
<1>8. Dropped(rest, s, d)
  BY <1>4 DEF Dropped
<1>9. Requeue(s, d, src, r, B) =
        CASE r = "Impossible" -> v
          [] r = "Updated" \/ (r # "Impossible" /\ d \in s.inits) -> w
          [] r = "UpToDate" /\ d \notin s.inits -> x
          [] OTHER -> rest
  BY DEF Requeue
<1> HIDE DEF rest, v, w, x
<1>10. CASE r = "Impossible"
  <2>1. Requeue(s, d, src, r, B) = v
    BY <1>9, <1>10
  <2> QED
    BY <1>5, <1>10, <2>1
<1>11. CASE r = "Updated" \/ (r # "Impossible" /\ d \in s.inits)
  <2>1. Requeue(s, d, src, r, B) = w /\ r # "Impossible"
    BY <1>9, <1>11
  <2> QED
    BY <1>6, <2>1
<1>12. CASE r = "UpToDate" /\ d \notin s.inits
  <2>1. Requeue(s, d, src, r, B) = x
    BY <1>9, <1>12
  <2> QED
    BY <1>7, <1>12, <2>1
<1>13. CASE r \notin {"Impossible", "Updated", "UpToDate"} /\ d \notin s.inits
  <2>1. Requeue(s, d, src, r, B) = rest
    BY <1>9, <1>13
  <2> QED
    BY <1>4, <1>8, <1>13, <2>1
<1> QED
  BY <1>10, <1>11, <1>12, <1>13

-----------------------------------------------------------------------------
(* What the worker may sleep on.  A timestep that relaxes or checks has no *)
(* impossible update, one that checks has a stable one, and one does not   *)
(* only have confirmed updates, except the one whose report has moved an   *)
(* update and not settled the status yet.  So when no such timestep gives  *)
(* a task, none has an update.                                             *)
Settled(s) ==
  /\ s.status \in {"Relaxing", "Checking"} => s.queues["Impossible"] = {}
  /\ s.status = "Checking" => s.queues["Stable"] # {}
  /\ s.queues["Confirmed"] # {} => \E q \in Queue \ {"Confirmed"} : s.queues[q] # {}

Unsettled(h) == pc = "status" /\ h = job.step

SettledInv == \A h \in Handle : Settled(step[h]) \/ Unsettled(h)

ParkInv == pc = "park" => ~AllIdle

LEMMA SettledUpdateStatus ==
  ASSUME NEW s \in TimeStepRecord, NEW D
  PROVE  Settled(UpdateStatus(s, D))
<1> DEFINE a == AdmitNew(s, D)
           r == UpdateStatus(s, D)
<1>1. a \in TimeStepRecord
  BY AdmitNewType
<1>2. CASE Terminates(s, D)
  <2>1. r.status = "Done" /\ \A q \in Queue : r.queues[q] = {}
    BY <1>2, UpdateStatusEffect
  <2> HIDE DEF r
  <2>2. Settled(r)
    BY <2>1 DEF Settled, Queue
  <2> QED
    BY <2>2 DEF r
<1>3. CASE ~Terminates(s, D)
  <2>1. /\ Unbinds(r, a) \/ Unsettles(r, a) \/ Checks(r, a)
        /\ \E q \in Queue \ {"Confirmed"} : a.queues[q] # {}
    BY <1>3, UpdateStatusEffect
  <2> SUFFICES Settled(r)
    OBVIOUS
  <2> HIDE DEF r, a
  <2>a. {"New", "Unstable", "Impossible", "Stable"} = Queue \ {"Confirmed"}
    BY DEF Queue
  <2>2. CASE Unbinds(r, a)
    <3>1. r.status = "Unbound" /\ r.queues["New"] # {}
      BY <2>2 DEF Unbinds
    <3> QED
      BY <2>a, <3>1 DEF Settled
  <2>3. CASE Unsettles(r, a)
    <3>1. r.queues["Confirmed"] = {} /\ r.status # "Checking"
          /\ (r.status = "Relaxing" => r.queues["Impossible"] = {})
      BY <2>3 DEF Unsettles
    <3> QED
      BY <3>1 DEF Settled
  <2>4. CASE Checks(r, a)
    <3>1. r.queues = a.queues /\ r.queues["New"] = {} /\ r.queues["Impossible"] = {}
          /\ r.queues["Unstable"] = {} /\ r.status = "Checking"
      BY <2>4 DEF Checks
    <3>2. PICK q \in Queue \ {"Confirmed"} : r.queues[q] # {}
      BY <2>1, <3>1
    <3>3. q = "Stable"
      BY <2>a, <3>1, <3>2
    <3> QED
      BY <3>1, <3>2, <3>3 DEF Settled
  <2> QED
    BY <2>1, <2>2, <2>3, <2>4
<1> QED
  BY <1>2, <1>3

LEMMA SettledSame ==
  ASSUME NEW s, Settled(s), NEW r, r.status = s.status, r.queues = s.queues
  PROVE  Settled(r)
BY DEF Settled

LEMMA SettledCheckUnbound ==
  ASSUME NEW s \in TimeStepRecord, Settled(s), NEW D
  PROVE  Settled(CheckUnbound(s, D))
<1> DEFINE a == AdmitNew(s, D)
           r == CheckUnbound(s, D)
<1>1. /\ r.queues = a.queues /\ r.status = IF a.queues["New"] # {} THEN "Unbound" ELSE s.status
  BY CheckUnboundEffect
<1>2. /\ a.queues["New"] = Held(s, D)
      /\ a.queues["Unstable"] = s.queues["Unstable"] \cup (s.queues["New"] \ Held(s, D))
      /\ a.queues["Impossible"] = s.queues["Impossible"]
      /\ a.queues["Stable"] = s.queues["Stable"]
      /\ a.queues["Confirmed"] = s.queues["Confirmed"]
  BY AdmitNewEffect
<1> HIDE DEF r, a
<1>3. \A q \in Queue \ {"Confirmed"} : s.queues[q] # {} => \E p \in Queue \ {"Confirmed"} : a.queues[p] # {}
  BY <1>2 DEF Queue
<1>4. Settled(r)
  BY <1>1, <1>2, <1>3 DEF Settled
<1> QED
  BY <1>4 DEF r

LEMMA SettledAdd ==
  ASSUME NEW s \in TimeStepRecord, Settled(s), NEW d \in Ruled
  PROVE  Settled(Add(s, d))
<1> DEFINE r == Add(s, d)
<1>1. CASE d \in s.variables
  BY <1>1 DEF Add
<1>2. CASE d \notin s.variables
  <2>1. /\ r.status = s.status /\ r.queues["New"] = s.queues["New"] \cup {d}
        /\ \A q \in Queue : q # "New" => r.queues[q] = s.queues[q]
    BY <1>2, AddEffect
  <2> HIDE DEF r
  <2>2. Settled(r)
    BY <2>1 DEF Settled, Queue
  <2> QED
    BY <2>2 DEF r
<1> QED
  BY <1>1, <1>2

LEMMA SettledClear ==
  ASSUME NEW s \in TimeStepRecord, Settled(s)
  PROVE  Settled(ClearBlockingInfo(s))
<1> DEFINE r == ClearBlockingInfo(s)
<1>1. /\ r.status = "Relaxing"
      /\ r.queues["Unstable"] = s.queues["Unstable"] \cup s.queues["Impossible"]
      /\ r.queues["Impossible"] = {}
      /\ r.queues["New"] = s.queues["New"]
      /\ r.queues["Stable"] = s.queues["Stable"]
      /\ r.queues["Confirmed"] = s.queues["Confirmed"]
  BY ClearEffect
<1> HIDE DEF r
<1>2. \A q \in Queue \ {"Confirmed"} : s.queues[q] # {} => \E p \in Queue \ {"Confirmed"} : r.queues[p] # {}
  BY <1>1 DEF Queue
<1>3. Settled(r)
  BY <1>1, <1>2 DEF Settled
<1> QED
  BY <1>3 DEF r

(* A step that neither changes a timestep nor leaves the report of one.    *)
LEMMA KeepsSettled ==
  ASSUME SettledInv, UNCHANGED step, pc = "status" => pc' = "status" /\ job' = job
  PROVE  SettledInv'
BY DEF SettledInv, Unsettled

LEMMA GetOneSettled ==
  ASSUME TypeInv, SettledInv, GetOne
  PROVE  SettledInv'
<1>1. pc = "get" /\ \A h \in Handle : Settled(step[h]) /\ step[h] \in TimeStepRecord
  BY DEF GetOne, SettledInv, Unsettled, TypeInv, TypeOK
<1>2. ASSUME NEW h \in Handle PROVE Settled(step'[h])
  <2> DEFINE r == CheckUnbound(step[h], data)
  <2>1. r \in TimeStepRecord /\ Settled(r)
    BY <1>1, CheckUnboundType, SettledCheckUnbound
  <2>2. step'[h] = step[h] \/ step'[h] = TakeJobs(r)
    BY DEF GetOne
  <2> HIDE DEF r
  <2>3. Settled(TakeJobs(r))
    <3>1. TakeJobs(r).status = r.status /\ TakeJobs(r).queues = r.queues
      BY <2>1, TakeJobsEffect
    <3> QED
      BY <2>1, <3>1, SettledSame
  <2> QED
    BY <1>1, <2>2, <2>3
<1> QED
  BY <1>2 DEF SettledInv

LEMMA ReportStatusSettled ==
  ASSUME TypeInv, SettledInv, ReportStatus
  PROVE  SettledInv'
<1>1. job.step \in Handle /\ step[job.step] \in TimeStepRecord
  BY DEF ReportStatus, TypeInv, TypeOK, WorkerOK, Task
<1>2. Settled(UpdateStatus(step[job.step], data))
  BY <1>1, SettledUpdateStatus
<1>3. \A h \in Handle : step'[h] = IF h = job.step THEN UpdateStatus(step[job.step], data) ELSE step[h]
  BY <1>1 DEF ReportStatus, TypeInv, TypeOK
<1> QED
  BY <1>2, <1>3 DEF SettledInv, Unsettled

LEMMA NotifyUnblockSettled ==
  ASSUME TypeInv, SettledInv, NotifyUnblock
  PROVE  SettledInv'
<1>1. stack \in Seq(Call) /\ Len(stack) > 0 /\ pc = "notify"
  BY DEF NotifyUnblock, TypeInv, TypeOK, WorkerOK, Call
<1>2. stack[Len(stack)] \in Call
  BY <1>1
<1>3. PICK h \in stack[Len(stack)].todo :
        \/ step' = [step EXCEPT ![h] = Unblock(step[h], stack[Len(stack)].done)]
        \/ step' = [step EXCEPT ![h] = UpdateStatus(Unblock(step[h], stack[Len(stack)].done), data)]
  BY DEF NotifyUnblock
<1>4. h \in Handle
  BY <1>2, <1>3 DEF Call
<1> DEFINE s == Unblock(step[h], stack[Len(stack)].done)
<1>5. /\ step[h] \in TimeStepRecord /\ step \in [Handle -> TimeStepRecord]
      /\ \A k \in Handle : Settled(step[k])
  BY <1>1, <1>4 DEF SettledInv, Unsettled, TypeInv, TypeOK
<1>6. s \in TimeStepRecord /\ Settled(s)
  <2>1. s \in TimeStepRecord /\ s.status = step[h].status /\ s.queues = step[h].queues
    BY <1>5, UnblockEffect
  <2> HIDE DEF s
  <2> QED
    BY <1>4, <1>5, <2>1, SettledSame
<1>7. step' = [step EXCEPT ![h] = s] \/ step' = [step EXCEPT ![h] = UpdateStatus(s, data)]
  BY <1>3
<1> HIDE DEF s
<1>8. Settled(UpdateStatus(s, data))
  BY <1>6, SettledUpdateStatus
<1>9. \A k \in Handle : step'[k] \in {step[k], s, UpdateStatus(s, data)}
  BY <1>4, <1>5, <1>7
<1> QED
  BY <1>5, <1>6, <1>8, <1>9 DEF SettledInv

LEMMA DeclareSettled ==
  ASSUME TypeInv, SettledInv, NEW c \in Client, NEW d \in Ruled, Declare(c, d)
  PROVE  SettledInv'
<1> DEFINE t == StepOf[d]
           h == <<t, ObjectOf(t)>>
           s == IF current[t] # 0 THEN step[h] ELSE NewTimeStep
<1>1. UNCHANGED <<pc, job>>
  BY DEF Declare, workerVars
<1>2. CASE IsReady(data, d)
  <2>1. UNCHANGED step
    BY <1>2 DEF Declare
  <2> QED
    BY <1>1, <2>1, KeepsSettled
<1>3. CASE ~IsReady(data, d)
  <2>1. step' = [step EXCEPT ![h] = Add(s, d)] /\ ObjectOf(t) \in 1..MaxObjects
    BY <1>3 DEF Declare
  <2>2. h \in Handle
    BY <2>1, ConstantsAssumption DEF Handle
  <2>3. step[h] \in TimeStepRecord /\ NewTimeStep \in TimeStepRecord
    BY <2>2 DEF TypeInv, TypeOK, NewTimeStep, TimeStepRecord, Status
  <2>4. Settled(NewTimeStep)
    BY DEF Settled, NewTimeStep, Queue
  <2>5. s \in TimeStepRecord /\ (Settled(s) \/ Unsettled(h))
    BY <2>2, <2>3, <2>4 DEF SettledInv
  <2>6. \A k \in Handle : step'[k] = IF k = h THEN Add(s, d) ELSE step[k]
    BY <2>1 DEF TypeInv, TypeOK
  <2> HIDE DEF s, h
  <2>7. Settled(Add(s, d)) \/ Unsettled(h)
    BY <2>5, SettledAdd
  <2> QED
    BY <1>1, <2>6, <2>7 DEF SettledInv, Unsettled
<1> QED
  BY <1>2, <1>3

LEMMA PingSettled ==
  ASSUME TypeInv, SettledInv, NEW c \in Client, Ping(c)
  PROVE  SettledInv'
<1>1. UNCHANGED <<pc, job>>
  BY DEF Ping, workerVars
<1>2. \A h \in Handle : step'[h] \in {step[h], ClearBlockingInfo(step[h])}
  BY DEF Ping
<1>3. \A h \in Handle : Settled(step[h]) => Settled(ClearBlockingInfo(step[h]))
  BY SettledClear DEF TypeInv, TypeOK
<1> QED
  BY <1>1, <1>2, <1>3 DEF SettledInv, Unsettled

LEMMA RegisterSettled ==
  ASSUME TypeInv, SettledInv, RegisterBlocked
  PROVE  SettledInv'
<1> DEFINE s == [step[job.step] EXCEPT !.new_blockers = {}]
<1>1. job.step \in Handle /\ pc = "register" /\ step[job.step] \in TimeStepRecord
  BY DEF RegisterBlocked, TypeInv, TypeOK, WorkerOK, Task
<1>2. s.status = step[job.step].status /\ s.queues = step[job.step].queues
  BY <1>1 DEF TimeStepRecord
<1>3. \A h \in Handle : step'[h] = IF h = job.step THEN s ELSE step[h]
  BY <1>1 DEF RegisterBlocked, TypeInv, TypeOK
<1> HIDE DEF s
<1>4. Settled(step[job.step])
  BY <1>1 DEF SettledInv, Unsettled
<1>5. Settled(s)
  BY <1>2, <1>4, SettledSame
<1> QED
  BY <1>1, <1>3, <1>5 DEF SettledInv, Unsettled

LEMMA SettledStep == TypeInv /\ SettledInv /\ [Next]_vars => SettledInv'
<1> SUFFICES ASSUME TypeInv, SettledInv, [Next]_vars PROVE SettledInv'
  OBVIOUS
<1>1. CASE TestInteraction \/ Wait \/ NotifyDone \/ NotifyReturn \/ SpuriousWake
  BY <1>1, KeepsSettled DEF TestInteraction, Wait, NotifyDone, NotifyReturn, SpuriousWake, stepVars
<1>2. CASE Run
  <2>1. UNCHANGED step /\ pc # "status"
    BY <1>2 DEF Run, RunReady, RunImpossible, RunUnmoved, RunRead, RunWrite, Evaluated, stepVars
  <2> QED
    BY <2>1, KeepsSettled
<1>3. CASE ReportJob
  <2>1. /\ pc' = "status" /\ job' = job
        /\ \A h \in Handle : h # job.step => step'[h] = step[h]
        /\ pc # "status"
    BY <1>3 DEF ReportJob, TypeInv, TypeOK
  <2> QED
    BY <2>1 DEF SettledInv, Unsettled
<1>4. ASSUME NEW c \in Client, NEW what \in {"update", "ping"}, Open(c, what) PROVE SettledInv'
  BY <1>4, KeepsSettled DEF Open, workerVars, stepVars
<1>5. ASSUME NEW c \in Client, Close(c) PROVE SettledInv'
  BY <1>5, KeepsSettled DEF Close, workerVars, stepVars
<1>6. ASSUME NEW c \in Client, Notify(c) PROVE SettledInv'
  BY <1>6, KeepsSettled DEF Notify, stepVars
<1>7. ASSUME NEW d \in DI, WriteFile(d) PROVE SettledInv'
  BY <1>7, KeepsSettled DEF WriteFile, workerVars, stepVars
<1>8. CASE UNCHANGED vars
  BY <1>8, KeepsSettled DEF vars, workerVars, stepVars
<1> QED
  BY <1>1, <1>2, <1>3, <1>4, <1>5, <1>6, <1>7, <1>8, GetOneSettled, ReportStatusSettled,
     NotifyUnblockSettled, RegisterSettled, DeclareSettled, PingSettled
  DEF Next, Worker, ClientStep

(* The worker goes to sleep when no timestep gives it a task. *)
LEMMA GetOneSleeps ==
  ASSUME TypeInv, TaskInv, SettledInv, GetOne, pc' = "wait"
  PROVE  /\ tasks' = {}
         /\ \A h \in Mapped' : step'[h].status \in {"Relaxing", "Checking"} => Queued(step'[h]) = {}
<1>1. Batch = {} /\ UNCHANGED tasks /\ pc = "get"
  BY DEF GetOne
<1>2. tasks = {} /\ tasks' = {} /\ UNION {TasksOf(h) : h \in Asked} = {}
  BY <1>1 DEF Batch
<1>3. /\ current' = Cleaned
      /\ \A h \in Asked : h \in Handle => step'[h] = TakeJobs(CheckUnbound(step[h], data))
  BY <1>2 DEF GetOne
<1>4. Mapped' \subseteq Asked
  BY <1>3 DEF Mapped, Asked
<1>5. ASSUME NEW h \in Mapped', step'[h].status \in {"Relaxing", "Checking"} PROVE Queued(step'[h]) = {}
  <2> DEFINE s == step[h]
             r == CheckUnbound(s, data)
  <2>1. h \in Handle /\ h \in Asked
    BY <1>4 DEF Mapped
  <2>2. InHand = {}
    BY <1>1, <1>2 DEF InHand
  <2>3. s \in TimeStepRecord /\ Settled(s) /\ s.taken = {} /\ Placed(s)
    BY <1>1, <2>1, <2>2 DEF SettledInv, Unsettled, TaskInv, TypeInv, TypeOK
  <2>4. r \in TimeStepRecord /\ Settled(r) /\ r.taken = {}
    BY <2>3, CheckUnboundType, SettledCheckUnbound, PlacedCheckUnbound
  <2>5. r.queues["New"] # {} => r.status = "Unbound"
    BY <2>3, CheckUnboundEffect
  <2>6. TasksOf(h) = {[step |-> h, of |-> j[1], phase |-> Content(r, j[1])[1], source |-> j[2]] : j \in Jobs(r)}
    BY DEF TasksOf
  <2>7. step'[h] = TakeJobs(r)
    BY <1>3, <2>1
  <2> HIDE DEF r, s
  <2>8. Jobs(r) = {}
    <3>1. TasksOf(h) = {}
      BY <1>2, <2>1
    <3> QED
      BY <2>6, <3>1
  <2>9. \A q \in Sources(r) : r.queues[q] = {}
    <3> SUFFICES ASSUME NEW q \in Sources(r), NEW d \in r.queues[q] PROVE FALSE
      OBVIOUS
    <3>1. q \in Queue
      BY DEF Sources, Queue
    <3>2. d \in DI
      BY <2>4, <3>1, ConstantsAssumption DEF TimeStepRecord
    <3>3. <<d, q>> \in Jobs(r)
      BY <2>4, <3>2 DEF Jobs
    <3> QED
      BY <2>8, <3>3
  <2>10. step'[h].status = r.status /\ step'[h].queues = r.queues
    BY <2>4, <2>7, TakeJobsEffect
  <2>11. r.status # "Checking"
    BY <2>4, <2>9 DEF Settled, Sources
  <2>12. r.queues["Unstable"] = {} /\ r.queues["Stable"] = {}
    BY <1>5, <2>9, <2>10, <2>11 DEF Sources
  <2>13. r.queues["New"] = {} /\ r.queues["Impossible"] = {}
    BY <1>5, <2>4, <2>5, <2>10, <2>11 DEF Settled
  <2>14. \A q \in Queue : r.queues[q] = {}
    BY <2>4, <2>12, <2>13 DEF Settled, Queue
  <2> QED
    BY <2>10, <2>14 DEF Queued
<1> QED
  BY <1>2, <1>5

LEMMA ParkStep == TypeOK /\ ScopeInv /\ ParkInv /\ [Next]_vars => ParkInv'
<1> SUFFICES ASSUME TypeOK, ScopeInv, ParkInv, [Next]_vars, pc' = "park" PROVE ~AllIdle'
  BY DEF ParkInv
<1>a. client \in [Client -> ClientPC]
  BY DEF TypeOK
<1>1. CASE TestInteraction
  BY <1>1 DEF TestInteraction, ScopeInv, AllIdle, clientVars
<1>2. CASE UNCHANGED <<pc, client>>
  BY <1>2 DEF ParkInv, AllIdle
<1>3. ASSUME NEW c \in Client, NEW what \in {"update", "ping"}, Open(c, what) PROVE ~AllIdle'
  <2>1. client'[c] = what
    BY <1>a, <1>3 DEF Open
  <2> QED
    BY <2>1 DEF AllIdle
<1>4. ASSUME NEW c \in Client, Ping(c) \/ Close(c) PROVE ~AllIdle'
  <2>1. client'[c] \in {"pinged", "release"}
    BY <1>a, <1>4 DEF Ping, Close
  <2> QED
    BY <2>1 DEF AllIdle
<1>5. ASSUME NEW c \in Client, NEW d \in Ruled, Declare(c, d) PROVE ~AllIdle'
  BY <1>2, <1>5 DEF Declare, workerVars
<1>6. ASSUME NEW c \in Client, Notify(c) PROVE FALSE
  BY <1>6 DEF Notify
<1>7. CASE Worker /\ ~TestInteraction
  <2>1. pc' # "park"
    BY <1>7 DEF Worker, Wait, GetOne, Run, RunReady, RunImpossible, RunUnmoved, RunRead, RunWrite,
         Evaluated, ReportJob, ReportStatus, AfterReport, NotifyDone, NotifyUnblock, NotifyReturn,
         RegisterBlocked
  <2> QED
    BY <2>1
<1>8. CASE SpuriousWake
  BY <1>8 DEF SpuriousWake
<1>9. ASSUME NEW d \in DI, WriteFile(d) PROVE ~AllIdle'
  BY <1>2, <1>9 DEF WriteFile, workerVars, clientVars
<1>10. CASE UNCHANGED vars
  BY <1>2, <1>10 DEF vars, workerVars, clientVars
<1> QED
  BY <1>1, <1>3, <1>4, <1>5, <1>6, <1>7, <1>8, <1>9, <1>10 DEF Next, ClientStep

LEMMA SleepStep ==
  TypeInv /\ TaskInv /\ SettledInv /\ ParkInv /\ SleepsOnlyWhenIdle /\ [Next]_vars
    => SleepsOnlyWhenIdle'
<1> SUFFICES ASSUME TypeInv, TaskInv, SettledInv, ParkInv, SleepsOnlyWhenIdle, [Next]_vars,
                    pc' = "wait", AllIdle'
             PROVE  /\ tasks' = {}
                    /\ \A h \in Mapped' : step'[h].status \in {"Relaxing", "Checking"}
                                            => Queued(step'[h]) = {}
  BY DEF SleepsOnlyWhenIdle
<1>a. client \in [Client -> ClientPC]
  BY DEF TypeInv, TypeOK
<1>1. CASE GetOne
  BY <1>1, GetOneSleeps
<1>2. CASE Wait
  BY <1>2 DEF Wait, ParkInv, AllIdle, clientVars
<1>3. CASE Worker /\ ~GetOne /\ ~Wait
  <2>1. pc' # "wait"
    BY <1>3 DEF Worker, TestInteraction, Run, RunReady, RunImpossible, RunUnmoved, RunRead, RunWrite,
         Evaluated, ReportJob, ReportStatus, AfterReport, NotifyDone, NotifyUnblock, NotifyReturn,
         RegisterBlocked
  <2> QED
    BY <2>1
<1>4. ASSUME NEW c \in Client, ClientStep(c) PROVE FALSE
  <2>1. ASSUME NEW what \in {"update", "ping"}, Open(c, what) PROVE FALSE
    <3>1. client'[c] = what
      BY <1>a, <2>1 DEF Open
    <3> QED
      BY <3>1 DEF AllIdle
  <2>2. CASE Ping(c) \/ Close(c)
    <3>1. client'[c] \in {"pinged", "release"}
      BY <1>a, <2>2 DEF Ping, Close
    <3> QED
      BY <3>1 DEF AllIdle
  <2>3. ASSUME NEW d \in Ruled, Declare(c, d) PROVE FALSE
    BY <2>3 DEF Declare, AllIdle
  <2>4. CASE Notify(c)
    BY <2>4 DEF Notify
  <2> QED
    BY <1>4, <2>1, <2>2, <2>3, <2>4 DEF ClientStep
<1>5. CASE SpuriousWake
  BY <1>5 DEF SpuriousWake
<1>6. CASE (\E d \in DI : WriteFile(d)) \/ UNCHANGED vars
  <2>1. UNCHANGED <<pc, client, tasks, step, current>>
    BY <1>6 DEF WriteFile, vars, workerVars, stepVars, clientVars
  <2> QED
    BY <2>1 DEF SleepsOnlyWhenIdle, AllIdle, Mapped
<1> QED
  BY <1>1, <1>2, <1>3, <1>4, <1>5, <1>6 DEF Next

(* The worker never sleeps on work it could do, for any rules and any      *)
(* clients that open, overlap and end their interactions at any moment:    *)
(* once every interaction is over, no timestep that relaxes or checks has  *)
(* updates while it waits.                                                 *)
THEOREM SleepsIdle == Spec => []SleepsOnlyWhenIdle
<1>1. Init => SettledInv /\ ParkInv /\ SleepsOnlyWhenIdle
  <2> SUFFICES ASSUME Init PROVE SettledInv /\ ParkInv /\ SleepsOnlyWhenIdle
    OBVIOUS
  <2>1. \A h \in Handle : Settled(step[h])
    BY DEF Init, Settled, NewTimeStep, Queue
  <2> QED
    BY <2>1 DEF Init, SettledInv, ParkInv, SleepsOnlyWhenIdle
<1>2. Init => ScopeInv
  BY DEF Init, ScopeInv
<1>3. TypeInv => TypeOK
  BY DEF TypeInv
<1>4. TypeInv /\ TaskInv /\ TypeInv' /\ [Next]_vars => TaskInv'
  BY TaskStep
<1> QED
  BY <1>1, <1>2, <1>3, <1>4, SettledStep, ParkStep, SleepStep, ScopeStep, TaskInitial, InitTypeInv,
     NextTypeInv, PTL DEF Spec

-----------------------------------------------------------------------------
(* What ready values rest on.  An update leaves the queues of its timestep *)
(* once its result is ready; those that have left the new ones have their  *)
(* in-arguments in the timestep or ready; the confirmed ones have their    *)
(* out-arguments ready.  So when only confirmed updates are left, making   *)
(* all of them ready makes none ready before its arguments.                *)
Grounded(s, D) ==
  /\ \A d \in s.variables : d \in Queued(s) \/ IsReady(D, d)
  /\ \A a \in s.unbounds_ready : IsReady(D, a)
  /\ \A q \in Queue \ {"New"} : \A d \in s.queues[q] : \A a \in InArgs(<<"usual", d>>) :
       a \in s.variables \/ IsReady(D, a)
  /\ \A d \in s.queues["Confirmed"] : \A a \in OutArgs(<<"usual", d>>) : IsReady(D, a)

(* E has ready what D has ready. *)
More(D, E) == \A a \in DI : IsReady(D, a) => IsReady(E, a)

LEMMA UsualArgsType ==
  ASSUME NEW d \in DI
  PROVE  /\ <<"usual", d>> \in UpdateId
         /\ InArgs(<<"usual", d>>) \cup OutArgs(<<"usual", d>>) = UsualArgs[d]
         /\ InArgs(<<"usual", d>>) \subseteq DI /\ OutArgs(<<"usual", d>>) \subseteq DI
         /\ UsualArgs[d] \subseteq DI
<1>1. Args(<<"usual", d>>) = UsualArgs[d]
  BY DEF Args, IsInit, Result
<1>2. <<"usual", d>> \in UpdateId
  BY DEF UpdateId, Phase
<1>3. InArgs(<<"usual", d>>) \subseteq Args(<<"usual", d>>)
  BY DEF InArgs
<1>4. OutArgs(<<"usual", d>>) = Args(<<"usual", d>>) \ InArgs(<<"usual", d>>)
  BY DEF OutArgs
<1> QED
  BY <1>1, <1>2, <1>3, <1>4, ArgsType

LEMMA GroundedMore ==
  ASSUME NEW s \in TimeStepRecord, NEW D, NEW E, Grounded(s, D), More(D, E)
  PROVE  Grounded(s, E)
<1>1. \A q \in Queue : \A d \in s.queues[q] :
        /\ d \in DI
        /\ InArgs(<<"usual", d>>) \subseteq DI /\ OutArgs(<<"usual", d>>) \subseteq DI
  <2>1. \A q \in Queue : s.queues[q] \subseteq DI
    BY ConstantsAssumption DEF TimeStepRecord
  <2>2. \A d \in DI : InArgs(<<"usual", d>>) \subseteq DI /\ OutArgs(<<"usual", d>>) \subseteq DI
    BY UsualArgsType
  <2> QED
    BY <2>1, <2>2
<1>2. s.variables \subseteq DI /\ s.unbounds_ready \subseteq DI /\ "Confirmed" \in Queue
  BY ConstantsAssumption DEF TimeStepRecord, Queue
<1> QED
  BY <1>1, <1>2 DEF Grounded, More

(* What only moves updates between the queues of a timestep. *)
LEMMA GroundedMoved ==
  ASSUME NEW s, NEW r, NEW D, Grounded(s, D),
         r.variables = s.variables, r.unbounds_ready = s.unbounds_ready,
         Queued(s) \subseteq Queued(r),
         \A q \in Queue \ {"New"} : \A d \in r.queues[q] : \E p \in Queue \ {"New"} : d \in s.queues[p],
         r.queues["Confirmed"] \subseteq s.queues["Confirmed"]
  PROVE  Grounded(r, D)
BY DEF Grounded

LEMMA QueuedUnion ==
  ASSUME NEW s
  PROVE  Queued(s) = s.queues["New"] \cup s.queues["Unstable"] \cup s.queues["Impossible"]
                       \cup s.queues["Stable"] \cup s.queues["Confirmed"]
BY DEF Queued, Queue

LEMMA GroundedAdmitNew ==
  ASSUME NEW s \in TimeStepRecord, NEW D, Grounded(s, D)
  PROVE  Grounded(AdmitNew(s, D), D) /\ Queued(AdmitNew(s, D)) = Queued(s)
<1> DEFINE a == AdmitNew(s, D)
<1>1. /\ a.variables = s.variables
      /\ a.unbounds_ready = s.unbounds_ready \cup
           {x \in DI : IsReady(D, x) /\ \E d \in s.queues["New"] : x \in Unbounds(s, d)}
      /\ a.queues["New"] = Held(s, D)
      /\ a.queues["Unstable"] = s.queues["Unstable"] \cup (s.queues["New"] \ Held(s, D))
      /\ a.queues["Impossible"] = s.queues["Impossible"]
      /\ a.queues["Stable"] = s.queues["Stable"]
      /\ a.queues["Confirmed"] = s.queues["Confirmed"]
  BY AdmitNewEffect
<1>2. Held(s, D) \subseteq s.queues["New"]
  BY DEF Held
<1>3. ASSUME NEW d \in s.queues["New"], d \notin Held(s, D), NEW x \in InArgs(<<"usual", d>>)
      PROVE  x \in s.variables \/ IsReady(D, x)
  <2>1. \A y \in Unbounds(s, d) : IsReady(D, y)
    BY <1>3 DEF Held
  <2>2. x \in Unbounds(s, d) \/ x \in s.variables \/ x \in s.unbounds_ready
    BY DEF Unbounds
  <2> QED
    BY <2>1, <2>2 DEF Grounded
<1> HIDE DEF a
<1>4. Queued(a) = Queued(s)
  BY <1>1, <1>2, QueuedUnion
<1>5. \A q \in Queue \ {"New"} : \A d \in a.queues[q] : \A x \in InArgs(<<"usual", d>>) :
        x \in a.variables \/ IsReady(D, x)
  <2> SUFFICES ASSUME NEW q \in Queue \ {"New"}, NEW d \in a.queues[q], NEW x \in InArgs(<<"usual", d>>)
               PROVE  x \in s.variables \/ IsReady(D, x)
    BY <1>1
  <2>1. d \in s.queues[q] \/ (d \in s.queues["New"] /\ d \notin Held(s, D))
    BY <1>1 DEF Queue
  <2> QED
    BY <1>3, <2>1 DEF Grounded
<1>6. Grounded(a, D)
  BY <1>1, <1>4, <1>5 DEF Grounded
<1> QED
  BY <1>4, <1>6 DEF a

(* When it ends a timestep, update_status makes ready what rests on ready  *)
(* values.                                                                 *)
LEMMA GroundedTermination ==
  ASSUME NEW s \in TimeStepRecord, NEW D, NEW E, Grounded(s, D), More(D, E),
         \A d \in SetReadyBy(s, D) : IsReady(E, d)
  PROVE  \A d \in SetReadyBy(s, D) : \A a \in UsualArgs[d] : IsReady(E, a)
<1> SUFFICES ASSUME NEW d \in SetReadyBy(s, D), NEW x \in UsualArgs[d]
             PROVE  IsReady(E, x)
  OBVIOUS
<1> DEFINE a == AdmitNew(s, D)
<1>1. Terminates(s, D) /\ d \in s.queues["Confirmed"] /\ SetReadyBy(s, D) = s.queues["Confirmed"]
  BY DEF SetReadyBy
<1>2. "Confirmed" \in Queue \ {"New"} /\ d \in DI
  BY <1>1, ConstantsAssumption DEF TimeStepRecord, Queue
<1>3. x \in DI /\ x \in InArgs(<<"usual", d>>) \cup OutArgs(<<"usual", d>>)
  BY <1>2, UsualArgsType
<1>4. CASE x \in OutArgs(<<"usual", d>>)
  <2>1. IsReady(D, x)
    BY <1>1, <1>4 DEF Grounded
  <2> QED
    BY <1>3, <2>1 DEF More
<1>5. CASE x \in InArgs(<<"usual", d>>) /\ x \in s.variables
  <2>1. x \in Queued(s) \/ IsReady(D, x)
    BY <1>5 DEF Grounded
  <2>2. Queued(s) = Queued(a)
    BY GroundedAdmitNew
  <2>3. \A q \in Queue \ {"Confirmed"} : a.queues[q] = {}
    BY <1>1 DEF Terminates
  <2>4. a.queues["Confirmed"] = s.queues["Confirmed"]
    BY AdmitNewEffect
  <2> HIDE DEF a
  <2>5. Queued(a) = s.queues["Confirmed"]
    BY <2>3, <2>4, QueuedUnion DEF Queue
  <2> QED
    BY <1>1, <1>3, <2>1, <2>2, <2>5 DEF More
<1>6. CASE x \in InArgs(<<"usual", d>>) /\ x \notin s.variables
  BY <1>1, <1>2, <1>3, <1>6 DEF Grounded, More
<1> QED
  BY <1>3, <1>4, <1>5, <1>6

LEMMA GroundedUpdateStatus ==
  ASSUME NEW s \in TimeStepRecord, NEW D, NEW E, Grounded(s, D), More(D, E),
         \A d \in SetReadyBy(s, D) : IsReady(E, d)
  PROVE  Grounded(UpdateStatus(s, D), E)
<1> DEFINE a == AdmitNew(s, D)
           r == UpdateStatus(s, D)
<1>1. a \in TimeStepRecord /\ Grounded(a, E)
  <2>1. a \in TimeStepRecord /\ Grounded(a, D)
    BY AdmitNewType, GroundedAdmitNew
  <2> HIDE DEF a
  <2> QED
    BY <2>1, GroundedMore
<1>2. r.variables = a.variables /\ r.unbounds_ready = a.unbounds_ready
  BY UpdateStatusEffect DEF SameParts
<1> SUFFICES Grounded(r, E)
  OBVIOUS
<1>3. CASE Terminates(s, D)
  <2>1. \A q \in Queue : r.queues[q] = {}
    BY <1>3, UpdateStatusEffect
  <2>2. \A q \in Queue \ {"Confirmed"} : a.queues[q] = {}
    BY <1>3 DEF Terminates
  <2>3. a.queues["Confirmed"] = SetReadyBy(s, D)
    BY <1>3, AdmitNewEffect DEF SetReadyBy
  <2> HIDE DEF a, r
  <2>4. Queued(a) = SetReadyBy(s, D)
    BY <2>2, <2>3, QueuedUnion DEF Queue
  <2>5. "Confirmed" \in Queue
    BY DEF Queue
  <2> QED
    BY <1>1, <1>2, <2>1, <2>4, <2>5 DEF Grounded
<1>4. CASE ~Terminates(s, D)
  <2>1. Unbinds(r, a) \/ Unsettles(r, a) \/ Checks(r, a)
    BY <1>4, UpdateStatusEffect
  <2> HIDE DEF a, r
  <2>2. CASE r.queues = a.queues
    BY <1>1, <1>2, <2>2 DEF Grounded, Queued
  <2>3. CASE Unsettles(r, a)
    <3>1. Queued(a) \subseteq Queued(r)
      BY <2>3, QueuedUnion DEF Unsettles
    <3>2. \A q \in Queue \ {"New"} : \A d \in r.queues[q] : \E p \in Queue \ {"New"} : d \in a.queues[p]
      BY <2>3 DEF Unsettles, Queue
    <3>3. r.queues["Confirmed"] \subseteq a.queues["Confirmed"]
      BY <2>3 DEF Unsettles
    <3> QED
      BY <1>1, <1>2, <3>1, <3>2, <3>3, GroundedMoved
  <2> QED
    BY <2>1, <2>2, <2>3 DEF Unbinds, Checks
<1> QED
  BY <1>3, <1>4

LEMMA GroundedTakeJobs ==
  ASSUME NEW s \in TimeStepRecord, NEW D, Grounded(s, D)
  PROVE  Grounded(TakeJobs(CheckUnbound(s, D)), D)
<1> DEFINE a == AdmitNew(s, D)
           r == CheckUnbound(s, D)
           t == TakeJobs(r)
<1>1. Grounded(a, D)
  BY GroundedAdmitNew
<1>2. /\ r \in TimeStepRecord /\ r.variables = a.variables
      /\ r.unbounds_ready = a.unbounds_ready /\ r.queues = a.queues
  BY CheckUnboundEffect DEF SameParts
<1> HIDE DEF a, r
<1>3. t.variables = r.variables /\ t.unbounds_ready = r.unbounds_ready /\ t.queues = r.queues
  BY <1>2, TakeJobsEffect
<1> HIDE DEF t
<1>4. Grounded(t, D)
  BY <1>1, <1>2, <1>3 DEF Grounded, Queued
<1> QED
  BY <1>4 DEF t, r

LEMMA GroundedAdd ==
  ASSUME NEW s \in TimeStepRecord, NEW D, Grounded(s, D), NEW d \in Ruled
  PROVE  Grounded(Add(s, d), D)
<1> DEFINE r == Add(s, d)
<1>1. CASE d \in s.variables
  BY <1>1 DEF Add
<1>2. CASE d \notin s.variables
  <2>1. /\ r.variables = s.variables \cup {d} /\ r.unbounds_ready = s.unbounds_ready
        /\ r.queues["New"] = s.queues["New"] \cup {d}
        /\ \A q \in Queue : q # "New" => r.queues[q] = s.queues[q]
    BY <1>2, AddEffect
  <2> SUFFICES Grounded(r, D)
    OBVIOUS
  <2> HIDE DEF r
  <2>2. Queued(r) = Queued(s) \cup {d}
    BY <2>1, QueuedUnion DEF Queue
  <2>3. r.queues["Confirmed"] = s.queues["Confirmed"]
    BY <2>1 DEF Queue
  <2> QED
    BY <2>1, <2>2, <2>3 DEF Grounded
<1> QED
  BY <1>1, <1>2

LEMMA GroundedClear ==
  ASSUME NEW s \in TimeStepRecord, NEW D, Grounded(s, D)
  PROVE  Grounded(ClearBlockingInfo(s), D)
<1> DEFINE r == ClearBlockingInfo(s)
<1>1. /\ r.variables = s.variables /\ r.unbounds_ready = s.unbounds_ready
      /\ r.queues["Unstable"] = s.queues["Unstable"] \cup s.queues["Impossible"]
      /\ r.queues["Impossible"] = {}
      /\ r.queues["New"] = s.queues["New"]
      /\ r.queues["Stable"] = s.queues["Stable"]
      /\ r.queues["Confirmed"] = s.queues["Confirmed"]
  BY ClearEffect
<1> SUFFICES Grounded(r, D)
  OBVIOUS
<1> HIDE DEF r
<1>2. Queued(s) \subseteq Queued(r)
  BY <1>1, QueuedUnion
<1>3. \A q \in Queue \ {"New"} : \A d \in r.queues[q] : \E p \in Queue \ {"New"} : d \in s.queues[p]
  BY <1>1 DEF Queue
<1> QED
  BY <1>1, <1>2, <1>3, GroundedMoved

LEMMA GroundedUnblock ==
  ASSUME NEW s \in TimeStepRecord, NEW D, Grounded(s, D), NEW t
  PROVE  Unblock(s, t) \in TimeStepRecord /\ Grounded(Unblock(s, t), D)
<1> DEFINE r == Unblock(s, t)
<1>1. /\ r \in TimeStepRecord /\ r.queues = s.queues /\ r.variables = s.variables
      /\ r.unbounds_ready = s.unbounds_ready
  BY UnblockEffect
<1> SUFFICES r \in TimeStepRecord /\ Grounded(r, D)
  OBVIOUS
<1> HIDE DEF r
<1> QED
  BY <1>1 DEF Grounded, Queued

LEMMA GroundedRequeue ==
  ASSUME NEW s \in TimeStepRecord, Placed(s), NEW D, Grounded(s, D),
         NEW d \in s.taken, NEW src, NEW r, NEW B \in SUBSET TS,
         r \notin {"Impossible", "Updated", "UpToDate"} => IsReady(D, d),
         r = "UpToDate" => \A a \in OutArgs(<<"usual", d>>) : IsReady(D, a)
  PROVE  Grounded(Requeue(s, d, src, r, B), D)
<1> DEFINE n == Requeue(s, d, src, r, B)
           to == UpToDateQueue(s, src)
<1>1. /\ n.variables = s.variables /\ n.unbounds_ready = s.unbounds_ready
      /\ \/ MovedTo(n, s, d, "Impossible")
         \/ MovedTo(n, s, d, "Unstable")
         \/ r = "UpToDate" /\ MovedTo(n, s, d, to)
         \/ r \notin {"Impossible", "Updated", "UpToDate"} /\ Dropped(n, s, d)
  BY RequeueEffect
<1>2. to \in Queue \ {"New"}
  BY DEF UpToDateQueue, Queue
<1>3. "Impossible" \in Queue /\ "Unstable" \in Queue /\ "Confirmed" \in Queue
  BY DEF Queue
<1> SUFFICES Grounded(n, D)
  OBVIOUS
<1> HIDE DEF n, to
<1>4. PICK p \in Queue \ {"New"} : d \in s.queues[p]
  BY DEF Placed, Queue
<1>5. /\ \A q \in Queue : \A e \in s.queues[q] : e # d => e \in n.queues[q]
      /\ \A q \in Queue : n.queues[q] \subseteq s.queues[q] \cup {d}
  BY <1>1 DEF MovedTo, Dropped
<1>6. (\E q \in Queue : d \in n.queues[q]) \/ IsReady(D, d)
  <2>1. CASE MovedTo(n, s, d, "Impossible")
    BY <1>3, <2>1 DEF MovedTo
  <2>2. CASE MovedTo(n, s, d, "Unstable")
    BY <1>3, <2>2 DEF MovedTo
  <2>3. CASE MovedTo(n, s, d, to)
    BY <1>2, <2>3 DEF MovedTo
  <2> QED
    BY <1>1, <2>1, <2>2, <2>3
<1>7. ASSUME d \in n.queues["Confirmed"] PROVE r = "UpToDate"
  BY <1>1, <1>3, <1>7 DEF MovedTo, Dropped
<1>8. \A e \in s.variables : e \in Queued(n) \/ IsReady(D, e)
  <2>1. \A e \in Queued(s) : e \in Queued(n) \/ IsReady(D, e)
    BY <1>5, <1>6 DEF Queued
  <2> QED
    BY <2>1 DEF Grounded
<1>9. \A q \in Queue \ {"New"} : \A e \in n.queues[q] : \A a \in InArgs(<<"usual", e>>) :
        a \in s.variables \/ IsReady(D, a)
  BY <1>4, <1>5 DEF Grounded
<1>10. \A e \in n.queues["Confirmed"] : \A a \in OutArgs(<<"usual", e>>) : IsReady(D, a)
  BY <1>3, <1>5, <1>7 DEF Grounded
<1> QED
  BY <1>1, <1>8, <1>9, <1>10 DEF Grounded

(* Every out-argument an update object has read is ready, the evaluation   *)
(* in progress has read nothing ready that is not, and what it reports is  *)
(* what it found.                                                          *)
OutKnown == \A u \in UpdateId : upd[u].out_ok => \A a \in OutArgs(u) : IsReady(data, a)

WritesGrounded ==
  pc = "write" => /\ \A a \in OutArgs(JobUpdate) : IsReady(data, a)
                  /\ More(seen, data)

ReportsGrounded ==
  pc = "report" =>
    /\ report # "None"
    /\ report = "Done" => IsReady(data, job.of)
    /\ report = "UpToDate" => job.phase = "usual" /\ \A a \in OutArgs(JobUpdate) : IsReady(data, a)

(* The files only the server fills. *)
FiledElsewhere == \A d \in DI \ Writable : file[d] # NoValue => IsReady(data, d)

GroundInv ==
  /\ \A h \in Handle : Grounded(step[h], data)
  /\ OutKnown
  /\ WritesGrounded
  /\ ReportsGrounded
  /\ FiledElsewhere
  /\ ReadyIsGrounded

(* What every step does to the instances and the files. *)
DataStep ==
  /\ More(data, data')
  /\ FiledElsewhere'
  /\ ReadyIsGrounded'

LEMMA DataSame ==
  ASSUME GroundInv, UNCHANGED <<data, file>>
  PROVE  DataStep
BY DEF GroundInv, DataStep, More, IsReady, FiledElsewhere, ReadyIsGrounded

(* It is enough that what becomes ready has ready arguments. *)
LEMMA DataGrows ==
  ASSUME GroundInv, More(data, data'),
         \A d \in DI \ Writable : file'[d] # NoValue => file[d] # NoValue \/ IsReady(data', d),
         \A d \in Ruled \ Writable : IsReady(data', d) /\ ~IsReady(data, d)
                                       => \A a \in UsualArgs[d] : IsReady(data', a)
  PROVE  DataStep
<1>1. FiledElsewhere'
  BY DEF GroundInv, FiledElsewhere, More
<1>2. \A d \in Ruled : UsualArgs[d] \subseteq DI
  BY ConstantsAssumption
<1>3. ReadyIsGrounded'
  BY <1>2 DEF GroundInv, ReadyIsGrounded, More
<1> QED
  BY <1>1, <1>3 DEF DataStep

LEMMA DataWriteFile ==
  ASSUME TypeInv, GroundInv, NEW d \in DI, WriteFile(d)
  PROVE  DataStep
<1>1. d \in Writable /\ \A a \in DI : a # d => data'[a] = data[a] /\ file'[a] = file[a]
  BY DEF WriteFile, TypeInv, TypeOK
<1>2. data[d] \in Instance
  BY DEF TypeInv, TypeOK
<1>3. IsReady(data, d) => IsReady(data', d)
  BY <1>2 DEF WriteFile, TypeInv, TypeOK, IsReady, Instance
<1>4. More(data, data')
  BY <1>1, <1>3 DEF More, IsReady
<1>5. \A a \in DI \ Writable : data'[a] = data[a] /\ file'[a] = file[a]
  BY <1>1
<1>6. \A a \in Ruled \ Writable : IsReady(data', a) => IsReady(data, a)
  BY <1>5, ConstantsAssumption DEF IsReady
<1> QED
  BY <1>4, <1>5, <1>6, DataGrows

LEMMA DataPing ==
  ASSUME TypeInv, GroundInv, NEW c \in Client, Ping(c)
  PROVE  DataStep
<1>1. file' = file /\ \A a \in DI : data'[a] = data[a] \/ (data'[a] = Synced(a) /\ file[a] # NoValue)
  BY DEF Ping, Synced
<1>2. \A a \in DI : file[a] # NoValue => Synced(a).avail = "Ready"
  BY DEF Synced, TypeInv, TypeOK, Instance
<1>3. More(data, data')
  BY <1>1, <1>2 DEF More, IsReady
<1>4. \A d \in Ruled \ Writable : IsReady(data', d) => IsReady(data, d)
  BY <1>1, ConstantsAssumption DEF GroundInv, FiledElsewhere, IsReady
<1> QED
  BY <1>1, <1>3, <1>4, DataGrows

(* A timestep that ends makes ready what rests on ready values. *)
LEMMA DataSetReady ==
  ASSUME TypeInv, GroundInv, NEW s \in TimeStepRecord, Grounded(s, data),
         SetReady(SetReadyBy(s, data))
  PROVE  DataStep /\ Grounded(UpdateStatus(s, data), data')
<1> DEFINE S == SetReadyBy(s, data)
<1>1. S \subseteq Ruled /\ Ruled \subseteq DI
  BY ConstantsAssumption DEF SetReadyBy, TimeStepRecord, Queue
<1>2. \A d \in DI : data[d] \in Instance
  BY DEF TypeInv, TypeOK
<1>3. \A d \in DI : /\ data'[d] = IF d \in NowReady(S) THEN [data[d] EXCEPT !.avail = "Ready"] ELSE data[d]
                    /\ d \notin NowReady(S) => file'[d] = file[d]
  BY DEF SetReady
<1>4. \A d \in DI : /\ d \in NowReady(S) => IsReady(data', d)
                    /\ d \notin NowReady(S) => (IsReady(data', d) <=> IsReady(data, d))
  BY <1>2, <1>3 DEF IsReady, Instance
<1>5. More(data, data') /\ \A d \in S : IsReady(data', d)
  BY <1>1, <1>4 DEF More, NowReady
<1>6. \A d \in S : \A a \in UsualArgs[d] : IsReady(data', a)
  BY <1>5, GroundedTermination
<1>7. \A d \in DI : IsReady(data', d) /\ ~IsReady(data, d) => d \in S
  BY <1>4 DEF NowReady
<1>8. DataStep
  <2>1. \A d \in DI \ Writable : file'[d] # NoValue => file[d] # NoValue \/ IsReady(data', d)
    BY <1>3, <1>4
  <2>2. \A d \in Ruled \ Writable : IsReady(data', d) /\ ~IsReady(data, d)
                                     => \A a \in UsualArgs[d] : IsReady(data', a)
    BY <1>1, <1>6, <1>7
  <2> QED
    BY <1>5, <2>1, <2>2, DataGrows
<1> QED
  BY <1>5, <1>8, GroundedUpdateStatus

LEMMA DataRunWrite ==
  ASSUME TypeInv, GroundInv, RunWrite
  PROVE  DataStep /\ ReportsGrounded'
<1>1. pc = "write" /\ job \in Task /\ job.of \in DI /\ JobUpdate \in UpdateId /\ job' = job
  BY JobType DEF RunWrite, Evaluated, TypeInv, WorkerOK
<1>2. PICK next \in NextDate(JobUpdate, JobObject, seen, data[job.of]) :
        \E res \in {WriteResult(JobUpdate, JobObject, seen, data[job.of], next)} :
          /\ data' = [data EXCEPT ![job.of] = res]
          /\ file' = IF ~IsReady(data, job.of) /\ res.avail = "Ready"
                     THEN [file EXCEPT ![job.of] = res.val] ELSE file
  BY DEF RunWrite
<1> DEFINE res == WriteResult(JobUpdate, JobObject, seen, data[job.of], next)
<1>3. /\ \A d \in DI : d # job.of => data'[d] = data[d] /\ file'[d] = file[d]
      /\ data'[job.of] = res
      /\ file'[job.of] # NoValue => file[job.of] # NoValue \/ res.avail = "Ready"
  <2> HIDE DEF res
  <2> QED
    BY <1>1, <1>2 DEF TypeInv, TypeOK, res
<1>4. res.avail = IF AllInReady(JobUpdate, seen) /\ ~IsInit(JobUpdate) THEN "Ready"
                                                                       ELSE data[job.of].avail
  BY DEF WriteResult
<1> HIDE DEF res
<1>5. More(data, data')
  BY <1>3, <1>4 DEF More, IsReady
<1>6. \A a \in OutArgs(JobUpdate) : IsReady(data', a)
  BY <1>1, <1>5, ArgsType DEF GroundInv, WritesGrounded, More
<1>7. ASSUME AllInReady(JobUpdate, seen), ~IsInit(JobUpdate)
      PROVE  \A a \in UsualArgs[job.of] : IsReady(data', a)
  <2>1. JobUpdate = <<"usual", job.of>>
    BY <1>1, <1>7 DEF JobUpdate, IsInit, Task, Phase
  <2>2. \A a \in InArgs(JobUpdate) : IsReady(data', a)
    BY <1>1, <1>5, <1>7, ArgsType DEF AllInReady, GroundInv, WritesGrounded, More
  <2> QED
    BY <1>1, <1>6, <2>1, <2>2, UsualArgsType
<1>8. DataStep
  <2>1. \A d \in DI \ Writable : file'[d] # NoValue => file[d] # NoValue \/ IsReady(data', d)
    BY <1>3 DEF IsReady
  <2>2. \A d \in Ruled \ Writable : IsReady(data', d) /\ ~IsReady(data, d)
                                     => \A a \in UsualArgs[d] : IsReady(data', a)
    <3> SUFFICES ASSUME NEW d \in Ruled \ Writable, IsReady(data', d), ~IsReady(data, d)
                 PROVE  \A a \in UsualArgs[d] : IsReady(data', a)
      OBVIOUS
    <3>1. d = job.of
      BY <1>3, ConstantsAssumption DEF IsReady
    <3>2. AllInReady(JobUpdate, seen) /\ ~IsInit(JobUpdate)
      BY <1>3, <1>4, <3>1 DEF IsReady
    <3> QED
      BY <1>7, <3>1, <3>2
  <2> QED
    BY <1>5, <2>1, <2>2, DataGrows
<1>9. report' = ReportOf(JobUpdate, JobObject, seen, data[job.of]) /\ JobUpdate' = JobUpdate
  BY <1>1 DEF RunWrite, Evaluated, JobUpdate
<1>10. /\ report' \in {"Done", "Updated", "UpToDate"}
       /\ report' = "Done" => AllInReady(JobUpdate, seen) /\ ~IsInit(JobUpdate)
       /\ report' = "UpToDate" => ~IsInit(JobUpdate)
  BY <1>9 DEF ReportOf
<1>11. report' = "Done" => IsReady(data', job.of)
  BY <1>3, <1>4, <1>10 DEF IsReady
<1>12. report' = "UpToDate" => job.phase = "usual"
  BY <1>1, <1>10 DEF JobUpdate, IsInit, Task, Phase
<1>13. ReportsGrounded'
  BY <1>1, <1>6, <1>9, <1>10, <1>11, <1>12 DEF ReportsGrounded
<1> QED
  BY <1>8, <1>13

LEMMA NextData == TypeInv /\ GroundInv /\ [Next]_vars => DataStep
<1> SUFFICES ASSUME TypeInv, GroundInv, [Next]_vars PROVE DataStep
  OBVIOUS
<1>1. CASE ReportStatus
  <2>1. job.step \in Handle /\ SetReady(SetReadyBy(step[job.step], data))
    BY <1>1 DEF ReportStatus, TypeInv, WorkerOK, Task
  <2>2. step[job.step] \in TimeStepRecord /\ Grounded(step[job.step], data)
    BY <2>1 DEF GroundInv, TypeInv, TypeOK
  <2> QED
    BY <2>1, <2>2, DataSetReady
<1>2. CASE NotifyUnblock
  <2>1. stack \in Seq(Call) /\ Len(stack) > 0
    BY <1>2 DEF NotifyUnblock, TypeInv, TypeOK, WorkerOK, Call
  <2>2. stack[Len(stack)] \in Call
    BY <2>1
  <2>3. PICK h \in stack[Len(stack)].todo :
          \/ UNCHANGED <<data, file>>
          \/ SetReady(SetReadyBy(Unblock(step[h], stack[Len(stack)].done), data))
    BY <1>2 DEF NotifyUnblock
  <2>4. step[h] \in TimeStepRecord /\ Grounded(step[h], data)
    BY <2>2, <2>3 DEF Call, GroundInv, TypeInv, TypeOK
  <2>5. /\ Unblock(step[h], stack[Len(stack)].done) \in TimeStepRecord
        /\ Grounded(Unblock(step[h], stack[Len(stack)].done), data)
    BY <2>4, GroundedUnblock
  <2> QED
    BY <2>3, <2>5, DataSame, DataSetReady
<1> QED
  BY <1>1, <1>2, FileActions, DataSame, DataRunWrite, DataPing, DataWriteFile

LEMMA NextOutKnown == TypeInv /\ GroundInv /\ [Next]_vars => OutKnown'
<1> SUFFICES ASSUME TypeInv, GroundInv, [Next]_vars, NEW u \in UpdateId, upd'[u].out_ok
             PROVE  \A a \in OutArgs(u) : IsReady(data', a)
  BY DEF OutKnown
<1>1. More(data, data')
  BY NextData DEF DataStep
<1>2. CASE upd[u].out_ok
  BY <1>1, <1>2, ArgsType DEF GroundInv, OutKnown, More
<1>3. CASE ~upd[u].out_ok
  <2>0. upd[u] \in Object /\ upd \in [UpdateId -> Object]
    BY DEF TypeInv, TypeOK
  <2>1. CASE RunUnmoved \/ RunWrite
    <3>1. upd' = [upd EXCEPT ![JobUpdate] = upd'[JobUpdate]]
      BY <2>1 DEF RunUnmoved, RunWrite, Evaluated
    <3>2. u = JobUpdate
      BY <1>3, <2>0, <3>1
    <3>3. ~JobObject.out_ok
      BY <1>3, <3>2 DEF JobObject
    <3>4. \A a \in OutArgs(JobUpdate) : IsReady(data, a)
      BY <2>1, <3>3 DEF RunUnmoved, OutReady, RunWrite, GroundInv, WritesGrounded
    <3> QED
      BY <1>1, <3>2, <3>4, ArgsType DEF More
  <2>2. CASE RunReady \/ RunImpossible
    <3>0. JobObject \in Object
      BY <2>2, JobType DEF RunReady, RunImpossible, TypeInv, WorkerOK
    <3>1. NoteAvailability(JobObject, data, OutArgs(JobUpdate)).out_ok = JobObject.out_ok
      BY <3>0 DEF NoteAvailability, Object
    <3>2. PICK o : upd' = [upd EXCEPT ![JobUpdate] = o] /\ o.out_ok = JobObject.out_ok
      BY <2>2, <3>1 DEF RunReady, RunImpossible, Evaluated
    <3>3. upd'[u] = upd[u] \/ (u = JobUpdate /\ upd'[u] = o)
      BY <2>0, <3>2
    <3> QED
      BY <1>3, <3>2, <3>3 DEF JobObject
  <2>3. ASSUME NEW c \in Client, NEW d \in Ruled, Declare(c, d) PROVE FALSE
    <3>1. upd'[u] = upd[u] \/ upd'[u] = NewObject
      BY <2>3 DEF Declare
    <3> QED
      BY <1>3, <3>1 DEF NewObject
  <2>4. ASSUME NEW c \in Client, Ping(c) PROVE FALSE
    <3>1. upd'[u] = upd[u] \/ upd'[u] = NoteFiled(u)
      BY <2>4 DEF Ping
    <3>2. NoteFiled(u).out_ok = upd[u].out_ok
      BY <2>0 DEF NoteFiled, Object
    <3> QED
      BY <1>3, <3>1, <3>2
  <2>5. CASE UNCHANGED upd
    BY <1>3, <2>5
  <2>6. \/ UNCHANGED upd
        \/ RunUnmoved \/ RunWrite \/ RunReady \/ RunImpossible
        \/ \E c \in Client : Ping(c) \/ \E d \in Ruled : Declare(c, d)
    <3>1. CASE Worker
      BY <3>1 DEF Worker, Run, RunRead, TestInteraction, Wait, GetOne, ReportJob, ReportStatus,
           NotifyDone, NotifyUnblock, NotifyReturn, RegisterBlocked, dataVars
    <3>2. CASE SpuriousWake
      BY <3>2 DEF SpuriousWake, dataVars
    <3>3. ASSUME NEW c \in Client, ClientStep(c)
          PROVE  Ping(c) \/ (\E d \in Ruled : Declare(c, d)) \/ UNCHANGED upd
      BY <3>3 DEF ClientStep, Open, Close, Notify, dataVars
    <3>4. CASE (\E d \in DI : WriteFile(d)) \/ UNCHANGED vars
      BY <3>4 DEF WriteFile, vars, dataVars
    <3> QED
      BY <3>1, <3>2, <3>3, <3>4 DEF Next
  <2> QED
    BY <2>1, <2>2, <2>3, <2>4, <2>5, <2>6
<1> QED
  BY <1>2, <1>3

LEMMA NextEvaluation == TypeInv /\ GroundInv /\ [Next]_vars => WritesGrounded' /\ ReportsGrounded'
<1> SUFFICES ASSUME TypeInv, GroundInv, [Next]_vars PROVE WritesGrounded' /\ ReportsGrounded'
  OBVIOUS
<1>1. More(data, data') /\ (RunWrite => ReportsGrounded')
  BY NextData, DataRunWrite DEF DataStep
<1>2. CASE RunRead
  <2>1. /\ job \in Task /\ JobUpdate \in UpdateId /\ OutReady(JobUpdate, JobObject, data)
        /\ pc' = "write" /\ seen' = data /\ data' = data /\ job' = job
    BY <1>2, JobType DEF RunRead, TypeInv, WorkerOK, dataVars
  <2>2. \A a \in OutArgs(JobUpdate) : IsReady(data, a)
    BY <2>1 DEF OutReady, GroundInv, OutKnown, JobObject
  <2> QED
    BY <2>1, <2>2 DEF WritesGrounded, ReportsGrounded, More, IsReady, JobUpdate
<1>3. CASE RunReady \/ RunImpossible \/ RunUnmoved
  <2>1. /\ job \in Task /\ job.of \in DI /\ JobUpdate \in UpdateId
        /\ pc' = "report" /\ data' = data /\ job' = job
    BY <1>3, JobType DEF RunReady, RunImpossible, RunUnmoved, Evaluated, TypeInv, WorkerOK
  <2>2. CASE RunReady
    BY <2>1, <2>2 DEF RunReady, Evaluated, WritesGrounded, ReportsGrounded
  <2>3. CASE RunImpossible
    BY <2>1, <2>3 DEF RunImpossible, Evaluated, WritesGrounded, ReportsGrounded
  <2>4. CASE RunUnmoved
    <3>1. OutReady(JobUpdate, JobObject, data)
      BY <2>4 DEF RunUnmoved
    <3>2. \A a \in OutArgs(JobUpdate) : IsReady(data, a)
      BY <2>1, <3>1 DEF OutReady, GroundInv, OutKnown, JobObject
    <3>3. job.phase # "init" => job.phase = "usual"
      BY <2>1 DEF Task, Phase
    <3>4. report' = IF job.phase = "init" THEN "Updated" ELSE "UpToDate"
      BY <2>4 DEF RunUnmoved, Evaluated
    <3> QED
      BY <2>1, <3>2, <3>3, <3>4 DEF WritesGrounded, ReportsGrounded, JobUpdate
  <2> QED
    BY <1>3, <2>2, <2>3, <2>4
<1>4. CASE RunWrite
  BY <1>1, <1>4 DEF RunWrite, Evaluated, WritesGrounded
<1>5. CASE UNCHANGED <<pc, job, seen, report>>
  <2>1. pc \in {"write", "report"} => job.of \in DI /\ JobUpdate \in UpdateId /\ JobUpdate' = JobUpdate
    BY <1>5, JobType DEF TypeInv, WorkerOK, JobUpdate
  <2>2. WritesGrounded'
    BY <1>1, <1>5, <2>1, ArgsType DEF GroundInv, WritesGrounded, More
  <2>3. ReportsGrounded'
    BY <1>1, <1>5, <2>1, ArgsType DEF GroundInv, ReportsGrounded, More
  <2> QED
    BY <2>2, <2>3
<1>6. CASE pc' \notin {"write", "report"}
  BY <1>6 DEF WritesGrounded, ReportsGrounded
<1>7. \/ Run
      \/ UNCHANGED <<pc, job, seen, report>>
      \/ pc' \notin {"write", "report"}
  <2>1. CASE Worker /\ ~Run
    BY <2>1 DEF Worker, TestInteraction, Wait, GetOne, ReportJob, ReportStatus, AfterReport,
         NotifyDone, NotifyUnblock, NotifyReturn, RegisterBlocked
  <2>2. CASE SpuriousWake
    BY <2>2 DEF SpuriousWake
  <2>3. ASSUME NEW c \in Client, ClientStep(c)
        PROVE  pc' = "loop" \/ UNCHANGED <<pc, job, seen, report>>
    BY <2>3 DEF ClientStep, Open, Declare, Ping, Close, Notify, workerVars
  <2>4. CASE (\E d \in DI : WriteFile(d)) \/ UNCHANGED vars
    BY <2>4 DEF WriteFile, vars, workerVars
  <2> QED
    BY <2>1, <2>2, <2>3, <2>4 DEF Next
<1> QED
  BY <1>2, <1>3, <1>4, <1>5, <1>6, <1>7 DEF Run

(* The actions that change the timesteps. *)
LEMMA StepActions ==
  ASSUME [Next]_vars
  PROVE  \/ UNCHANGED step
         \/ GetOne \/ ReportJob \/ ReportStatus \/ NotifyUnblock \/ RegisterBlocked
         \/ \E c \in Client : Ping(c) \/ \E d \in Ruled : Declare(c, d)
<1>1. CASE Worker
  BY <1>1 DEF Worker, Run, RunReady, RunImpossible, RunUnmoved, RunRead, RunWrite, Evaluated,
       TestInteraction, Wait, NotifyDone, NotifyReturn, stepVars
<1>2. CASE SpuriousWake
  BY <1>2 DEF SpuriousWake, stepVars
<1>3. ASSUME NEW c \in Client, ClientStep(c)
      PROVE  Ping(c) \/ (\E d \in Ruled : Declare(c, d)) \/ UNCHANGED step
  BY <1>3 DEF ClientStep, Open, Close, Notify, stepVars
<1>4. CASE (\E d \in DI : WriteFile(d)) \/ UNCHANGED vars
  BY <1>4 DEF WriteFile, vars, stepVars
<1> QED
  BY <1>1, <1>2, <1>3, <1>4 DEF Next

(* What the steps that leave a timestep alone, or only rest on more ready  *)
(* values, leave grounded.                                                 *)
LEMMA KeepsGrounded ==
  ASSUME TypeInv, GroundInv, More(data, data'), NEW h \in Handle, step'[h] = step[h]
  PROVE  Grounded(step'[h], data')
<1>1. step[h] \in TimeStepRecord /\ Grounded(step[h], data)
  BY DEF TypeInv, TypeOK, GroundInv
<1> QED
  BY <1>1, GroundedMore

LEMMA ReportJobGrounded ==
  ASSUME TypeInv, TaskInv, GroundInv, ReportJob
  PROVE  Grounded(step'[job.step], data)
<1> DEFINE B == BlockersOf(JobUpdate, JobObject)
           s == step[job.step]
<1>1. pc = "report" /\ job \in Task /\ job.step \in Handle /\ job.of \in DI /\ JobUpdate \in UpdateId
  BY JobType DEF ReportJob, TypeInv, WorkerOK
<1>2. s \in TimeStepRecord /\ Placed(s) /\ Grounded(s, data)
  BY <1>1 DEF TypeInv, TypeOK, TaskInv, GroundInv
<1>3. job.of \in s.taken
  <2>1. job \in InHand
    BY <1>1 DEF InHand
  <2> QED
    BY <1>1, <2>1 DEF TaskInv
<1>4. B \in SUBSET TS
  BY <1>1, BlockersType, JobType DEF TypeInv
<1>5. report \notin {"Impossible", "Updated", "UpToDate"} => IsReady(data, job.of)
  BY <1>1 DEF GroundInv, ReportsGrounded, TypeInv, TypeOK, Report
<1>6. report = "UpToDate" => \A a \in OutArgs(<<"usual", job.of>>) : IsReady(data, a)
  BY <1>1 DEF GroundInv, ReportsGrounded, JobUpdate
<1>7. step'[job.step] = Requeue(s, job.of, job.source, report, B)
  BY <1>1 DEF ReportJob, TypeInv, TypeOK
<1> HIDE DEF s, B
<1> QED
  BY <1>2, <1>3, <1>4, <1>5, <1>6, <1>7, GroundedRequeue

LEMMA NewGrounded == ASSUME NEW D PROVE Grounded(NewTimeStep, D)
BY DEF Grounded, NewTimeStep, Queue

LEMMA DeclareGrounded ==
  ASSUME TypeInv, GroundInv, NEW c \in Client, NEW d \in Ruled, Declare(c, d), NEW h \in Handle
  PROVE  Grounded(step'[h], data)
<1> DEFINE t == StepOf[d]
           g == <<t, ObjectOf(t)>>
           s == IF current[t] # 0 THEN step[g] ELSE NewTimeStep
<1>1. CASE step'[h] = step[h]
  BY <1>1 DEF GroundInv
<1>2. CASE step'[h] # step[h]
  <2>1. step' = [step EXCEPT ![g] = Add(s, d)]
    BY <1>2 DEF Declare
  <2>2. h = g /\ step'[h] = Add(s, d)
    <3> HIDE DEF g, s
    <3> QED
      BY <1>2, <2>1 DEF TypeInv, TypeOK
  <2>3. s \in TimeStepRecord /\ Grounded(s, data)
    <3>1. NewTimeStep \in TimeStepRecord
      BY DEF NewTimeStep, TimeStepRecord, Status
    <3>2. step[g] \in TimeStepRecord /\ Grounded(step[g], data)
      BY <2>2 DEF TypeInv, TypeOK, GroundInv
    <3> QED
      BY <3>1, <3>2, NewGrounded
  <2> HIDE DEF s, g
  <2> QED
    BY <2>2, <2>3, GroundedAdd
<1> QED
  BY <1>1, <1>2

LEMMA NextGrounded ==
  TypeInv /\ TaskInv /\ GroundInv /\ [Next]_vars => \A h \in Handle : Grounded(step'[h], data')
<1> SUFFICES ASSUME TypeInv, TaskInv, GroundInv, [Next]_vars, NEW h \in Handle
             PROVE  Grounded(step'[h], data')
  OBVIOUS
<1>a. step[h] \in TimeStepRecord /\ Grounded(step[h], data) /\ More(data, data')
  BY NextData DEF DataStep, TypeInv, TypeOK, GroundInv
<1>1. CASE step'[h] = step[h]
  BY <1>a, <1>1, KeepsGrounded
<1>2. CASE GetOne
  <2>1. data' = data
    BY <1>2 DEF GetOne, dataVars
  <2>2. step'[h] = step[h] \/ step'[h] = TakeJobs(CheckUnbound(step[h], data))
    BY <1>2 DEF GetOne
  <2> QED
    BY <1>a, <2>1, <2>2, GroundedTakeJobs
<1>3. CASE ReportJob
  <2>1. data' = data /\ (h = job.step \/ step'[h] = step[h])
    BY <1>3 DEF ReportJob, dataVars, TypeInv, TypeOK
  <2> QED
    BY <1>a, <1>3, <2>1, ReportJobGrounded
<1>4. CASE ReportStatus
  <2>1. job.step \in Handle /\ SetReady(SetReadyBy(step[job.step], data))
    BY <1>4 DEF ReportStatus, TypeInv, WorkerOK, Task
  <2>2. step'[h] = IF h = job.step THEN UpdateStatus(step[h], data) ELSE step[h]
    BY <1>4, <2>1 DEF ReportStatus, TypeInv, TypeOK
  <2> QED
    BY <1>a, <1>1, <2>1, <2>2, DataSetReady
<1>5. CASE NotifyUnblock
  <2> DEFINE t == stack[Len(stack)].done
  <2>1. stack \in Seq(Call) /\ Len(stack) > 0
    BY <1>5 DEF NotifyUnblock, TypeInv, TypeOK, WorkerOK, Call
  <2>2. stack[Len(stack)] \in Call
    BY <2>1
  <2>3. PICK g \in stack[Len(stack)].todo :
          \/ step' = [step EXCEPT ![g] = Unblock(step[g], t)]
          \/ /\ step' = [step EXCEPT ![g] = UpdateStatus(Unblock(step[g], t), data)]
             /\ SetReady(SetReadyBy(Unblock(step[g], t), data))
    BY <1>5 DEF NotifyUnblock
  <2>4. g \in Handle
    BY <2>2, <2>3 DEF Call
  <2>5. \/ step'[h] = step[h]
        \/ step'[h] = Unblock(step[h], t)
        \/ /\ step'[h] = UpdateStatus(Unblock(step[h], t), data)
           /\ SetReady(SetReadyBy(Unblock(step[h], t), data))
    <3> HIDE DEF t
    <3> QED
      BY <2>3, <2>4 DEF TypeInv, TypeOK
  <2> HIDE DEF t
  <2>6. Unblock(step[h], t) \in TimeStepRecord /\ Grounded(Unblock(step[h], t), data)
    BY <1>a, GroundedUnblock
  <2> QED
    BY <1>a, <1>1, <2>5, <2>6, DataSetReady, GroundedMore
<1>6. ASSUME NEW c \in Client, NEW d \in Ruled, Declare(c, d) PROVE Grounded(step'[h], data')
  <2>1. data' = data
    BY <1>6 DEF Declare
  <2> QED
    BY <1>6, <2>1, DeclareGrounded
<1>7. ASSUME NEW c \in Client, Ping(c) PROVE Grounded(step'[h], data')
  <2>1. step'[h] = step[h] \/ step'[h] = ClearBlockingInfo(step[h])
    BY <1>7 DEF Ping
  <2>2. ClearBlockingInfo(step[h]) \in TimeStepRecord /\ Grounded(ClearBlockingInfo(step[h]), data)
    BY <1>a, ClearBlockingInfoType, GroundedClear
  <2> QED
    BY <1>a, <1>1, <2>1, <2>2, GroundedMore
<1>8. CASE RegisterBlocked
  <2> DEFINE s == [step[h] EXCEPT !.new_blockers = {}]
  <2>1. step'[h] = step[h] \/ step'[h] = s
    BY <1>8 DEF RegisterBlocked, TypeInv, TypeOK
  <2>2. /\ s.queues = step[h].queues /\ s.variables = step[h].variables
        /\ s.unbounds_ready = step[h].unbounds_ready /\ s \in TimeStepRecord
    BY <1>a DEF TimeStepRecord
  <2> HIDE DEF s
  <2>3. Grounded(s, data)
    BY <1>a, <2>2 DEF Grounded, Queued
  <2> QED
    BY <1>a, <1>1, <2>1, <2>2, <2>3, GroundedMore
<1>9. UNCHANGED step \/ GetOne \/ ReportJob \/ ReportStatus \/ NotifyUnblock \/ RegisterBlocked
        \/ \E c \in Client : Ping(c) \/ \E d \in Ruled : Declare(c, d)
  BY StepActions
<1> QED
  BY <1>1, <1>2, <1>3, <1>4, <1>5, <1>6, <1>7, <1>8, <1>9

LEMMA GroundInit == Init => GroundInv
<1> SUFFICES ASSUME Init PROVE GroundInv
  OBVIOUS
<1>1. \A h \in Handle : Grounded(step[h], data)
  BY NewGrounded DEF Init
<1>2. OutKnown
  BY DEF Init, OutKnown, NewObject
<1>3. WritesGrounded /\ ReportsGrounded /\ FiledElsewhere
  BY DEF Init, WritesGrounded, ReportsGrounded, FiledElsewhere
<1>4. ReadyIsGrounded
  BY ConstantsAssumption DEF Init, ReadyIsGrounded, IsReady
<1> QED
  BY <1>1, <1>2, <1>3, <1>4 DEF GroundInv

LEMMA GroundStep == TypeInv /\ TaskInv /\ GroundInv /\ [Next]_vars => GroundInv'
<1>1. TypeInv /\ GroundInv /\ [Next]_vars => FiledElsewhere' /\ ReadyIsGrounded'
  BY NextData DEF DataStep
<1> QED
  BY <1>1, NextGrounded, NextOutKnown, NextEvaluation DEF GroundInv

(* A ready value rests on ready values, for any rules, clients and files:  *)
(* however the server made the result of a rule ready, computing it or     *)
(* ending its timestep, all the arguments of that rule are ready.          *)
THEOREM ReadyGrounded == Spec => []ReadyIsGrounded
<1>1. GroundInv => ReadyIsGrounded
  BY DEF GroundInv
<1> QED
  BY <1>1, GroundInit, GroundStep, TaskInitial, TaskStep, InitTypeInv, NextTypeInv, PTL DEF Spec
=============================================================================
