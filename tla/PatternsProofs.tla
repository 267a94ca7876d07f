--------------------------- MODULE PatternsProofs ---------------------------
(***************************************************************************)
(* Theorems about the job center with its patterns and its restarts, for   *)
(* every value of the constants: what is in a file stays there, patterned  *)
(* files have no hole, and the patterns of a timeline go on together.      *)
(***************************************************************************)
EXTENDS Patterns, JobsProofs, WellFoundedInduction

-----------------------------------------------------------------------------
(* The greatest element of a set of bounded naturals. *)
LEMMA MaxOf ==
  ASSUME NEW n \in Nat, NEW S \in SUBSET (0..n), S # {}
  PROVE  Max(S) \in S /\ \A x \in S : x <= Max(S)
<1> DEFINE T == {n - x : x \in S}
           R == OpToRel(<, Nat)
<1>1. T \subseteq Nat /\ T # {}
  OBVIOUS
<1>2. PICK m \in T : \A y \in T : <<y, m>> \notin R
  <2>1. IsWellFoundedOn(R, Nat)
    BY NatLessThanWellFounded, Zenon
  <2> HIDE DEF R, T
  <2> QED
    BY <1>1, <2>1, WFMin
<1>3. \A y \in T : ~(y < m)
  BY <1>1, <1>2, Zenon DEF OpToRel
<1> HIDE DEF R
<1>4. PICK b \in S : m = n - b
  BY <1>2
<1>5. \A x \in S : x <= b
  <2> SUFFICES ASSUME NEW x \in S PROVE x <= b
    OBVIOUS
  <2>1. n - x \in T
    OBVIOUS
  <2>2. ~(n - x < n - b)
    BY <1>3, <1>4, <2>1
  <2>3. x \in 0..n /\ b \in 0..n
    OBVIOUS
  <2> HIDE DEF T
  <2> QED
    BY <2>2, <2>3
<1>6. \E x \in S : \A y \in S : x >= y
  BY <1>5
<1> QED
  BY <1>6 DEF Max

(* The steps of the center with its patterns: those of the center, where   *)
(* a client declares static rules, the realization of the patterns, and    *)
(* the restart of the server.                                              *)
CenterStep ==
  \/ Worker
  \/ SpuriousWake
  \/ \E c \in Client : ClientStepP(c)
  \/ \E d \in DI : WriteFile(d)
  \/ UNCHANGED vars

LEMMA Steps ==
  ASSUME [NextP]_allVars
  PROVE  \/ CenterStep /\ patterns' \subseteq patterns \cup Patterned
         \/ GetPattern
         \/ Restart
<1>1. CASE GetTask
  BY <1>1 DEF GetTask, CenterStep, Worker, patternVars
<1>2. CASE OtherWork
  BY <1>2 DEF OtherWork, CenterStep, Worker, patternVars
<1>3. ASSUME NEW c \in Client, NEW v \in Patterned, DeclarePattern(c, v)
      PROVE  CenterStep /\ patterns' \subseteq patterns \cup Patterned
  BY <1>3 DEF DeclarePattern, CenterStep
<1>4. CASE UNCHANGED allVars
  BY <1>4 DEF allVars, patternVars, CenterStep
<1> QED
  BY <1>1, <1>2, <1>3, <1>4 DEF NextP, WorkerP, CenterStep, patternVars

LEMMA CenterStepIsNext == CenterStep => [Next]_vars
  BY PatternAssumption DEF CenterStep, Next, ClientStepP, ClientStep

-----------------------------------------------------------------------------
(* Types. *)

TypeInvP == TypeInv /\ patterns \subseteq Patterned

LEMMA PatternedDI ==
  ASSUME NEW v \in Patterned, NEW t \in 0..Horizon
  PROVE  <<v, t>> \in DI
  BY PatternAssumption

(* The number that follows the greatest of I, 0 when there is none.        *)
LEMMA AfterLast ==
  ASSUME NEW n \in Nat, NEW I \in SUBSET (0..n)
  PROVE  LET m == Max({0} \cup {t + 1 : t \in I})
         IN  /\ m \in 0..(n + 1)
             /\ \A t \in I : t < m
             /\ m # 0 => m - 1 \in I
<1> DEFINE S == {0} \cup {t + 1 : t \in I}
<1>1. n + 1 \in Nat /\ \A t \in I : t \in 0..n /\ t + 1 \in 0..(n + 1) /\ (t + 1) - 1 = t
  OBVIOUS
<1>2. 0 \in S /\ \A x \in S : x = 0 \/ \E t \in I : x = t + 1
  OBVIOUS
<1>3. \A t \in I : t + 1 \in S
  OBVIOUS
<1> HIDE DEF S
<1>4. S \in SUBSET (0..(n + 1)) /\ S # {}
  BY <1>1, <1>2
<1>5. Max(S) \in S /\ \A x \in S : x <= Max(S)
  BY <1>1, <1>4, MaxOf
<1>6. Max(S) \in 0..(n + 1)
  BY <1>4, <1>5
<1>7. ASSUME NEW t \in I PROVE t < Max(S)
  <2>1. t + 1 <= Max(S)
    BY <1>3, <1>5
  <2> QED
    BY <1>1, <1>6, <2>1
<1>8. Max(S) # 0 => Max(S) - 1 \in I
  BY <1>1, <1>2, <1>5
<1> QED
  BY <1>6, <1>7, <1>8 DEF S

(* The next instant of a file. *)
LEMMA LengthOf ==
  ASSUME NEW v \in Patterned
  PROVE  /\ history_length(v) \in 0..(Horizon + 1)
         /\ \A t \in 0..Horizon : file[<<v, t>>] # NoValue => t < history_length(v)
         /\ history_length(v) # 0 =>
              /\ history_length(v) - 1 \in 0..Horizon
              /\ file[<<v, history_length(v) - 1>>] # NoValue
<1> DEFINE I == {i \in 0..Horizon : file[<<v, i>>] # NoValue}
<1>1. history_length(v) = Max({0} \cup {t + 1 : t \in I})
  BY DEF history_length
<1>2. \A i : i \in I <=> i \in 0..Horizon /\ file[<<v, i>>] # NoValue
  OBVIOUS
<1>3. I \in SUBSET (0..Horizon) /\ Horizon \in Nat
  BY PatternAssumption
<1> HIDE DEF I
<1>4. LET m == Max({0} \cup {t + 1 : t \in I})
      IN  /\ m \in 0..(Horizon + 1)
          /\ \A t \in I : t < m
          /\ m # 0 => m - 1 \in I
  BY <1>3, AfterLast
<1> HIDE DEF history_length
<1> QED
  BY <1>1, <1>2, <1>4

LEMMA RealizedType ==
  ASSUME patterns \subseteq Patterned
  PROVE  /\ Realized \subseteq Ruled \ Writable
         /\ Realized \subseteq DI
         /\ Touched \subseteq TS
<1>1. ASSUME NEW v \in InWalltime PROVE <<v, history_length(v)>> \in Ruled \ Writable
  <2>1. v \in Patterned /\ history_length(v) <= Walltime[v]
    BY <1>1 DEF InWalltime
  <2>2. history_length(v) \in 0..(Horizon + 1) /\ Walltime[v] \in 0..Horizon
    BY <2>1, LengthOf, PatternAssumption
  <2>3. history_length(v) \in 0..Walltime[v]
    BY <2>1, <2>2
  <2> QED
    BY <2>1, <2>3, PatternAssumption
<1>2. Realized \subseteq Ruled \ Writable
  BY <1>1 DEF Realized
<1> QED
  BY <1>2, ConstantsAssumption DEF Touched

(* What adding the realized updates does to a timestep.                    *)
LEMMA AddAllEffect ==
  ASSUME NEW s \in TimeStepRecord, NEW ds \in SUBSET Ruled
  PROVE  LET r == AddAll(s, ds)
         IN  /\ r \in TimeStepRecord
             /\ r.variables = s.variables \cup ds
             /\ r.queues["New"] = s.queues["New"] \cup (ds \ s.variables)
             /\ \A q \in Queue : q # "New" => r.queues[q] = s.queues[q]
BY ConstantsAssumption DEF AddAll, TimeStepRecord, Queue

LEMMA AfterAskingType ==
  ASSUME TypeInv, NEW h \in Handle
  PROVE  /\ AfterAsking[h] \in TimeStepRecord
         /\ AfterAsking[h].variables = step[h].variables
<1>1. step[h] \in TimeStepRecord
  BY DEF TypeInv, TypeOK
<1>2. LET r == CheckUnbound(step[h], data)
      IN  r \in TimeStepRecord /\ r.variables = step[h].variables
  BY <1>1, CheckUnboundEffect, AdmitNewEffect DEF SameParts
<1>3. LET r == TakeJobs(CheckUnbound(step[h], data))
      IN  r \in TimeStepRecord /\ r.variables = step[h].variables
  BY <1>2, TakeJobsType, TakeJobsEffect
<1> QED
  BY <1>1, <1>3 DEF AfterAsking

LEMMA MapType ==
  ASSUME TypeInv, NEW t \in TS
  PROVE  /\ Cleaned[t] \in {0, current[t]} /\ Cleaned[t] \in 0..MaxObjects
         /\ MapAfter[t] \in Nat
         /\ t \notin Touched => MapAfter[t] = Cleaned[t]
         /\ t \in Touched => MapAfter[t] # 0
         /\ Cleaned[t] # 0 => MapAfter[t] = Cleaned[t]
<1>1. current[t] \in 0..MaxObjects /\ built[t] \in 0..MaxObjects /\ MaxObjects \in Nat
  BY CenterAssumption DEF TypeInv, TypeOK
<1>2. Cleaned[t] \in {0, current[t]}
  BY DEF Cleaned
<1>3. MapAfter[t] = IF t \in Touched /\ Cleaned[t] = 0 THEN built[t] + 1 ELSE Cleaned[t]
  BY DEF MapAfter
<1> QED
  BY <1>1, <1>2, <1>3

(* What GetPattern makes of a timestep, before the jobs are taken.         *)
LEMMA StepAfterType ==
  ASSUME TypeInvP, NEW h \in Handle
  PROVE  /\ StepAfter[h] \in TimeStepRecord
         /\ \/ StepAfter[h] = AfterAsking[h]
            \/ StepAfter[h] = AddAll(AfterAsking[h], Added(StepId(h)))
            \/ /\ StepAfter[h] = AddAll(NewTimeStep, Added(StepId(h)))
               /\ Cleaned[StepId(h)] = 0
         /\ MapAfter[StepId(h)] = h[2] /\ StepId(h) \in Touched =>
              Added(StepId(h)) \subseteq StepAfter[h].variables
<1> DEFINE t == StepId(h)
           ds == Added(t)
<1>1. ds \in SUBSET Ruled
  BY RealizedType DEF Added, TypeInvP
<1>2. AfterAsking[h] \in TimeStepRecord
  BY AfterAskingType DEF TypeInvP
<1>3. NewTimeStep \in TimeStepRecord
  BY DEF NewTimeStep, TimeStepRecord, Status
<1>4. StepAfter[h] = IF MapAfter[t] = h[2] /\ t \in Touched
                     THEN AddAll(IF Cleaned[t] = 0 THEN NewTimeStep ELSE AfterAsking[h], ds)
                     ELSE AfterAsking[h]
  BY DEF StepAfter
<1> HIDE DEF ds, t
<1>5. AddAll(AfterAsking[h], ds) \in TimeStepRecord /\ ds \subseteq AddAll(AfterAsking[h], ds).variables
  BY <1>1, <1>2, AddAllEffect
<1>6. AddAll(NewTimeStep, ds) \in TimeStepRecord /\ ds \subseteq AddAll(NewTimeStep, ds).variables
  BY <1>1, <1>3, AddAllEffect
<1>7. /\ StepAfter[h] \in TimeStepRecord
      /\ \/ StepAfter[h] = AfterAsking[h]
         \/ StepAfter[h] = AddAll(AfterAsking[h], ds)
         \/ /\ StepAfter[h] = AddAll(NewTimeStep, ds)
            /\ Cleaned[t] = 0
      /\ MapAfter[t] = h[2] /\ t \in Touched => ds \subseteq StepAfter[h].variables
  BY <1>2, <1>4, <1>5, <1>6
<1> QED
  BY <1>7 DEF ds, t

LEMMA JobsOfType ==
  ASSUME NEW S, NEW h \in Handle, S[h] \in TimeStepRecord
  PROVE  \A k \in JobsOf(S, h) : k \in Task /\ k.of \in UNION {S[h].queues[q] : q \in Queue}
<1> SUFFICES ASSUME NEW k \in JobsOf(S, h)
             PROVE  k \in Task /\ k.of \in UNION {S[h].queues[q] : q \in Queue}
  OBVIOUS
<1>1. PICK j \in Jobs(S[h]) :
        k = [step |-> h, of |-> j[1], phase |-> Content(S[h], j[1])[1], source |-> j[2]]
  BY DEF JobsOf
<1>2. j[1] \in Ruled /\ j[2] \in Queue
  BY JobsType
<1>3. j[1] \in S[h].queues[j[2]]
  BY DEF Jobs
<1>4. Content(S[h], j[1])[1] \in Phase
  BY DEF Content, Phase
<1> QED
  BY <1>1, <1>2, <1>3, <1>4 DEF Task

(* The timesteps GetPattern asks for jobs, and what they are then.         *)
MappedAfter == {h \in Handle : MapAfter[StepId(h)] = h[2]}

CheckedAfter ==
  [h \in Handle |-> IF h \in MappedAfter THEN CheckUnbound(StepAfter[h], data) ELSE StepAfter[h]]

LEMMA GetPatternStep ==
  ASSUME GetPattern
  PROVE  /\ pc = "get" /\ pc' \in {"wait", "run"}
         /\ \A t \in TS : MapAfter[t] <= MaxObjects
         /\ current' = MapAfter
         /\ built' = [t \in TS |-> Max({built[t], MapAfter[t]})]
         /\ upd' = [u \in UpdateId |-> IF Result(u) \in NewUpdates THEN NewObject ELSE upd[u]]
         /\ step' = [h \in Handle |-> IF h \in MappedAfter THEN TakeJobs(CheckedAfter[h]) ELSE CheckedAfter[h]]
         /\ flushing' \in BOOLEAN
         /\ \/ UNCHANGED <<tasks, job>> /\ pc' = "wait"
            \/ /\ tasks' \subseteq UNION {JobsOf(CheckedAfter, h) : h \in MappedAfter}
               /\ job' \in UNION {JobsOf(CheckedAfter, h) : h \in MappedAfter}
         /\ UNCHANGED <<data, file, blockees, seen, report, stack, clientVars, patternVars>>
<1>1. Dispatch(UNION {JobsOf(CheckedAfter, h) : h \in MappedAfter})
  BY DEF GetPattern, MappedAfter, CheckedAfter
<1>2. /\ pc' \in {"wait", "run"} /\ flushing' \in BOOLEAN
      /\ \/ UNCHANGED <<tasks, job>> /\ pc' = "wait"
         \/ /\ tasks' \subseteq UNION {JobsOf(CheckedAfter, h) : h \in MappedAfter}
            /\ job' \in UNION {JobsOf(CheckedAfter, h) : h \in MappedAfter}
  <2> DEFINE T == UNION {JobsOf(CheckedAfter, h) : h \in MappedAfter}
  <2> HIDE DEF T
  <2>1. Dispatch(T)
    BY <1>1 DEF T
  <2>2. /\ pc' \in {"wait", "run"} /\ flushing' \in BOOLEAN
        /\ \/ UNCHANGED <<tasks, job>> /\ pc' = "wait"
           \/ tasks' \subseteq T /\ job' \in T
    BY <2>1 DEF Dispatch, EndFlushing
  <2> QED
    BY <2>2 DEF T
<1> QED
  BY <1>2 DEF GetPattern, MappedAfter, CheckedAfter

LEMMA CheckedAfterType ==
  ASSUME TypeInvP, NEW h \in Handle
  PROVE  /\ CheckedAfter[h] \in TimeStepRecord
         /\ TakeJobs(CheckedAfter[h]) \in TimeStepRecord
<1>1. StepAfter[h] \in TimeStepRecord
  BY StepAfterType
<1>2. CheckedAfter[h] \in {StepAfter[h], CheckUnbound(StepAfter[h], data)}
  BY DEF CheckedAfter
<1>3. CheckedAfter[h] \in TimeStepRecord
  BY <1>1, <1>2, CheckUnboundType
<1> QED
  BY <1>3, TakeJobsType

LEMMA GetPatternType ==
  ASSUME TypeInvP, GetPattern
  PROVE  TypeInvP'
<1> USE DEF TypeInvP, TypeInv
<1>1. step' \in [Handle -> TimeStepRecord]
  BY GetPatternStep, CheckedAfterType
<1>2. ASSUME NEW t \in TS
      PROVE  MapAfter[t] \in 0..MaxObjects /\ Max({built[t], MapAfter[t]}) \in 0..MaxObjects
  <2>1. built[t] \in 0..MaxObjects /\ MapAfter[t] \in 0..MaxObjects /\ MaxObjects \in Nat
    BY MapType, GetPatternStep, CenterAssumption DEF TypeOK
  <2>2. {built[t], MapAfter[t]} \in SUBSET (0..MaxObjects) /\ {built[t], MapAfter[t]} # {}
    BY <2>1
  <2>3. Max({built[t], MapAfter[t]}) \in {built[t], MapAfter[t]}
    BY <2>1, <2>2, MaxOf
  <2> QED
    BY <2>1, <2>3
<1>3. current' \in [TS -> 0..MaxObjects] /\ built' \in [TS -> 0..MaxObjects]
  <2>1. MapAfter = [t \in TS |-> MapAfter[t]]
    BY DEF MapAfter
  <2> HIDE DEF TypeInvP, TypeInv
  <2> QED
    BY <1>2, <2>1, GetPatternStep
<1>4. upd' \in [UpdateId -> Object]
  <2>1. NewObject \in Object
    BY DEF NewObject, Object, Availability
  <2> QED
    BY <2>1, GetPatternStep DEF TypeOK
<1>5. \A k \in UNION {JobsOf(CheckedAfter, h) : h \in MappedAfter} : k \in Task
  BY CheckedAfterType, JobsOfType DEF MappedAfter
<1>6. tasks' \subseteq Task /\ job' \in Task \cup {IdleTask} /\ (pc' # "wait" => job' \in Task)
  BY <1>5, GetPatternStep DEF TypeOK
<1>7. pc' \in WorkerPC /\ pc' # "notify"
  BY GetPatternStep DEF WorkerPC
<1>8. /\ data' \in [DI -> Instance] /\ file' \in [DI -> Value \cup {NoValue}]
      /\ blockees' \in [TS -> SUBSET Handle] /\ interaction' \in BOOLEAN
      /\ seen' \in [DI -> Instance] /\ report' \in Report
      /\ stack' \in Seq([done : TS, todo : SUBSET Handle])
      /\ client' \in [Client -> ClientPC] /\ declared' \subseteq Ruled /\ sessions' \in 0..MaxSessions
  BY GetPatternStep DEF TypeOK, clientVars
<1>9. flushing' \in BOOLEAN /\ patterns' \subseteq Patterned
  BY GetPatternStep DEF patternVars
<1>10. TypeOK'
  BY <1>1, <1>3, <1>4, <1>6, <1>7, <1>8, <1>9 DEF TypeOK
<1>11. WorkerOK'
  BY <1>6, <1>7 DEF WorkerOK
<1> QED
  BY <1>9, <1>10, <1>11

(* The files and the instances of a new server. *)
LEMMA ReopenedType ==
  ASSUME NEW f \in [DI -> Value \cup {NoValue}]
  PROVE  /\ Reopened(f) \in [DI -> Instance]
         /\ \A d \in DI : /\ Reopened(f)[d].avail = "Ready" <=> f[d] # NoValue
                          /\ f[d] # NoValue => Reopened(f)[d].val = f[d]
<1> DEFINE r(d) == [avail |-> IF f[d] # NoValue THEN "Ready" ELSE "Busy",
                    date  |-> 0,
                    val   |-> IF f[d] # NoValue THEN f[d] ELSE Default]
<1>1. ASSUME NEW d \in DI
      PROVE  r(d) \in Instance
  <2>1. (IF f[d] # NoValue THEN f[d] ELSE Default) \in Value
    BY ConstantsAssumption
  <2> QED
    BY <2>1 DEF Instance, Availability
<1>2. Reopened(f) = [d \in DI |-> r(d)]
  BY DEF Reopened, FromFile
<1> QED
  BY <1>1, <1>2

(* What a restart finds in the files: what they held, and some of the      *)
(* values an end of timestep was about to write.                           *)
RestartFile ==
  \E ready \in AboutToBeReady : \E S \in SUBSET NowReady(ready) :
    file' = [d \in DI |-> IF d \in S THEN data[d].val ELSE file[d]]

(* An end of timestep makes confirmed results ready. *)
LEMMA AboutToBeReadyIsConfirmed ==
  ASSUME TypeInv, NEW ready \in AboutToBeReady, NEW d \in ready
  PROVE  \E h \in Handle : d \in step[h].queues["Confirmed"]
<1>1. CASE pc = "status" /\ ready = SetReadyBy(step[job.step], data)
  <2>1. job.step \in Handle
    BY <1>1, JobType DEF TypeInv, WorkerOK
  <2> QED
    BY <1>1, <2>1 DEF SetReadyBy
<1>2. CASE pc = "notify" /\ \E h \in stack[Len(stack)].todo :
                              ready = SetReadyBy(Unblock(step[h], stack[Len(stack)].done), data)
  <2>1. stack \in Seq(Call) /\ Len(stack) > 0
    BY <1>2 DEF TypeInv, TypeOK, WorkerOK, Call
  <2>2. stack[Len(stack)] \in Call
    BY <2>1
  <2>3. PICK h \in stack[Len(stack)].todo :
          ready = SetReadyBy(Unblock(step[h], stack[Len(stack)].done), data)
    BY <1>2
  <2>4. h \in Handle
    BY <2>2, <2>3 DEF Call
  <2>5. step[h] \in TimeStepRecord
    BY <2>4 DEF TypeInv, TypeOK
  <2>6. Unblock(step[h], stack[Len(stack)].done).queues = step[h].queues
    BY <2>5, UnblockEffect
  <2> QED
    BY <2>3, <2>4, <2>6 DEF SetReadyBy
<1> QED
  BY <1>1, <1>2 DEF AboutToBeReady

LEMMA RestartType ==
  ASSUME TypeInvP, Restart
  PROVE  TypeInvP'
<1> USE DEF TypeInvP, TypeInv
<1>1. file' \in [DI -> Value \cup {NoValue}]
  <2>1. RestartFile
    BY DEF Restart, RestartFile
  <2>2. PICK S : file' = [d \in DI |-> IF d \in S THEN data[d].val ELSE file[d]]
    BY <2>1 DEF RestartFile
  <2>3. \A d \in DI : data[d].val \in Value /\ file[d] \in Value \cup {NoValue}
    BY DEF TypeOK, Instance
  <2> QED
    BY <2>2, <2>3
<1>2. data' \in [DI -> Instance] /\ seen' \in [DI -> Instance]
  BY <1>1, ReopenedType DEF Restart
<1>3. NewObject \in Object
  BY DEF NewObject, Object, Availability
<1>4. NewTimeStep \in TimeStepRecord
  BY DEF NewTimeStep, TimeStepRecord, Status
<1>5. upd' \in [UpdateId -> Object] /\ step' \in [Handle -> TimeStepRecord]
  BY <1>3, <1>4 DEF Restart
<1>6. current' \in [TS -> 0..MaxObjects] /\ built' \in [TS -> 0..MaxObjects]
  BY CenterAssumption DEF Restart
<1>7. /\ tasks' \subseteq Task /\ blockees' \in [TS -> SUBSET Handle]
      /\ interaction' \in BOOLEAN /\ flushing' \in BOOLEAN
      /\ pc' = "loop" /\ pc' \in WorkerPC /\ job' = IdleTask
      /\ report' \in Report /\ client' \in [Client -> ClientPC]
      /\ declared' \subseteq Ruled /\ sessions' \in 0..MaxSessions
      /\ patterns' \subseteq Patterned
  BY DEF Restart, WorkerPC, Report, ClientPC, TypeOK
<1>8. stack' \in Seq([done : TS, todo : SUBSET Handle])
  BY DEF Restart
<1>9. TypeOK'
  BY <1>1, <1>2, <1>5, <1>6, <1>7, <1>8 DEF TypeOK
<1> QED
  BY <1>7, <1>9 DEF WorkerOK

LEMMA NextTypeInvP == TypeInvP /\ [NextP]_allVars => TypeInvP'
<1> SUFFICES ASSUME TypeInvP, [NextP]_allVars PROVE TypeInvP'
  OBVIOUS
<1>1. CASE CenterStep /\ patterns' \subseteq patterns \cup Patterned
  BY <1>1, CenterStepIsNext, NextTypeInv DEF TypeInvP
<1> QED
  BY <1>1, Steps, GetPatternType, RestartType

LEMMA InitTypeInvP == InitP => TypeInvP
  BY InitTypeInv DEF InitP, TypeInvP

-----------------------------------------------------------------------------
(* What is in a file stays there.                                          *)

LEMMA RestartFiles ==
  ASSUME TypeInvP, FileInv, Restart
  PROVE  FileInv' /\ \A d \in DI : file[d] # NoValue => file'[d] = file[d]
<1>0. PICK ready \in AboutToBeReady : \E S \in SUBSET NowReady(ready) :
        file' = [d \in DI |-> IF d \in S THEN data[d].val ELSE file[d]]
  BY DEF Restart
<1>1. PICK S \in SUBSET NowReady(ready) :
        file' = [d \in DI |-> IF d \in S THEN data[d].val ELSE file[d]]
  BY <1>0
<1>2. ASSUME NEW d \in S PROVE d \in Ruled /\ ~IsReady(data, d)
  <2>1. d \in ready /\ ~IsReady(data, d)
    BY DEF NowReady
  <2>2. PICK h \in Handle : d \in step[h].queues["Confirmed"]
    BY <2>1, AboutToBeReadyIsConfirmed DEF TypeInvP
  <2>3. step[h] \in TimeStepRecord
    BY DEF TypeInvP, TypeInv, TypeOK
  <2> QED
    BY <2>1, <2>2, <2>3 DEF TimeStepRecord, Queue
<1>3. \A d \in DI : file[d] # NoValue => file'[d] = file[d]
  BY <1>1, <1>2 DEF FileInv, FiledIsReady
<1>4. file' \in [DI -> Value \cup {NoValue}]
  BY RestartType DEF TypeInvP, TypeInv, TypeOK
<1>5. /\ data' = Reopened(file') /\ pc' = "loop"
  BY DEF Restart
<1>6. \A d \in DI : /\ data'[d].avail = "Ready" <=> file'[d] # NoValue
                    /\ file'[d] # NoValue => data'[d].val = file'[d]
  BY <1>4, <1>5, ReopenedType
<1>7. FileInv'
  BY <1>5, <1>6, ConstantsAssumption DEF FileInv, ReadyIsFiled, FiledIsReady, WritesBusy, IsReady
<1> QED
  BY <1>3, <1>7

LEMMA GetPatternFiles ==
  ASSUME FileInv, GetPattern
  PROVE  FileInv' /\ file' = file
<1>1. UNCHANGED <<data, file>> /\ pc' # "write"
  BY GetPatternStep
<1> QED
  BY <1>1 DEF FileInv, ReadyIsFiled, FiledIsReady, WritesBusy, IsReady

(* Only the results of rules, and what other programs fill, change in the  *)
(* files.                                                                  *)
LEMMA CenterFiles ==
  ASSUME Writable \cap Ruled = {}, TypeInv, FileInv, [Next]_vars
  PROVE  \A d \in DI : file[d] # NoValue => file'[d] = file[d]
<1> SUFFICES ASSUME NEW d \in DI, file[d] # NoValue PROVE file'[d] = file[d]
  OBVIOUS
<1>1. CASE d \in Ruled
  <2>1. IsReady(data, d) /\ file[d] = data[d].val
    BY <1>1 DEF FileInv, FiledIsReady, ReadyIsFiled
  <2>2. FileStep
    BY NextFileStep
  <2> QED
    BY <2>1, <2>2 DEF FileStep
<1>2. CASE d \notin Ruled
  <2>1. CASE UNCHANGED <<data, file>>
    BY <2>1
  <2>2. CASE RunWrite
    <3>1. job.of \in Ruled
      BY <2>2, JobType DEF RunWrite, TypeInv, WorkerOK
    <3>2. file' = file \/ \E x : file' = [file EXCEPT ![job.of] = x]
      BY <2>2 DEF RunWrite
    <3> QED
      BY <1>2, <3>1, <3>2 DEF TypeInv, TypeOK
  <2>3. ASSUME NEW s \in TimeStepRecord, SetReady(SetReadyBy(s, data)) PROVE file'[d] = file[d]
    <3>1. d \notin SetReadyBy(s, data)
      BY <1>2 DEF SetReadyBy, TimeStepRecord, Queue
    <3> QED
      BY <2>3, <3>1 DEF SetReady, NowReady
  <2>4. CASE ReportStatus
    <3>1. step[job.step] \in TimeStepRecord
      BY <2>4, JobType DEF ReportStatus, TypeInv, WorkerOK, TypeOK
    <3> QED
      BY <2>3, <2>4, <3>1 DEF ReportStatus
  <2>5. CASE NotifyUnblock
    <3>1. stack \in Seq(Call) /\ Len(stack) > 0
      BY <2>5 DEF NotifyUnblock, TypeInv, TypeOK, WorkerOK, Call
    <3>2. stack[Len(stack)] \in Call
      BY <3>1
    <3>3. PICK h \in stack[Len(stack)].todo :
            \/ UNCHANGED <<data, file>>
            \/ SetReady(SetReadyBy(Unblock(step[h], stack[Len(stack)].done), data))
      BY <2>5 DEF NotifyUnblock
    <3>4. h \in Handle
      BY <3>2, <3>3 DEF Call
    <3>5. Unblock(step[h], stack[Len(stack)].done) \in TimeStepRecord
      BY <3>4, UnblockType DEF TypeInv, TypeOK
    <3> QED
      BY <2>3, <3>3, <3>5
  <2>6. ASSUME NEW c \in Client, Ping(c) PROVE file'[d] = file[d]
    BY <2>6 DEF Ping
  <2>7. ASSUME NEW e \in DI, WriteFile(e) PROVE file'[d] = file[d]
    BY <2>7 DEF WriteFile, TypeInv, TypeOK
  <2> QED
    BY <2>1, <2>2, <2>4, <2>5, <2>6, <2>7, FileActions
<1> QED
  BY <1>1, <1>2

LEMMA FileFinalStep ==
  ASSUME Writable \cap Ruled = {}, TypeInvP, FileInv, [NextP]_allVars
  PROVE  FileInv' /\ \A d \in DI : file[d] # NoValue => file'[d] = file[d]
<1>1. CASE CenterStep
  BY <1>1, CenterStepIsNext, CenterFiles, NextFileInv DEF TypeInvP
<1> QED
  BY <1>1, Steps, GetPatternFiles, RestartFiles

(* What is in a file stays there, for any rules, patterns, commands and    *)
(* moments the server stops at, where other programs fill the files of DIs *)
(* no rule updates.                                                        *)
THEOREM FileFinal ==
  ASSUME Writable \cap Ruled = {}
  PROVE  SpecP => FileIsFinal
<1> DEFINE Kept == \A d \in DI : file[d] # NoValue => file'[d] = file[d]
<1>1. InitP => TypeInvP /\ FileInv
  BY InitTypeInvP, InitFileInv DEF InitP
<1>2. TypeInvP /\ FileInv /\ [NextP]_allVars => (TypeInvP /\ FileInv)' /\ Kept
  BY NextTypeInvP, FileFinalStep
<1>3. SpecP => [](TypeInvP /\ FileInv)
  BY <1>1, <1>2, PTL DEF SpecP
<1>4. SpecP => [][Kept]_allVars
  BY <1>2, <1>3, PTL DEF SpecP
<1> QED
  BY <1>4 DEF FileIsFinal

-----------------------------------------------------------------------------
(* Patterned files have no hole.                                           *)

(* The updates of a timestep are all in K. *)
Within(s, K) == s.variables \subseteq K /\ \A q \in Queue : s.queues[q] \subseteq K

LEMMA WithinAdmitNew ==
  ASSUME NEW K, NEW s \in TimeStepRecord, NEW D, Within(s, K)
  PROVE  Within(AdmitNew(s, D), K)
<1> DEFINE a == AdmitNew(s, D)
<1>1. Held(s, D) \subseteq s.queues["New"]
  BY DEF Held
<1>2. /\ a.variables = s.variables
      /\ a.queues["New"] = Held(s, D)
      /\ a.queues["Unstable"] = s.queues["Unstable"] \cup (s.queues["New"] \ Held(s, D))
      /\ a.queues["Impossible"] = s.queues["Impossible"]
      /\ a.queues["Stable"] = s.queues["Stable"]
      /\ a.queues["Confirmed"] = s.queues["Confirmed"]
  BY AdmitNewEffect
<1> HIDE DEF a
<1>3. Within(a, K)
  BY <1>1, <1>2 DEF Within, Queue
<1> QED
  BY <1>3 DEF a

LEMMA WithinCheckUnbound ==
  ASSUME NEW K, NEW s \in TimeStepRecord, NEW D, Within(s, K)
  PROVE  Within(CheckUnbound(s, D), K)
<1>1. Within(AdmitNew(s, D), K)
  BY WithinAdmitNew
<1>2. LET r == CheckUnbound(s, D)
      IN  r.variables = AdmitNew(s, D).variables /\ r.queues = AdmitNew(s, D).queues
  BY CheckUnboundEffect DEF SameParts
<1> QED
  BY <1>1, <1>2 DEF Within

LEMMA WithinTakeJobs ==
  ASSUME NEW K, NEW s \in TimeStepRecord, Within(s, K)
  PROVE  Within(TakeJobs(s), K)
BY TakeJobsEffect DEF Within

LEMMA WithinUpdateStatus ==
  ASSUME NEW K, NEW s \in TimeStepRecord, NEW D, Within(s, K)
  PROVE  Within(UpdateStatus(s, D), K)
<1> DEFINE a == AdmitNew(s, D)
           r == UpdateStatus(s, D)
<1>1. Within(a, K) /\ SameParts(r, a)
  BY WithinAdmitNew, UpdateStatusEffect
<1>2. \/ \A q \in Queue : r.queues[q] = {}
      \/ Unbinds(r, a) \/ Unsettles(r, a) \/ Checks(r, a)
  BY UpdateStatusEffect
<1> HIDE DEF a, r
<1>3. \A q \in Queue : r.queues[q] \subseteq K
  <2>1. CASE \A q \in Queue : r.queues[q] = {}
    BY <2>1
  <2>2. CASE Unbinds(r, a) \/ Checks(r, a)
    BY <1>1, <2>2 DEF Unbinds, Checks, Within
  <2>3. CASE Unsettles(r, a)
    <3>1. /\ r.queues["New"] = {} /\ r.queues["Confirmed"] = {}
          /\ r.queues["Stable"] = a.queues["Stable"] \cup a.queues["Confirmed"]
          /\ r.queues["Impossible"] = {} \/ r.queues["Impossible"] = a.queues["Impossible"]
          /\ \/ r.queues["Unstable"] = a.queues["Unstable"] \cup a.queues["Impossible"]
             \/ r.queues["Unstable"] = a.queues["Unstable"]
      BY <2>3 DEF Unsettles
    <3> QED
      BY <1>1, <3>1 DEF Within, Queue
  <2> QED
    BY <1>2, <2>1, <2>2, <2>3
<1>4. Within(r, K)
  BY <1>1, <1>3 DEF Within, SameParts
<1> QED
  BY <1>4 DEF r

LEMMA WithinClear ==
  ASSUME NEW K, NEW s \in TimeStepRecord, Within(s, K)
  PROVE  Within(ClearBlockingInfo(s), K)
<1> DEFINE r == ClearBlockingInfo(s)
<1>1. /\ r.variables = s.variables
      /\ r.queues["Unstable"] = s.queues["Unstable"] \cup s.queues["Impossible"]
      /\ r.queues["Impossible"] = {}
      /\ r.queues["New"] = s.queues["New"]
      /\ r.queues["Stable"] = s.queues["Stable"]
      /\ r.queues["Confirmed"] = s.queues["Confirmed"]
  BY ClearEffect
<1> HIDE DEF r
<1>2. Within(r, K)
  BY <1>1 DEF Within, Queue
<1> QED
  BY <1>2 DEF r

LEMMA WithinAdd ==
  ASSUME NEW K, NEW s \in TimeStepRecord, Within(s, K), NEW d \in Ruled, d \in K
  PROVE  Within(Add(s, d), K)
<1>1. CASE d \in s.variables
  BY <1>1 DEF Add
<1>2. CASE d \notin s.variables
  <2> DEFINE r == Add(s, d)
  <2>1. /\ r.variables = s.variables \cup {d}
        /\ r.queues["New"] = s.queues["New"] \cup {d}
        /\ \A q \in Queue : q # "New" => r.queues[q] = s.queues[q]
    BY <1>2, AddEffect
  <2> HIDE DEF r
  <2>2. Within(r, K)
    BY <2>1 DEF Within, Queue
  <2> QED
    BY <2>2 DEF r
<1> QED
  BY <1>1, <1>2

LEMMA WithinAddAll ==
  ASSUME NEW K, NEW s \in TimeStepRecord, Within(s, K), NEW ds \in SUBSET Ruled, ds \subseteq K
  PROVE  Within(AddAll(s, ds), K)
<1> DEFINE r == AddAll(s, ds)
<1>1. /\ r.variables = s.variables \cup ds
      /\ r.queues["New"] = s.queues["New"] \cup (ds \ s.variables)
      /\ \A q \in Queue : q # "New" => r.queues[q] = s.queues[q]
  BY AddAllEffect
<1> HIDE DEF r
<1>2. Within(r, K)
  BY <1>1 DEF Within, Queue
<1> QED
  BY <1>2 DEF r

LEMMA WithinNewTimeStep ==
  ASSUME NEW K
  PROVE  NewTimeStep \in TimeStepRecord /\ Within(NewTimeStep, K)
BY DEF NewTimeStep, TimeStepRecord, Status, Within, Queue

LEMMA WithinRequeue ==
  ASSUME NEW K, NEW s \in TimeStepRecord, Within(s, K), NEW d \in Ruled, d \in K,
         NEW src, NEW r, NEW B \in SUBSET TS
  PROVE  Within(Requeue(s, d, src, r, B), K)
<1> DEFINE rest == RemoveUpdate(s, d)
<1>1. rest \in TimeStepRecord /\ Within(rest, K)
  <2>1. rest \in TimeStepRecord
    BY DEF RemoveUpdate, TimeStepRecord
  <2>2. rest.variables = s.variables /\ \A q \in Queue : rest.queues[q] \subseteq s.queues[q]
    BY DEF RemoveUpdate, TimeStepRecord
  <2> QED
    BY <2>1, <2>2 DEF Within
<1>2. ASSUME NEW t \in TimeStepRecord, Within(t, K), NEW q \in Queue
      PROVE  PushBack(t, q, d) \in TimeStepRecord /\ Within(PushBack(t, q, d), K)
  BY <1>2 DEF PushBack, Within, TimeStepRecord
<1>3. InitDone(rest, d) \in TimeStepRecord /\ Within(InitDone(rest, d), K)
  <2> HIDE DEF rest
  <2> QED
    BY <1>1 DEF InitDone, Within, TimeStepRecord
<1>4. Within([PushBack(rest, "Impossible", d) EXCEPT !.blockers = @ \cup B, !.new_blockers = @ \cup B], K)
  <2>1. PushBack(rest, "Impossible", d) \in TimeStepRecord /\ Within(PushBack(rest, "Impossible", d), K)
    BY <1>1, <1>2 DEF Queue
  <2>2. ASSUME NEW p \in TimeStepRecord, Within(p, K)
        PROVE  Within([p EXCEPT !.blockers = @ \cup B, !.new_blockers = @ \cup B], K)
    BY <2>2 DEF Within, TimeStepRecord
  <2> QED
    BY <2>1, <2>2
<1>5. Within(PushBack(InitDone(rest, d), "Unstable", d), K)
  BY <1>2, <1>3 DEF Queue
<1>6. Within(PushBack(rest, UpToDateQueue(s, src), d), K)
  BY <1>1, <1>2 DEF UpToDateQueue, Queue
<1> QED
  BY <1>1, <1>4, <1>5, <1>6 DEF Requeue

(* All the updates the center knows of are in K: those of the timesteps,   *)
(* of the tasks and of the job in progress.                                *)
Known(K, steps, ts, p, j) ==
  /\ \A h \in Handle : Within(steps[h], K)
  /\ \A k \in ts : k.of \in K
  /\ p \in WithJob => j.of \in K

KnownNow(K) == Known(K, step, tasks, pc, job)
KnownNext(K) == Known(K, step', tasks', pc', job')

LEMMA KnownSame ==
  ASSUME NEW K, KnownNow(K), UNCHANGED <<step, tasks>>,
         pc' \in WithJob => pc \in WithJob /\ job' = job
  PROVE  KnownNext(K)
BY DEF KnownNow, KnownNext, Known

LEMMA KnownOne ==
  ASSUME TypeInv, NEW K, KnownNow(K), NEW h \in Handle, NEW s, Within(s, K),
         step' = [step EXCEPT ![h] = s], UNCHANGED tasks,
         pc' \in WithJob => pc \in WithJob /\ job' = job
  PROVE  KnownNext(K)
<1>1. \A k \in Handle : step'[k] = IF k = h THEN s ELSE step[k]
  BY DEF TypeInv, TypeOK
<1> QED
  BY <1>1 DEF KnownNow, KnownNext, Known

LEMMA JobsWithin ==
  ASSUME NEW K, NEW s \in TimeStepRecord, Within(s, K), NEW j \in Jobs(s)
  PROVE  j[1] \in K
<1>1. j[2] \in Queue /\ j[1] \in s.queues[j[2]]
  BY JobsType DEF Jobs
<1> QED
  BY <1>1 DEF Within

LEMMA GetOneKnown ==
  ASSUME TypeInv, NEW K, KnownNow(K), GetOne
  PROVE  KnownNext(K)
<1>1. ASSUME NEW h \in Handle
      PROVE  LET r == CheckUnbound(step[h], data)
             IN  r \in TimeStepRecord /\ Within(r, K) /\ Within(step[h], K)
  BY CheckUnboundType, WithinCheckUnbound DEF TypeInv, TypeOK, KnownNow, Known
<1>2. ASSUME NEW h \in Handle PROVE Within(step'[h], K)
  <2> DEFINE r == CheckUnbound(step[h], data)
  <2>1. r \in TimeStepRecord /\ Within(r, K) /\ Within(step[h], K)
    BY <1>1
  <2>2. step'[h] = step[h] \/ step'[h] = TakeJobs(r)
    BY DEF GetOne
  <2> HIDE DEF r
  <2> QED
    BY <2>1, <2>2, WithinTakeJobs
<1>3. ASSUME NEW h \in Handle, NEW k \in TasksOf(h) PROVE k.of \in K
  <2> DEFINE r == CheckUnbound(step[h], data)
  <2>1. PICK j \in Jobs(r) : k.of = j[1]
    BY <1>3 DEF TasksOf
  <2>2. r \in TimeStepRecord /\ Within(r, K)
    BY <1>1
  <2> HIDE DEF r
  <2> QED
    BY <2>1, <2>2, JobsWithin
<1>4. \A k \in Batch : k.of \in K
  BY <1>3 DEF Batch, Asked, KnownNow, Known
<1>5. /\ \A k \in tasks' : k.of \in K
      /\ pc' \in WithJob => job'.of \in K
  BY <1>4 DEF GetOne, WithJob, KnownNow, Known
<1> QED
  BY <1>2, <1>5 DEF KnownNext, Known

LEMMA ReportJobKnown ==
  ASSUME TypeInv, NEW K, KnownNow(K), ReportJob
  PROVE  KnownNext(K)
<1> DEFINE B == BlockersOf(JobUpdate, JobObject)
           s == Requeue(step[job.step], job.of, job.source, report, B)
<1>1. pc = "report" /\ job \in Task /\ TypeOK
  BY DEF ReportJob, TypeInv, WorkerOK
<1>2. job.step \in Handle /\ job.of \in Ruled /\ JobUpdate \in UpdateId /\ JobObject \in Object
  BY <1>1, JobType
<1>3. B \in SUBSET TS
  BY <1>2, BlockersType
<1>4. step[job.step] \in TimeStepRecord /\ Within(step[job.step], K) /\ job.of \in K
  BY <1>1, <1>2 DEF TypeOK, KnownNow, Known, WithJob
<1>5. step' = [step EXCEPT ![job.step] = s] /\ pc' = "status" /\ tasks' = tasks
  BY <1>2 DEF ReportJob, TypeOK
<1> HIDE DEF B
<1>6. Within(s, K)
  BY <1>2, <1>3, <1>4, WithinRequeue
<1> HIDE DEF s
<1> QED
  BY <1>2, <1>5, <1>6, KnownOne DEF WithJob

LEMMA ReportStatusKnown ==
  ASSUME TypeInv, NEW K, KnownNow(K), ReportStatus
  PROVE  KnownNext(K)
<1>1. job.step \in Handle /\ step[job.step] \in TimeStepRecord
  BY DEF ReportStatus, TypeInv, TypeOK, WorkerOK, Task
<1>2. Within(UpdateStatus(step[job.step], data), K)
  BY <1>1, WithinUpdateStatus DEF KnownNow, Known
<1>3. /\ step' = [step EXCEPT ![job.step] = UpdateStatus(step[job.step], data)]
      /\ tasks' = tasks /\ pc' \notin WithJob
  BY DEF ReportStatus, AfterReport, WithJob
<1> QED
  BY <1>1, <1>2, <1>3, KnownOne

LEMMA NotifyUnblockKnown ==
  ASSUME TypeInv, NEW K, KnownNow(K), NotifyUnblock
  PROVE  KnownNext(K)
<1>1. stack \in Seq(Call) /\ Len(stack) > 0 /\ pc = "notify" /\ UNCHANGED <<pc, tasks>>
  BY DEF NotifyUnblock, TypeInv, TypeOK, WorkerOK, Call
<1>2. stack[Len(stack)] \in Call
  BY <1>1
<1>3. PICK h \in stack[Len(stack)].todo :
        \/ step' = [step EXCEPT ![h] = Unblock(step[h], stack[Len(stack)].done)]
        \/ step' = [step EXCEPT ![h] = UpdateStatus(Unblock(step[h], stack[Len(stack)].done), data)]
  BY DEF NotifyUnblock
<1>4. h \in Handle
  BY <1>2, <1>3 DEF Call
<1> DEFINE s == Unblock(step[h], stack[Len(stack)].done)
<1>5. step[h] \in TimeStepRecord /\ Within(step[h], K)
  BY <1>4 DEF KnownNow, Known, TypeInv, TypeOK
<1>6. s \in TimeStepRecord /\ Within(s, K)
  <2>1. s \in TimeStepRecord /\ s.variables = step[h].variables /\ s.queues = step[h].queues
    BY <1>5, UnblockEffect
  <2> HIDE DEF s
  <2> QED
    BY <1>5, <2>1 DEF Within
<1>7. step' = [step EXCEPT ![h] = s] \/ step' = [step EXCEPT ![h] = UpdateStatus(s, data)]
  BY <1>3
<1> HIDE DEF s
<1>8. Within(UpdateStatus(s, data), K)
  BY <1>6, WithinUpdateStatus
<1> QED
  BY <1>1, <1>4, <1>6, <1>7, <1>8, KnownOne DEF WithJob

LEMMA DeclareKnown ==
  ASSUME TypeInv, NEW K, KnownNow(K), NEW c \in Client, NEW d \in Ruled, d \in K, Declare(c, d)
  PROVE  KnownNext(K)
<1> DEFINE t == StepOf[d]
           h == <<t, ObjectOf(t)>>
           s == IF current[t] # 0 THEN step[h] ELSE NewTimeStep
<1>1. UNCHANGED <<pc, job, tasks>>
  BY DEF Declare, workerVars
<1>2. CASE IsReady(data, d)
  <2>1. UNCHANGED step
    BY <1>2 DEF Declare
  <2> QED
    BY <1>1, <2>1, KnownSame
<1>3. CASE ~IsReady(data, d)
  <2>1. step' = [step EXCEPT ![h] = Add(s, d)] /\ ObjectOf(t) \in 1..MaxObjects
    BY <1>3 DEF Declare
  <2>2. h \in Handle
    BY <2>1, ConstantsAssumption DEF Handle
  <2>3. step[h] \in TimeStepRecord /\ Within(step[h], K)
    BY <2>2 DEF TypeInv, TypeOK, KnownNow, Known
  <2>4. s \in TimeStepRecord /\ Within(s, K)
    BY <2>3, WithinNewTimeStep
  <2> HIDE DEF s, h
  <2>5. Within(Add(s, d), K)
    BY <2>4, WithinAdd
  <2> QED
    BY <1>1, <2>1, <2>2, <2>5, KnownOne
<1> QED
  BY <1>2, <1>3

LEMMA PingKnown ==
  ASSUME TypeInv, NEW K, KnownNow(K), NEW c \in Client, Ping(c)
  PROVE  KnownNext(K)
<1>1. UNCHANGED <<pc, job, tasks>>
  BY DEF Ping, workerVars
<1>2. \A h \in Handle : step'[h] \in {step[h], ClearBlockingInfo(step[h])}
  BY DEF Ping
<1>3. \A h \in Handle : Within(step[h], K) /\ Within(ClearBlockingInfo(step[h]), K)
  BY WithinClear DEF TypeInv, TypeOK, KnownNow, Known
<1>4. \A h \in Handle : Within(step'[h], K)
  BY <1>2, <1>3
<1> QED
  BY <1>1, <1>4 DEF KnownNow, KnownNext, Known

LEMMA RegisterKnown ==
  ASSUME TypeInv, NEW K, KnownNow(K), RegisterBlocked
  PROVE  KnownNext(K)
<1> DEFINE s == [step[job.step] EXCEPT !.new_blockers = {}]
<1>1. job.step \in Handle /\ pc' = "loop" /\ step[job.step] \in TimeStepRecord /\ UNCHANGED tasks
  BY DEF RegisterBlocked, TypeInv, TypeOK, WorkerOK, Task
<1>2. s.variables = step[job.step].variables /\ s.queues = step[job.step].queues
  BY <1>1 DEF TimeStepRecord
<1>3. step' = [step EXCEPT ![job.step] = s]
  BY DEF RegisterBlocked
<1> HIDE DEF s
<1>4. Within(s, K)
  BY <1>1, <1>2 DEF Within, KnownNow, Known
<1> QED
  BY <1>1, <1>3, <1>4, KnownOne DEF WithJob

LEMMA CenterKnown ==
  ASSUME TypeInv, NEW K, Static \subseteq K, KnownNow(K), CenterStep
  PROVE  KnownNext(K)
<1>1. CASE TestInteraction \/ Wait \/ NotifyDone \/ NotifyReturn \/ SpuriousWake
  BY <1>1, KnownSame DEF TestInteraction, Wait, NotifyDone, NotifyReturn, SpuriousWake, AfterReport,
                         WithJob, stepVars
<1>2. CASE Run
  <2>1. UNCHANGED <<step, tasks, job>> /\ pc \in WithJob
    BY <1>2 DEF Run, RunReady, RunImpossible, RunUnmoved, RunRead, RunWrite, Evaluated, WithJob, stepVars
  <2> QED
    BY <2>1, KnownSame
<1>3. ASSUME NEW c \in Client, NEW what \in {"update", "ping"}, Open(c, what) PROVE KnownNext(K)
  BY <1>3, KnownSame DEF Open, workerVars, stepVars
<1>4. ASSUME NEW c \in Client, Close(c) PROVE KnownNext(K)
  BY <1>4, KnownSame DEF Close, workerVars, stepVars
<1>5. ASSUME NEW c \in Client, Notify(c) PROVE KnownNext(K)
  BY <1>5, KnownSame DEF Notify, WithJob, stepVars
<1>6. ASSUME NEW d \in DI, WriteFile(d) PROVE KnownNext(K)
  BY <1>6, KnownSame DEF WriteFile, workerVars, stepVars
<1>7. CASE UNCHANGED vars
  BY <1>7, KnownSame DEF vars, workerVars, stepVars
<1>8. ASSUME NEW c \in Client, NEW d \in Static, Declare(c, d) PROVE KnownNext(K)
  BY <1>8, PatternAssumption, DeclareKnown
<1>9. CASE Worker
  BY <1>1, <1>2, <1>9, GetOneKnown, ReportJobKnown, ReportStatusKnown, NotifyUnblockKnown, RegisterKnown
  DEF Worker
<1>10. ASSUME NEW c \in Client, ClientStepP(c) PROVE KnownNext(K)
  BY <1>3, <1>4, <1>5, <1>8, <1>10, PingKnown DEF ClientStepP
<1> QED
  BY <1>1, <1>6, <1>7, <1>9, <1>10 DEF CenterStep

(* A file that changes is filled, with the result of the evaluation in     *)
(* progress, a confirmed result or what another program writes.            *)
LEMMA CenterFills ==
  ASSUME TypeInv, [Next]_vars, NEW d \in DI, file'[d] # file[d]
  PROVE  /\ file'[d] # NoValue
         /\ \/ pc = "write" /\ d = job.of
            \/ \E h \in Handle : d \in step[h].queues["Confirmed"]
            \/ d \in Writable
<1>1. data[d].val \in Value
  BY DEF TypeInv, TypeOK, Instance
<1>2. ASSUME NEW s, SetReady(SetReadyBy(s, data))
      PROVE  file'[d] # NoValue /\ d \in s.queues["Confirmed"]
  <2>1. d \in SetReadyBy(s, data) /\ file'[d] = data[d].val
    BY <1>2 DEF SetReady, NowReady
  <2> QED
    BY <1>1, <2>1, CenterAssumption DEF SetReadyBy
<1>3. CASE RunWrite
  <2>1. PICK next \in NextDate(JobUpdate, JobObject, seen, data[job.of]) :
          \E res \in {WriteResult(JobUpdate, JobObject, seen, data[job.of], next)} :
            /\ data' = [data EXCEPT ![job.of] = res]
            /\ file' = IF ~IsReady(data, job.of) /\ res.avail = "Ready"
                       THEN [file EXCEPT ![job.of] = res.val] ELSE file
    BY <1>3 DEF RunWrite
  <2>2. job.of \in DI /\ JobUpdate \in UpdateId /\ JobObject \in Object /\ data[job.of] \in Instance
        /\ seen \in [DI -> Instance]
    BY <1>3, JobType DEF RunWrite, TypeInv, TypeOK, WorkerOK
  <2>3. WriteResult(JobUpdate, JobObject, seen, data[job.of], next) \in Instance
    BY <2>1, <2>2, NextDateType, WriteResultType
  <2>4. PICK res \in Instance : file' = file \/ file' = [file EXCEPT ![job.of] = res.val]
    BY <2>1, <2>3
  <2>5. res.val \in Value
    BY DEF Instance
  <2>6. d = job.of /\ file'[d] = res.val
    BY <2>4 DEF TypeInv, TypeOK
  <2>7. pc = "write"
    BY <1>3 DEF RunWrite
  <2> QED
    BY <2>5, <2>6, <2>7, CenterAssumption
<1>4. CASE ReportStatus
  BY <1>2, <1>4, JobType DEF ReportStatus, TypeInv, WorkerOK
<1>5. CASE NotifyUnblock
  <2>1. stack \in Seq(Call) /\ Len(stack) > 0
    BY <1>5 DEF NotifyUnblock, TypeInv, TypeOK, WorkerOK, Call
  <2>2. stack[Len(stack)] \in Call
    BY <2>1
  <2>3. PICK h \in stack[Len(stack)].todo :
          \/ UNCHANGED <<data, file>>
          \/ SetReady(SetReadyBy(Unblock(step[h], stack[Len(stack)].done), data))
    BY <1>5 DEF NotifyUnblock
  <2>4. h \in Handle
    BY <2>2, <2>3 DEF Call
  <2>5. Unblock(step[h], stack[Len(stack)].done).queues = step[h].queues
    BY <2>4, UnblockEffect DEF TypeInv, TypeOK
  <2> QED
    BY <1>2, <2>3, <2>4, <2>5
<1>6. ASSUME NEW c \in Client PROVE ~Ping(c)
  BY DEF Ping
<1>7. ASSUME NEW e \in DI, WriteFile(e) PROVE file'[d] # NoValue /\ d \in Writable
  <2>1. d = e /\ d \in Writable /\ file'[d] = FileValue[d]
    BY <1>7 DEF WriteFile, TypeInv, TypeOK
  <2> QED
    BY <2>1, CenterAssumption
<1>8. ~UNCHANGED <<data, file>>
  OBVIOUS
<1> QED
  BY <1>3, <1>4, <1>5, <1>6, <1>7, <1>8, FileActions

(* The DIs whose turn has come: for a patterned variable, those the        *)
(* instants before which are all in the file.                              *)
Ripe ==
  {d \in DI : d[1] \in Patterned => \A i \in 0..(d[2] - 1) : file[<<d[1], i>>] # NoValue}

(* Only the first instant of a patterned variable is given otherwise, by a *)
(* static rule or another program.                                         *)
OnlyFirst == \A v \in Patterned : \A t \in 1..Horizon : <<v, t>> \notin Static \cup Writable

(* What is in a file is ripe, and so is all that the center knows of.      *)
HoleInv ==
  /\ \A d \in DI : file[d] # NoValue => d \in Ripe
  /\ KnownNow(Ripe)

LEMMA GivenIsRipe ==
  ASSUME OnlyFirst
  PROVE  /\ Static \subseteq Ripe
         /\ Writable \subseteq Ripe
<1> SUFFICES ASSUME NEW d \in Static \cup Writable PROVE d \in Ripe
  OBVIOUS
<1>1. d \in DI
  BY PatternAssumption, ConstantsAssumption, CenterAssumption
<1>2. d = <<d[1], d[2]>> /\ d[2] \in 0..Horizon
  BY <1>1, PatternAssumption
<1>3. CASE d[1] \in Patterned
  <2>1. d[2] \notin 1..Horizon
    BY <1>2, <1>3 DEF OnlyFirst
  <2>2. d[2] = 0
    BY <1>2, <2>1, PatternAssumption
  <2> QED
    BY <1>1, <2>2 DEF Ripe
<1> QED
  BY <1>1, <1>3 DEF Ripe

(* When the files only fill, what is ripe remains so.                      *)
LEMMA RipeGrows ==
  ASSUME \A d \in DI : file[d] # NoValue => file'[d] # NoValue
  PROVE  Ripe \subseteq Ripe'
<1> SUFFICES ASSUME NEW d \in Ripe PROVE d \in Ripe'
  OBVIOUS
<1>1. d \in DI /\ d[2] \in 0..Horizon /\ Horizon \in Nat
  BY PatternAssumption DEF Ripe
<1>2. ASSUME d[1] \in Patterned, NEW i \in 0..(d[2] - 1) PROVE file'[<<d[1], i>>] # NoValue
  <2>1. i \in 0..Horizon
    BY <1>1
  <2>2. <<d[1], i>> \in DI
    BY <1>2, <2>1, PatternedDI
  <2> QED
    BY <1>2, <2>2 DEF Ripe
<1> QED
  BY <1>1, <1>2 DEF Ripe

LEMMA KnownGrows ==
  ASSUME NEW K, NEW L, K \subseteq L, KnownNext(K)
  PROVE  KnownNext(L)
BY DEF KnownNext, Known, Within

LEMMA HoleCenter ==
  ASSUME OnlyFirst, TypeInv, HoleInv, CenterStep
  PROVE  HoleInv'
<1>1. [Next]_vars
  BY CenterStepIsNext
<1>2. ASSUME NEW d \in DI, file'[d] # file[d] PROVE file'[d] # NoValue /\ d \in Ripe
  <2>1. /\ file'[d] # NoValue
        /\ \/ pc = "write" /\ d = job.of
           \/ \E h \in Handle : d \in step[h].queues["Confirmed"]
           \/ d \in Writable
    BY <1>1, <1>2, CenterFills
  <2>2. "Confirmed" \in Queue /\ "write" \in WithJob
    BY DEF Queue, WithJob
  <2> QED
    BY <2>1, <2>2, GivenIsRipe DEF HoleInv, KnownNow, Known, Within
<1>3. Ripe \subseteq Ripe'
  BY <1>2, RipeGrows
<1>4. \A d \in DI : file'[d] # NoValue => d \in Ripe'
  BY <1>2, <1>3 DEF HoleInv
<1>5. PICK K : K = Ripe
  OBVIOUS
<1>6. KnownNext(K)
  BY <1>5, CenterKnown, GivenIsRipe DEF HoleInv
<1>7. PICK L : L = Ripe'
  OBVIOUS
<1>8. KnownNext(L)
  BY <1>3, <1>5, <1>6, <1>7, KnownGrows
<1> QED
  BY <1>4, <1>7, <1>8 DEF HoleInv, KnownNow, KnownNext

(* A pattern is realized at an instant whose turn has come.                *)
LEMMA RealizedIsRipe ==
  ASSUME TypeInvP, HoleInv
  PROVE  Realized \subseteq Ripe
<1> SUFFICES ASSUME NEW d \in Realized PROVE d \in Ripe
  OBVIOUS
<1>1. PICK v \in InWalltime : d = <<v, history_length(v)>>
  BY DEF Realized
<1>2. v \in Patterned /\ d \in DI
  BY <1>1, RealizedType DEF InWalltime, TypeInvP
<1> DEFINE n == history_length(v)
<1>3. /\ n \in 0..(Horizon + 1) /\ Horizon \in Nat
      /\ n # 0 => n - 1 \in 0..Horizon /\ file[<<v, n - 1>>] # NoValue
  BY <1>2, LengthOf, PatternAssumption
<1>4. d = <<v, n>>
  BY <1>1
<1> HIDE DEF n
<1>5. ASSUME NEW i \in 0..(n - 1) PROVE file[<<v, i>>] # NoValue
  <2>1. n # 0 /\ n - 1 \in 0..Horizon /\ file[<<v, n - 1>>] # NoValue
    BY <1>3
  <2>2. CASE i = n - 1
    BY <2>1, <2>2
  <2>3. CASE i # n - 1
    <3>1. i \in 0..((n - 1) - 1)
      BY <1>3, <2>3
    <3>2. <<v, n - 1>> \in Ripe
      BY <1>2, <2>1, PatternedDI DEF HoleInv
    <3> QED
      BY <1>2, <3>1, <3>2 DEF Ripe
  <2> QED
    BY <2>2, <2>3
<1> QED
  BY <1>2, <1>4, <1>5 DEF Ripe

LEMMA HoleGetPattern ==
  ASSUME TypeInvP, HoleInv, GetPattern
  PROVE  HoleInv'
<1>1. file' = file
  BY GetPatternStep
<1>2. PICK K : K = Ripe
  OBVIOUS
<1>3. K = Ripe'
  BY <1>1, <1>2 DEF Ripe
<1>4. ASSUME NEW h \in Handle
      PROVE  /\ CheckedAfter[h] \in TimeStepRecord /\ Within(CheckedAfter[h], K)
             /\ Within(TakeJobs(CheckedAfter[h]), K)
  <2>1. step[h] \in TimeStepRecord /\ Within(step[h], K)
    BY <1>2 DEF TypeInvP, TypeInv, TypeOK, HoleInv, KnownNow, Known
  <2>2. AfterAsking[h] \in TimeStepRecord /\ Within(AfterAsking[h], K)
    <3>1. AfterAsking[h] \in {step[h], TakeJobs(CheckUnbound(step[h], data))}
      BY DEF AfterAsking
    <3>2. Within(TakeJobs(CheckUnbound(step[h], data)), K)
      BY <2>1, CheckUnboundType, WithinCheckUnbound, WithinTakeJobs
    <3>3. AfterAsking[h] \in TimeStepRecord
      BY AfterAskingType DEF TypeInvP
    <3> QED
      BY <2>1, <3>1, <3>2, <3>3
  <2>3. Added(StepId(h)) \in SUBSET Ruled /\ Added(StepId(h)) \subseteq K
    BY <1>2, RealizedType, RealizedIsRipe DEF Added, TypeInvP
  <2>4. /\ Within(AddAll(AfterAsking[h], Added(StepId(h))), K)
        /\ Within(AddAll(NewTimeStep, Added(StepId(h))), K)
    BY <2>2, <2>3, WithinAddAll, WithinNewTimeStep
  <2>5. StepAfter[h] \in TimeStepRecord /\ Within(StepAfter[h], K)
    BY <2>2, <2>4, StepAfterType
  <2>6. CheckedAfter[h] \in {StepAfter[h], CheckUnbound(StepAfter[h], data)}
    BY DEF CheckedAfter
  <2>7. CheckedAfter[h] \in TimeStepRecord
    BY CheckedAfterType
  <2>8. Within(CheckedAfter[h], K)
    BY <2>5, <2>6, WithinCheckUnbound
  <2> QED
    BY <2>7, <2>8, WithinTakeJobs
<1>5. \A h \in Handle : Within(step'[h], K)
  BY <1>4, GetPatternStep
<1>6. \A k \in UNION {JobsOf(CheckedAfter, h) : h \in MappedAfter} : k.of \in K
  <2> SUFFICES ASSUME NEW h \in Handle, NEW k \in JobsOf(CheckedAfter, h) PROVE k.of \in K
    BY DEF MappedAfter
  <2>1. k.of \in UNION {CheckedAfter[h].queues[q] : q \in Queue}
    BY <1>4, JobsOfType
  <2> QED
    BY <1>4, <2>1 DEF Within
<1>7. (\A k \in tasks' : k.of \in K) /\ (pc' \in WithJob => job'.of \in K)
  BY <1>2, <1>6, GetPatternStep DEF HoleInv, KnownNow, Known, WithJob
<1>8. KnownNext(K)
  BY <1>5, <1>7 DEF KnownNext, Known
<1>9. \A d \in DI : file'[d] # NoValue => d \in K
  BY <1>1, <1>2 DEF HoleInv
<1> QED
  BY <1>3, <1>8, <1>9 DEF HoleInv, KnownNow, KnownNext

LEMMA HoleRestart ==
  ASSUME TypeInvP, HoleInv, Restart
  PROVE  HoleInv'
<1>0. PICK ready \in AboutToBeReady : \E S \in SUBSET NowReady(ready) :
        file' = [d \in DI |-> IF d \in S THEN data[d].val ELSE file[d]]
  BY DEF Restart
<1>1. PICK S \in SUBSET NowReady(ready) :
        file' = [d \in DI |-> IF d \in S THEN data[d].val ELSE file[d]]
  BY <1>0
<1>2. ASSUME NEW d \in DI, file'[d] # file[d] PROVE file'[d] # NoValue /\ d \in Ripe
  <2>1. d \in ready /\ file'[d] = data[d].val
    BY <1>1, <1>2 DEF NowReady
  <2>2. PICK h \in Handle : d \in step[h].queues["Confirmed"]
    BY <2>1, AboutToBeReadyIsConfirmed DEF TypeInvP
  <2>3. data[d].val \in Value
    BY DEF TypeInvP, TypeInv, TypeOK, Instance
  <2>4. "Confirmed" \in Queue
    BY DEF Queue
  <2> QED
    BY <2>1, <2>2, <2>3, <2>4, CenterAssumption DEF HoleInv, KnownNow, Known, Within
<1>3. Ripe \subseteq Ripe'
  BY <1>2, RipeGrows
<1>4. \A d \in DI : file'[d] # NoValue => d \in Ripe'
  BY <1>2, <1>3 DEF HoleInv
<1>5. PICK L : L = Ripe'
  OBVIOUS
<1>6. step' = [h \in Handle |-> NewTimeStep] /\ tasks' = {} /\ pc' = "loop"
  BY DEF Restart
<1>7. KnownNext(L)
  BY <1>6, WithinNewTimeStep DEF KnownNext, Known, WithJob
<1> QED
  BY <1>4, <1>5, <1>7 DEF HoleInv, KnownNow, KnownNext

LEMMA HoleStep ==
  ASSUME OnlyFirst, TypeInvP, HoleInv, [NextP]_allVars
  PROVE  HoleInv'
BY Steps, HoleCenter, HoleGetPattern, HoleRestart DEF TypeInvP

LEMMA HoleInitial == InitP => HoleInv
<1> SUFFICES ASSUME Init PROVE HoleInv
  BY DEF InitP
<1>1. \A d \in DI : file[d] = NoValue
  BY DEF Init
<1>2. KnownNow(Ripe)
  <2>1. step = [h \in Handle |-> NewTimeStep] /\ tasks = {} /\ pc = "loop"
    BY DEF Init
  <2> QED
    BY <2>1, WithinNewTimeStep DEF KnownNow, Known, WithJob
<1> QED
  BY <1>1, <1>2 DEF HoleInv

LEMMA HoleInvNoHole == HoleInv => NoHole
<1> SUFFICES ASSUME HoleInv, NEW v \in Patterned, NEW t \in 1..Horizon, file[<<v, t>>] # NoValue
             PROVE  file[<<v, t - 1>>] # NoValue
  BY DEF NoHole
<1>1. t \in 0..Horizon /\ t - 1 \in 0..(t - 1) /\ Horizon \in Nat
  BY PatternAssumption
<1>2. <<v, t>> \in Ripe
  BY <1>1, PatternedDI DEF HoleInv
<1> QED
  BY <1>1, <1>2 DEF Ripe

(* A patterned file is filled instant after instant, for any patterns,     *)
(* rules, order of evaluation, pings and moments the server stops at, when *)
(* static rules and other programs give at most the first instants.        *)
THEOREM NoHoleAlways ==
  ASSUME OnlyFirst
  PROVE  SpecP => []NoHole
<1>1. TypeInvP /\ HoleInv /\ [NextP]_allVars => (TypeInvP /\ HoleInv)'
  BY NextTypeInvP, HoleStep
<1>2. InitP => TypeInvP /\ HoleInv
  BY InitTypeInvP, HoleInitial
<1> QED
  BY <1>1, <1>2, HoleInvNoHole, PTL DEF SpecP

-----------------------------------------------------------------------------
(* The patterns of a timeline go on together.                              *)

LEMMA TogetherStep ==
  ASSUME TypeInvP, [NextP]_allVars, pc = "get", pc' # "get",
         NEW v \in patterns, NEW w \in patterns, NEW t \in 0..Horizon, Timeline[v] = Timeline[w],
         NEW here, here = <<StepOf[<<v, t>>], current'[StepOf[<<v, t>>]]>>,
         current'[StepOf[<<v, t>>]] # 0,
         <<v, t>> \in step'[here].variables, <<v, t>> \notin step[here].variables
  PROVE  \/ <<w, t>> \in step'[here].variables
         \/ history_length(w) > t
         \/ t > Walltime[w]
         \/ ~CanRealize(w, t)
<1> DEFINE d == <<v, t>>
           e == <<w, t>>
<1>1. v \in Patterned /\ w \in Patterned /\ d \in DI /\ e \in DI
  BY PatternedDI DEF TypeInvP
<1>2. StepOf[d] \in TS /\ StepOf[e] = StepOf[d]
  BY <1>1, ConstantsAssumption, PatternAssumption
<1>3. here \in Handle /\ StepId(here) = StepOf[d] /\ here[2] = current'[StepOf[d]]
  <2>1. TypeInvP'
    BY NextTypeInvP
  <2>2. current' \in [TS -> 0..MaxObjects]
    BY <2>1 DEF TypeInvP, TypeInv, TypeOK
  <2>3. MaxObjects \in Nat /\ current'[StepOf[d]] \in 0..MaxObjects
    BY <1>2, <2>2, CenterAssumption
  <2>4. current'[StepOf[d]] \in 1..MaxObjects
    BY <2>3
  <2> QED
    BY <1>2, <2>4 DEF Handle, StepId
<1>4. step[here] \in TimeStepRecord
  BY <1>3 DEF TypeInvP, TypeInv, TypeOK
<1>5. GetPattern
  <2>1. CASE Restart
    BY <1>2, <2>1 DEF Restart
  <2>2. CASE CenterStep
    <3>1. GetOne
      BY <2>2 DEF CenterStep, Worker, Run, RunReady, RunImpossible, RunUnmoved, RunRead, RunWrite,
        TestInteraction, Wait, ReportJob, ReportStatus, NotifyDone, NotifyUnblock, NotifyReturn,
        RegisterBlocked, SpuriousWake, ClientStepP, Open, Declare, Ping, Close, Notify, WriteFile,
        vars, workerVars
    <3>2. step'[here] \in {step[here], TakeJobs(CheckUnbound(step[here], data))}
      BY <1>3, <3>1 DEF GetOne
    <3>3. TakeJobs(CheckUnbound(step[here], data)).variables = step[here].variables
      BY <1>4, CheckUnboundEffect, AdmitNewEffect, TakeJobsEffect DEF SameParts
    <3> QED
      BY <3>2, <3>3
  <2> QED
    BY <2>1, <2>2, Steps
<1>6. current' = MapAfter /\ MapAfter[StepId(here)] = here[2]
  BY <1>3, <1>5, GetPatternStep
<1>7. step'[here].variables = StepAfter[here].variables /\ StepAfter[here] \in TimeStepRecord
  <2>1. StepAfter[here] \in TimeStepRecord
    BY <1>3, StepAfterType
  <2>2. here \in MappedAfter /\ CheckedAfter[here] = CheckUnbound(StepAfter[here], data)
    BY <1>3, <1>6 DEF MappedAfter, CheckedAfter
  <2>3. step'[here] = TakeJobs(CheckUnbound(StepAfter[here], data))
    BY <1>3, <1>5, <2>2, GetPatternStep
  <2> QED
    BY <2>1, <2>3, CheckUnboundEffect, AdmitNewEffect, TakeJobsEffect DEF SameParts
<1>8. d \in Added(StepOf[d]) /\ StepOf[d] \in Touched
  <2>1. AfterAsking[here] \in TimeStepRecord /\ AfterAsking[here].variables = step[here].variables
    BY <1>3, AfterAskingType DEF TypeInvP
  <2>2. Added(StepOf[d]) \in SUBSET Ruled
    BY RealizedType DEF Added, TypeInvP
  <2>3. /\ AddAll(AfterAsking[here], Added(StepOf[d])).variables = step[here].variables \cup Added(StepOf[d])
        /\ AddAll(NewTimeStep, Added(StepOf[d])).variables = Added(StepOf[d])
    <3>1. NewTimeStep \in TimeStepRecord /\ NewTimeStep.variables = {}
      BY WithinNewTimeStep DEF NewTimeStep
    <3>2. ASSUME NEW s \in TimeStepRecord, NEW ds \in SUBSET Ruled
          PROVE  AddAll(s, ds).variables = s.variables \cup ds
      BY AddAllEffect
    <3>3. AddAll(AfterAsking[here], Added(StepOf[d])).variables
            = AfterAsking[here].variables \cup Added(StepOf[d])
      BY <2>1, <2>2, <3>2
    <3>4. AddAll(NewTimeStep, Added(StepOf[d])).variables = NewTimeStep.variables \cup Added(StepOf[d])
      BY <2>2, <3>1, <3>2
    <3> QED
      BY <2>1, <3>1, <3>3, <3>4
  <2>4. d \in Added(StepOf[d])
    BY <1>3, <1>7, <2>1, <2>3, StepAfterType
  <2> QED
    BY <2>4 DEF Added, Touched
<1>9. Added(StepOf[d]) \subseteq step'[here].variables
  BY <1>3, <1>6, <1>7, <1>8, StepAfterType
<1>10. v \in InWalltime /\ t = history_length(v)
       /\ \A x \in InWalltime : Timeline[x] = Timeline[v] => history_length(v) <= history_length(x)
  BY <1>8 DEF Added, Realized
<1>11. history_length(w) \in Nat /\ Walltime[w] \in Nat /\ t \in Nat
  <2>1. history_length(w) \in 0..(Horizon + 1)
    BY <1>1, LengthOf
  <2>2. Horizon \in Nat /\ Walltime[w] \in 0..Horizon
    BY <1>1, PatternAssumption
  <2> QED
    BY <2>1, <2>2
<1>12. CASE w \notin InWalltime
  <2>1. history_length(w) > Walltime[w]
    BY <1>11, <1>12 DEF InWalltime
  <2> QED
    BY <1>11, <2>1
<1>13. CASE w \in InWalltime /\ history_length(w) # t
  BY <1>10, <1>11, <1>13
<1>14. CASE w \in InWalltime /\ history_length(w) = t /\ CanRealize(w, t)
  <2>1. e \in Realized
    BY <1>10, <1>14 DEF Realized
  <2>2. e \in Added(StepOf[d])
    BY <1>2, <1>14, <2>1 DEF Added
  <2> QED
    BY <1>9, <2>2
<1> QED
  BY <1>12, <1>13, <1>14

(* Whenever an instant of a timeline begins to be relaxed with one of its  *)
(* patterns, it is with all those whose next instant it is, whatever they  *)
(* are and whenever they have been declared.                               *)
THEOREM PatternsTogether == SpecP => Together
<1> DEFINE Step ==
      \A v \in patterns, w \in patterns : \A t \in 0..Horizon :
        LET d == <<v, t>>
            e == <<w, t>>
            here == <<StepOf[d], current'[StepOf[d]]>>
        IN  pc = "get" /\ pc' # "get" /\ Timeline[v] = Timeline[w] /\ current'[StepOf[d]] # 0
              /\ d \in step'[here].variables /\ d \notin step[here].variables
            => \/ e \in step'[here].variables
               \/ history_length(w) > t
               \/ t > Walltime[w]
               \/ ~CanRealize(w, t)
<1>1. TypeInvP /\ [NextP]_allVars => Step
  BY TogetherStep
<1>2. SpecP => []TypeInvP
  BY InitTypeInvP, NextTypeInvP, PTL DEF SpecP
<1>3. SpecP => [][Step]_allVars
  BY <1>1, <1>2, PTL DEF SpecP
<1> QED
  BY <1>3 DEF Together
=============================================================================
