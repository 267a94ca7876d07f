------------------------------ MODULE Patterns ------------------------------
(***************************************************************************)
(* The job center with the patterns (cxsomJobs.hpp, cxsomJobRule.hpp): a   *)
(* rule on a variable, which get_one realizes at the first instant the     *)
(* file of the variable does not hold, when nothing else is to be done.    *)
(* The server may stop at any time; the one started next finds the files.  *)
(*                                                                         *)
(* This module extends JobsCenter: a DI is a variable at an instant, and   *)
(* get_one is replaced by the whole of it.                                 *)
(***************************************************************************)
EXTENDS JobsProperties, Symbols, FiniteSetsExt

CONSTANTS
  Variable,     (* the variables                                            *)
  Timeline,     (* Timeline[v]: the timeline of v                           *)
  Horizon,      (* bound: the last instant                                  *)
  Patterned,    (* the variables a pattern updates                          *)
  InitPattern,  (* InitPattern[v]: the dated arguments of the init part     *)
  UsualPattern, (* UsualPattern[v]: those of the usual part                 *)
  Walltime,     (* Walltime[v]: the last instant the pattern is for         *)
  Static,       (* the DIs with a rule of their own                         *)
  MaxRestarts   (* bound: the restarts of the server                        *)

VARIABLES
  patterns,     (* the variables whose pattern has been declared            *)
  restarts      (* the restarts so far                                      *)

patternVars == <<patterns, restarts>>
allVars == <<vars, patternVars>>

(* The arguments of the pattern of v at t; when one is negative, nothing   *)
(* is realized.                                                            *)
CanRealize(v, t) ==
  /\ Realizable(UsualPattern[v], t)
  /\ Realizable(InitPattern[v], t)

(* The rules JobsCenter runs are the realizations of the patterns, and     *)
(* patterns do not update what other programs write.                       *)
ASSUME PatternAssumption ==
  /\ DI = Variable \X (0..Horizon)
  /\ Patterned \subseteq Variable
  /\ Static \subseteq Ruled
  /\ Horizon \in Nat /\ MaxRestarts \in Nat
  /\ \A d \in DI, e \in DI :
       StepOf[d] = StepOf[e] <=> Timeline[d[1]] = Timeline[e[1]] /\ d[2] = e[2]
  /\ \A v \in Patterned :
       /\ Walltime[v] \in 0..Horizon
       /\ \A t \in 0..Walltime[v] :
            /\ <<v, t>> \in Ruled \ Writable
            /\ CanRealize(v, t) =>
                 /\ UsualArgs[<<v, t>>] = Instances(UsualPattern[v], t)
                 /\ InitArgs[<<v, t>>] = Instances(InitPattern[v], t)

InitP == Init /\ patterns = {} /\ restarts = 0

-----------------------------------------------------------------------------
(* Variant of history_length: an empty file counts as its instant 0. *)
HighestAndOne(v) ==
  1 + Max({0} \cup {t \in 0..Horizon : file[<<v, t>>] # NoValue})

(* Center::history_length: the instant that follows the last one the file  *)
(* of v holds.                                                             *)
history_length(v) ==
  Max({0} \cup {t + 1 : t \in {i \in 0..Horizon : file[<<v, i>>] # NoValue}})

(* Variant of InWalltime: the walltime itself is not computed. *)
BeforeWalltime == {v \in patterns : history_length(v) < Walltime[v]}

(* The patterns that have not gone past their walltime. *)
InWalltime == {v \in patterns : history_length(v) <= Walltime[v]}

(* Variant of Realized: a pattern does not wait for those of its timeline. *)
RealizedAll == {<<v, history_length(v)>> : v \in InWalltime}

(* unprotected_realize_patterns: in each timeline, the patterns at the     *)
(* earliest instant some of them has to be updated at.                     *)
Realized ==
  {<<v, history_length(v)>> : v \in
     {w \in InWalltime :
        \A x \in InWalltime : Timeline[x] = Timeline[w] => history_length(w) <= history_length(x)}}

(* check_and_get comes before the arguments are dated: a timestep is built *)
(* even when the update is given up.                                       *)
Touched == {StepOf[d] : d \in Realized}

Added(t) == {d \in Realized : StepOf[d] = t /\ CanRealize(d[1], d[2])}

(* get_one when the tasks are exhausted: the timesteps that are done are   *)
(* removed, the others are asked for jobs.                                 *)
AfterAsking == [h \in Handle |-> IF h \in Asked THEN TakeJobs(CheckUnbound(step[h], data)) ELSE step[h]]

(* What is in the map once the patterns are realized.                      *)
MapAfter == [t \in TS |-> IF t \in Touched /\ Cleaned[t] = 0 THEN built[t] + 1 ELSE Cleaned[t]]

(* operator+= on each update of ds (Add), in any order. *)
AddAll(s, ds) ==
  LET added == ds \ s.variables
  IN  [s EXCEPT !.variables = @ \cup added,
                !.inits = @ \cup (added \cap WithInit),
                !.queues["New"] = @ \cup added]

StepAfter ==
  [h \in Handle |->
     LET t == StepId(h)
     IN  IF MapAfter[t] = h[2] /\ t \in Touched
         THEN AddAll(IF Cleaned[t] = 0 THEN NewTimeStep ELSE AfterAsking[h], Added(t))
         ELSE AfterAsking[h]]

NewUpdates == {d \in Realized : /\ CanRealize(d[1], d[2])
                                /\ \/ Cleaned[StepOf[d]] = 0
                                   \/ d \notin step[<<StepOf[d], Cleaned[StepOf[d]]>>].variables}

JobsOf(S, h) == {[step |-> h, of |-> j[1], phase |-> Content(S[h], j[1])[1], source |-> j[2]] : j \in Jobs(S[h])}

(* One of the tasks of T is run, or the worker goes to sleep. *)
Dispatch(T) ==
  \/ /\ T = {}
     /\ pc' = "wait"
     /\ EndFlushing
     /\ UNCHANGED <<tasks, job>>
  \/ \E t \in T : /\ tasks' = T \ {t}
                  /\ job' = t
                  /\ pc' = "run"
                  /\ flushing' = TRUE

(* get_one, with tasks left or jobs in the timesteps. *)
GetTask ==
  /\ Batch # {}
  /\ GetOne
  /\ UNCHANGED patternVars

(* get_one when there is none: the patterns are realized and all the       *)
(* timesteps asked again.                                                  *)
GetPattern ==
  /\ pc = "get"
  /\ Batch = {}
  /\ \A t \in TS : MapAfter[t] <= MaxObjects
  /\ LET mapped == {h \in Handle : MapAfter[StepId(h)] = h[2]}
         checked == [h \in Handle |-> IF h \in mapped THEN CheckUnbound(StepAfter[h], data) ELSE StepAfter[h]]
     IN  /\ current' = MapAfter
         /\ built' = [t \in TS |-> Max({built[t], MapAfter[t]})]
         /\ upd' = [u \in UpdateId |-> IF Result(u) \in NewUpdates THEN NewObject ELSE upd[u]]
         /\ step' = [h \in Handle |-> IF h \in mapped THEN TakeJobs(checked[h]) ELSE checked[h]]
         /\ Dispatch(UNION {JobsOf(checked, h) : h \in mapped})
  /\ UNCHANGED <<data, file, blockees, seen, report, stack, clientVars, patternVars>>

OtherWork ==
  /\ TestInteraction \/ Wait \/ Run \/ ReportJob \/ ReportStatus
       \/ NotifyDone \/ NotifyUnblock \/ NotifyReturn \/ RegisterBlocked
  /\ UNCHANGED patternVars

WorkerP == GetTask \/ GetPattern \/ OtherWork

(* Center::operator+=(const pattern::Update&), in an updates command. *)
DeclarePattern(c, v) ==
  /\ client[c] = "update"
  /\ IntegrityFree
  /\ patterns' = patterns \cup {v}
  /\ UNCHANGED <<vars, restarts>>

-----------------------------------------------------------------------------
(* The DIs an update_status in progress is about to set ready. *)
AboutToBeReady ==
  {{}} \cup (IF pc = "status" THEN {SetReadyBy(step[job.step], data)} ELSE {})
       \cup (IF pc = "notify"
             THEN {SetReadyBy(s, data) : s \in
                     {r \in {Unblock(step[h], stack[Len(stack)].done) : h \in stack[Len(stack)].todo} :
                        r.blockers = {}}}
             ELSE {})

FromFile(f, S) ==
  [d \in DI |-> [avail |-> IF d \in S THEN "Ready" ELSE "Busy",
                 date  |-> 0,
                 val   |-> IF f[d] # NoValue THEN f[d] ELSE Default]]

(* Variant of Reopened: the file is created anew. *)
AsNew(f) == FromFile(f, {})

(* The instances a new server builds from the files.                       *)
Reopened(f) == FromFile(f, {d \in DI : f[d] # NoValue})

(* The server stops, possibly between the writes of two files by           *)
(* update_status, and is started again: the instances are read from the    *)
(* files when rules mention them.                                          *)
Restart ==
  /\ restarts < MaxRestarts
  /\ restarts' = restarts + 1
  /\ \E ready \in AboutToBeReady : \E S \in SUBSET NowReady(ready) :
       file' = [d \in DI |-> IF d \in S THEN data[d].val ELSE file[d]]
  /\ data' = Reopened(file')
  /\ upd' = [u \in UpdateId |-> NewObject]
  /\ step' = [h \in Handle |-> NewTimeStep]
  /\ current' = [t \in TS |-> 0]
  /\ built' = [t \in TS |-> 0]
  /\ tasks' = {}
  /\ blockees' = [t \in TS |-> {}]
  /\ interaction' = FALSE
  /\ flushing' = FALSE
  /\ pc' = "loop"
  /\ job' = IdleTask
  /\ seen' = data'
  /\ report' = "None"
  /\ stack' = <<>>
  /\ client' = [c \in Client |-> "idle"]
  /\ declared' = {}
  /\ patterns' = {}
  /\ UNCHANGED sessions

ClientStepP(c) ==
  \/ \E what \in {"update", "ping"} : Open(c, what)
  \/ \E d \in Static : Declare(c, d)
  \/ Ping(c)
  \/ Close(c)
  \/ Notify(c)

NextP ==
  \/ WorkerP
  \/ /\ \/ SpuriousWake
        \/ \E c \in Client : ClientStepP(c)
        \/ \E d \in DI : WriteFile(d)
     /\ UNCHANGED patternVars
  \/ \E c \in Client : \E v \in Patterned : DeclarePattern(c, v)
  \/ Restart

SpecP == InitP /\ [][NextP]_allVars

(* get_one takes no step that waits, and returns; the other steps of the   *)
(* worker and those of the clients are weakly fair, but to take the mutex, *)
(* which is strongly fair.                                                 *)
FairnessP ==
  /\ []<>(pc # "get")
  /\ WF_allVars(OtherWork)
  /\ \A c \in Client :
       WF_allVars(Ping(c) /\ UNCHANGED patternVars)
       /\ WF_allVars(Close(c) /\ UNCHANGED patternVars)
       /\ SF_allVars(Notify(c) /\ UNCHANGED patternVars)

FairSpecP == SpecP /\ FairnessP

-----------------------------------------------------------------------------
(* The file of a variable a pattern updates is filled instant after        *)
(* instant: whatever is declared, pinged or restarted in between, no       *)
(* instant is left behind, since a pattern never goes back to it           *)
(* (the next instant to compute is read from the file).  Static rules and  *)
(* other programs that give later instants may leave holes: see OnlyFirst  *)
(* in PatternsProofs.                                                      *)
NoHole ==
  \A v \in Patterned : \A t \in 1..Horizon :
    file[<<v, t>>] # NoValue => file[<<v, t - 1>>] # NoValue

(* What is in a file stays there, also when the server stops between two   *)
(* writes of the end of a timestep and a new one, which starts from the    *)
(* files alone, relaxes the rest of that timestep again.                   *)
FileIsFinal ==
  [][\A d \in DI : file[d] # NoValue => file'[d] = file[d]]_allVars

(* The variables of a timeline go on together: an instant of a timeline is *)
(* given to the relaxation with all its patterns, unless they are past     *)
(* that instant or their walltime, or have no such arguments yet.          *)
Together ==
  [][\A v \in patterns, w \in patterns : \A t \in 0..Horizon :
       LET d == <<v, t>>
           e == <<w, t>>
           here == <<StepOf[d], current'[StepOf[d]]>>
       IN  pc = "get" /\ pc' # "get" /\ Timeline[v] = Timeline[w] /\ current'[StepOf[d]] # 0
             /\ d \in step'[here].variables /\ d \notin step[here].variables
           => \/ e \in step'[here].variables
              \/ history_length(w) > t
              \/ t > Walltime[w]
              \/ ~CanRealize(w, t)]_allVars

(* A simulation runs to its walltimes: once all rules are declared, every  *)
(* pattern fills the file up to its last instant, through the timesteps    *)
(* that wait for other ones, unless a declaration came too late for its    *)
(* timestep (Stranded) or the server stops.                                *)
RunsToWalltime ==
  (patterns = Patterned /\ Static \subseteq declared)
    ~> (\/ Stranded
        \/ patterns # Patterned
        \/ \A v \in Patterned : history_length(v) > Walltime[v])
=============================================================================
