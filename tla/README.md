# cxsom in TLA+

cxsom runs simulations made of *variables* that take successive values. The value
of a variable at one instant is a *data instance* (DI); the DIs of one timeline
at one instant form a *timestep*. Rules say how a DI is computed from others. A
server keeps the rules, evaluates the timesteps (possibly by relaxation, when DIs
of the same timestep depend on each other) and stores every value in a file that
other programs (the Python package `pycxsom`, viewers) read and sometimes write.

This directory holds TLA+ specifications of that server and of its scheduler, TLC runs that check them
on small simulations, and proofs checked by TLAPS. It also holds models of what
is around the server: the language rules are written in, the builder of
architectures of self-organizing maps that writes them, the operations they apply. Line numbers below refer to
`src/`.

## The system

| part | where | state | operations |
|---|---|---|---|
| update evaluation | `cxsom/src/cxsomUpdate.hpp` | result and arguments with the dates and availability last seen, `updated_once`, `out_ok` | `operator()`, `set_ready`, `blockers_range`, `sync_arguments_availability` |
| timestep | `cxsom/src/cxsomTimeStep.hpp` | five queues of updates, status, blockers, unbound arguments known ready | `+=`, `check_unbound`, `get_jobs`, `report`, `update_status`, `notify_unblock`, `clear_blocking_info` |
| job center | `cxsom/src/cxsomJobs.hpp` | the timesteps, the tasks handed out, patterns, blockees, the interaction flag, two mutexes, one condition variable | `worker_thread`, `get_one`, `+=`, `clear`, `clear_blocking_info`, `interaction_lock`, `interaction_release`, the notifications of timesteps |
| processor server | `cxsom/src/cxsom-processor.hpp` | one thread per connection | `declare`, `updates` (static, pattern), `ping`, `clear` |
| symbols and patterns | `cxsomSymbols.hpp`, `cxsomJobRule.hpp`, `cxsomJobs.hpp` | the pattern of each variable | instance of a pattern at a time, realization at the history length of the results |
| operations | `cxsomOperation.hpp` | what an operation keeps from one computation to the next: the values read, sums, extrema, a deadline | `on_computation_start`, `on_read_out_arg`, `on_read_out_arg_aborted`, `on_read_in_arg`, `on_write_result`; the checks of types |
| types of data | `cxsomData.hpp` | none | parsing, sizes |
| rule language | `cxsom-rules.hpp`, `cxsomRuleDefs.hpp` | a context: types, rules, init parts | `<<`, `<=`, `rename`, `send` |
| architecture builder | `cxsom-builder/src` | maps and their layers | `realize`, `expand_relax`, `frozen` |
| variables | `cxsomVariable.hpp` | a ring-buffer file per variable, a cache of instances, a reader/writer scheme per instance | `realize`, `read`, `write`, `sync`, `history_length`, `get`, `set` |
| Python realizations | `pycxsom/pycxsom/variable.py` | the same file | `__getitem__`, `__setitem__` |
| scheduling | `sked/src`, `skednet/src` | queues of threads waiting for their turn, with or without acknowledgment, an exclusive-writer scope | `flush`, `go_ahead`, `done`, `enter`, `leave` |
| protocol text, logs, viewers | `cxsomProtocol*.hpp`, `cxsomLog.hpp`, `pycxsom`, ... | none that the rest depends on | parsing, output and display |

How they interact. A client connection is a thread: it opens an interaction
(`interaction_lock` raises a flag the workers test), sends rules that end up in
the *New* queue of their timestep, or a ping, and closes the interaction, which
needs `job_mutex` to notify the workers. A worker keeps `job_mutex` while it works:
it asks `get_one` for a task, evaluates the update, reports to the timestep
(which moves the update to another queue and may end), notifies the timesteps that
the end unblocks, and registers its timestep with those that block it. Commands
and `get_one` exclude each other by `integrity_mutex`; evaluations and reports run
without it. Ready values go to files; another program may fill the file of a DI,
which a ping makes the server look at. When a worker finds no job, the patterns are
realized: each becomes a rule of the first instant that the file of its result
does not hold. A client program gathers its types and rules in a context, by hand or through the
builder, and sends them all when it ends; the server checks the types of each rule
and refuses it, or keeps it.

What is hard: the commands interleave with every step of an evaluation and of a
report; blocked timesteps depend on notifications that are registered late;
a relaxation confirms updates that later changes must put in question again;
files are read by others while they are written, by a server whose own view of the
header may be late; operations keep partial results between computations that are
given up and start again. The list of hazards, each at its
line with the properties about it, is in `PROJECT.json`.

## The modules

* `Update` — the constants that describe a simulation (the DIs, their timesteps,
  the arguments of the init and usual parts of the rules, what they compute) and
  the evaluation of one update as operators: which arguments moved
  (`notify_datation`), whether there is anything to compute, the new date, the
  new instance and the report.
* `TimeStep` — one timestep as a record, and its operations as operators on it.
  A queue is the set of the DIs whose updates it holds.
* `JobsCenter` — the state machine: the worker (one at a time is out of its wait,
  see below), the clients, the files. One action per operation or per stretch of
  it that runs without giving others a chance to come in between.
* `JobsProperties` — what is checked of it.
* `History` — the abstract specification of a variable: the highest instant and
  the values of the last instants. `VarFile` — the circular buffer of its file
  and its header (`data::File`), which implements `History`. `Realize` — the same file
  as pycxsom writes it (`__setitem__`), which does not implement `History` (see
  *Disagreements*). `FileSharing` — the same file written by the
  server step by step while another program reads it, and found again by a server
  that restarts; it takes the positions from two instances of `VarFile`, one for
  the header the server has in memory and one for the reader's.
* `InstanceLock` — `get`, `sync` and `set` of `data::Instance`: who may be in
  them together.
* `SkedXRSW` — the threads of the scheduling server and its main loop: the two
  double-buffered, acknowledged queues of readers and writers.
* `Symbols` — dates that are absolute or relative to an instant. `Patterns` — the job
  center with the rules on variables, which extends `JobsCenter` and
  `JobsProperties`: the whole of `get_one`, and a server that stops and is
  started again on the files.
* `Cache` — the instances of a variable that the server has in memory, over its file,
  which the server writes by `VarFile` or a Python program by `Realize`.
* `Types` — the types of data, how they are parsed, and what each operation asks of
  the types of its arguments and result. `Operations` — the operations themselves, in
  the evaluation cycle of an update.
* `Rules` — the context of a client program and the calls of the language, as
  operators on it. `Builder` — the calls that the builder makes for maps and layers.
  `Programs` — programs made of such calls, by hand or by the builder, the server
  that receives their rules and the timesteps these make. It composes `Rules`,
  `Builder` and `Types`.
* `JobsProofs`, `CenterProofs`, `PatternsProofs`, `CacheProofs` (with the proofs of `VarFile`
  and `InstanceLock`), `FileSharingProofs`, `XRSWProofs`, `OperationsProofs`,
  `ProgramsProofs` — the theorems.
* `MCRelax`, `MCRedo`, `MCUnbound` — the simulations TLC runs
  on the job center: they give values to the constants of `Update`, and the
  `.cfg` files give the numbers and the properties. `MCPatterns`, `MCVarFile`,
  `MCFileSharing`, `MCInstance`, `MCSkedXRSW`, `MCCache`, `MCOperations`,
  `MCMinMax`, `MCPrograms` do it for the other modules.

### The job center

How the state corresponds to the code. `data` is the in-memory `data::Instance`
of each DI, `file` what its file holds when it is ready; `upd` the objects
`update::Base` (one for the init, one for the usual part of a rule); `step` the
`timestep::Instance` objects by handle, `current` the map `timesteps`; `tasks`,
`blockees` and `interaction` are the fields of the same name; `flushing` is
`flushing_tasks_in_progress`. `pc`, `job`, `seen`, `report` and `stack` are the
locals of the worker: what it is doing, its task, what an evaluation read before
it writes, the report and the nested calls of `notify_done`.

Only one worker is modelled whatever their number: a worker holds `job_mutex`
from its test of the flag to the end of its job, and releases it only in
`pending_jobs.wait`; the others are all in that wait or waiting for the mutex,
and take no step. `nb_ongoing_processes` is then 1 exactly while a job runs.

Abstractions: the order of updates inside a queue, and of tasks inside a batch,
is left open, so that every order is checked; a payload is a member of a small
set and an operation a function of its arguments (`ComputeAssumption`); a write is
significant when it changes the value; a timestep is its rank in the map. Each
evaluation reads all its arguments in one step and writes in another, which is
where a ping can come in between.

### Files

A slot of `VarFile` holds the flag and the value of an instant; *Absent* is a slot
after the end of a file that grows as it is written. Each branch of `File::write`
is an operator (`WriteNothing` without slots, `WriteFirst`, `WritePast`,
`WriteFuture`), and `Read` is `File::read` with its four answers. Calls exclude
each other there, as the mutex of `data::Variable` makes them do in the server.

`FileSharing` drops this for a program that opens the same file. One step of the
server is what one `seekp` or `flush` sends: the cleared slots with the flag down,
the two halves of the content, the flag, the highest instant, the next free
position. The reader takes the header in two steps, then a flag, then the two
halves. The value of an instant is the instant itself, so that a value tells where
it comes from. `headers` and `overtaken` are history variables of the
properties. The server may stop at the program counters in `Crashes`; `Restart` is
`realize` on an existing file.

### Patterns

A DI is a variable and an instant, and the rules `JobsCenter` runs are those that the
patterns give at each instant (`PatternAssumption`). `Realized` is
`unprotected_realize_patterns`: in each timeline, the patterns at the earliest instant
one of them is at, the history length of its result. `GetPattern` is the rest of
`get_one` when the timesteps have no job: the timesteps that are done are erased, the
realized updates are added to the timesteps, which may be new, and all are asked for
jobs again. A pattern one argument of which would have a negative date is given up by
an exception, after its timestep has been made. `Restart` stops the server anywhere, possibly when
`update_status` has made some of the results ready and not yet the others; the next
server knows the files only.

### The cache

`highest_time` and `next_free_pos` are the header in the file, `s_highest` and `s_next`
what the server last read of it; a second instance of `VarFile` gives the file as the
server sees it. `instances` is the cache (`cached`) with what updates refer to
(`held`, the `use_count` of a shared pointer). A call is one step, the mutexes of the
center, the variable and the instance making it so. A value is its instant.

Who writes is chosen once: the server (`set`), or a Python program (`ClientWrites`), with
the tests of `__setitem__`, which are not those of `File::write`. Its first write fills
the whole buffer when `at > file_size`. At the instant `file_size` itself it
goes to the slot after the buffer, and leaves the next free position after that slot;
other writes may go there too, until one comes back into the buffer. With `file_size` 2,
a first write at 2 goes to slot 2 and sets the next free position to 3; the next one, at 3, goes to
slot 1 and clears slot 0, where the instant 2, still one of the last two, is then
read: it is busy again. The history variable `lost` collects these
instants: those whose slot was after the buffer (`Strays`) when a later one was written. Only
they are left out of `ReadyIsInFile`, `ReadyStays` and `SeesTheWrite`; what was put after the
buffer and is still the highest instant is not, since it is read right.

### Operations and types

One rule at a time, whose arguments are of its timestep (*in*), of others (*out*) or
the result itself (*self*). `mem` is what the object of the operation keeps;
`Evaluate` is `update::Base::operator()` with the calls it makes to the operation. Reals are
integers of which `One` is 1; the kernels and the convolution are functions with the
same shape.

Where a cell is, is computed as floating point numbers do. `rounded` is the
closest number with as many bits as a significand has (`Precision` is 2 to that power), ties
to even; `One` is a power of two, so that the numbers below 1 are integers of the same
kind. The position of a cell is its index times `coef`, the rounded inverse of the side less one
(`BmuAt`, `GridPoint`), and that product is rounded; value-at multiplies the position by the side less
one, rounds, and drops the decimals (`Step`): for some cells it finds the one
before. With doubles this is so on 259 of the sides from 2 to 399 (8 is the
smallest), and the cell after is never found. A draw among winners is a choice. `significant` is what `on_write_result`
returns. `Fits` says what the classes need of the types they cast and the buffers they
walk, `WellTyped` what the server checks: the two come from different code.

### Programs

A context is a record and the calls are operators on it; a call that throws leaves its
name in `error`. A method of the builder is the sequence of the calls it makes.
`Programs` lets a program of a few calls be made by hand, with timelines, name spaces
and renamings, or makes the calls that the builder writes for an architecture: the simulation
(`main`), the relaxation spread over instants (`relax`), the outputs for given weights (`frozen`).
Each call is a step, and so is each rule that is then sent: the session stays open while
some are left (`unsent`). The server takes or refuses each rule, and a timestep is completed, all at once,
when all that its rules read is ready: what a timestep does inside is the matter of
`JobsCenter`.

### Instances and turns

In `InstanceLock` a step ends where a mutex is released; `write_mutex` is held
between the test of `writing` and the count of the reader, which are two steps
because `set` touches `writing` without it. In `SkedXRSW` a thread is *picked*
when it has chosen the back queue, *announced* when it has notified the main
thread, *asleep* when it is registered, then *locking* (a writer), *in*, and
*leaving* until it acknowledges; the main thread swaps the queues, tests the size,
notifies, and waits. `SpuriousSpec` adds the wake-ups the standard allows.

## The runs

Every bound is a constant: `MaxObjects`, how often a timestep may be built;
`MaxSessions`, how many interactions are opened. Two sessions are enough to
declare some rules while others run or are asleep, or to ping a running
simulation; every set of rules may be declared in every order, in any split
between the sessions. `Value` holds the values the rules of the run produce.
`MCVarFile` has four slots and ten instants, enough to go round the buffer twice
and to jump over all of it from any position; `MCFileSharing` three slots and five
instants, so that slots are reused while they are read. A file without
slots (`WriteNothing`) is covered by the theorems on `VarFile`, not by a
run. The server of `sharing` stops in the content of a slot or before its flag; what
happens when it stops later is listed below.

`MCPatterns` has two variables that relax together and a third one in another timeline, which
reads them and is read at the instant before, over two instants, with one restart.
`MCCache` has four instants, a file of two and a cache of one or two, so that the file
and the cache forget, separately, and a Python program may write the instants 2 and 3 and lose the
first. Two writes in a row after the buffer need an instant more than the run can afford; the
theorems on `Cache` cover them. `MCOperations` evaluates every operation, with one
argument at least of each kind where it has several, values with one or several maxima
apart or within the tolerance, and two moves of the arguments; the
types are checked for all rules with up to three arguments over lines, squares and
contents of several widths. A significand has 5 bits there, instead of 53, and the maps
of the argmax have 2, 3 or 8 cells on a side: with 5 bits, 8 is the first side on which value-at
reads the cell before that of the winner (cell 5 is read as 4, in a line, a row or a
column), as it is with 53. `min` and `max` have arguments of one kind there, because of
the disagreement below. `MCPrograms` has programs of four calls over two variables and
two name spaces, and 98 architectures of two maps: layers that learn at
home or elsewhere or not at all, that read the present or the past, external or
contextual, one or two of each.

Deadlock is checked in the runs of the job center (a sleeping worker can always wake
spuriously), of the patterns, of the shared file and of the instance. It is not checked for the
file and the cache, where the instants run out, nor for operations and programs, which
end, nor for the queues, where the main thread and all
clients may sleep for ever (see below).

| run | what it shows |
|---|---|
| `relax` | Two timesteps, the second with an init and two updates that read each other; another program may fill the first with the value its rule computes. Types; an update is in one queue and marked while a task is in hand; a confirmed update has seen the last change of its arguments; a skipped computation would not change the result; what is ready is what the file holds; an interaction ends; everything declared is computed, unless it was declared too late for its timestep, in one of the two ways named by `Stranded`. |
| `redo` | Two clients whose interactions overlap, a timestep that ends and is built again. No lost notification, no sleep on work, the writer scope brackets the evaluations. |
| `unbound` | Two DIs filled by another program. No DI becomes ready on busy grounds, ready values never change, a ping revives what waited. |
| `var_file` | Writes in any order: the file holds exactly the values of the last instants, and a read says so. |
| `sharing` | A reader that has a whole header, and whose slot is not reused meanwhile, reads the value of its instant; a server that stopped before the flag of a slot finds no value under another instant. |
| `instance` | Nobody sleeps on a condition that holds, and the writer gets in although readers keep coming. |
| `sked` | Two readers and two writers: writers exclude each other, readers and writers keep apart, everyone gets a turn as long as the main thread is not left asleep. |
| `patterns` | Patterns and a server that stops: the files of the patterns have no hole and keep what they have, the patterns of a timeline go on together, and all run to their walltimes. |
| `cache` | An instance is never twice in memory; what is ready is what the file has for that instant, even with a late header, and stays; what a Python program writes is seen. All but the instants that the Python class loses. |
| `operations` | An accepted rule stays inside the values it reads and writes; a result is the function of all the arguments as they are, in whatever order they came; argmax and learning mean the same cell and value-at, in spite of the rounding, that one or the one before it in its row and its column; no change is silent; results settle. |
| `archi` | Rules keep their results and their init parts through renaming and sending; what the builder writes is accepted, and completes, unless layers share weights, or timesteps wait for each other; the spread relaxation needs no relaxation. |

One run shows a disagreement between the code and what its comments and documents say:
`min_max`. A minimum or a maximum reads the arguments of other timesteps once, as
`cxsomUpdate.hpp:490-493` says, and forgets them at its next computation
(`cxsomOperation.hpp:264`), so that a rule with arguments of both kinds gives the
extremum of the others alone.

### Disagreements without a run

Met while modelling; no run keeps them.

* A relaxation can end on values that are not stable: an update that ends with a new
  value does not unsettle the confirmed ones (`cxsomTimeStep.hpp:608`).
* `notify_done` keeps the blockees it has notified: two timesteps that ended, blocked each
  other and are notified again recurse into each other without end (`cxsomJobs.hpp:101`).
* The first write of the Python class tests `at > file_size` where the C++ code tests
  `>=`: at the instant equal to the size it goes after the buffer
  (`variable.py:222`), and its next write makes the instant busy, that readers have seen ready. A
  reader, or the server at its next `sync`, sees this. `Cache` does it, with the instants in `lost`.
* A reader that has tested the flag before a writer raised it reads while the writer
  writes (`cxsomVariable.hpp:1037`).
* All threads may acknowledge between the notification and the wait of `flush`, which
  then sleeps for ever (`skedQueue.hpp:138`); `TurnComes` supposes it does not.
* value-at compares each *byte* of the new value with each component of the previous
  one (`cxsomOperation.hpp:1963`): what it reports is unrelated to the change. In
  `Operations` it may say anything, and `NoSilentChange` leaves it aside.
* value-at may read the cell before that of the winner, in its row, its column or both
  (`cxsomOperation.hpp:1948`, `1290`): the integer part of a product of rounded numbers. No
  document says that it does not. `Operations` does it, and `NearCell` says how far it
  goes: never after, never outside, and not along a side less one that is a power of two.
* The check of *pair* tests its first argument twice (`cxsomOperation.hpp:2297`), that of
  *average* accepts maps of any content while it adds one double per cell (line 319).
  `TypeSafe` leaves both aside.
* The language has `toward_bmu` (`cxsomRuleDefs.hpp:408`), which no server knows.
* A renaming gives the type of the first variable to the second, whatever the second was
  declared with (`cxsom-rules.hpp:199`).
* A rule refused by the server ends the client in the middle of what it sends, and
  `process_updates` by an exception, without `interaction_release`
  (`cxsom-processor.hpp:138`): the workers wait until another session ends. In `Programs` the
  session stays `open` after a refusal, until another one ends; no property says that the
  workers go on, since nothing makes another client come, and `StuckOnlyOnCycles` speaks of
  closed sessions and programs none of whose rules was refused.
* A pattern given without walltime has walltime 0 (`cxsomJobRule.hpp:112`).
* In the builder, an external layer on a map reads by default the present winner of that
  map, and the timestep waits for itself (`cxsombuilderMap.hpp:591`). Layers that share
  their weights make the analyses throw, and so does their learning twice. The analyses
  suppose weights of the layer: others are not defined for them. `Cyclic`,
  `SharedWeights` and `NotCovered` in `Programs` name these cases, and
  nothing else stops what the builder writes.
* A forgotten instant of a file is *ready* with the content of a new value when its
  instance is built (`availability_of`), and neither ready nor busy when it is
  synchronized (`cxsomVariable.hpp:923`): such an instance is not looked at again. A server
  with a late header may read the slot of another instant (line 699). A result that was
  forgotten is made ready in memory and not in the file (line 1048).
* A rule declared when its timestep is *Done* but not cleaned yet is lost with it
  (`cxsomJobs.hpp:379`); a timestep stays *Unbound* after the argument it missed has
  been bound by a later declaration (`cxsomTimeStep.hpp:503`). `Completes` names
  both as the only ways a rule is stranded in `relax`.
* The end of one client's interaction resumes the workers during another's
  (`cxsomJobs.hpp:620`).
* While the init part of a rule is pending, a ping does not look at the arguments
  of its usual part (`cxsomTimeStep.hpp:413`). A ping that comes while an update is
  evaluated does not look at its arguments either, and a later one must: between an
  evaluation that finds an update impossible and its report, it may even make ready what the update
  missed, which the report then registers as blocked by a timestep that nobody will end.
  `NoLostUnblock` leaves aside what another program fills for that reason.
* When a declaration makes a timestep *Unbound*, `update_status` returns before it
  moves the confirmed updates back to the stable ones (`cxsomTimeStep.hpp:275`): they
  stay confirmed while others change. If nothing is unstable when the timestep is bound again,
  they are not checked again, and it ends with values that are not what their rules
  compute. It takes two rules declared late, each with an argument that another program has
  not filled yet. Take A computed from B, B from A, C from B. C is
  confirmed; B changes while E, from X, has been declared, so that C stays confirmed; X
  is filled and a ping relaxes the timestep; F, from Y, is declared while E and B are evaluated,
  and B reports that it is up to date; once Y is filled, the timestep ends with
  the value C had before B changed. The instances of the runs have too few rules to show it;
  `ConfirmedStable` (see the proofs) says that it is the only way `ConfirmedIsStable` fails, when other programs fill only the
  files of DIs no rule updates.
* Blockers are whole timesteps: two of them wait for each other although their rules
  have no cycle (`cxsomTimeStep.hpp:290`).
* An evaluation overwrites a value that a ping has just made ready from the file
  (`cxsomUpdate.hpp:342`), when another program fills a DI that a rule updates with
  another value than the rule's.
* The header of a file is in two parts (`cxsomVariable.hpp:630`): a reader that comes
  in between, or a server that restarts after it stopped there, computes every
  position one off. A server that stops between the flag of a reused slot and the
  header finds the new value under the old instant. A reader that has tested a flag
  may get a content that is half one value and half another when the buffer comes
  round.
* `sync` fills the content of an instance while it counts as a reader
  (`cxsomVariable.hpp:1004`).
* A reader that wakes without being notified reads while a writer writes
  (`skedQueue.hpp:127`); `SpuriousSpec` is there to state what still holds.

### Fairness

`FairSpec` of the job center: weak fairness of the worker, which is a thread that
keeps running, and of the end of an interaction; strong fairness of the notification,
since the client needs `job_mutex`, which the worker releases each time it
waits. Nothing makes a client open an interaction or another program write a
file, and spurious wake-ups are not relied upon. `Completes` and `PingRevives` are
conditional on what must come from outside; `InteractionEnds` holds because the
relaxation of that run converges. `InstanceLock`: threads keep running, and the one
that sets gets `write_mutex`, which others hold for one step at a time; there is one,
because the workers evaluate one update at a time under `job_mutex`. `SkedXRSW`:
the main thread and the threads keep running, and a writer gets a mutex that is
released again and again; nobody has to ask for a turn. `Patterns` adds to the job
center that `get_one` returns. `Cache`: a program that has written pings the server,
which looks again at what is waited for. `Operations`: the updates of a timestep that is
not stable are evaluated again; nothing makes the arguments move or get ready.

### Mutants

Every checked property has a mutant of a mapped definition that breaks it
(`PROJECT.json`, `mutants`); the mutated forms are defined next to the definitions,
as variants.

## The proofs

Each holds for every value of the constants that the assumption of its module
allows.

`JobsProofs` (`ConstantsAssumption`, `ComputeAssumption`, `CenterAssumption`):

* `TypeCorrect`: `Spec => []TypeOK`. The types are not inductive alone: `WorkerOK`
  says that the worker has a task from the moment it gets one until it has
  registered its timestep, and that it has a call to return from while it
  notifies. The lemmas before it give the type of each operator on update objects
  and timesteps; the proof has one step per action.
* `ReadyFiled`: `Spec => []ReadyIsFiled`, and `ReadyFinal`: `Spec => ReadyIsFinal`,
  under the assumption that other programs fill only the files of DIs no rule
  updates (without it an evaluation may overwrite a ready value, see above). The
  inductive invariant `FileInv` adds that a ruled DI is ready in memory whenever its
  file is, so that a ping cannot make the result of the evaluation in progress
  ready, and that this result stays busy until it is written.
* `QueuedOnceAlways`: `Spec => []QueuedOnce`. The invariant `TaskInv` adds three facts.
  `Placed` says that the updates handed out are in the queues jobs are taken from,
  *Unstable* and *Stable*, so that no change of status loses one, and that queued
  updates are known, so that a declaration does not queue them again. The task that
  runs is not in the deque any more. A timestep object that is not built yet has no task in
  hand. One lemma per operator on timesteps says that it keeps `Placed` and what it
  does to the marks; the steps follow, most of them from `KeepsTasks`.
* `ScopeBrackets`: `Spec => []WriterScope`. `ScopeInv` says why a worker may wait inside
  the scope: a client is not idle, and is going to wake it.
* `SleepsIdle`: `Spec => []SleepsOnlyWhenIdle`. `SettledInv` says that the status of a
  timestep follows from its queues (none that relaxes or checks has an impossible
  update, none that checks has a stable one, none has confirmed ones alone), but for the one
  whose report is in progress;
  then a batch that is empty is the sign that no timestep has work. `ParkInv` and
  `ScopeInv` say why a worker that waits during an interaction is going to be woken.
* `ReadyGrounded`: `Spec => []ReadyIsGrounded`. `Grounded` relates one timestep to the
  instances: the in-arguments of an update that has left *New* are results of the
  timestep or are ready, its known updates are queued or ready, and the
  out-arguments of the confirmed ones are ready. All that is left when a timestep ends is
  then confirmed, and its results become ready together. The other parts of `GroundInv` say what
  the evaluation in progress may rely on: `out_ok` is never wrong, a result that is
  written or reported was computed from ready out-arguments.

`CacheProofs`, on `VarFile` (`VarFileAssumption`: any size, zero included, instants up to any bound or all of them):

* `FileKeepsHistory`: `VarFile` implements `History`, with the mapping that reads the
  value of an instant through its position. The inductive invariant, also called
  `FileInv`, is the types with `Covered`: a slot in the buffer is never after the
  end of the file, and the next free position is inside the buffer. The lemmas say
  that positions are in the buffer and that two instants of it never share one;
  first and future writes are brought to one form, `Moves`, from which the history
  follows.
* `FileReadsHistory`: a read answers what the history says.

`CacheProofs`, on `Cache` (`CacheAssumption` too):

* `CacheIsShared`: `CacheSpec => []OneInstance`. `CacheInv` adds that every instance,
  used or not, is in the cache: what leaves it is used by nobody, and ends. The sizes
  and the content of the file play no part.
* `ReadyFiledHere`: `CacheSpec => []ReadyIsInFile`, over the same lemmas on
  positions and writes. `Sound` says of an instance that its instant is not after
  the end of the file unless it is busy, and has its own value in the file for as long as it is
  there. What makes it inductive is `LateHeader`: the header in the memory of the server may
  be late, when a Python program writes, but an instant that the file still has, and has not lost,
  is at the same position through both headers, so that a read through the late one is right or
  is of an instant that has left. `OwnHeader` says that it is never late when the server
  writes the file itself, and then never beyond the buffer, and `Instants` that a slot that is ready has the
  value of its instant. Since the writer may be `__setitem__`, `FileInv` of `VarFile` does not hold; two
  regimes replace it: `Within`, the next free position is in the buffer, as the C++ code
  keeps it, and `Beyond`, it is after the buffer, where the first write or
  one that follows it has put the highest instant.
* `ReadyForever`: `CacheSpec => ReadyStays`, the action property, from the same
  invariant: an instance that is ready keeps its status and its value while it exists.
  Only `sync` could change one that is ready, and it reads the slot of the instant, where
  `Sound` has its value (`ReadyUnlessBusy`, `ReadyKept`).

`CacheProofs`, on `InstanceLock` (`InstanceAssumption`: any finite number of threads):

* `NobodySleepsForNothing`: `LockSpec => []NoLostWakeUp`, also when threads wake by
  themselves. It needs that `nb_readers` is the number of the readers that are in
  (`LockInv`): the last one to leave is then the one that wakes the writer.

`FileSharingProofs` (`SharingAssumption`: any size but zero, any number of instants), when
the server does not stop inside the header (`HeaderWhole`):

* `ServerReads`: `Spec => []ServerReadsTheInstant`. `ServerInv` says that neither the header in
  memory nor the one that the write in progress will make finds a value under another
  instant (`PlaceInv`): the slot is busy until its content is whole (`ContentInv`), and the
  two headers have the instants of both at the same positions, so that a write that
  is given up leaves the old header right. The header in the file is the one in
  memory until the slot is ready (`HeaderInv`): a server that starts again before
  that finds it.
* `ReaderReads`: `Spec => []ReadsTheInstant`. `ReaderInv` adds that every header ever written has
  the instants that are still in the buffer where the server has them (`OldInv`), that
  `overtaken` misses no write of the slot that is read (`KeptInv`), and that a slot
  whose flag was read stays ready and as it is (`ReadInv`). A header read in
  two parts of different writes, if it was none of the headers written, never becomes
  one, since the highest instant only grows.

The hypothesis `HeaderWhole` is needed: a server that stops after the flag and
before the end of the header leaves a ready slot that the old header gives to an
instant that has left (see *Disagreements*).

`XRSWProofs` (`XRSWAssumption`: any finite number of readers and writers):

* `QueueTypes` and `WritersWriteAlone`, also when threads wake by themselves
  (`SpuriousSpec`). `QueueInv` is the types, `MutexInv` (the writer in is the one
  that has the mutex) and `CountInv`: the size of a queue is the number of the
  threads registered in it that have not acknowledged.
* `ReadersKeepApart` and `FlushHasWaited`, when they wake only if notified. `RunInv`
  says that only threads of the queue being flushed run, and none between two
  flushes: it follows from `CountInv` when a size is zero.

`CenterProofs` (over the invariants of `JobsProofs`):

* `UnblockNotLost`: `Spec => []NoLostUnblock`. The heart is `Blocking`: each blocker of a
  timestep of the map has not ended (`Live`), or is notifying and has not come to that timestep yet
  (`Pending`), or left the out-argument of an impossible update busy (`Waits`).
  It rests on `Registered` (a blocker is registered, or the report that found it is not
  over), `NoticedBusy` (what the evaluation noted as busy still is when it is
  reported, or another program fills it), `HandPhase` (a task is for the part of the rule that its timestep
  would hand out now) and `IdleInv` (a timestep that is done makes nothing ready). The
  steps to prove are few: when a value becomes ready, its timestep goes on or is about to notify
  (`ReadyTells`); when a blocker ends, it is about to notify (`EndTells`); what is pending stays so
  until it is given (`PendingKept`).

* `SkipSound`: `Spec => []SkipIsSound`, when other programs fill only the files of DIs no
  rule updates. The invariant is `Traced`: the value of a result
  that is computed and not ready is what its rule computes from some values of its arguments,
  and these are still the values of all the arguments its object does not find moved.
  An evaluation establishes it, with what it has read (`WriteTraced`), although a ping may come
  between the read and the write. It lasts because an instance does not change unless its
  date gets later or it becomes ready (`Later`), and because what an object has seen is
  behind what the instances are (`DatesPast`, `AvailabilityPast`): a change is seen
  (`MovedSeen`). The exception is a ping, which notes availabilities in objects without an
  evaluation, and would hide a change. `FirstTime` excludes it: an update that is new,
  impossible or whose init part is to be done has never been computed, and a ping
  only looks at those.
* `ConfirmedStable`: `Spec /\ []BoundConfirmed => []ConfirmedIsStable`, under the same
  assumption. `BoundConfirmed` says that no
  timestep is *Unbound* with confirmed updates; without it the property is false
  (see *Disagreements*). `ConfInv` says that a confirmed update has seen the dates of all its
  in-arguments that are not ready (`Steady`), or that the report in progress
  is about to take it back (`Restless`): the only write that outdates an object is of a
  new value, which is reported *Updated*, in the same timestep. `SteadyReport`
  says that what is reported up to date has seen all dates.

`PatternsProofs` (`PatternAssumption` too), over the invariants of `JobsProofs`, which
`CenterStepIsNext` brings to the steps that are neither `GetPattern` nor `Restart`. `TypeInvP`
adds that only the patterns of the simulation are declared:

* `FileFinal`: `SpecP => FileIsFinal`, when other programs fill only the files of DIs no rule
  updates. A restart makes a new `data` out of the files, some of them written at the
  last moment; `FileInv` still holds (`RestartFiles`), and says that these were empty.
* `NoHoleAlways`: `SpecP => []NoHole`, under `OnlyFirst`: static rules and other programs
  give at most the instant 0 of a patterned variable. (A static rule without arguments on a
  later instant is run as soon as it is declared, and leaves a hole.) A hole cannot be excluded
  from the files alone, since a value that is relaxed now is in them later. `HoleInv`
  says that all the DIs the server knows of, in the timesteps, the tasks and the job in
  progress, are `Ripe`: the instants before are in the file. One lemma per operator on
  timesteps says that it adds nothing (`Within`); `RealizedIsRipe` that a pattern is realized where it is
  allowed to; `CenterFills` which files a step fills.
* `PatternsTogether`: `SpecP => Together`. Only `GetPattern` makes a timestep begin with a
  pattern, and it takes all those of the timeline that are at their earliest instant.

The patterns need the greatest element of a set of instants; `MaxOf` gives it from the
well-foundedness of the naturals.

`OperationsProofs` (`RuleAssumption`: rules on types that the parser can make;
`KindsAssumption`: an argument that is the result has its type, and values are between the
bounds a min and a max start from; `RoundingAssumption`: `One` is a power of two, any number of
bits in a significand; `SidesAssumption`: the maps that are evaluated have more than one
cell on a side, the position of a single one being 0/0 in the code, at most a quarter
of `Precision` more or less, and `One` is large enough for the positions):

* `AcceptedIsSafe`: `Spec => []TypeSafe`, from `AcceptedFits`, operation by operation: what
  its checker accepts is what its class needs, whatever the widths, the sides and the
  number of arguments. The runs try a few sides and widths.
* `ChangeIsTold`: `Spec => NoSilentChange`, operation by operation (`SignificantTold`), for
  any contents and parameters. It needs no invariant: an evaluation compares what it
  writes with what it replaces.
* `ResultIsOfArguments`: `Spec => []FunctionOfArguments`, for any operation, types, values
  and number of arguments. `OperationsInv` says what is in the memory of an operation
  between two evaluations, by the way it keeps what it reads: the last value of each argument
  (`Keeps`), the extrema (`Extremum`), or the sums (`Adds`). Once the out-arguments have been read,
  what is kept of them is theirs and complete (`OutsIn`), which is what an evaluation
  that reads only the in-arguments rests on; before, an attempt that is given up leaves a
  memory from which the next one starts well (`Aborted`). `Gathered` says what
  the loops of one evaluation have in hand, `Written` that what is then computed is the
  operation. The hypothesis `OneKind` (the arguments of a min or a max are all read once, or
  none is) is needed: without it the property is what `min_max` finds to be false.
* `NearTheWinner`: `Spec => []NearCell`, for maps of any side that `SidesAssumption` allows
  and any precision (in doubles, sides up to a quarter of 2^53), from the previous
  invariant, under `OneKind` too. A rounding is off by a part of `Precision` at most
  (`RoundedClose`), and does nothing to a number that has few enough bits (`RoundedExact`).
  After three of them, the inverse of the side less one, its product by the index of the winner and that
  of the position by the side less one, what is left is less than one from the
  index (`Squeezed`), so that its integer part is the index or the one before (`StepNear`);
  when the side less one is a power of two nothing is rounded (`StepExact`). `Places` and
  `CellNear` take this to rows and columns, and `KernelsPeak` says that a learning around
  the position, which goes through the same products, is highest at the winner.

The loops are recursive functions over indices. No theorem of the library gives an
induction that the provers can use, but that < is well-founded on the naturals can be applied
to the set of the indices where something fails: `Induction` says so for a set, `Recursion`
that the loop has values, and the facts about sums and readings follow.

`ProgramsProofs` (`BuilderAssumption`, `ProgramsAssumption`: any names, walltimes and patterns;
architectures of any size, since the calls of the builder are those of the language):

* `InitsArrive`: `Spec => []InitsReachTheirRules`. `Good` says of a context that every
  rule is filed under the key of its own result, and that every rule of the init part has
  one of the usual part: a call that would break this throws. `SendInv` adds that what the
  server has, and what is left to send, are together the messages of the context.
* `RenameSound`: `Spec => RenameKeepsRules`: a renaming loses no rule and changes only
  names. It needs `AllData`: an identifier of a program made by hand is a datum, a
  name and a date, so that a renaming that is not refused merges no two
  (`NowInjective`), and names all the occurrences of one alike (`PairedSame`).
* `RelaxationIsInOrder`: `Spec => []RelaxationIsUnfolded`, for any number of maps and layers.
  `ArchitecturesAssumption` says that the user makes finitely many maps, layers
  and variables, as a program does. `Level` is the order in which an instant is computed: the
  activities of the layers, their merges, the whole activity, the winner. `DefinedFine`
  follows `expand_relax` call by call: what a rule reads at the instant of its result is of a
  lower level, and what comes from the other maps is of another instant. `RelaxInv` adds that the
  rules of the context keep it (`ApplyLeveled`: a rule enters only as its call
  wrote it). Then the variables that wait lose at each turn those of the least level
  (`LeastIsDone`), and there are finitely many.

What is checked by TLC only:

* liveness and what depends on fairness, out of reach of the backends used;
* `BuilderIsAccepted` and `StuckOnlyOnCycles` of `Programs`: whether a rule is doubled, or its
  type known, is whether two names that the builder composes are the same, and the
  provers know nothing of strings that are put together; a timestep that waits on a cycle
  is moreover the end of a run, which depends on all the steps of the server before it;
* `ConfirmedIsStable` without the hypothesis of `ConfirmedStable`, false in general.

## Not modelled

* `clear` of the processor server. It destroys the variables before the updates, whose
  instances keep plain pointers to their variables (`cxsom-processor.hpp:50`), while a
  worker may be in the middle of a job: what happens then is not defined by the code.
* Logs, monitor, viewers and Python clients: output and display. The text of the
  protocol: parsing and printing; the sessions are modelled, not their words.
* The messages between the clients of the scheduler and its threads
  (`skednetProtocol.hpp`, `skednetScope.hpp`, `xrsw.cpp`): `SkedXRSW` models the
  threads of the server, which those messages drive one to one.
* The numerical detail of the values that operations compute: floating points are
  modelled where they decide a cell, and nowhere else.
* `terminated_ts`, which is written and never read.
* In `Programs`, the parameters of rules but the walltime, and the caches and sizes of
  files. In `Patterns`, a pattern that replaces another of the same variable.

## Plan

The modules of the plan are written, in this order: the core (`Update`, `TimeStep`,
`JobsCenter`), the file (`History`, `VarFile`, `FileSharing`), the lock of an instance and
the scheduling queues, then the patterns, the cache, the operations and their types, the
rule language and the builder. What is left, the most important first:

1. **Theorems**: `BuilderIsAccepted` of `Programs`, with names as tuples instead of
   strings, so that the provers can tell them apart.
2. **The scheduling protocol**: client and server of a scope, broken connections,
   `interaction` that swallows the error, composed with `SkedXRSW`.
3. **Composition**: the job center over files that forget (`JobsCenter` with `Cache`).
