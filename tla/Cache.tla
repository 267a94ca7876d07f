-------------------------------- MODULE Cache --------------------------------
(***************************************************************************)
(* A variable in the memory of the server (data::Variable, data::Instance, *)
(* data::Center in cxsomVariable.hpp): its file, the header of the file as *)
(* the server last read it, and the instances it keeps of it, some of them *)
(* used by updates and the others not.                                     *)
(*                                                                         *)
(* A call is one step, as the mutexes of Center, Variable and Instance     *)
(* make it; the file is that of VarFile, and either the server writes it,  *)
(* by the rules of the variable, or a Python program does, by Realize.     *)
(* The value of an instant is the instant itself, so that a content tells  *)
(* which instant it is of.  A call that raises an exception changes        *)
(* nothing: it is left out.                                                *)
(***************************************************************************)
EXTENDS Realize, FiniteSetsExt

CONSTANTS
  Type,       (* the types a program may declare                            *)
  NoType,     (* there is no file                                           *)
  CacheSize,  (* the sizes of cache a program may declare                   *)
  NoSize      (* ... and none of them                                       *)

ASSUME CacheAssumption == Value = Time /\ CacheSize \subseteq Nat \ {0} /\ NoSize \notin Nat

VARIABLES
  writer,               (* "server" or "client": who writes the file        *)
  type, cache_size,     (* the rest of the header in the file               *)
  loaded,               (* the server knows the variable                    *)
  s_highest, s_next,    (* the header in the memory of the server           *)
  s_cache,
  instances,            (* the instances in the memory of the server        *)
  lost                  (* history: the instants that were after the buffer *)
                        (* when a later one was written                     *)

disk   == <<slot, highest_time, next_free_pos, type, cache_size>>
memory == <<s_highest, s_next, s_cache>>
allVars == <<writer, disk, loaded, memory, instances, lost>>

(* The file as the server sees it, through the header it has. *)
S == INSTANCE VarFile WITH highest_time <- s_highest, next_free_pos <- s_next

(* An instance: its instant, its status (with the value that a forgotten   *)
(* instant gets, once cast), its content (a draft until it is ready),      *)
(* whether it is in the cache and whether an update uses it.               *)
Draft == NoValue

Cached == {x \in instances : x.cached}

CacheInit ==
  /\ Init
  /\ writer \in {"server", "client"}
  /\ type = NoType /\ cache_size = NoSize
  /\ loaded = FALSE
  /\ s_highest = NoTime /\ s_next = 0 /\ s_cache = NoSize
  /\ instances = {}
  /\ lost = {}

-----------------------------------------------------------------------------
(* File::realize. *)

(* The file is created. *)
Create(t, c) ==
  /\ type = NoType
  /\ c # NoSize
  /\ type' = t
  /\ cache_size' = c
  /\ UNCHANGED <<slot, highest_time, next_free_pos>>

(* It is there, of the same type: only the size of the cache is changed,   *)
(* if it is given.                                                         *)
Retrieve(t, c) ==
  /\ type = t
  /\ cache_size' = IF c = NoSize THEN cache_size ELSE c
  /\ UNCHANGED <<slot, highest_time, next_free_pos, type>>

realize(t, c) == Create(t, c) \/ Retrieve(t, c)

(* The server has the header of the file. *)
HeaderRead == s_highest' = highest_time' /\ s_next' = next_free_pos' /\ s_cache' = cache_size'

(* Center::check, for a variable the server does not know yet: otherwise   *)
(* it changes nothing.                                                     *)
check(t, c) ==
  /\ ~loaded
  /\ loaded' = TRUE
  /\ realize(t, c)
  /\ HeaderRead
  /\ UNCHANGED <<writer, lost, instances>>

(* Center::get_var and touch_var: the variable of a file is known when it  *)
(* is looked for.                                                          *)
get_var ==
  /\ ~loaded
  /\ type # NoType
  /\ loaded' = TRUE
  /\ UNCHANGED <<disk, writer, lost, instances>>
  /\ HeaderRead

(* Variable::history_length. *)
history_length ==
  /\ loaded
  /\ UNCHANGED <<disk, writer, lost, loaded, instances>>
  /\ HeaderRead

(* Center::clear: the updates, and the instances that they use, go with    *)
(* the variables.                                                          *)
clear ==
  /\ loaded
  /\ loaded' = FALSE
  /\ instances' = {}
  /\ UNCHANGED <<writer, lost, disk, memory>>

-----------------------------------------------------------------------------
(* The cache. *)

(* Variant of Unused: whatever uses it. *)
AnyCached == Cached

(* Those that only the cache refers to (use_count). *)
Unused == {x \in Cached : ~x.held}

(* The instances that remove_oldest removes. *)
oldest(nb) == {x \in Unused : Cardinality({y \in Unused : y.at < x.at}) < nb}

(* What is left when the instances in R leave the cache: they end, unless  *)
(* they are used.                                                          *)
Without(R) == (instances \ R) \cup {[x EXCEPT !.cached = FALSE] : x \in {x \in R : x.held}}

(* An update that is given an instance uses it, or lets it go at once.     *)
Use(x, h) == [x EXCEPT !.held = @ \/ h]

Hit(at, h) ==
  \E x \in Cached :
    /\ x.at = at
    /\ instances' = (instances \ {x}) \cup {Use(x, h)}
    /\ UNCHANGED <<writer, lost, disk, loaded, memory>>

(* availability_of: a forgotten instant is ready, with the content of a    *)
(* new value.                                                              *)
availability_of(a) == IF a = "Busy" THEN "Busy" ELSE "Ready"

Content(a, at) == IF a = "Ready" THEN S!SlotOf(at).val ELSE Draft

ToRemove == Cardinality(Cached) + 1 - Max({s_cache, 1})

Build(at, h) ==
  LET a == S!Read(at)
  IN  /\ \A x \in Cached : x.at # at
      /\ instances' = Without(oldest(ToRemove))
                      \cup {[at |-> at, status |-> availability_of(a), val |-> Content(a, at),
                             cached |-> TRUE, held |-> h]}
      /\ UNCHANGED <<writer, lost, disk, loaded, memory>>

(* Center::operator[], Variable::instance. *)
instance(at, h) == loaded /\ (Hit(at, h) \/ Build(at, h))

(* The update is destroyed. *)
Release(x) ==
  /\ x.held
  /\ instances' = (instances \ {x}) \cup {y \in {[x EXCEPT !.held = FALSE]} : y.cached}
  /\ UNCHANGED <<writer, lost, disk, loaded, memory>>

(* Variable::clean_up. *)
clean_up ==
  /\ loaded
  /\ instances' = Without(Unused)
  /\ UNCHANGED <<writer, lost, disk, loaded, memory>>

-----------------------------------------------------------------------------
(* Instance::sync, when a ping makes an update look again at an argument.  *)
(* The header is read again; the availability in the file is cast.         *)

(* The instance x as the file has it through a header. *)
Synced(x, a, v) == [x EXCEPT !.status = a, !.val = IF a = "Ready" THEN v ELSE @]

(* Variant of sync: with the header as it was known. *)
sync_unread(x) ==
  /\ x.held
  /\ instances' = (instances \ {x}) \cup {Synced(x, S!Read(x.at), Content(S!Read(x.at), x.at))}
  /\ UNCHANGED <<writer, lost, disk, loaded, memory>>

sync(x) ==
  /\ x.held
  /\ UNCHANGED <<disk, writer, lost, loaded>>
  /\ HeaderRead
  /\ instances' = (instances \ {x}) \cup {Synced(x, Read(x.at), IF Read(x.at) = "Ready" THEN SlotOf(x.at).val ELSE Draft)}

(* Variant of Evaluable: a result is evaluated whatever its status. *)
AnyResult(x) == x.held

(* An update evaluates its result if it is not ready. *)
Evaluable(x) == x.held /\ x.status # "Ready"

(* File::write by the server changes the header it has, and that of the    *)
(* file; an instant that is ready or forgotten there is left alone.        *)
Writable(at) == file_size = 0 \/ s_highest = NoTime \/ at > s_highest \/ (S!Readable(at) /\ S!SlotOf(at).flag = "busy")

declare_ready(at) ==
  /\ IF Writable(at) THEN S!Write(at, at) ELSE UNCHANGED <<slot, s_highest, s_next>>
  /\ highest_time' = s_highest'
  /\ next_free_pos' = s_next'
  /\ UNCHANGED <<type, cache_size, s_cache>>

(* Variant of declares: the file is never written. *)
never_declares(x, ready) == FALSE

(* A busy instance that becomes ready goes to the file. *)
declares(x, ready) == ready /\ x.status = "Busy"

(* Instance::set, by the update of x: a draft, or the value. *)
set(x, ready) ==
  /\ writer = "server"
  /\ Evaluable(x)
  /\ instances' = (instances \ {x})
                  \cup {[x EXCEPT !.status = IF ready THEN "Ready" ELSE @, !.val = IF ready THEN x.at ELSE Draft]}
  /\ IF declares(x, ready) THEN declare_ready(x.at) ELSE UNCHANGED <<disk, memory>>
  /\ UNCHANGED <<writer, lost, loaded>>

-----------------------------------------------------------------------------
(* A Python program, with a Realize of its own: it makes the file or       *)
(* changes the size of the cache, and writes.                              *)
Client(t, c) == realize(t, c) /\ UNCHANGED <<writer, loaded, memory, instances, lost>>

ClientWrites(at) ==
  /\ writer = "client"
  /\ type # NoType
  /\ setitem(at, at)
  /\ lost' = lost \cup IF highest_time' = highest_time THEN {} ELSE Strays
  /\ UNCHANGED <<writer, type, cache_size, loaded, memory, instances>>

CacheNext ==
  \/ \E t \in Type, c \in CacheSize \cup {NoSize} : check(t, c) \/ Client(t, c)
  \/ get_var \/ history_length \/ clear \/ clean_up
  \/ \E at \in Time, h \in BOOLEAN : instance(at, h)
  \/ \E at \in Time : ClientWrites(at)
  \/ \E x \in instances : Release(x) \/ sync(x) \/ \E ready \in BOOLEAN : set(x, ready)

Resync(t) == \E x \in instances : x.at = t /\ x.status = "Busy" /\ sync(x)

(* A program that has written pings the server, which looks again at the   *)
(* arguments that are waited for.                                          *)
CacheSpec ==
  /\ CacheInit /\ [][CacheNext]_allVars
  /\ \A t \in Time : WF_allVars(Resync(t))

-----------------------------------------------------------------------------
(* Two updates that are given the same instant are given the same instance *)
(* as long as one of them has it: the cache never drops an instance that   *)
(* is used, to build another one later (remove_oldest, use_count).         *)
OneInstance == \A x, y \in instances : x.at = y.at => x = y

InFile(t) == highest_time # NoTime /\ t <= highest_time /\ is_past_in_buffer(highest_time - t)

(* What is ready in memory is in the file or has left it; as long as it is *)
(* there it has the same value and the one of its instant, whatever is     *)
(* evicted and built again, and even when the header of the server is late *)
(* (set, instance, sync).  Only what __setitem__ has put after the buffer, *)
(* by a first write at the instant file_size, is lost by its next write.   *)
ReadyIsInFile ==
  \A x \in {x \in instances : x.status = "Ready"} :
    /\ highest_time # NoTime /\ x.at <= highest_time
    /\ InFile(x.at) /\ x.at \notin lost => x.val = x.at /\ Read(x.at) = "Ready" /\ SlotOf(x.at).val = x.at

(* An instance that is ready stays so, with its value, in the hands of the *)
(* updates that use it, as long as it is in the file and was not lost:     *)
(* "determined (forever)" (cxsomVariable.hpp:60).                          *)
ReadyStays ==
  [][\A x \in instances, y \in instances' :
       x.at = y.at /\ x.held /\ y.held /\ x.status = "Ready" /\ InFile(x.at)' /\ x.at \notin lost' =>
         y.status = "Ready" /\ y.val = x.val]_allVars

(* What a Python program writes is seen by the update that waits for it,   *)
(* unless the file forgets or loses it before or the update ends           *)
(* (Instance::sync after a ping).                                          *)
SeesTheWrite ==
  \A t \in Time :
    (\E x \in instances : x.at = t /\ x.held /\ x.status = "Busy" /\ Read(t) = "Ready")
      ~> \/ \E x \in instances : x.at = t /\ x.held /\ x.status = "Ready"
         \/ ~InFile(t) \/ t \in lost
         \/ \A x \in instances : x.at = t => ~x.held
=============================================================================
