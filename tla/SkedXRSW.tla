------------------------------ MODULE SkedXRSW ------------------------------
(***************************************************************************)
(* The scheduling of readers and writers (sked/src/skedQueue.hpp,          *)
(* skedXRSW.hpp, and the main loop of skednetService.hpp).                 *)
(*                                                                         *)
(* Threads that serve a reader or a writer register in a queue and sleep;  *)
(* the main thread flushes the writers, then the readers.  Each kind has   *)
(* two acknowledged queues: threads register in the back one, which        *)
(* becomes the front one when it is flushed.  Writers take a mutex too.    *)
(*                                                                         *)
(* A step is what runs without releasing a mutex or reading what another   *)
(* thread writes.  A mutex that is released by the step that takes it, or  *)
(* by going to sleep on it, has no variable.                               *)
(***************************************************************************)
EXTENDS Integers, FiniteSets

CONSTANTS
  Readers,    (* the threads that serve a reader                            *)
  Writers,    (* the threads that serve a writer                            *)
  None        (* nobody has the mutex                                       *)

ASSUME XRSWAssumption ==
  /\ IsFiniteSet(Readers) /\ IsFiniteSet(Writers)
  /\ Readers \cap Writers = {}
  /\ None \notin Writers

Thread == Readers \cup Writers
Role   == {"writer", "reader"}
role(t) == IF t \in Writers THEN "writer" ELSE "reader"
Side   == {"a", "b"}
other(s) == IF s = "a" THEN "b" ELSE "a"

VARIABLES
  back,         (* the side of the back queue of each role                  *)
  size,         (* how many threads each queue counts                       *)
  pc,           (* where a thread is                                        *)
  side,         (* the queue a thread has picked                            *)
  exec_mutex,   (* the writer that has the mutex of serial                  *)
  main,         (* where the main thread is in flush                        *)
  flushing      (* the role that the main thread flushes                    *)

vars == <<back, size, pc, side, exec_mutex, main, flushing>>

Init ==
  /\ back = [r \in Role |-> "b"]
  /\ size = [r \in Role |-> [s \in Side |-> 0]]
  /\ pc = [t \in Thread |-> "out"]
  /\ side = [t \in Thread |-> "b"]
  /\ exec_mutex = None
  /\ main = "swap"
  /\ flushing = "writer"

(* The queue the main thread flushes. *)
front == other(back[flushing])

InFront(t) == role(t) = flushing /\ side[t] = front

Goto(t, where) == pc' = [pc EXCEPT ![t] = where]

-----------------------------------------------------------------------------
(* The threads: go_ahead of double_buffered::queue, of ack::queue and of   *)
(* serial, then the job, then done of the three.                           *)

pick(t) ==
  /\ pc[t] = "out"
  /\ side' = [side EXCEPT ![t] = back[role(t)]]
  /\ Goto(t, "picked")
  /\ UNCHANGED <<back, size, exec_mutex, main, flushing>>

(* Variant of WakeMain: the main thread does not test the size again. *)
WakeOnce(t) ==
  main' = IF main = "asleep" /\ InFront(t) THEN "swap" ELSE main

(* check_activity.notify_one: the main thread tests the size again. *)
WakeMain(t) ==
  main' = IF main = "asleep" /\ InFront(t) THEN "test" ELSE main

go_ahead(t) ==
  /\ pc[t] = "picked"
  /\ WakeMain(t)
  /\ Goto(t, "announced")
  /\ UNCHANGED <<back, size, side, exec_mutex, flushing>>

Count(t, n) == size' = [size EXCEPT ![role(t)][side[t]] = @ + n]

register(t) ==
  /\ pc[t] = "announced"
  /\ Count(t, 1)
  /\ Goto(t, "asleep")
  /\ UNCHANGED <<back, side, exec_mutex, main, flushing>>

Awake(t) == IF t \in Writers THEN "locking" ELSE "in"

spurious_wake(t) ==
  /\ pc[t] = "asleep"
  /\ Goto(t, Awake(t))
  /\ UNCHANGED <<back, size, side, exec_mutex, main, flushing>>

(* Variant of lock: the mutex is not taken. *)
lockNothing(t) ==
  /\ pc[t] = "locking"
  /\ Goto(t, "in")
  /\ UNCHANGED <<back, size, side, exec_mutex, main, flushing>>

lock(t) ==
  /\ pc[t] = "locking"
  /\ exec_mutex = None
  /\ exec_mutex' = t
  /\ Goto(t, "in")
  /\ UNCHANGED <<back, size, side, main, flushing>>

(* The job ends, or the connection with the client does. *)
leave(t) ==
  /\ pc[t] = "in"
  /\ exec_mutex' = IF t \in Writers THEN None ELSE exec_mutex
  /\ Goto(t, "leaving")
  /\ UNCHANGED <<back, size, side, main, flushing>>

done(t) ==
  /\ pc[t] = "leaving"
  /\ Count(t, -1)
  /\ WakeMain(t)
  /\ Goto(t, "out")
  /\ UNCHANGED <<back, side, exec_mutex, flushing>>

-----------------------------------------------------------------------------
(* The main thread: flush of xrsw::queue, of double_buffered::queue and of *)
(* ack::queue.  It starts again with the writers, after a sleep or not.    *)

(* Variant of swap: the queues keep their sides. *)
noSwap ==
  /\ main = "swap"
  /\ main' = "test"
  /\ UNCHANGED <<back, size, pc, side, exec_mutex, flushing>>

swap ==
  /\ main = "swap"
  /\ back' = [back EXCEPT ![flushing] = other(@)]
  /\ main' = "test"
  /\ UNCHANGED <<size, pc, side, exec_mutex, flushing>>

test_size ==
  /\ main = "test"
  /\ IF size[flushing][front] > 0
     THEN main' = "notify" /\ UNCHANGED flushing
     ELSE /\ main' = "swap"
          /\ flushing' = IF flushing = "writer" THEN "reader" ELSE "writer"
  /\ UNCHANGED <<back, size, pc, side, exec_mutex>>

notify_all ==
  /\ main = "notify"
  /\ pc' = [t \in Thread |-> IF pc[t] = "asleep" /\ InFront(t) THEN Awake(t) ELSE pc[t]]
  /\ main' = "wait"
  /\ UNCHANGED <<back, size, side, exec_mutex, flushing>>

wait ==
  /\ main = "wait"
  /\ main' = "asleep"
  /\ UNCHANGED <<back, size, pc, side, exec_mutex, flushing>>

spurious_main ==
  /\ main = "asleep"
  /\ main' = "test"
  /\ UNCHANGED <<back, size, pc, side, exec_mutex, flushing>>

-----------------------------------------------------------------------------
Serve(t) == go_ahead(t) \/ register(t) \/ lock(t) \/ leave(t) \/ done(t)
flush    == swap \/ test_size \/ notify_all \/ wait

Next ==
  \/ flush
  \/ \E t \in Thread : pick(t) \/ Serve(t)

Spec == Init /\ [][Next]_vars

(* The same where threads may also wake without being notified, as the     *)
(* standard allows: the waits of the queues test no condition.             *)
SpuriousNext == Next \/ spurious_main \/ \E t \in Thread : spurious_wake(t)

SpuriousSpec == Init /\ [][SpuriousNext]_vars

(* Threads keep running, and a mutex that is released again and again is   *)
(* not kept from a writer for ever.  Nobody has to ask for a turn.         *)
FairSpec ==
  /\ Spec
  /\ WF_vars(flush)
  /\ \A t \in Thread : WF_vars(Serve(t)) /\ SF_vars(lock(t))

-----------------------------------------------------------------------------
TypeOK ==
  /\ back \in [Role -> Side]
  /\ size \in [Role -> [Side -> Nat]]
  /\ pc \in [Thread -> {"out", "picked", "announced", "asleep", "locking", "in", "leaving"}]
  /\ side \in [Thread -> Side]
  /\ exec_mutex \in Writers \cup {None}
  /\ main \in {"swap", "test", "notify", "wait", "asleep"}
  /\ flushing \in Role

In(t)      == pc[t] = "in"
Running(t) == pc[t] \in {"locking", "in", "leaving"}

(* Only one writer writes at a time (skedXRSW.hpp:7).                      *)
WritersAlone == \A t, u \in Writers : In(t) /\ In(u) => t = u

(* No reader reads while a writer writes, although nothing but the order   *)
(* of flush and the sizes of the queues keeps them apart.                  *)
ReadersApart == \A t \in Readers, u \in Writers : ~(In(t) /\ In(u))

(* When a flush ends, all the threads it has awoken have acknowledged.     *)
FlushWaits == main = "swap" => \A t \in Thread : ~Running(t)

(* A thread that asks for its turn gets it, as long as flush does not      *)
(* sleep for ever: those that keep asking do not make it endless.          *)
TurnComes ==
  []<>(main # "asleep") => \A t \in Thread : pc[t] = "picked" ~> In(t)
=============================================================================
