----------------------------- MODULE XRSWProofs -----------------------------
(***************************************************************************)
(* Writers and readers keep apart, however many they are.                  *)
(***************************************************************************)
EXTENDS SkedXRSW, FiniteSetTheorems, TLAPS

(* The writer that has the mutex is the one that writes, and only writers  *)
(* take it.                                                                *)
MutexInv ==
  /\ \A t \in Writers : In(t) => exec_mutex = t
  /\ \A t \in Thread : pc[t] = "locking" => t \in Writers

(* The threads a queue counts. *)
Counted(r, s) ==
  {t \in Thread : role(t) = r /\ side[t] = s /\ (pc[t] = "asleep" \/ Running(t))}

CountInv == \A r \in Role, s \in Side : size[r][s] = Cardinality(Counted(r, s))

(* Only threads of the queue being flushed run. *)
RunInv == \A t \in Thread : Running(t) => InFront(t) /\ main # "swap"

QueueInv == TypeOK /\ MutexInv /\ CountInv

-----------------------------------------------------------------------------
LEMMA ThreadsFinite == IsFiniteSet(Thread)
BY XRSWAssumption, FS_Union DEF Thread

LEMMA CountedFinite ==
  ASSUME NEW r, NEW s
  PROVE  /\ IsFiniteSet(Counted(r, s))
         /\ Cardinality(Counted(r, s)) \in Nat
         /\ Cardinality(Counted(r, s)) = 0 <=> Counted(r, s) = {}
<1>1. Counted(r, s) \subseteq Thread
  BY DEF Counted
<1>2. IsFiniteSet(Counted(r, s))
  BY <1>1, ThreadsFinite, FS_Subset
<1> QED
  BY <1>2, FS_CardinalityType, FS_EmptySet

LEMMA RoleSides ==
  /\ \A t : role(t) \in Role
  /\ \A s \in Side : other(s) \in Side /\ other(s) # s /\ other(other(s)) = s
  /\ \A s, u \in Side : u # s => u = other(s)
BY DEF role, Role, Side, other

(* A step that moves one thread between two places that are both counted,  *)
(* or both not, changes no count.                                          *)
LEMMA SameCount ==
  ASSUME TypeOK, CountInv, size' = size, side' = side, TypeOK',
         \A t \in Thread : (pc[t] = "asleep" \/ Running(t)) <=> (pc[t] = "asleep" \/ Running(t))'
  PROVE  CountInv'
<1>1. \A r \in Role, s \in Side : Counted(r, s)' = Counted(r, s)
  BY DEF Counted
<1> QED
  BY <1>1 DEF CountInv

(* A thread that registers is counted from then on.                        *)
LEMMA CountUp ==
  ASSUME TypeOK, CountInv, NEW t \in Thread, side' = side,
         pc[t] = "announced", Goto(t, "asleep"), Count(t, 1)
  PROVE  CountInv' /\ size' \in [Role -> [Side -> Nat]]
<1> DEFINE r0 == role(t)
           s0 == side[t]
<1>1. r0 \in Role /\ s0 \in Side
  BY RoleSides DEF TypeOK
<1>2. size[r0][s0] \in Nat
  BY <1>1 DEF TypeOK
<1>3. size' = [size EXCEPT ![r0][s0] = size[r0][s0] + 1]
  BY DEF Count
<1>4. size' \in [Role -> [Side -> Nat]]
  BY <1>1, <1>2, <1>3 DEF TypeOK
<1>5. pc' = [pc EXCEPT ![t] = "asleep"] /\ pc \in [Thread -> {"out", "picked", "announced", "asleep", "locking", "in", "leaving"}]
  BY DEF Goto, TypeOK
<1>6. Counted(r0, s0)' = Counted(r0, s0) \cup {t} /\ t \notin Counted(r0, s0)
  BY <1>1, <1>5 DEF Counted, Running
<1>7. Cardinality(Counted(r0, s0)') = Cardinality(Counted(r0, s0)) + 1
  <2>1. IsFiniteSet(Counted(r0, s0))
    BY CountedFinite
  <2>2. Cardinality(Counted(r0, s0) \cup {t}) = Cardinality(Counted(r0, s0)) + 1
    BY <1>6, <2>1, FS_AddElement
  <2> QED
    BY <1>6, <2>2
<1>8. ASSUME NEW r \in Role, NEW s \in Side, r # r0 \/ s # s0
      PROVE  Counted(r, s)' = Counted(r, s) /\ size'[r][s] = size[r][s]
  <2>1. Counted(r, s)' = Counted(r, s)
    BY <1>5, <1>8 DEF Counted, Running
  <2>2. size'[r][s] = size[r][s]
    BY <1>1, <1>2, <1>3, <1>8 DEF TypeOK
  <2> QED
    BY <2>1, <2>2
<1>9. size'[r0][s0] = size[r0][s0] + 1
  BY <1>1, <1>2, <1>3 DEF TypeOK
<1> QED
  BY <1>1, <1>4, <1>7, <1>8, <1>9 DEF CountInv

(* A thread that has done its job is not counted any more.                 *)
LEMMA CountDown ==
  ASSUME TypeOK, CountInv, NEW t \in Thread, side' = side,
         pc[t] = "leaving", Goto(t, "out"), Count(t, -1)
  PROVE  CountInv' /\ size' \in [Role -> [Side -> Nat]]
<1> DEFINE r0 == role(t)
           s0 == side[t]
<1>1. r0 \in Role /\ s0 \in Side
  BY RoleSides DEF TypeOK
<1>2. size[r0][s0] \in Nat /\ size[r0][s0] = Cardinality(Counted(r0, s0))
  BY <1>1 DEF TypeOK, CountInv
<1>3. size' = [size EXCEPT ![r0][s0] = size[r0][s0] + (-1)]
  BY DEF Count
<1>5. pc' = [pc EXCEPT ![t] = "out"] /\ pc \in [Thread -> {"out", "picked", "announced", "asleep", "locking", "in", "leaving"}]
  BY DEF Goto, TypeOK
<1>6. Counted(r0, s0)' = Counted(r0, s0) \ {t} /\ t \in Counted(r0, s0)
  <2>1. t \in Counted(r0, s0)
    BY DEF Counted, Running
  <2>2. pc'[t] = "out" /\ \A u \in Thread : u # t => pc'[u] = pc[u]
    BY <1>5
  <2>3. ~Running(t)' /\ pc'[t] \notin {"announced", "asleep", "locking"}
    BY <2>2 DEF Running
  <2>4. \A u \in Thread : u \in Counted(r0, s0)' <=> u \in Counted(r0, s0) /\ u # t
    BY <2>2, <2>3 DEF Counted, Running
  <2>5. Counted(r0, s0)' \subseteq Thread /\ Counted(r0, s0) \subseteq Thread
    BY DEF Counted
  <2> QED
    BY <2>1, <2>4, <2>5
<1>7. Cardinality(Counted(r0, s0)') = Cardinality(Counted(r0, s0)) - 1
  <2>1. IsFiniteSet(Counted(r0, s0))
    BY CountedFinite
  <2>2. Cardinality(Counted(r0, s0) \ {t}) = Cardinality(Counted(r0, s0)) - 1
    BY <1>6, <2>1, FS_RemoveElement
  <2> QED
    BY <1>6, <2>2
<1>8. Cardinality(Counted(r0, s0)) - 1 \in Nat
  BY <1>6, CountedFinite
<1>4. size' \in [Role -> [Side -> Nat]]
  BY <1>1, <1>2, <1>3, <1>8 DEF TypeOK
<1>9. ASSUME NEW r \in Role, NEW s \in Side, r # r0 \/ s # s0
      PROVE  Counted(r, s)' = Counted(r, s) /\ size'[r][s] = size[r][s]
  <2>1. Counted(r, s)' = Counted(r, s)
    BY <1>5, <1>9 DEF Counted, Running
  <2>2. size'[r][s] = size[r][s]
    BY <1>1, <1>2, <1>3, <1>9 DEF TypeOK
  <2> QED
    BY <2>1, <2>2
<1>10. size'[r0][s0] = size[r0][s0] - 1
  BY <1>1, <1>2, <1>3 DEF TypeOK
<1> QED
  BY <1>1, <1>2, <1>4, <1>7, <1>9, <1>10 DEF CountInv

(* At the end of a flush no thread runs: those of the queue are counted    *)
(* until they have acknowledged.                                           *)
LEMMA NobodyRuns ==
  ASSUME TypeOK, CountInv, RunInv, ~(size[flushing][front] > 0)
  PROVE  \A t \in Thread : ~Running(t)
<1> SUFFICES ASSUME NEW t \in Thread, Running(t)
             PROVE  FALSE
  OBVIOUS
<1>1. front \in Side /\ flushing \in Role
  BY RoleSides DEF front, TypeOK
<1>2. Counted(flushing, front) = {}
  BY <1>1, CountedFinite DEF CountInv
<1>3. t \in Counted(flushing, front)
  BY DEF RunInv, InFront, Counted
<1> QED
  BY <1>2, <1>3

LEMMA QueueInit == Init => QueueInv
<1> SUFFICES ASSUME Init
             PROVE  QueueInv
  OBVIOUS
<1>1. TypeOK
  BY DEF Init, TypeOK, Role, Side
<1>2. \A t \in Thread : pc[t] = "out"
  BY DEF Init
<1>3. MutexInv
  BY <1>2 DEF MutexInv, In, Thread
<1>4. \A r, s : Counted(r, s) = {}
  BY <1>2 DEF Counted, Running
<1>5. CountInv
  BY <1>4, FS_EmptySet DEF CountInv, Init
<1> QED
  BY <1>1, <1>3, <1>5 DEF QueueInv

LEMMA QueueNext ==
  ASSUME QueueInv, [SpuriousNext]_vars
  PROVE  QueueInv'
<1> USE DEF QueueInv
<1>1. CASE UNCHANGED vars
  <2>1. TypeOK'
    BY <1>1 DEF vars, TypeOK
  <2>2. MutexInv'
    BY <1>1 DEF vars, MutexInv, In
  <2>3. CountInv'
    BY <1>1, SameCount, <2>1 DEF vars, Running
  <2> QED
    BY <2>1, <2>2, <2>3
<1>2. ASSUME NEW t \in Thread, pick(t)
      PROVE  QueueInv'
  <2>1. TypeOK'
    BY <1>2, RoleSides DEF pick, Goto, TypeOK
  <2>2. MutexInv'
    BY <1>2 DEF pick, Goto, MutexInv, In, TypeOK
  <2>3. \A r \in Role, s \in Side : Counted(r, s)' = Counted(r, s)
    BY <1>2 DEF pick, Goto, Counted, Running, TypeOK
  <2>4. CountInv'
    BY <1>2, <2>3 DEF pick, CountInv
  <2> QED
    BY <2>1, <2>2, <2>3, <2>4
<1>3. ASSUME NEW t \in Thread, go_ahead(t)
      PROVE  QueueInv'
  <2>1. TypeOK'
    BY <1>3 DEF go_ahead, WakeMain, Goto, TypeOK
  <2>2. MutexInv'
    BY <1>3 DEF go_ahead, Goto, MutexInv, In, TypeOK
  <2>3. CountInv'
    BY <1>3, SameCount, <2>1 DEF go_ahead, Goto, Running, TypeOK
  <2> QED
    BY <2>1, <2>2, <2>3
<1>4. ASSUME NEW t \in Thread, register(t)
      PROVE  QueueInv'
  <2>1. CountInv' /\ size' \in [Role -> [Side -> Nat]]
    BY <1>4, CountUp DEF register
  <2>2. TypeOK'
    BY <1>4, <2>1 DEF register, Goto, TypeOK
  <2>3. MutexInv'
    BY <1>4 DEF register, Goto, MutexInv, In, TypeOK
  <2> QED
    BY <2>1, <2>2, <2>3
<1>5. ASSUME NEW t \in Thread, lock(t)
      PROVE  QueueInv'
  <2>1. TypeOK'
    BY <1>5 DEF lock, Goto, TypeOK, MutexInv
  <2>2. MutexInv'
    BY <1>5, XRSWAssumption DEF lock, Goto, MutexInv, In, TypeOK
  <2>3. CountInv'
    BY <1>5, SameCount, <2>1 DEF lock, Goto, Running, TypeOK
  <2> QED
    BY <2>1, <2>2, <2>3
<1>6. ASSUME NEW t \in Thread, leave(t)
      PROVE  QueueInv'
  <2>1. TypeOK'
    BY <1>6 DEF leave, Goto, TypeOK
  <2>2. MutexInv'
    BY <1>6, XRSWAssumption DEF leave, Goto, MutexInv, In, TypeOK, Thread
  <2>3. CountInv'
    BY <1>6, SameCount, <2>1 DEF leave, Goto, Running, TypeOK
  <2> QED
    BY <2>1, <2>2, <2>3
<1>7. ASSUME NEW t \in Thread, done(t)
      PROVE  QueueInv'
  <2>1. CountInv' /\ size' \in [Role -> [Side -> Nat]]
    BY <1>7, CountDown DEF done
  <2>2. TypeOK'
    BY <1>7, <2>1 DEF done, WakeMain, Goto, TypeOK
  <2>3. MutexInv'
    BY <1>7 DEF done, Goto, MutexInv, In, TypeOK
  <2> QED
    BY <2>1, <2>2, <2>3
<1>8. CASE swap
  <2>1. TypeOK'
    BY <1>8, RoleSides DEF swap, TypeOK
  <2>2. MutexInv'
    BY <1>8 DEF swap, MutexInv, In
  <2>3. CountInv'
    BY <1>8, SameCount, <2>1 DEF swap, Running
  <2> QED
    BY <2>1, <2>2, <2>3
<1>9. CASE test_size
  <2>1. TypeOK'
    BY <1>9 DEF test_size, TypeOK, Role
  <2>2. MutexInv'
    BY <1>9 DEF test_size, MutexInv, In
  <2>3. CountInv'
    BY <1>9, SameCount, <2>1 DEF test_size, Running
  <2> QED
    BY <2>1, <2>2, <2>3
<1>10. CASE notify_all
  <2>1. \A t \in Thread : Awake(t) \in {"locking", "in"}
    BY DEF Awake
  <2>2. TypeOK'
    BY <1>10, <2>1 DEF notify_all, TypeOK
  <2>3. MutexInv'
    <3>1. \A t \in Writers : Awake(t) = "locking"
      BY DEF Awake
    <3>2. \A t \in Thread : Awake(t) = "locking" => t \in Writers
      BY DEF Awake
    <3> QED
      BY <1>10, <3>1, <3>2 DEF notify_all, MutexInv, In, Thread
  <2>4. CountInv'
    BY <1>10, SameCount, <2>1, <2>2 DEF notify_all, Running
  <2> QED
    BY <2>2, <2>3, <2>4
<1>11. CASE wait
  <2>1. TypeOK'
    BY <1>11 DEF wait, TypeOK
  <2>2. MutexInv'
    BY <1>11 DEF wait, MutexInv, In
  <2>3. CountInv'
    BY <1>11, SameCount, <2>1 DEF wait, Running
  <2> QED
    BY <2>1, <2>2, <2>3
<1>12. ASSUME NEW t \in Thread, spurious_wake(t)
       PROVE  QueueInv'
  <2>1. Awake(t) \in {"locking", "in"}
    BY DEF Awake
  <2>2. TypeOK'
    BY <1>12, <2>1 DEF spurious_wake, Goto, TypeOK
  <2>3. MutexInv'
    BY <1>12 DEF spurious_wake, Goto, Awake, MutexInv, In, TypeOK, Thread
  <2>4. CountInv'
    BY <1>12, SameCount, <2>1, <2>2 DEF spurious_wake, Goto, Running, TypeOK
  <2> QED
    BY <2>2, <2>3, <2>4
<1>13. CASE spurious_main
  <2>1. TypeOK'
    BY <1>13 DEF spurious_main, TypeOK
  <2>2. MutexInv'
    BY <1>13 DEF spurious_main, MutexInv, In
  <2>3. CountInv'
    BY <1>13, SameCount, <2>1 DEF spurious_main, Running
  <2> QED
    BY <2>1, <2>2, <2>3
<1> QED
  BY <1>1, <1>2, <1>3, <1>4, <1>5, <1>6, <1>7, <1>8, <1>9, <1>10, <1>11, <1>12, <1>13
     DEF SpuriousNext, Next, flush, Serve

LEMMA RunInit == Init => RunInv
BY DEF Init, RunInv, Running

LEMMA RunNext ==
  ASSUME QueueInv, RunInv, [Next]_vars
  PROVE  RunInv'
<1> USE DEF QueueInv
<1>1. CASE UNCHANGED vars
  BY <1>1 DEF vars, RunInv, Running, InFront, front
<1>2. ASSUME NEW t \in Thread, pick(t)
      PROVE  RunInv'
  BY <1>2 DEF pick, Goto, RunInv, Running, InFront, front, TypeOK
<1>3. ASSUME NEW t \in Thread, go_ahead(t)
      PROVE  RunInv'
  BY <1>3 DEF go_ahead, WakeMain, Goto, RunInv, Running, InFront, front, TypeOK
<1>4. ASSUME NEW t \in Thread, register(t)
      PROVE  RunInv'
  BY <1>4 DEF register, Goto, RunInv, Running, InFront, front, TypeOK
<1>5. ASSUME NEW t \in Thread, lock(t)
      PROVE  RunInv'
  BY <1>5 DEF lock, Goto, RunInv, Running, InFront, front, TypeOK
<1>6. ASSUME NEW t \in Thread, leave(t)
      PROVE  RunInv'
  BY <1>6 DEF leave, Goto, RunInv, Running, InFront, front, TypeOK
<1>7. ASSUME NEW t \in Thread, done(t)
      PROVE  RunInv'
  BY <1>7 DEF done, WakeMain, Goto, RunInv, Running, InFront, front, TypeOK
<1>8. CASE swap
  BY <1>8 DEF swap, RunInv, Running
<1>9. CASE test_size
  <2>1. CASE size[flushing][front] > 0
    BY <1>9, <2>1 DEF test_size, RunInv, Running, InFront, front
  <2>2. CASE ~(size[flushing][front] > 0)
    BY <1>9, <2>2, NobodyRuns DEF test_size, RunInv, Running
  <2> QED
    BY <2>1, <2>2
<1>10. CASE notify_all
  BY <1>10 DEF Awake, notify_all, RunInv, Running, InFront, front
<1>11. CASE wait
  BY <1>11 DEF wait, RunInv, Running, InFront, front
<1> QED
  BY <1>1, <1>2, <1>3, <1>4, <1>5, <1>6, <1>7, <1>8, <1>9, <1>10, <1>11
     DEF Next, flush, Serve

(* The types of the queues, for every number of threads, even if threads   *)
(* wake by themselves: no queue ever counts less than nobody.              *)
THEOREM QueueTypes == SpuriousSpec => []TypeOK
<1>1. QueueInv => TypeOK
  BY DEF QueueInv
<1> QED
  BY <1>1, QueueInit, QueueNext, PTL DEF SpuriousSpec

(* Only one writer writes at a time, however many there are, even if       *)
(* threads wake by themselves.                                             *)
THEOREM WritersWriteAlone == SpuriousSpec => []WritersAlone
<1>1. QueueInv => WritersAlone
  BY DEF QueueInv, MutexInv, WritersAlone
<1> QED
  BY <1>1, QueueInit, QueueNext, PTL DEF SpuriousSpec

(* The invariants of the threads that only wake when they are notified.    *)
LEMMA Notified == Spec => [](QueueInv /\ RunInv)
<1>1. Init => QueueInv /\ RunInv
  BY QueueInit, RunInit
<1>2. QueueInv /\ RunInv /\ [Next]_vars => (QueueInv /\ RunInv)'
  BY QueueNext, RunNext DEF SpuriousNext
<1> QED
  BY <1>1, <1>2, PTL DEF Spec

(* However many they are, no reader reads while a writer writes, as long   *)
(* as no sleeping thread wakes by itself: flush ends when the size of its  *)
(* queue is zero, and this size counts all the threads it has awoken.      *)
THEOREM ReadersKeepApart == Spec => []ReadersApart
<1>1. QueueInv /\ RunInv => ReadersApart
  BY XRSWAssumption DEF QueueInv, TypeOK, RunInv, ReadersApart, In, Running, InFront, role, Thread
<1> QED
  BY <1>1, Notified, PTL

(* However many threads there are, when a flush ends all those it has      *)
(* awoken have acknowledged, as long as no sleeping thread wakes by itself.*)
THEOREM FlushHasWaited == Spec => []FlushWaits
<1>1. QueueInv /\ RunInv => FlushWaits
  BY DEF QueueInv, TypeOK, RunInv, FlushWaits
<1> QED
  BY <1>1, Notified, PTL
=============================================================================
