---------------------------- MODULE CacheProofs ----------------------------
(***************************************************************************)
(* The file of a variable and its instances in the memory of the server,   *)
(* whatever the sizes of the file and of the cache, the types and the      *)
(* instants: the circular buffer keeps its promise, no instant has two     *)
(* instances, what is ready in memory is what the file has, as long as it  *)
(* has it, and no thread sleeps for nothing on the lock of an instance.    *)
(***************************************************************************)
EXTENDS Cache, InstanceLock, FiniteSetTheorems, TLAPS

(* The file first: these are the theorems of VarFile.                      *)
SlotState ==
  {s \in [flag : {"none", "busy", "ready"}, val : Value \cup {NoValue}] :
     s.flag = "ready" => s.val \in Value}

TypeOK ==
  /\ slot \in [Slot -> SlotState]
  /\ highest_time \in Time \cup {NoTime}
  /\ next_free_pos \in Nat
  /\ file_size # 0 => next_free_pos < file_size

(* What a read in the buffer finds is in the file, never after its end. *)
Covered == \A t \in Time : Readable(t) => SlotOf(t).flag # "none"

FileInv == TypeOK /\ Covered

-----------------------------------------------------------------------------
LEMMA SlotStates ==
  /\ Absent \in SlotState /\ Null \in SlotState
  /\ \A v \in Value : Holds(v) \in SlotState
BY DEF SlotState, Absent, Null, Holds

LEMMA BufferSlots == \A p \in 0..file_size : p \in Slot
BY DEF Slot

(* The position of an instant of the buffer is a slot of the buffer.       *)
LEMMA PositionInBuffer ==
  ASSUME NEW h \in Nat, NEW t \in Nat, t <= h, file_size # 0, h - t < file_size,
         next_free_pos \in Nat, next_free_pos < file_size
  PROVE  pos_in_past(h - t) \in 0..(file_size - 1)
BY VarFileAssumption DEF pos_in_past

(* Two instants of the buffer do not share a slot.                         *)
LEMMA PositionInjective ==
  ASSUME NEW h \in Nat, NEW t \in Nat, NEW u \in Nat,
         t <= h, u <= h, h - t < file_size, h - u < file_size, t # u,
         next_free_pos \in Nat, next_free_pos < file_size
  PROVE  pos_in_past(h - t) # pos_in_past(h - u)
BY VarFileAssumption DEF pos_in_past

(* The slots after a write hold what the write puts there, or are cleared, *)
(* or are as before.                                                       *)
LEMMA FillSlots ==
  ASSUME NEW pos \in Slot, NEW v \in Value, NEW C, TypeOK, Fill(pos, v, C)
  PROVE  /\ slot' \in [Slot -> SlotState]
         /\ slot'[pos] = Holds(v)
         /\ \A p \in Slot : p # pos /\ p \in C => slot'[p] = Null
         /\ \A p \in Slot : p # pos /\ p \notin C => slot'[p] = slot[p]
BY SlotStates DEF Fill, TypeOK

(* What a write later than all others does to the slots.                   *)
Moves(at, v) ==
  /\ highest_time' = at
  /\ next_free_pos' \in 0..(file_size - 1)
  /\ slot' \in [Slot -> SlotState]
  /\ SlotOf(at)' = Holds(v)
  /\ \A t \in Time :
       t < at /\ at - t < file_size =>
         SlotOf(t)' = IF Readable(t) THEN SlotOf(t) ELSE Null

LEMMA FirstMoves ==
  ASSUME NEW at \in Time, NEW v \in Value, TypeOK, file_size # 0, WriteFirst(at, v)
  PROVE  Moves(at, v)
<1> USE VarFileAssumption
<1> file_size \in Nat /\ file_size # 0 /\ at \in Nat
  BY DEF WriteFirst
<1> \A t \in Time : ~Readable(t)
  BY DEF WriteFirst, Readable
<1>1. CASE at >= file_size
  <2>1. Fill(0, v, 0..(file_size - 1)) /\ next_free_pos' = next_pos(0) /\ highest_time' = at
    BY <1>1 DEF WriteFirst
  <2>2. /\ slot' \in [Slot -> SlotState] /\ slot'[0] = Holds(v)
        /\ \A p \in Slot : p # 0 /\ p \in 0..(file_size - 1) => slot'[p] = Null
    BY <2>1, FillSlots, BufferSlots
  <2>3. next_free_pos' \in 0..(file_size - 1)
    BY <2>1 DEF next_pos
  <2>4. pos_in_past(at - at)' = 0
    BY <2>1 DEF next_pos, pos_in_past
  <2>5. ASSUME NEW t \in Time, t < at, at - t < file_size
        PROVE  pos_in_past(at - t)' \in 1..(file_size - 1)
    BY <2>1, <2>5 DEF next_pos, pos_in_past
  <2>6. SlotOf(at)' = Holds(v)
    BY <2>1, <2>2, <2>4 DEF SlotOf
  <2>7. ASSUME NEW t \in Time, t < at, at - t < file_size
        PROVE  SlotOf(t)' = Null
    <3>1. pos_in_past(at - t)' \in 1..(file_size - 1)
      BY <2>5, <2>7
    <3> QED
      BY <2>1, <2>2, <3>1, BufferSlots DEF SlotOf
  <2> QED
    BY <2>1, <2>2, <2>3, <2>6, <2>7 DEF Moves
<1>2. CASE at < file_size
  <2>1. Fill(at, v, ClearedBefore(at)) /\ next_free_pos' = next_pos(at) /\ highest_time' = at
    BY <1>2 DEF WriteFirst
  <2>2. /\ slot' \in [Slot -> SlotState] /\ slot'[at] = Holds(v)
        /\ \A p \in Slot : p # at /\ p \in 0..(at - 1) => slot'[p] = Null
    BY <1>2, <2>1, FillSlots, BufferSlots DEF ClearedBefore
  <2>3. next_free_pos' \in 0..(file_size - 1)
    BY <1>2, <2>1 DEF next_pos
  <2>4. pos_in_past(at - at)' = at
    BY <1>2, <2>1 DEF next_pos, pos_in_past
  <2>5. ASSUME NEW t \in Time, t < at, at - t < file_size
        PROVE  pos_in_past(at - t)' \in 0..(at - 1)
    BY <1>2, <2>1, <2>5 DEF next_pos, pos_in_past
  <2> QED
    BY <1>2, <2>1, <2>2, <2>3, <2>4, <2>5, BufferSlots DEF Moves, SlotOf
<1> QED
  BY <1>1, <1>2

LEMMA FutureMoves ==
  ASSUME NEW at \in Time, NEW v \in Value, TypeOK, file_size # 0, WriteFuture(at, v)
  PROVE  Moves(at, v)
<1> USE VarFileAssumption
<1> DEFINE nb_zeros == at - 1 - highest_time
           data_pos == next_free_pos + nb_zeros
           wrapped  == IF data_pos >= file_size THEN data_pos - file_size ELSE data_pos
<1>1. /\ file_size \in Nat /\ file_size # 0 /\ at \in Nat /\ highest_time \in Nat
      /\ at > highest_time /\ highest_time' = at
      /\ next_free_pos \in Nat /\ next_free_pos < file_size
  BY DEF WriteFuture, TypeOK
<1>2. CASE nb_zeros > file_size
  <2>1. Fill(0, v, 0..(file_size - 1)) /\ next_free_pos' = next_pos(0)
    BY <1>2 DEF WriteFuture
  <2>2. /\ slot' \in [Slot -> SlotState] /\ slot'[0] = Holds(v)
        /\ \A p \in Slot : p # 0 /\ p \in 0..(file_size - 1) => slot'[p] = Null
    BY <1>1, <2>1, FillSlots, BufferSlots
  <2>3. next_free_pos' \in 0..(file_size - 1)
    BY <1>1, <2>1 DEF next_pos
  <2>4. pos_in_past(at - at)' = 0
    BY <1>1, <2>1 DEF next_pos, pos_in_past
  <2>5. ASSUME NEW t \in Time, t < at, at - t < file_size
        PROVE  pos_in_past(at - t)' \in 1..(file_size - 1) /\ ~Readable(t)
    BY <1>1, <1>2, <2>1, <2>5 DEF next_pos, pos_in_past, Readable
  <2> QED
    BY <1>1, <2>2, <2>3, <2>4, <2>5, BufferSlots DEF Moves, SlotOf
<1>3. CASE nb_zeros <= file_size
  <2>1. Fill(wrapped, v, ClearedPart(data_pos)) /\ next_free_pos' = next_pos(wrapped)
    BY <1>1, <1>3 DEF WriteFuture
  <2>2. wrapped \in 0..(file_size - 1)
    BY <1>1, <1>3
  <2>3. /\ slot' \in [Slot -> SlotState] /\ slot'[wrapped] = Holds(v)
        /\ \A p \in Slot : p # wrapped /\ p \in ClearedPart(data_pos) => slot'[p] = Null
        /\ \A p \in Slot : p # wrapped /\ p \notin ClearedPart(data_pos) => slot'[p] = slot[p]
    BY <1>1, <2>1, <2>2, FillSlots, BufferSlots
  <2>4. next_free_pos' \in 0..(file_size - 1)
    BY <1>1, <2>1, <2>2 DEF next_pos
  <2>5. pos_in_past(at - at)' = wrapped
    BY <1>1, <2>1, <2>2 DEF next_pos, pos_in_past
  <2>6. ASSUME NEW t \in Time, t < at, at - t < file_size
        PROVE  SlotOf(t)' = IF Readable(t) THEN SlotOf(t) ELSE Null
    <3> DEFINE pos == pos_in_past(at - t)'
    <3>1. pos \in Slot /\ pos # wrapped
      BY <1>1, <1>3, <2>1, <2>6, BufferSlots DEF next_pos, pos_in_past
    <3>2. CASE t <= highest_time
      <4>1. Readable(t)
        BY <1>1, <2>6, <3>2 DEF Readable, is_past_in_buffer
      <4>2. pos = pos_in_past(highest_time - t)
        BY <1>1, <1>3, <2>1, <2>6, <3>2 DEF next_pos, pos_in_past
      <4>3. pos \notin ClearedPart(data_pos)
        BY <1>1, <1>3, <2>1, <2>6, <3>2 DEF next_pos, pos_in_past, ClearedPart
      <4> QED
        BY <1>1, <2>3, <3>1, <4>1, <4>2, <4>3 DEF SlotOf
    <3>3. CASE t > highest_time
      <4>1. ~Readable(t)
        BY <1>1, <3>3 DEF Readable
      <4>2. pos \in ClearedPart(data_pos)
        BY <1>1, <1>3, <2>1, <2>6, <3>3 DEF next_pos, pos_in_past, ClearedPart
      <4> QED
        BY <1>1, <2>3, <3>1, <4>1, <4>2 DEF SlotOf
    <3> QED
      BY <1>1, <3>2, <3>3
  <2> QED
    BY <1>1, <2>3, <2>4, <2>5, <2>6 DEF Moves, SlotOf
<1> QED
  BY <1>1, <1>2, <1>3

(* Such a write is the abstract one, and reads stay within the file.       *)
LEMMA MovesHistory ==
  ASSUME NEW at \in Time, NEW v \in Value, FileInv, Moves(at, v),
         file_size # 0, highest_time # NoTime => at > highest_time
  PROVE  FileInv' /\ H!WriteLater(at, v)
<1> USE VarFileAssumption
<1>1. /\ file_size \in Nat /\ at \in Nat /\ at # NoTime
      /\ highest_time' = at /\ next_free_pos' \in Nat /\ next_free_pos' < file_size
      /\ slot' \in [Slot -> SlotState] /\ SlotOf(at)' = Holds(v)
  BY DEF Moves
<1>2. TypeOK'
  BY <1>1 DEF TypeOK
<1>3. \A t \in Time : Readable(t)' <=> t <= at /\ at - t < file_size
  BY <1>1 DEF Readable, is_past_in_buffer
<1>4. \A t \in Time : Readable(t)' <=> H!InBuffer(t, at)
  BY <1>1, <1>3 DEF H!InBuffer
<1>5. \A t \in Time : Readable(t)' /\ t # at =>
        SlotOf(t)' = IF Readable(t) THEN SlotOf(t) ELSE Null
  <2>1. \A t \in Time : Readable(t)' /\ t # at => t < at /\ at - t < file_size
    BY <1>1, <1>3
  <2> QED
    BY <2>1 DEF Moves
<1>6. Holds(v).flag = "ready" /\ Holds(v).val = v /\ Null.flag = "busy"
  BY DEF Holds, Null
<1>7. Covered'
  <2> SUFFICES ASSUME NEW t \in Time, Readable(t)'
               PROVE  (SlotOf(t).flag)' # "none"
    BY DEF Covered
  <2>1. CASE t = at
    BY <1>1, <1>6, <2>1
  <2>2. CASE t # at
    BY <1>5, <1>6, <2>2 DEF FileInv, Covered
  <2> QED
    BY <2>1, <2>2
<1>8. HistoryValue' = [t \in Time |-> IF ~H!InBuffer(t, at) THEN NoValue
                                      ELSE IF t = at THEN v ELSE HistoryValue[t]]
  <2> SUFFICES ASSUME NEW t \in Time
               PROVE  (IF Readable(t) /\ SlotOf(t).flag = "ready" THEN SlotOf(t).val
                       ELSE NoValue)'
                      = IF ~H!InBuffer(t, at) THEN NoValue
                        ELSE IF t = at THEN v
                        ELSE IF Readable(t) /\ SlotOf(t).flag = "ready"
                             THEN SlotOf(t).val ELSE NoValue
    BY DEF HistoryValue
  <2>1. CASE ~H!InBuffer(t, at)
    BY <1>4, <2>1
  <2>2. CASE H!InBuffer(t, at) /\ t = at
    BY <1>1, <1>4, <1>6, <2>2
  <2>3. CASE H!InBuffer(t, at) /\ t # at
    BY <1>4, <1>5, <1>6, <2>3
  <2> QED
    BY <2>1, <2>2, <2>3
<1> QED
  BY <1>1, <1>2, <1>7, <1>8 DEF FileInv, H!WriteLater

(* A write in the past fills one empty slot of the buffer.                 *)
LEMMA PastHistory ==
  ASSUME NEW at \in Time, NEW v \in Value, FileInv, WritePast(at, v)
  PROVE  FileInv' /\ H!WriteEarlier(at, v)
<1> USE VarFileAssumption
<1> DEFINE pos == pos_in_past(highest_time - at)
<1>1. /\ file_size \in Nat /\ file_size # 0 /\ at \in Nat /\ at <= highest_time
      /\ highest_time \in Nat /\ highest_time # NoTime /\ highest_time - at < file_size
      /\ highest_time' = highest_time /\ next_free_pos' = next_free_pos
      /\ next_free_pos \in Nat /\ next_free_pos < file_size
      /\ SlotOf(at).flag = "busy" /\ Fill(pos, v, {})
  BY DEF WritePast, Readable, is_past_in_buffer, FileInv, TypeOK
<1>2. pos \in Slot
  BY <1>1, PositionInBuffer DEF Slot
<1>3. /\ slot' \in [Slot -> SlotState] /\ slot'[pos] = Holds(v)
      /\ \A p \in Slot : p # pos => slot'[p] = slot[p]
  BY <1>1, <1>2, FillSlots DEF FileInv
<1>4. TypeOK'
  BY <1>1, <1>3 DEF TypeOK, FileInv
<1>5. \A t \in Time : Readable(t)' <=> Readable(t)
  BY <1>1 DEF Readable, is_past_in_buffer
<1>6. SlotOf(at)' = Holds(v)
  BY <1>1, <1>3 DEF SlotOf, pos_in_past
<1>7. ASSUME NEW t \in Time, Readable(t), t # at
      PROVE  SlotOf(t)' = SlotOf(t)
  <2>1. t \in Nat /\ t <= highest_time /\ highest_time - t < file_size
    BY <1>1, <1>7 DEF Readable, is_past_in_buffer
  <2>2. pos_in_past(highest_time - t) \in Slot
    BY <1>1, <2>1, PositionInBuffer DEF Slot
  <2>3. pos_in_past(highest_time - t) # pos
    BY <1>1, <1>7, <2>1, PositionInjective
  <2>4. pos_in_past(highest_time - t)' = pos_in_past(highest_time - t)
    BY <1>1 DEF pos_in_past
  <2> QED
    BY <1>3, <2>2, <2>3, <2>4 DEF SlotOf
<1>8. Holds(v).flag = "ready" /\ Holds(v).val = v
  BY DEF Holds
<1>9. Covered'
  BY <1>5, <1>6, <1>7, <1>8 DEF Covered, FileInv
<1>10. Readable(at)
  BY DEF WritePast
<1>11. HistoryValue' = [HistoryValue EXCEPT ![at] = v]
  <2> SUFFICES ASSUME NEW t \in Time
               PROVE  (IF Readable(t) /\ SlotOf(t).flag = "ready" THEN SlotOf(t).val
                       ELSE NoValue)'
                      = IF t = at THEN v
                        ELSE IF Readable(t) /\ SlotOf(t).flag = "ready"
                             THEN SlotOf(t).val ELSE NoValue
    BY DEF HistoryValue
  <2>1. CASE t = at
    BY <1>5, <1>6, <1>8, <1>10, <2>1
  <2>2. CASE t # at
    BY <1>5, <1>7, <2>2
  <2> QED
    BY <2>1, <2>2
<1>12. HistoryValue[at] = NoValue
  BY <1>1 DEF HistoryValue
<1>13. H!InBuffer(at, highest_time)
  BY <1>1 DEF H!InBuffer
<1> QED
  BY <1>1, <1>4, <1>9, <1>11, <1>12, <1>13 DEF FileInv, H!WriteEarlier

(* Without slots only the highest instant is kept.                         *)
LEMMA NothingHistory ==
  ASSUME NEW at \in Time, NEW v \in Value, FileInv, file_size = 0, WriteNothing(at)
  PROVE  FileInv' /\ H!WriteLater(at, v)
<1> USE VarFileAssumption
<1>1. /\ file_size = 0 /\ at \in Nat /\ highest_time' = at
      /\ slot' = slot /\ next_free_pos' = next_free_pos
      /\ highest_time # NoTime => at > highest_time
  BY DEF WriteNothing
<1>2. FileInv'
  BY <1>1 DEF FileInv, TypeOK, Covered, Readable
<1>3. \A t \in Time : ~H!InBuffer(t, at) \/ at - t < 0
  BY <1>1 DEF H!InBuffer
<1>4. \A t \in Time : ~H!InBuffer(t, at)
  BY <1>1, <1>3 DEF H!InBuffer
<1>5. HistoryValue' = [t \in Time |-> NoValue]
  BY <1>1 DEF HistoryValue, Readable
<1> QED
  BY <1>1, <1>2, <1>4, <1>5 DEF H!WriteLater

LEMMA FileInvInit ==
  ASSUME Init
  PROVE  FileInv /\ H!Init
<1> USE VarFileAssumption
<1>1. \A t \in Time : ~Readable(t)
  BY DEF Init, Readable
<1>2. TypeOK
  BY SlotStates DEF Init, TypeOK, Slot
<1> QED
  BY <1>1, <1>2 DEF Init, FileInv, Covered, H!Init, HistoryValue

(* A write is one of the two abstract ones.                                *)
LEMMA WriteHistory ==
  ASSUME NEW at \in Time, NEW v \in Value, FileInv, Write(at, v)
  PROVE  FileInv' /\ (H!WriteLater(at, v) \/ H!WriteEarlier(at, v))
<1>1. CASE file_size = 0
  BY <1>1, NothingHistory DEF Write
<1>2. CASE file_size # 0 /\ WriteFirst(at, v)
  <2>1. highest_time = NoTime
    BY <1>2 DEF WriteFirst
  <2> QED
    BY <1>2, <2>1, FirstMoves, MovesHistory DEF FileInv
<1>3. CASE WritePast(at, v)
  BY <1>3, PastHistory
<1>4. CASE file_size # 0 /\ WriteFuture(at, v)
  <2>1. at > highest_time
    BY <1>4 DEF WriteFuture
  <2> QED
    BY <1>4, <2>1, FutureMoves, MovesHistory DEF FileInv
<1> QED
  BY <1>1, <1>2, <1>3, <1>4 DEF Write

LEMMA FileInvNext ==
  ASSUME FileInv, [Next]_vars
  PROVE  FileInv' /\ [H!Next]_<<highest_time, HistoryValue>>
<1>1. CASE UNCHANGED vars
  BY <1>1 DEF vars, FileInv, TypeOK, Covered, Readable, SlotOf, pos_in_past,
              is_past_in_buffer, HistoryValue
<1>2. ASSUME NEW at \in Time, NEW v \in Value, Write(at, v)
      PROVE  FileInv' /\ H!Next
  BY <1>2, WriteHistory DEF H!Next
<1> QED
  BY <1>1, <1>2 DEF Next

(* For every size of the buffer, every set of instants and of values, the  *)
(* slots, cleared and reused as File::write does, keep exactly the values  *)
(* of the last file_size instants.                                         *)
THEOREM FileKeepsHistory == Spec => ImplementsHistory
<1>1. Init => FileInv /\ H!Init
  BY FileInvInit
<1>2. FileInv /\ [Next]_vars => FileInv' /\ [H!Next]_<<highest_time, HistoryValue>>
  BY FileInvNext
<1> QED
  BY <1>1, <1>2, PTL DEF Spec, ImplementsHistory, H!Spec

(* For every size of the buffer File::read answers what the history says,  *)
(* and never reads after the end of the file.                              *)
THEOREM FileReadsHistory == Spec => []ReadsHistory
<1>1. Init => FileInv
  BY FileInvInit
<1>2. FileInv /\ [Next]_vars => FileInv'
  BY FileInvNext
<1>3. FileInv => ReadsHistory
  <2> SUFFICES ASSUME FileInv, NEW t \in Time
               PROVE  Read(t) = H!Availability(t)
    BY DEF ReadsHistory
  <2>1. highest_time \in Nat \cup {NoTime} /\ t \in Nat /\ file_size \in Nat /\ NoTime \notin Nat
    BY VarFileAssumption DEF FileInv, TypeOK
  <2>2. CASE highest_time = NoTime \/ t > highest_time
    BY <2>2 DEF Read, H!Availability
  <2>3. CASE Readable(t)
    <3>1. SlotOf(t) \in SlotState
      <4>1. pos_in_past(highest_time - t) \in Slot
        BY <2>1, <2>3, PositionInBuffer DEF Readable, is_past_in_buffer, FileInv, TypeOK, Slot
      <4> QED
        BY <4>1 DEF SlotOf, FileInv, TypeOK
    <3>2. SlotOf(t).flag \in {"busy", "ready"}
      BY <2>3, <3>1 DEF SlotState, FileInv, Covered
    <3>3. HistoryValue[t] = NoValue <=> SlotOf(t).flag = "busy"
      BY <2>3, <3>1, <3>2, VarFileAssumption DEF HistoryValue, SlotState
    <3>4. H!InBuffer(t, highest_time) /\ ~(highest_time = NoTime \/ t > highest_time)
      BY <2>1, <2>3 DEF H!InBuffer, Readable, is_past_in_buffer
    <3> QED
      BY <2>3, <3>2, <3>3, <3>4 DEF Read, H!Availability
  <2>4. CASE ~(highest_time = NoTime \/ t > highest_time) /\ ~Readable(t)
    <3>1. ~H!InBuffer(t, highest_time)
      BY <2>1, <2>4 DEF H!InBuffer, Readable, is_past_in_buffer
    <3> QED
      BY <2>4, <3>1 DEF Read, H!Availability
  <2> QED
    BY <2>2, <2>3, <2>4
<1> QED
  BY <1>1, <1>2, <1>3, PTL DEF Spec

-----------------------------------------------------------------------------
(* The instances. *)
Field == {"at", "status", "val", "cached", "held"}

(* An instance that is used is still cached: what leaves the cache is used *)
(* by nobody, so that the next update to ask for it finds it.              *)
CacheInv ==
  /\ \A x \in instances : x = [f \in Field |-> x[f]] /\ x.cached = TRUE /\ x.held \in BOOLEAN
  /\ OneInstance

-----------------------------------------------------------------------------
(* What leaves the cache is used by nobody: it ends. *)
LEMMA UnusedEnd ==
  ASSUME CacheInv, NEW R \in SUBSET Unused
  PROVE  Without(R) \subseteq instances
<1>1. {x \in R : x.held} = {}
  BY DEF CacheInv, Unused, Cached
<1> QED
  BY <1>1 DEF Without

(* An instance that is changed into another one of the same instant. *)
LEMMA Changed ==
  ASSUME CacheInv, NEW x \in instances, NEW y,
         y = [f \in Field |-> y[f]], y.at = x.at, y.cached = TRUE, y.held \in BOOLEAN,
         instances' = (instances \ {x}) \cup {y}
  PROVE  CacheInv'
BY DEF CacheInv, OneInstance

(* Instances that leave. *)
LEMMA Fewer ==
  ASSUME CacheInv, instances' \subseteq instances
  PROVE  CacheInv'
BY DEF CacheInv, OneInstance

LEMMA CacheStep == CacheInv /\ [CacheNext]_allVars => CacheInv'
<1> SUFFICES ASSUME CacheInv, [CacheNext]_allVars PROVE CacheInv'
  OBVIOUS
<1>a. \A x \in instances : x = [f \in Field |-> x[f]] /\ x.cached = TRUE /\ x.held \in BOOLEAN
  BY DEF CacheInv
<1>1. ASSUME NEW t \in Type, NEW c \in CacheSize \cup {NoSize}, check(t, c) \/ Client(t, c) PROVE CacheInv'
  BY <1>1, Fewer DEF check, Client
<1>2. CASE get_var \/ history_length
  BY <1>2, Fewer DEF get_var, history_length
<1>3. CASE clear
  BY <1>3, Fewer DEF clear
<1>4. CASE clean_up
  <2>1. Without(Unused) \subseteq instances
    BY UnusedEnd
  <2> QED
    BY <1>4, <2>1, Fewer DEF clean_up
<1>5. ASSUME NEW at \in Time, NEW h \in BOOLEAN, Hit(at, h) PROVE CacheInv'
  <2>1. PICK x \in Cached : x.at = at /\ instances' = (instances \ {x}) \cup {Use(x, h)}
    BY <1>5 DEF Hit
  <2>2. x \in instances
    BY <2>1 DEF Cached
  <2>3. Use(x, h) = [f \in Field |-> Use(x, h)[f]] /\ Use(x, h).at = x.at /\ Use(x, h).cached = TRUE /\ Use(x, h).held \in BOOLEAN
    BY <1>a, <2>2 DEF Use, Field
  <2> QED
    BY <2>1, <2>2, <2>3, Changed
<1>6. ASSUME NEW at \in Time, NEW h \in BOOLEAN, Build(at, h) PROVE CacheInv'
  <2>1. PICK a, v : instances' = Without(oldest(ToRemove))
                      \cup {[at |-> at, status |-> a, val |-> v, cached |-> TRUE, held |-> h]}
    BY <1>6 DEF Build
  <2> DEFINE new == [at |-> at, status |-> a, val |-> v, cached |-> TRUE, held |-> h]
  <2>2. oldest(ToRemove) \in SUBSET Unused
    BY DEF oldest
  <2>3. Without(oldest(ToRemove)) \subseteq instances
    BY <2>2, UnusedEnd
  <2>4. \A x \in instances : x.at # at
    BY <1>6, <1>a DEF Build, Cached
  <2>5. new = [f \in Field |-> new[f]] /\ new.at = at /\ new.cached = TRUE /\ new.held \in BOOLEAN
    BY DEF Field
  <2>6. instances' \subseteq instances \cup {new} 
    BY <2>1, <2>3
  <2> HIDE DEF new
  <2> QED
    BY <2>4, <2>5, <2>6 DEF CacheInv, OneInstance
<1>7. ASSUME NEW at \in Time, ClientWrites(at) PROVE CacheInv'
  BY <1>7, Fewer DEF ClientWrites
<1>8. ASSUME NEW x \in instances, Release(x) PROVE CacheInv'
  <2> DEFINE y == [x EXCEPT !.held = FALSE]
  <2>1. y = [f \in Field |-> y[f]] /\ y.at = x.at /\ y.cached = TRUE /\ y.held \in BOOLEAN
    BY <1>a DEF Field
  <2>2. instances' = (instances \ {x}) \cup {y}
    BY <1>8, <2>1 DEF Release
  <2> HIDE DEF y
  <2> QED
    BY <2>1, <2>2, Changed
<1>9. ASSUME NEW x \in instances, sync(x) PROVE CacheInv'
  <2>1. PICK a, v : instances' = (instances \ {x}) \cup {Synced(x, a, v)}
    BY <1>9 DEF sync
  <2>2. Synced(x, a, v) = [f \in Field |-> Synced(x, a, v)[f]] /\ Synced(x, a, v).at = x.at
        /\ Synced(x, a, v).cached = TRUE /\ Synced(x, a, v).held \in BOOLEAN
    BY <1>a DEF Synced, Field
  <2> QED
    BY <2>1, <2>2, Changed
<1>10. ASSUME NEW x \in instances, NEW ready \in BOOLEAN, set(x, ready) PROVE CacheInv'
  <2>1. PICK a, v : instances' = (instances \ {x}) \cup {[x EXCEPT !.status = a, !.val = v]}
    BY <1>10 DEF set
  <2> DEFINE y == [x EXCEPT !.status = a, !.val = v]
  <2>2. y = [f \in Field |-> y[f]] /\ y.at = x.at /\ y.cached = TRUE /\ y.held \in BOOLEAN
    BY <1>a DEF Field
  <2> HIDE DEF y
  <2> QED
    BY <2>1, <2>2, Changed DEF y
<1>11. CASE UNCHANGED allVars
  BY <1>11, Fewer DEF allVars
<1> QED
  BY <1>1, <1>2, <1>3, <1>4, <1>5, <1>6, <1>7, <1>8, <1>9, <1>10, <1>11 DEF CacheNext, instance

(* For every size of the cache, two updates that are given the same        *)
(* instant are given the same instance as long as one of them has it.      *)
THEOREM CacheIsShared == CacheSpec => []OneInstance
<1>1. CacheInit => CacheInv
  BY DEF CacheInit, CacheInv, OneInstance
<1>2. CacheInv => OneInstance
  BY DEF CacheInv
<1> QED
  BY <1>1, <1>2, CacheStep, PTL DEF CacheSpec

-----------------------------------------------------------------------------
(* What is ready in memory is what the file has.  The content of the file  *)
(* at an instant is that instant.                                          *)
Instants == \A t \in Time : HistoryValue[t] \in {NoValue, t}

FileTypes ==
  /\ slot \in [Slot -> SlotState]
  /\ highest_time \in Time \cup {NoTime}
  /\ next_free_pos \in Nat

(* The next write goes to the buffer, or next to one that is after it.     *)
Within == file_size # 0 => next_free_pos < file_size

Beyond ==
  /\ file_size # 0 /\ highest_time # NoTime
  /\ file_size < next_free_pos /\ next_free_pos <= highest_time + 1

(* A position in the buffer computed from the header the server has, which *)
(* may be late, is the right one as long as the instant is in the file,    *)
(* and was not lost.                                                       *)
LateHeader ==
  /\ s_highest # NoTime => /\ s_highest \in Time /\ highest_time # NoTime
                           /\ s_highest <= highest_time
  /\ \A t \in Time \ lost : S!Readable(t) /\ Readable(t) =>
       S!pos_in_past(s_highest - t) = pos_in_past(highest_time - t)

(* Nobody but the server writes the file of a variable it has rules for.   *)
OwnHeader ==
  /\ writer = "server" => Within
  /\ writer = "server" /\ loaded => s_highest = highest_time /\ s_next = next_free_pos
  /\ ~loaded => instances = {}

(* What an instance of at that is ready, or forgotten, says of the file.   *)
Filed(at, v) == InFile(at) /\ at \notin lost => v = at /\ HistoryValue[at] = at

Gone(at) == highest_time # NoTime /\ at <= highest_time

Sound(x) ==
  /\ x.at \in Time /\ x.status \in {"Busy", "Ready", "Forgotten"}
  /\ x.status = "Ready" => Gone(x.at) /\ Filed(x.at, x.val)
  /\ x.status = "Forgotten" => Gone(x.at) /\ ~InFile(x.at)

BufferInv == FileTypes /\ (Within \/ Beyond) /\ Covered /\ Instants

DiskInv == BufferInv /\ LateHeader

AllSound == \A x \in instances : Sound(x)

ReadInv == CacheInv /\ DiskInv /\ OwnHeader /\ AllSound

(* The file grows, and keeps what it has of the instants still in it.      *)
Grows ==
  /\ highest_time # NoTime => highest_time' # NoTime /\ highest_time <= highest_time'
  /\ lost \subseteq lost'
  /\ \A t \in Time : Gone(t) /\ InFile(t)' => InFile(t)
  /\ \A t \in Time \ lost' : Gone(t) /\ InFile(t)' /\ HistoryValue[t] # NoValue =>
                             HistoryValue'[t] = HistoryValue[t]

LEMMA Basics ==
  ASSUME DiskInv
  PROVE  /\ file_size \in Nat /\ NoTime \notin Nat /\ NoValue \notin Time /\ Value = Time
         /\ highest_time \in Time \cup {NoTime} /\ Time \subseteq Nat /\ next_free_pos \in Nat
         /\ \A t \in Time : t \in Nat /\ 0..t \subseteq Time
BY VarFileAssumption, CacheAssumption DEF DiskInv, BufferInv, FileTypes

(* A file whose next write goes to the buffer is one of data::File.        *)
LEMMA WithinFile == DiskInv /\ Within => FileInv
BY DEF DiskInv, BufferInv, FileTypes, Within, FileInv, TypeOK

LEMMA FileWithin == FileInv => FileTypes /\ Within /\ Covered
BY DEF FileTypes, Within, FileInv, TypeOK

LEMMA FileWithinNext == FileInv' => FileTypes' /\ Within' /\ Covered'
BY DEF FileTypes, Within, FileInv, TypeOK

(* The slot of an instant of the buffer is a slot, even after its end.     *)
LEMMA Placed ==
  ASSUME DiskInv, NEW t \in Time, Readable(t)
  PROVE  pos_in_past(highest_time - t) \in Slot
<1>1. /\ highest_time \in Nat /\ highest_time \in Time /\ t \in Nat /\ t <= highest_time
      /\ file_size \in Nat /\ file_size # 0 /\ highest_time - t < file_size
      /\ next_free_pos \in Nat
  BY Basics DEF Readable, is_past_in_buffer
<1>2. CASE Within
  BY <1>1, <1>2, PositionInBuffer, BufferSlots DEF Within
<1>3. CASE Beyond
  <2>1. pos_in_past(highest_time - t) \in 0..highest_time
    BY <1>1, <1>3 DEF Beyond, pos_in_past
  <2>2. pos_in_past(highest_time - t) \in Time
    BY <1>1, <2>1, Basics
  <2> QED
    BY <2>2 DEF Slot
<1> QED
  BY <1>2, <1>3 DEF DiskInv, BufferInv

(* The file at an instant of its buffer. *)
LEMMA InFileReadable ==
  ASSUME DiskInv, NEW t \in Time
  PROVE  /\ InFile(t) <=> Readable(t)
         /\ Readable(t) => SlotOf(t).flag \in {"busy", "ready"}
         /\ HistoryValue[t] = t <=> Readable(t) /\ SlotOf(t).flag = "ready"
         /\ Readable(t) /\ SlotOf(t).flag = "ready" => SlotOf(t).val = t
<1>1. file_size \in Nat /\ t \in Nat /\ t # NoValue /\ highest_time \in Nat \cup {NoTime}
  BY Basics
<1>2. InFile(t) <=> Readable(t)
  BY <1>1 DEF InFile, Readable, is_past_in_buffer
<1>3. ASSUME Readable(t) PROVE SlotOf(t) \in SlotState
  BY <1>3, Placed DEF SlotOf, DiskInv, BufferInv, FileTypes
<1>4. ASSUME Readable(t) PROVE SlotOf(t).flag \in {"busy", "ready"}
  BY <1>3, <1>4 DEF DiskInv, BufferInv, Covered, SlotState
<1>5. HistoryValue[t] = IF Readable(t) /\ SlotOf(t).flag = "ready" THEN SlotOf(t).val ELSE NoValue
  BY DEF HistoryValue
<1>6. ASSUME Readable(t), SlotOf(t).flag = "ready" PROVE SlotOf(t).val = t
  <2>1. SlotOf(t).val # NoValue
    BY <1>3, <1>6, VarFileAssumption DEF SlotState
  <2> QED
    BY <1>5, <1>6, <2>1 DEF DiskInv, BufferInv, Instants
<1> QED
  BY <1>1, <1>2, <1>4, <1>5, <1>6

(* File::read through the header of the file, and through that of the      *)
(* server.                                                                 *)
LEMMA ReadSound ==
  ASSUME DiskInv, NEW t \in Time
  PROVE  /\ Read(t) \in {"Busy", "Ready", "Forgotten"}
         /\ Read(t) = "Ready" => Gone(t) /\ HistoryValue[t] = t /\ SlotOf(t).val = t
         /\ Read(t) = "Forgotten" => Gone(t) /\ ~InFile(t)
<1>1. CASE highest_time = NoTime \/ t > highest_time
  <2>1. ~Readable(t)
    <3>1. highest_time = NoTime \/ (highest_time \in Nat /\ t \in Nat /\ t > highest_time)
      BY <1>1, Basics
    <3> QED
      BY <3>1 DEF Readable
  <2>2. Read(t) = "Busy"
    BY <1>1, <2>1 DEF Read
  <2> QED
    BY <2>2
<1>2. CASE ~(highest_time = NoTime \/ t > highest_time)
  <2>1. Gone(t)
    <3>1. highest_time \in Nat /\ t \in Nat
      BY <1>2, Basics
    <3> QED
      BY <1>2, <3>1 DEF Gone
  <2>2. CASE Readable(t)
    BY <1>2, <2>1, <2>2, InFileReadable DEF Read
  <2>3. CASE ~Readable(t)
    BY <1>2, <2>1, <2>3, InFileReadable DEF Read
  <2> QED
    BY <2>2, <2>3
<1> QED
  BY <1>1, <1>2

LEMMA LateRead ==
  ASSUME DiskInv, NEW t \in Time, S!Read(t) # "Busy"
  PROVE  /\ Gone(t)
         /\ InFile(t) /\ t \notin lost => S!Read(t) = "Ready" /\ S!SlotOf(t).val = t /\ HistoryValue[t] = t
<1>1. s_highest # NoTime /\ ~(t > s_highest)
  <2> SUFFICES ASSUME s_highest = NoTime \/ t > s_highest PROVE S!Read(t) = "Busy"
    OBVIOUS
  <2>1. ~S!Readable(t)
    <3>1. s_highest = NoTime \/ (s_highest \in Nat /\ t \in Nat /\ t > s_highest)
      BY Basics DEF DiskInv, LateHeader
    <3> QED
      BY <3>1 DEF S!Readable
  <2> QED
    BY <2>1 DEF S!Read
<1>2. /\ s_highest \in Nat /\ t \in Nat /\ highest_time \in Nat /\ s_highest <= highest_time
      /\ file_size \in Nat /\ highest_time # NoTime
  BY <1>1, Basics DEF DiskInv, LateHeader
<1>3. Gone(t)
  BY <1>1, <1>2 DEF Gone
<1>4. ASSUME InFile(t) PROVE S!Readable(t) /\ Readable(t)
  BY <1>1, <1>2, <1>4, InFileReadable DEF InFile, Readable, is_past_in_buffer, S!Readable, S!is_past_in_buffer
<1>5. ASSUME InFile(t), t \notin lost PROVE S!SlotOf(t) = SlotOf(t)
  BY <1>4, <1>5 DEF DiskInv, LateHeader, S!SlotOf, SlotOf
<1>6. ASSUME InFile(t), t \notin lost PROVE S!Read(t) = "Ready" /\ S!SlotOf(t).val = t /\ HistoryValue[t] = t
  <2>1. SlotOf(t).flag \in {"busy", "ready"} /\ S!Readable(t) /\ S!SlotOf(t) = SlotOf(t)
    BY <1>4, <1>5, <1>6, InFileReadable
  <2>2. SlotOf(t).flag = "ready"
    BY <1>1, <2>1 DEF S!Read
  <2> QED
    BY <1>1, <1>4, <1>6, <2>1, <2>2, InFileReadable DEF S!Read
<1> QED
  BY <1>3, <1>6

-----------------------------------------------------------------------------
(* A write by the server, which never leaves the buffer. *)
LEMMA WriteParts ==
  ASSUME DiskInv, Within, NEW at \in Time, Write(at, at), lost' = lost
  PROVE  FileInv' /\ Instants' /\ Grows /\ Gone(at)' /\ (InFile(at)' => HistoryValue'[at] = at)
<1>1. FileInv' /\ (H!WriteLater(at, at) \/ H!WriteEarlier(at, at))
  BY Basics, WithinFile, WriteHistory
<1>2. /\ highest_time \in Nat \cup {NoTime} /\ NoTime \notin Nat /\ at \in Nat /\ NoValue \notin Time
      /\ file_size \in Nat /\ Time \subseteq Nat
  BY Basics
<1>3. \A t \in Time : HistoryValue[t] \in {NoValue, t}
  BY DEF DiskInv, BufferInv, Instants
<1>4. HistoryValue = [t \in Time |-> HistoryValue[t]]
  BY DEF HistoryValue
<1>5. CASE H!WriteLater(at, at)
  <2>1. /\ highest_time = NoTime \/ at > highest_time
        /\ highest_time' = at
        /\ \A t \in Time : HistoryValue'[t] = IF ~H!InBuffer(t, at) THEN NoValue
                                              ELSE IF t = at THEN at ELSE HistoryValue[t]
    BY <1>5 DEF H!WriteLater
  <2>2. Instants'
    BY <1>3, <2>1 DEF Instants
  <2>3. \A t \in Time : InFile(t)' <=> H!InBuffer(t, at)
    BY <1>2, <2>1 DEF InFile, is_past_in_buffer, H!InBuffer
  <2>4. ASSUME NEW t \in Time, Gone(t), InFile(t)' PROVE InFile(t) /\ HistoryValue'[t] = HistoryValue[t]
    <3>1. highest_time \in Nat /\ t \in Nat /\ t <= highest_time /\ highest_time < at /\ at - t < file_size
      BY <1>2, <2>1, <2>3, <2>4 DEF Gone, H!InBuffer
    <3>2. InFile(t)
      BY <1>2, <3>1 DEF InFile, is_past_in_buffer
    <3> QED
      BY <1>2, <2>1, <2>3, <2>4, <3>1, <3>2
  <2>5. Grows
    BY <1>2, <2>1, <2>4 DEF Grows
  <2>6. Gone(at)' /\ (InFile(at)' => HistoryValue'[at] = at)
    BY <1>2, <2>1, <2>3 DEF Gone
  <2> QED
    BY <1>1, <2>2, <2>5, <2>6
<1>6. CASE H!WriteEarlier(at, at)
  <2>1. /\ highest_time' = highest_time /\ highest_time # NoTime /\ at <= highest_time
        /\ HistoryValue[at] = NoValue /\ HistoryValue' = [HistoryValue EXCEPT ![at] = at]
    BY <1>6 DEF H!WriteEarlier, H!InBuffer
  <2>2. \A t \in Time : HistoryValue'[t] = IF t = at THEN at ELSE HistoryValue[t]
    BY <1>4, <2>1
  <2>3. Instants'
    BY <1>3, <2>2 DEF Instants
  <2>4. \A t \in Time : InFile(t)' <=> InFile(t)
    BY <2>1 DEF InFile, is_past_in_buffer
  <2>5. Grows
    BY <1>2, <2>1, <2>2, <2>4 DEF Grows
  <2>6. Gone(at)' /\ HistoryValue'[at] = at
    BY <2>1, <2>2 DEF Gone
  <2> QED
    BY <1>1, <2>3, <2>5, <2>6
<1> QED
  BY <1>1, <1>5, <1>6

-----------------------------------------------------------------------------
(* A write by a Python program, which may go after the buffer.             *)

(* The slots after a write, wherever it goes. *)
LEMMA FillAny ==
  ASSUME NEW pos \in Slot, NEW v \in Value, NEW C, slot \in [Slot -> SlotState], Fill(pos, v, C)
  PROVE  /\ slot' \in [Slot -> SlotState]
         /\ slot'[pos] = Holds(v)
         /\ \A p \in Slot : p # pos /\ p \in C => slot'[p] = Null
         /\ \A p \in Slot : p # pos /\ p \notin C => slot'[p] = slot[p]
BY SlotStates DEF Fill

(* What a write later than all others does: the instants that stay in the  *)
(* buffer keep their slots, but those whose slots were after its end.      *)
ItemMoves(at) ==
  /\ highest_time' = at
  /\ highest_time # NoTime => at > highest_time
  /\ FileTypes' /\ (Within \/ Beyond)'
  /\ SlotOf(at)' = Holds(at)
  /\ \A t \in Time : t < at /\ at - t < file_size =>
       IF Readable(t) /\ t \notin Strays
       THEN SlotOf(t)' = SlotOf(t) /\ pos_in_past(highest_time - t)' = pos_in_past(highest_time - t)
       ELSE SlotOf(t)' = Null

(* No slot is after the buffer as long as the next write is not. *)
LEMMA NoStray ==
  ASSUME DiskInv, Within
  PROVE  Strays = {}
<1> SUFFICES ASSUME NEW t \in Time, Readable(t) PROVE pos_in_past(highest_time - t) < file_size
  <2>1. \A t \in Time : Readable(t) => pos_in_past(highest_time - t) \in Int
    BY Basics DEF Readable, pos_in_past
  <2>2. file_size \in Nat
    BY Basics
  <2> QED
    BY <2>1, <2>2 DEF Strays
<1>1. /\ highest_time \in Nat /\ t \in Nat /\ t <= highest_time
      /\ file_size \in Nat /\ file_size # 0 /\ highest_time - t < file_size /\ next_free_pos \in Nat
  BY Basics DEF Readable, is_past_in_buffer
<1> QED
  BY <1>1, PositionInBuffer DEF Within

(* A write that data::File would make moves like its own. *)
LEMMA MovesAlike ==
  ASSUME DiskInv, Within, file_size # 0, NEW at \in Time, WriteFirst(at, at) \/ WriteFuture(at, at)
  PROVE  ItemMoves(at)
<1>1. Moves(at, at)
  BY Basics, WithinFile, FirstMoves, FutureMoves DEF FileInv
<1>2. /\ file_size \in Nat /\ at \in Nat /\ next_free_pos \in Nat /\ next_free_pos < file_size
      /\ highest_time \in Nat \cup {NoTime} /\ NoTime \notin Nat
  BY Basics DEF Within
<1>3. highest_time' = at /\ (highest_time # NoTime => at > highest_time)
  BY DEF WriteFirst, WriteFuture
<1>4. FileTypes' /\ Within'
  BY <1>1, <1>2 DEF Moves, FileTypes, Within
<1>5. ASSUME NEW t \in Time, t < at, at - t < file_size, Readable(t)
      PROVE  pos_in_past(highest_time - t)' = pos_in_past(highest_time - t)
  <2> DEFINE nb_zeros == at - 1 - highest_time
             data_pos == next_free_pos + nb_zeros
             wrapped  == IF data_pos >= file_size THEN data_pos - file_size ELSE data_pos
  <2>1. highest_time \in Nat /\ t \in Nat /\ t <= highest_time /\ highest_time - t < file_size /\ highest_time # NoTime
    BY <1>2, <1>5, Basics DEF Readable, is_past_in_buffer
  <2>2. WriteFuture(at, at)
    BY <2>1 DEF WriteFirst
  <2>3. nb_zeros <= file_size
    BY <1>2, <1>3, <1>5, <2>1
  <2>4. next_free_pos' = next_pos(wrapped)
    BY <1>2, <2>1, <2>2, <2>3 DEF WriteFuture
  <2> QED
    BY <1>2, <1>3, <1>5, <2>1, <2>3, <2>4 DEF next_pos, pos_in_past
<1> QED
  BY <1>1, <1>3, <1>4, <1>5, NoStray DEF Moves, ItemMoves

(* The first write at the instant that is the size of the file. *)
LEMMA FirstBeyond ==
  ASSUME DiskInv, file_size # 0, highest_time = NoTime, file_size \in Time, setitem_first(file_size, file_size)
  PROVE  ItemMoves(file_size)
<1> DEFINE at == file_size
<1>1. at \in Nat /\ at # 0 /\ NoTime \notin Nat /\ at \in Slot
  BY Basics, BufferSlots
<1>2. Fill(at, at, 0..(at - 1)) /\ next_free_pos' = at + 1 /\ highest_time' = at
  BY <1>1 DEF setitem_first, ClearedBefore, next_pos
<1>3. /\ slot' \in [Slot -> SlotState] /\ slot'[at] = Holds(at)
      /\ \A p \in 0..(at - 1) : slot'[p] = Null
  BY <1>1, <1>2, FillAny, Basics, BufferSlots DEF DiskInv, BufferInv, FileTypes
<1>4. FileTypes' /\ Beyond'
  BY <1>1, <1>2, <1>3, Basics DEF FileTypes, Beyond
<1>5. pos_in_past(highest_time - at)' = at
  BY <1>1, <1>2 DEF pos_in_past
<1>6. ASSUME NEW t \in Time, t < at PROVE pos_in_past(highest_time - t)' = t /\ t \in 0..(at - 1) /\ ~Readable(t)
  BY <1>1, <1>2, <1>6, Basics DEF pos_in_past, Readable
<1>7. SlotOf(at)' = Holds(at) /\ \A t \in Time : t < at => SlotOf(t)' = Null /\ ~Readable(t)
  BY <1>3, <1>5, <1>6 DEF SlotOf
<1> QED
  BY <1>2, <1>4, <1>7 DEF ItemMoves

(* A write in the future when the last one went after the buffer. *)
LEMMA FutureBeyond ==
  ASSUME DiskInv, Beyond, NEW at \in Time, WriteFuture(at, at)
  PROVE  ItemMoves(at)
<1> DEFINE nb_zeros == at - 1 - highest_time
           data_pos == next_free_pos + nb_zeros
           wrapped  == data_pos - file_size
<1>1. /\ file_size \in Nat /\ file_size # 0 /\ at \in Nat /\ highest_time \in Nat /\ highest_time # NoTime
      /\ at > highest_time /\ highest_time' = at /\ next_free_pos \in Nat
      /\ file_size < next_free_pos /\ next_free_pos <= highest_time + 1
      /\ slot \in [Slot -> SlotState] /\ at \in Value /\ NoTime \notin Nat
      /\ \A t \in Time : t \in Nat
  BY Basics DEF WriteFuture, Beyond, DiskInv, BufferInv, FileTypes
<1>2. CASE nb_zeros > file_size
  <2>1. Fill(0, at, 0..(file_size - 1)) /\ next_free_pos' = next_pos(0)
    BY <1>2 DEF WriteFuture
  <2>2. 0 \in Slot
    BY <1>1, BufferSlots
  <2>3. /\ slot' \in [Slot -> SlotState] /\ slot'[0] = Holds(at)
        /\ \A p \in 1..(file_size - 1) : slot'[p] = Null
    BY <1>1, <2>1, <2>2, FillAny, BufferSlots
  <2>4. FileTypes' /\ Within'
    BY <1>1, <2>1, <2>3 DEF FileTypes, Within, next_pos
  <2>5. pos_in_past(highest_time - at)' = 0
    BY <1>1, <2>1 DEF next_pos, pos_in_past
  <2>6. ASSUME NEW t \in Time, t < at, at - t < file_size
        PROVE  pos_in_past(highest_time - t)' \in 1..(file_size - 1) /\ ~Readable(t)
    BY <1>1, <1>2, <2>1, <2>6 DEF next_pos, pos_in_past, Readable
  <2>7. SlotOf(at)' = Holds(at)
    BY <2>3, <2>5 DEF SlotOf
  <2>8. ASSUME NEW t \in Time, t < at, at - t < file_size PROVE SlotOf(t)' = Null /\ ~Readable(t)
    BY <2>3, <2>6, <2>8 DEF SlotOf
  <2> QED
    BY <1>1, <2>4, <2>7, <2>8 DEF ItemMoves
<1>3. CASE nb_zeros <= file_size
  <2>1. Fill(wrapped, at, ClearedPart(data_pos)) /\ next_free_pos' = next_pos(wrapped)
    BY <1>1, <1>3 DEF WriteFuture
  <2>2. wrapped \in Nat /\ wrapped <= at /\ wrapped > 0
    BY <1>1, <1>3
  <2>3. wrapped \in Slot
    <3>1. wrapped \in 0..at
      BY <1>1, <2>2
    <3> QED
      BY <3>1, Basics DEF Slot
  <2>4. \A p \in Nat : p \in ClearedPart(data_pos) <=> p < wrapped
    BY <1>1, <2>2 DEF ClearedPart
  <2>5. /\ slot' \in [Slot -> SlotState] /\ slot'[wrapped] = Holds(at)
        /\ \A p \in Slot : p # wrapped /\ p \in Nat /\ p < wrapped => slot'[p] = Null
        /\ \A p \in Slot : p # wrapped /\ p \in Nat /\ ~(p < wrapped) => slot'[p] = slot[p]
    BY <1>1, <2>1, <2>3, <2>4, FillAny
  <2>6. next_free_pos' = IF wrapped + 1 = file_size THEN 0 ELSE wrapped + 1
    BY <2>1 DEF next_pos
  <2>7. FileTypes' /\ (Within \/ Beyond)'
    BY <1>1, <2>2, <2>5, <2>6 DEF FileTypes, Within, Beyond
  <2>8. pos_in_past(highest_time - at)' = wrapped
    BY <1>1, <2>2, <2>6 DEF pos_in_past
  <2>9. ASSUME NEW t \in Time, t < at, at - t < file_size
        PROVE  pos_in_past(highest_time - t)' = IF at - t <= wrapped THEN wrapped - (at - t)
                                                ELSE wrapped - (at - t) + file_size
    BY <1>1, <2>2, <2>6, <2>9 DEF pos_in_past
  <2>10. ASSUME NEW t \in Time, Readable(t), at - t < file_size
         PROVE  /\ t <= highest_time
                /\ pos_in_past(highest_time - t) = wrapped - (at - t) + file_size
                /\ t \in Strays <=> at - t <= wrapped
    <3>1. t \in Nat /\ t <= highest_time /\ highest_time - t < file_size
      BY <1>1, <2>10 DEF Readable, is_past_in_buffer
    <3>2. pos_in_past(highest_time - t) = wrapped - (at - t) + file_size
      BY <1>1, <3>1 DEF pos_in_past
    <3>3. t \in Strays <=> pos_in_past(highest_time - t) >= file_size
      BY <2>10 DEF Strays
    <3> QED
      BY <1>1, <2>2, <3>1, <3>2, <3>3
  <2>11. ASSUME NEW t \in Time, t < at, at - t < file_size, Readable(t), t \notin Strays
         PROVE  SlotOf(t)' = SlotOf(t) /\ pos_in_past(highest_time - t)' = pos_in_past(highest_time - t)
    <3> DEFINE pos == pos_in_past(highest_time - t)
    <3>1. pos \in Slot
      BY <2>11, Placed
    <3>2. t \in Nat /\ ~(at - t <= wrapped) /\ pos = wrapped - (at - t) + file_size
      BY <1>1, <2>10, <2>11
    <3>3. pos' = pos /\ pos \in Nat /\ pos # wrapped /\ ~(pos < wrapped)
      BY <1>1, <2>2, <2>9, <2>11, <3>2
    <3> HIDE DEF pos
    <3>4. slot'[pos] = slot[pos]
      BY <2>5, <3>1, <3>3
    <3> QED
      BY <3>3, <3>4 DEF SlotOf, pos
  <2>12. ASSUME NEW t \in Time, t < at, at - t < file_size, ~(Readable(t) /\ t \notin Strays)
         PROVE  SlotOf(t)' = Null
    <3>1. at - t <= wrapped
      <4>1. CASE Readable(t)
        BY <2>10, <2>12, <4>1
      <4>2. CASE ~Readable(t)
        BY <1>1, <2>2, <2>12, <4>2 DEF Readable, is_past_in_buffer
      <4> QED
        BY <4>1, <4>2
    <3>2. wrapped - (at - t) \in 0..(wrapped - 1) /\ wrapped - (at - t) \in 0..at
      BY <1>1, <2>2, <2>12, <3>1
    <3>3. wrapped - (at - t) \in Slot
      BY <3>2, Basics DEF Slot
    <3>4. slot'[wrapped - (at - t)] = Null
      BY <2>2, <2>5, <3>2, <3>3
    <3> QED
      BY <2>9, <2>12, <3>1, <3>4 DEF SlotOf
  <2>13. SlotOf(at)' = Holds(at)
    BY <2>5, <2>8 DEF SlotOf
  <2> HIDE DEF wrapped
  <2> QED
    BY <1>1, <2>7, <2>11, <2>12, <2>13 DEF ItemMoves
<1> QED
  BY <1>1, <1>2, <1>3

(* The history variable of a write of a Python program. *)
Loses == lost' = lost \cup IF highest_time' = highest_time THEN {} ELSE Strays

(* What a write of a Python program does, and that the instants that stay  *)
(* in the file keep their positions.                                       *)
ItemDone(at) ==
  /\ BufferInv' /\ Grows /\ Gone(at)'
  /\ \A t \in Time \ lost' : Readable(t) /\ Readable(t)' =>
       pos_in_past(highest_time - t)' = pos_in_past(highest_time - t)

LEMMA LaterItem ==
  ASSUME DiskInv, file_size # 0, NEW at \in Time, ItemMoves(at), Loses
  PROVE  ItemDone(at)
<1>1. /\ file_size \in Nat /\ at \in Nat /\ at # NoTime /\ highest_time \in Nat \cup {NoTime}
      /\ highest_time' = at /\ NoTime \notin Nat
      /\ highest_time # NoTime => at > highest_time
      /\ \A t \in Time : t \in Nat /\ t # NoValue
  BY Basics DEF ItemMoves
<1>2. \A t \in Time : (Readable(t)' <=> t <= at /\ at - t < file_size) /\ (InFile(t)' <=> Readable(t)')
  BY <1>1 DEF Readable, InFile, is_past_in_buffer
<1>3. lost' = lost \cup Strays
  BY <1>1 DEF Loses
<1>4. ASSUME NEW t \in Time, Readable(t)', t # at
      PROVE  IF Readable(t) /\ t \notin Strays
             THEN SlotOf(t)' = SlotOf(t) /\ pos_in_past(highest_time - t)' = pos_in_past(highest_time - t)
             ELSE SlotOf(t)' = Null
  <2>1. t < at /\ at - t < file_size
    BY <1>1, <1>2, <1>4
  <2> QED
    BY <2>1 DEF ItemMoves
<1>5. /\ Holds(at).flag = "ready" /\ Holds(at).val = at /\ Null.flag = "busy" /\ SlotOf(at)' = Holds(at)
  BY DEF Holds, Null, ItemMoves
<1>6. ASSUME NEW t \in Time, Readable(t)'
      PROVE  /\ SlotOf(t).flag' # "none"
             /\ SlotOf(t).flag' = "ready" => SlotOf(t).val' = t
  <2>1. CASE t = at
    BY <1>5, <2>1
  <2>2. CASE t # at /\ Readable(t) /\ t \notin Strays
    <3>1. SlotOf(t)' = SlotOf(t)
      BY <1>4, <1>6, <2>2
    <3>2. SlotOf(t).flag # "none" /\ (SlotOf(t).flag = "ready" => SlotOf(t).val = t)
      BY <2>2, InFileReadable
    <3> QED
      BY <3>1, <3>2
  <2>3. CASE t # at /\ ~(Readable(t) /\ t \notin Strays)
    BY <1>4, <1>5, <1>6, <2>3
  <2> QED
    BY <2>1, <2>2, <2>3
<1>7. \A t \in Time : HistoryValue'[t] = IF Readable(t)' /\ SlotOf(t).flag' = "ready" THEN SlotOf(t).val' ELSE NoValue
  BY DEF HistoryValue
<1>8. BufferInv'
  <2>1. Covered'
    BY <1>6 DEF Covered
  <2>2. Instants'
    BY <1>6, <1>7 DEF Instants
  <2> QED
    BY <2>1, <2>2 DEF ItemMoves, BufferInv
<1>9. ASSUME NEW t \in Time, Gone(t), InFile(t)' PROVE InFile(t) /\ Readable(t) /\ t # at
  <2>1. highest_time \in Nat /\ t <= highest_time /\ highest_time < at /\ at - t < file_size /\ t \in Nat
    BY <1>1, <1>2, <1>9 DEF Gone
  <2> QED
    BY <1>1, <2>1, InFileReadable DEF InFile, is_past_in_buffer
<1>10. ASSUME NEW t \in Time \ lost', Gone(t), InFile(t)', HistoryValue[t] # NoValue
       PROVE  HistoryValue'[t] = HistoryValue[t]
  <2>1. Readable(t) /\ t # at /\ t \notin Strays /\ Readable(t)'
    BY <1>2, <1>3, <1>9, <1>10
  <2>2. SlotOf(t)' = SlotOf(t)
    BY <1>4, <2>1
  <2>3. SlotOf(t).flag = "ready" /\ HistoryValue[t] = SlotOf(t).val
    BY <1>10, <2>1 DEF HistoryValue
  <2> QED
    BY <1>7, <2>1, <2>2, <2>3
<1>11. Grows
  BY <1>1, <1>3, <1>9, <1>10 DEF Grows
<1>12. ASSUME NEW t \in Time \ lost', Readable(t), Readable(t)'
       PROVE  pos_in_past(highest_time - t)' = pos_in_past(highest_time - t)
  <2>1. t \notin Strays
    BY <1>3, <1>12
  <2>2. t # at
    BY <1>1, <1>12 DEF Readable
  <2> QED
    BY <1>4, <1>12, <2>1, <2>2
<1>13. Gone(at)'
  BY <1>1 DEF Gone
<1> QED
  BY <1>8, <1>11, <1>12, <1>13 DEF ItemDone

(* Two instants of the buffer never share a slot. *)
LEMMA SlotsDiffer ==
  ASSUME DiskInv, NEW t \in Time, NEW u \in Time, Readable(t), Readable(u), t # u
  PROVE  pos_in_past(highest_time - t) # pos_in_past(highest_time - u)
<1>1. /\ highest_time \in Nat /\ t \in Nat /\ t <= highest_time /\ u \in Nat /\ u <= highest_time
      /\ file_size \in Nat /\ file_size # 0 /\ highest_time - t < file_size /\ highest_time - u < file_size
      /\ next_free_pos \in Nat
  BY Basics DEF Readable, is_past_in_buffer
<1>2. CASE Within
  BY <1>1, <1>2, PositionInjective DEF Within
<1>3. CASE Beyond
  BY <1>1, <1>3 DEF Beyond, pos_in_past
<1> QED
  BY <1>2, <1>3 DEF DiskInv, BufferInv

LEMMA PastItem ==
  ASSUME DiskInv, NEW at \in Time, WritePast(at, at), Loses
  PROVE  ItemDone(at)
<1> DEFINE pos == pos_in_past(highest_time - at)
<1>1. /\ Readable(at) /\ SlotOf(at).flag = "busy" /\ Fill(pos, at, {})
      /\ highest_time' = highest_time /\ next_free_pos' = next_free_pos
  BY DEF WritePast
<1>2. /\ at \in Value /\ highest_time \in Nat /\ highest_time # NoTime /\ at \in Nat /\ at <= highest_time
      /\ slot \in [Slot -> SlotState] /\ \A t \in Time : t # NoValue
  BY <1>1, Basics DEF Readable, DiskInv, BufferInv, FileTypes
<1>3. pos \in Slot
  BY <1>1, Placed
<1>4. /\ slot' \in [Slot -> SlotState] /\ slot'[pos] = Holds(at)
      /\ \A p \in Slot : p # pos => slot'[p] = slot[p]
  BY <1>1, <1>2, <1>3, FillAny
<1>5. \A t \in Time : /\ Readable(t)' <=> Readable(t)
                      /\ InFile(t)' <=> InFile(t)
                      /\ pos_in_past(highest_time - t)' = pos_in_past(highest_time - t)
  BY <1>1 DEF Readable, InFile, is_past_in_buffer, pos_in_past
<1>6. SlotOf(at)' = Holds(at) /\ Holds(at).flag = "ready" /\ Holds(at).val = at
  BY <1>4, <1>5 DEF SlotOf, Holds
<1>7. ASSUME NEW t \in Time, Readable(t), t # at PROVE SlotOf(t)' = SlotOf(t)
  <2>1. pos_in_past(highest_time - t) # pos /\ pos_in_past(highest_time - t) \in Slot
    BY <1>1, <1>7, SlotsDiffer, Placed
  <2> QED
    BY <1>4, <1>5, <2>1 DEF SlotOf
<1>8. \A t \in Time : HistoryValue'[t] = IF Readable(t)' /\ SlotOf(t).flag' = "ready" THEN SlotOf(t).val' ELSE NoValue
  BY DEF HistoryValue
<1>9. \A t \in Time : HistoryValue[t] = IF Readable(t) /\ SlotOf(t).flag = "ready" THEN SlotOf(t).val ELSE NoValue
  BY DEF HistoryValue
<1>10. HistoryValue'[at] = at /\ HistoryValue[at] = NoValue
  BY <1>1, <1>5, <1>6, <1>8, <1>9
<1>11. \A t \in Time : t # at => HistoryValue'[t] = HistoryValue[t]
  BY <1>5, <1>7, <1>8, <1>9
<1>12. BufferInv'
  <2>1. FileTypes' /\ (Within \/ Beyond)'
    BY <1>1, <1>4 DEF DiskInv, BufferInv, FileTypes, Within, Beyond
  <2>2. Covered'
    BY <1>5, <1>6, <1>7 DEF DiskInv, BufferInv, Covered
  <2>3. Instants'
    BY <1>10, <1>11 DEF DiskInv, BufferInv, Instants
  <2> QED
    BY <2>1, <2>2, <2>3 DEF BufferInv
<1>13. Grows
  BY <1>1, <1>2, <1>5, <1>10, <1>11 DEF Grows, Loses
<1>14. Gone(at)'
  BY <1>1, <1>2 DEF Gone
<1> QED
  BY <1>5, <1>12, <1>13, <1>14 DEF ItemDone

LEMMA ItemParts ==
  ASSUME DiskInv, NEW at \in Time, setitem(at, at), Loses
  PROVE  ItemDone(at)
<1>1. file_size # 0 /\ file_size \in Nat /\ at \in Nat
  BY Basics DEF setitem
<1>2. CASE WritePast(at, at)
  BY <1>2, PastItem
<1>3. CASE setitem_first(at, at)
  <2>1. highest_time = NoTime
    BY <1>3 DEF setitem_first
  <2>2. Within
    BY <2>1 DEF DiskInv, BufferInv, Beyond
  <2>3. CASE at = file_size
    BY <1>1, <1>3, <2>1, <2>3, FirstBeyond, LaterItem
  <2>4. CASE at # file_size
    <3>1. WriteFirst(at, at)
      BY <1>1, <1>3, <2>4 DEF setitem_first, WriteFirst
    <3> QED
      BY <1>1, <2>2, <3>1, MovesAlike, LaterItem
  <2> QED
    BY <2>3, <2>4
<1>4. CASE WriteFuture(at, at)
  <2>1. CASE Within
    BY <1>1, <1>4, <2>1, MovesAlike, LaterItem
  <2>2. CASE Beyond
    BY <1>1, <1>4, <2>2, FutureBeyond, LaterItem
  <2> QED
    BY <2>1, <2>2 DEF DiskInv, BufferInv
<1> QED
  BY <1>2, <1>3, <1>4 DEF setitem

(* The header the server has stays right for what is still in the file. *)
LEMMA LateKept ==
  ASSUME DiskInv, NEW at \in Time, ItemDone(at), UNCHANGED <<s_highest, s_next>>
  PROVE  LateHeader'
<1>1. Grows /\ highest_time' # NoTime /\ highest_time' \in Time \cup {NoTime} /\ lost \subseteq lost'
  BY DEF ItemDone, Gone, BufferInv, FileTypes, Grows
<1>2. /\ s_highest # NoTime => s_highest \in Nat /\ highest_time \in Nat /\ s_highest <= highest_time
      /\ highest_time' \in Nat /\ NoTime \notin Nat /\ Time \subseteq Nat /\ file_size \in Nat
  BY <1>1, Basics DEF DiskInv, LateHeader
<1>3. s_highest # NoTime => s_highest \in Time /\ s_highest <= highest_time'
  BY <1>1, <1>2 DEF Grows, DiskInv, LateHeader
<1>4. ASSUME NEW t \in Time \ lost', S!Readable(t)', Readable(t)'
      PROVE  S!pos_in_past(s_highest - t)' = pos_in_past(highest_time - t)'
  <2>1. S!Readable(t)
    BY <1>4 DEF S!Readable, S!is_past_in_buffer
  <2>2. Gone(t)
    BY <1>2, <2>1 DEF S!Readable, Gone
  <2>3. InFile(t)'
    BY <1>4 DEF Readable, InFile
  <2>4. InFile(t)
    BY <1>1, <2>2, <2>3 DEF Grows
  <2>5. Readable(t)
    BY <2>4, InFileReadable
  <2>6. S!pos_in_past(s_highest - t) = pos_in_past(highest_time - t)
    BY <1>1, <1>4, <2>1, <2>5 DEF DiskInv, LateHeader
  <2>7. S!pos_in_past(s_highest - t)' = S!pos_in_past(s_highest - t)
    BY DEF S!pos_in_past
  <2> QED
    BY <1>4, <2>5, <2>6, <2>7 DEF ItemDone
<1> QED
  BY <1>1, <1>3, <1>4 DEF LateHeader

(* A header that has just been read is that of the file. *)
LEMMA HeaderLate ==
  ASSUME FileTypes', s_highest' = highest_time', s_next' = next_free_pos'
  PROVE  LateHeader'
<1>1. highest_time' \in Time \cup {NoTime} /\ Time \subseteq Nat
  BY VarFileAssumption DEF FileTypes
<1>2. \A t \in Time : S!pos_in_past(s_highest - t)' = pos_in_past(highest_time - t)'
  BY DEF S!pos_in_past, pos_in_past
<1> QED
  BY <1>1, <1>2 DEF LateHeader

(* A step that leaves the slots and the header of the file alone. *)
LEMMA DiskSame ==
  ASSUME DiskInv, UNCHANGED <<slot, highest_time, next_free_pos, lost>>
  PROVE  BufferInv' /\ Grows /\ (Within' <=> Within)
<1>1. FileTypes' /\ (Within' <=> Within) /\ (Beyond' <=> Beyond)
  BY DEF DiskInv, BufferInv, FileTypes, Within, Beyond
<1>2. Covered'
  BY DEF DiskInv, BufferInv, Covered, Readable, SlotOf, pos_in_past, is_past_in_buffer
<1>3. HistoryValue' = HistoryValue
  BY DEF HistoryValue, Readable, SlotOf, pos_in_past, is_past_in_buffer
<1>4. highest_time # NoTime => highest_time <= highest_time'
  <2>1. highest_time # NoTime => highest_time \in Nat
    BY Basics
  <2> QED
    BY <2>1
<1>5. Instants'
  BY <1>3 DEF DiskInv, BufferInv, Instants
<1>6. Grows
  BY <1>3, <1>4 DEF Grows, InFile, is_past_in_buffer
<1> QED
  BY <1>1, <1>2, <1>5, <1>6 DEF DiskInv, BufferInv

LEMMA LateSame ==
  ASSUME DiskInv, UNCHANGED <<highest_time, next_free_pos, s_highest, s_next, lost>>
  PROVE  LateHeader'
BY DEF DiskInv, LateHeader, S!Readable, Readable, S!pos_in_past, pos_in_past, S!is_past_in_buffer, is_past_in_buffer

(* The server writes with the header of the file. *)
LEMMA ServerWrites ==
  ASSUME s_highest = highest_time, s_next = next_free_pos,
         s_highest' = highest_time', s_next' = next_free_pos', NEW at \in Time, S!Write(at, at)
  PROVE  Write(at, at)
<1>1. CASE file_size = 0
  BY <1>1 DEF S!Write, Write, S!WriteNothing, WriteNothing
<1>2. CASE file_size # 0 /\ S!WriteFirst(at, at)
  <2>1. WriteFirst(at, at)
    BY <1>2 DEF S!WriteFirst, WriteFirst, S!Fill, Fill, S!Slot, Slot, S!Holds, Holds, S!Null, Null,
       S!next_pos, next_pos, S!ClearedBefore, ClearedBefore
  <2> QED
    BY <1>2, <2>1 DEF Write
<1>3. CASE file_size # 0 /\ S!WritePast(at, at)
  <2>1. WritePast(at, at)
    BY <1>3 DEF S!WritePast, WritePast, S!Fill, Fill, S!Slot, Slot, S!Holds, Holds, S!Null, Null,
       S!Readable, Readable, S!SlotOf, SlotOf, S!pos_in_past, pos_in_past, S!is_past_in_buffer, is_past_in_buffer
  <2> QED
    BY <1>3, <2>1 DEF Write
<1>4. CASE file_size # 0 /\ S!WriteFuture(at, at)
  <2>1. WriteFuture(at, at)
    BY <1>4 DEF S!WriteFuture, WriteFuture, S!Fill, Fill, S!Slot, Slot, S!Holds, Holds, S!Null, Null,
       S!next_pos, next_pos, S!ClearedPart, ClearedPart
  <2> QED
    BY <1>4, <2>1 DEF Write
<1> QED
  BY <1>1, <1>2, <1>3, <1>4 DEF S!Write

(* The evaluation of a result that becomes ready. *)
LEMMA DeclareReady ==
  ASSUME DiskInv, Within, lost' = lost, s_highest = highest_time, s_next = next_free_pos,
         NEW at \in Time, declare_ready(at)
  PROVE  /\ DiskInv' /\ Within' /\ Grows /\ s_highest' = highest_time' /\ s_next' = next_free_pos'
         /\ Gone(at)' /\ Filed(at, at)'
<1>1. s_highest' = highest_time' /\ s_next' = next_free_pos'
  BY DEF declare_ready
<1>2. CASE Writable(at)
  <2>1. Write(at, at)
    BY <1>1, <1>2, ServerWrites DEF declare_ready
  <2>2. FileInv' /\ Instants' /\ Grows /\ Gone(at)' /\ (InFile(at)' => HistoryValue'[at] = at)
    BY <2>1, WriteParts
  <2>3. FileTypes' /\ Within' /\ Covered'
    BY <2>2, FileWithinNext
  <2>4. DiskInv'
    BY <1>1, <2>2, <2>3, HeaderLate DEF DiskInv, BufferInv
  <2> QED
    BY <1>1, <2>2, <2>3, <2>4 DEF Filed
<1>3. CASE ~Writable(at)
  <2>1. UNCHANGED <<slot, highest_time, next_free_pos, s_highest, s_next>>
    BY <1>3 DEF declare_ready
  <2>2. BufferInv' /\ Grows /\ Within' /\ LateHeader'
    BY <2>1, DiskSame, LateSame
  <2>3. /\ highest_time # NoTime /\ ~(at > highest_time)
        /\ ~(Readable(at) /\ SlotOf(at).flag = "busy")
    BY <1>3 DEF Writable, S!Readable, Readable, S!SlotOf, SlotOf, S!pos_in_past, pos_in_past,
       S!is_past_in_buffer, is_past_in_buffer
  <2>4. Gone(at)
    <3>1. highest_time \in Nat /\ at \in Nat
      BY <2>3, Basics
    <3> QED
      BY <2>3, <3>1 DEF Gone
  <2>5. InFile(at) => HistoryValue[at] = at
    BY <2>3, InFileReadable
  <2>6. HistoryValue' = HistoryValue /\ (InFile(at)' <=> InFile(at)) /\ Gone(at)'
    BY <2>1, <2>4 DEF HistoryValue, Readable, SlotOf, pos_in_past, is_past_in_buffer, InFile, Gone
  <2> QED
    BY <1>1, <2>2, <2>5, <2>6 DEF DiskInv, Filed
<1> QED
  BY <1>2, <1>3

(* What a step does to the file and to the headers. *)
LEMMA DiskStep == ReadInv /\ [CacheNext]_allVars => DiskInv' /\ Grows /\ OwnHeader'
<1> SUFFICES ASSUME ReadInv, [CacheNext]_allVars PROVE DiskInv' /\ Grows /\ OwnHeader'
  OBVIOUS
<1> USE DEF ReadInv
<1>0. BufferInv' => FileTypes'
  BY DEF BufferInv
<1>1. CASE UNCHANGED <<slot, highest_time, next_free_pos, writer, lost>> /\ loaded' = TRUE /\ HeaderRead
  <2>1. BufferInv' /\ Grows /\ (Within' <=> Within)
    BY <1>1, DiskSame
  <2>2. LateHeader'
    BY <1>0, <1>1, <2>1, HeaderLate DEF HeaderRead
  <2> QED
    BY <1>1, <2>1, <2>2 DEF HeaderRead, DiskInv, OwnHeader
<1>2. CASE UNCHANGED <<slot, highest_time, next_free_pos, writer, loaded, s_highest, s_next, lost>> /\ (loaded \/ instances' = {})
  BY <1>2, DiskSame, LateSame DEF DiskInv, OwnHeader
<1>3. ASSUME NEW t \in Type, NEW c \in CacheSize \cup {NoSize}, check(t, c)
      PROVE  DiskInv' /\ Grows /\ OwnHeader'
  BY <1>1, <1>3 DEF check, realize, Create, Retrieve
<1>4. ASSUME NEW t \in Type, NEW c \in CacheSize \cup {NoSize}, Client(t, c)
      PROVE  DiskInv' /\ Grows /\ OwnHeader'
  <2>1. UNCHANGED <<slot, highest_time, next_free_pos, writer, loaded, s_highest, s_next, instances, lost>>
    BY <1>4 DEF Client, realize, Create, Retrieve, memory
  <2> QED
    BY <1>2, <2>1 DEF OwnHeader
<1>5. CASE get_var \/ history_length
  BY <1>1, <1>5 DEF get_var, history_length, disk
<1>6. CASE clear
  <2>1. UNCHANGED <<slot, highest_time, next_free_pos, s_highest, s_next, writer, lost>> /\ loaded' = FALSE /\ instances' = {}
    BY <1>6 DEF clear, disk, memory
  <2> QED
    BY <2>1, DiskSame, LateSame DEF DiskInv, OwnHeader
<1>7. CASE clean_up \/ \E at \in Time, h \in BOOLEAN : instance(at, h)
  <2>1. UNCHANGED <<slot, highest_time, next_free_pos, writer, loaded, s_highest, s_next, lost>> /\ loaded
    BY <1>7 DEF clean_up, instance, Hit, Build, disk, memory
  <2> QED
    BY <1>2, <2>1
<1>8. ASSUME NEW x \in instances, Release(x) PROVE DiskInv' /\ Grows /\ OwnHeader'
  <2>1. UNCHANGED <<slot, highest_time, next_free_pos, writer, loaded, s_highest, s_next, lost>>
    BY <1>8 DEF Release, disk, memory
  <2>2. loaded
    BY DEF OwnHeader
  <2> QED
    BY <1>2, <2>1, <2>2
<1>9. ASSUME NEW at \in Time, ClientWrites(at) PROVE DiskInv' /\ Grows /\ OwnHeader'
  <2>1. /\ setitem(at, at) /\ Loses
        /\ UNCHANGED <<s_highest, s_next, writer, loaded, instances>> /\ writer = "client"
    BY <1>9 DEF ClientWrites, Loses, memory
  <2>2. ItemDone(at)
    BY <2>1, ItemParts
  <2>3. BufferInv' /\ Grows /\ LateHeader'
    BY <2>1, <2>2, LateKept DEF ItemDone
  <2>4. OwnHeader'
    BY <2>1 DEF OwnHeader
  <2> QED
    BY <2>3, <2>4 DEF DiskInv
<1>10. ASSUME NEW x \in instances, sync(x) PROVE DiskInv' /\ Grows /\ OwnHeader'
  <2>1. loaded /\ UNCHANGED <<slot, highest_time, next_free_pos, writer, loaded, lost>> /\ HeaderRead
    BY <1>10 DEF sync, disk, OwnHeader
  <2> QED
    BY <1>1, <2>1 DEF OwnHeader
<1>11. ASSUME NEW x \in instances, NEW ready \in BOOLEAN, set(x, ready)
       PROVE  DiskInv' /\ Grows /\ OwnHeader'
  <2>1. /\ loaded /\ loaded' /\ writer = "server" /\ s_highest = highest_time /\ s_next = next_free_pos
        /\ Within /\ lost' = lost
    BY <1>11 DEF set, OwnHeader
  <2>2. CASE declare_ready(x.at)
    <3>1. x.at \in Time
      BY DEF AllSound, Sound
    <3> QED
      BY <2>1, <2>2, <3>1, DeclareReady DEF OwnHeader
  <2>3. CASE UNCHANGED <<disk, memory>>
    <3>1. UNCHANGED <<slot, highest_time, next_free_pos, s_highest, s_next, lost>>
      BY <2>1, <2>3 DEF disk, memory
    <3> QED
      BY <2>1, <3>1, DiskSame, LateSame DEF DiskInv, OwnHeader
  <2> QED
    BY <1>11, <2>2, <2>3 DEF set
<1>12. CASE UNCHANGED allVars
  <2>1. UNCHANGED <<slot, highest_time, next_free_pos, writer, loaded, s_highest, s_next, instances, lost>>
    BY <1>12 DEF allVars, disk, memory
  <2> QED
    BY <1>2, <2>1 DEF OwnHeader
<1> QED
  BY <1>3, <1>4, <1>5, <1>6, <1>7, <1>8, <1>9, <1>10, <1>11, <1>12 DEF CacheNext

(* An instance that is left as it is stays sound as the file grows. *)
LEMMA SoundKept ==
  ASSUME DiskInv, DiskInv', Grows, NEW x, Sound(x)
  PROVE  Sound(x)'
<1>1. /\ x.at \in Time /\ x.status \in {"Busy", "Ready", "Forgotten"}
      /\ highest_time # NoTime => highest_time \in Nat
      /\ highest_time' # NoTime => highest_time' \in Nat
      /\ x.at \in Nat /\ x.at # NoValue
  <2>1. highest_time' \in Time \cup {NoTime}
    BY DEF DiskInv, BufferInv, FileTypes
  <2> QED
    BY <2>1, Basics DEF Sound
<1>2. Gone(x.at) => Gone(x.at)'
  BY <1>1 DEF Gone, Grows
<1>3. Gone(x.at) /\ Filed(x.at, x.val) => Filed(x.at, x.val)'
  BY <1>1 DEF Grows, Filed
<1>4. Gone(x.at) /\ ~InFile(x.at) => ~InFile(x.at)'
  BY <1>1 DEF Grows
<1> QED
  BY <1>1, <1>2, <1>3, <1>4 DEF Sound

(* The use of an instance and its place in the cache do not matter. *)
LEMMA SoundAlike ==
  ASSUME NEW x, NEW y, Sound(x), y.at = x.at, y.status = x.status, y.val = x.val
  PROVE  Sound(y)
BY DEF Sound

(* What an update is given, or finds when it looks again, or evaluates.    *)
LEMMA BuildSound ==
  ASSUME ReadInv, NEW at \in Time, NEW h \in BOOLEAN, Build(at, h)
  PROVE  \E y : Sound(y) /\ instances' \subseteq instances \cup {y}
<1> DEFINE a == S!Read(at)
           y == [at |-> at, status |-> availability_of(a), val |-> Content(a, at), cached |-> TRUE, held |-> h]
<1>1. Without(oldest(ToRemove)) \subseteq instances
  <2>1. oldest(ToRemove) \in SUBSET Unused
    BY DEF oldest
  <2> QED
    BY <2>1, UnusedEnd DEF ReadInv
<1>2. instances' \subseteq instances \cup {y}
  BY <1>1 DEF Build
<1>3. Sound(y)
  <2>1. CASE a = "Busy"
    BY <2>1 DEF Sound, availability_of
  <2>2. CASE a # "Busy"
    <3>1. /\ Gone(at)
          /\ InFile(at) /\ at \notin lost => a = "Ready" /\ S!SlotOf(at).val = at /\ HistoryValue[at] = at
      BY <2>2, LateRead DEF ReadInv
    <3> HIDE DEF a
    <3>2. Filed(at, Content(a, at))
      BY <3>1 DEF Filed, Content
    <3> QED
      BY <2>2, <3>1, <3>2 DEF Sound, availability_of
  <2> QED
    BY <2>1, <2>2
<1> QED
  BY <1>2, <1>3

LEMMA SyncSound ==
  ASSUME ReadInv, NEW x \in instances, sync(x)
  PROVE  \E y : Sound(y) /\ instances' \subseteq instances \cup {y}
<1> DEFINE a == Read(x.at)
           v == IF a = "Ready" THEN SlotOf(x.at).val ELSE Draft
           y == Synced(x, a, v)
<1>1. instances' \subseteq instances \cup {y}
  BY DEF sync
<1>2. x = [f \in Field |-> x[f]] /\ Sound(x) /\ x.at \in Time
  BY DEF ReadInv, CacheInv, AllSound, Sound
<1>3. y.at = x.at /\ y.status = a /\ (a = "Ready" => y.val = SlotOf(x.at).val)
  BY <1>2 DEF Synced, Field
<1>4. /\ a \in {"Busy", "Ready", "Forgotten"}
      /\ a = "Ready" => Gone(x.at) /\ HistoryValue[x.at] = x.at /\ SlotOf(x.at).val = x.at
      /\ a = "Forgotten" => Gone(x.at) /\ ~InFile(x.at)
  BY <1>2, ReadSound DEF ReadInv
<1>5. Sound(y)
  <2> HIDE DEF a, y
  <2> QED
    BY <1>2, <1>3, <1>4 DEF Sound, Filed
<1> QED
  BY <1>1, <1>5

LEMMA SetSound ==
  ASSUME ReadInv, DiskInv', Grows, NEW x \in instances, NEW ready \in BOOLEAN, set(x, ready)
  PROVE  \E y : Sound(y)' /\ instances' \subseteq instances \cup {y}
<1> DEFINE y == [x EXCEPT !.status = IF ready THEN "Ready" ELSE @, !.val = IF ready THEN x.at ELSE Draft]
<1>1. instances' \subseteq instances \cup {y} /\ x.status # "Ready"
  BY DEF set, Evaluable
<1>2. x = [f \in Field |-> x[f]] /\ Sound(x) /\ x.at \in Time /\ DiskInv
  BY DEF ReadInv, CacheInv, AllSound, Sound
<1>3. /\ y.at = x.at
      /\ ready => y.status = "Ready" /\ y.val = x.at
      /\ ~ready => y.status = x.status
  BY <1>2 DEF Field
<1>4. Sound(x)'
  BY <1>2, SoundKept
<1> HIDE DEF y
<1>5. CASE ~ready
  <2>1. Sound(y)'
    BY <1>1, <1>3, <1>4, <1>5 DEF Sound
  <2> QED
    BY <1>1, <2>1
<1>6. CASE ready /\ x.status = "Busy"
  <2>1. loaded /\ writer = "server" /\ declare_ready(x.at) /\ lost' = lost /\ Within
    BY <1>6 DEF set, ReadInv, OwnHeader, declares
  <2>2. Gone(x.at)' /\ Filed(x.at, x.at)'
    BY <1>2, <2>1, DeclareReady DEF ReadInv, OwnHeader
  <2>3. Sound(y)'
    BY <1>2, <1>3, <1>6, <2>2 DEF Sound
  <2> QED
    BY <1>1, <2>3
<1>7. CASE ready /\ x.status # "Busy"
  <2>1. Gone(x.at)' /\ ~InFile(x.at)'
    BY <1>1, <1>4, <1>7 DEF Sound
  <2>2. Sound(y)'
    BY <1>2, <1>3, <1>7, <2>1 DEF Sound, Filed
  <2> QED
    BY <1>1, <2>2
<1> QED
  BY <1>5, <1>6, <1>7

LEMMA ReadStep == ReadInv /\ [CacheNext]_allVars => ReadInv'
<1> SUFFICES ASSUME ReadInv, [CacheNext]_allVars PROVE ReadInv'
  OBVIOUS
<1>1. CacheInv' /\ DiskInv' /\ Grows /\ OwnHeader'
  BY CacheStep, DiskStep DEF ReadInv
<1> SUFFICES AllSound'
  BY <1>1 DEF ReadInv
<1>2. \A x : Sound(x) => Sound(x)'
  BY <1>1, SoundKept DEF ReadInv
<1>3. instances' \subseteq instances => AllSound'
  BY <1>2 DEF ReadInv, AllSound
<1>4. ASSUME NEW y, Sound(y)', instances' \subseteq instances \cup {y} PROVE AllSound'
  BY <1>2, <1>4 DEF ReadInv, AllSound
<1>5. \A x \in instances : x = [f \in Field |-> x[f]] /\ Sound(x)
  BY DEF ReadInv, CacheInv, AllSound
<1>6. ASSUME NEW t \in Type, NEW c \in CacheSize \cup {NoSize}, check(t, c) \/ Client(t, c) PROVE AllSound'
  BY <1>3, <1>6 DEF check, Client
<1>7. CASE get_var \/ history_length \/ clear \/ UNCHANGED allVars
  <2>1. CASE get_var \/ history_length \/ UNCHANGED allVars
    <3>1. instances' = instances
      BY <2>1 DEF get_var, history_length, allVars
    <3> QED
      BY <1>3, <3>1
  <2>2. CASE clear
    <3>1. instances' = {}
      BY <2>2 DEF clear
    <3> QED
      BY <1>3, <3>1
  <2> QED
    BY <1>7, <2>1, <2>2
<1>8. CASE clean_up
  <2>1. instances' = Without(Unused)
    BY <1>8 DEF clean_up
  <2>2. Without(Unused) \subseteq instances
    BY UnusedEnd DEF ReadInv
  <2> QED
    BY <1>3, <2>1, <2>2
<1>9. ASSUME NEW at \in Time, NEW h \in BOOLEAN, Hit(at, h) PROVE AllSound'
  <2>1. PICK x \in Cached : instances' = (instances \ {x}) \cup {Use(x, h)}
    BY <1>9 DEF Hit
  <2>2. x \in instances
    BY <2>1 DEF Cached
  <2>3. Use(x, h).at = x.at /\ Use(x, h).status = x.status /\ Use(x, h).val = x.val
    BY <1>5, <2>2 DEF Use, Field
  <2>4. Sound(Use(x, h))
    BY <1>5, <2>2, <2>3, SoundAlike
  <2> QED
    BY <1>2, <1>4, <2>1, <2>4
<1>10. ASSUME NEW at \in Time, NEW h \in BOOLEAN, Build(at, h) PROVE AllSound'
  BY <1>2, <1>4, <1>10, BuildSound
<1>11. ASSUME NEW at \in Time, ClientWrites(at) PROVE AllSound'
  BY <1>3, <1>11 DEF ClientWrites
<1>12. ASSUME NEW x \in instances, Release(x) PROVE AllSound'
  <2> DEFINE y == [x EXCEPT !.held = FALSE]
  <2>1. y.at = x.at /\ y.status = x.status /\ y.val = x.val
    BY <1>5 DEF Field
  <2>2. instances' \subseteq instances \cup {y}
    BY <1>12 DEF Release
  <2> HIDE DEF y
  <2>3. Sound(y)
    BY <1>5, <2>1, SoundAlike
  <2> QED
    BY <1>2, <1>4, <2>2, <2>3
<1>13. ASSUME NEW x \in instances, sync(x) PROVE AllSound'
  BY <1>2, <1>4, <1>13, SyncSound
<1>14. ASSUME NEW x \in instances, NEW ready \in BOOLEAN, set(x, ready) PROVE AllSound'
  BY <1>1, <1>4, <1>14, SetSound
<1>15. ASSUME NEW at \in Time, NEW h \in BOOLEAN, instance(at, h) PROVE AllSound'
  BY <1>9, <1>10, <1>15 DEF instance
<1>16. CASE CacheNext
  BY <1>6, <1>7, <1>8, <1>11, <1>12, <1>13, <1>14, <1>15, <1>16 DEF CacheNext
<1>17. CASE UNCHANGED allVars
  BY <1>7, <1>17
<1> QED
  BY <1>16, <1>17

LEMMA ReadInit == CacheInit => ReadInv
<1> SUFFICES ASSUME CacheInit PROVE ReadInv
  OBVIOUS
<1>1. FileTypes /\ Within /\ Covered /\ highest_time = NoTime /\ s_highest = NoTime /\ s_next = 0 /\ next_free_pos = 0
      /\ loaded = FALSE /\ instances = {}
  BY FileInvInit, FileWithin DEF CacheInit, Init
<1>2. \A t \in Time : HistoryValue[t] = NoValue /\ ~Readable(t)
  BY <1>1 DEF HistoryValue, Readable
<1> QED
  BY <1>1, <1>2 DEF ReadInv, CacheInv, OneInstance, DiskInv, BufferInv, Instants, LateHeader, OwnHeader, AllSound

(* What is ready in memory is in the file, with the value of its instant,  *)
(* or has left it, for every size of the file and of the cache and however *)
(* late the header of the server is (Instance::set, sync, Center::[]),     *)
(* when the server writes the file and when Realize does: only what        *)
(* Realize put after the buffer may be lost.                               *)
THEOREM ReadyFiledHere == CacheSpec => []ReadyIsInFile
<1>1. ReadInv => ReadyIsInFile
  <2> SUFFICES ASSUME ReadInv, NEW x \in instances, x.status = "Ready"
               PROVE  /\ highest_time # NoTime /\ x.at <= highest_time
                      /\ InFile(x.at) /\ x.at \notin lost => x.val = x.at /\ Read(x.at) = "Ready" /\ SlotOf(x.at).val = x.at
    BY DEF ReadyIsInFile
  <2>1. x.at \in Time /\ Gone(x.at) /\ Filed(x.at, x.val) /\ DiskInv
    BY DEF ReadInv, AllSound, Sound
  <2>2. ASSUME InFile(x.at), x.at \notin lost PROVE x.val = x.at /\ Read(x.at) = "Ready" /\ SlotOf(x.at).val = x.at
    <3>1. x.val = x.at /\ Readable(x.at) /\ SlotOf(x.at).flag = "ready" /\ SlotOf(x.at).val = x.at
      BY <2>1, <2>2, InFileReadable DEF Filed
    <3>2. ~(highest_time = NoTime \/ x.at > highest_time)
      <4>1. highest_time \in Nat /\ x.at \in Nat
        BY <2>1, Basics DEF Gone
      <4> QED
        BY <2>1, <4>1 DEF Gone
    <3> QED
      BY <3>1, <3>2 DEF Read
  <2> QED
    BY <2>1, <2>2 DEF Gone
<1> QED
  BY <1>1, ReadInit, ReadStep, PTL DEF CacheSpec

-----------------------------------------------------------------------------
(* An instance that is ready stays so. *)

(* When a step leaves instances or changes one, into y, only y counts.     *)
LEMMA ReadyUnlessBusy ==
  ASSUME ReadInv, ReadInv', Grows, NEW y, instances' \subseteq instances \cup {y},
         y.status = "Busy" => \A x \in instances : x.at = y.at /\ x.status = "Ready" => ~InFile(x.at)' \/ x.at \in lost'
  PROVE  \A x \in instances, z \in instances' :
           x.at = z.at /\ x.status = "Ready" /\ InFile(x.at)' /\ x.at \notin lost' => z.status = "Ready" /\ z.val = x.val
<1> SUFFICES ASSUME NEW x \in instances, NEW z \in instances', x.at = z.at, x.status = "Ready", InFile(x.at)', x.at \notin lost'
             PROVE  z.status = "Ready" /\ z.val = x.val
  OBVIOUS
<1>1. Sound(x) /\ Sound(z)'
  BY DEF ReadInv, AllSound
<1>2. x.val = x.at
  <2>1. Gone(x.at) /\ Filed(x.at, x.val) /\ x.at \in Time
    BY <1>1 DEF Sound
  <2>2. InFile(x.at) /\ x.at \notin lost
    BY <2>1 DEF Grows
  <2> QED
    BY <2>1, <2>2 DEF Filed
<1>3. z.status = "Ready" => z.val = z.at
  BY <1>1 DEF Sound, Filed
<1>4. z.status \in {"Busy", "Ready"}
  BY <1>1 DEF Sound
<1>5. CASE z \in instances
  <2>1. z = x
    BY <1>5 DEF ReadInv, CacheInv, OneInstance
  <2> QED
    BY <2>1
<1>6. CASE z = y
  BY <1>2, <1>3, <1>4, <1>6
<1> QED
  BY <1>5, <1>6

LEMMA ReadyKept ==
  ASSUME ReadInv, [CacheNext]_allVars
  PROVE  \A x \in instances, z \in instances' :
           x.at = z.at /\ x.status = "Ready" /\ InFile(x.at)' /\ x.at \notin lost' => z.status = "Ready" /\ z.val = x.val
<1> DEFINE Goal == \A x \in instances, z \in instances' :
             x.at = z.at /\ x.status = "Ready" /\ InFile(x.at)' /\ x.at \notin lost' => z.status = "Ready" /\ z.val = x.val
<1> SUFFICES Goal
  OBVIOUS
<1>1. ReadInv' /\ Grows
  BY ReadStep, DiskStep
<1>2. \A x \in instances : x = [f \in Field |-> x[f]] /\ x.cached = TRUE /\ Sound(x)
  BY DEF ReadInv, CacheInv, AllSound
<1>3. ASSUME NEW y, instances' \subseteq instances \cup {y},
             y.status = "Busy" => \A x \in instances : x.at = y.at /\ x.status = "Ready" => ~InFile(x.at)' \/ x.at \in lost'
      PROVE  Goal
  BY <1>1, <1>3, ReadyUnlessBusy
<1>4. ASSUME NEW x \in instances, NEW y, instances' \subseteq instances \cup {y}, y.at = x.at, y.status = x.status
      PROVE  Goal
  <2>1. \A z \in instances : z.at = y.at => z = x
    BY <1>4 DEF ReadInv, CacheInv, OneInstance
  <2> QED
    BY <1>3, <1>4, <2>1
<1> HIDE DEF Goal
<1>5. ASSUME instances' \subseteq instances PROVE Goal
  <2>1. CASE instances = {}
    BY <1>5, <2>1 DEF Goal
  <2>2. ASSUME NEW x \in instances PROVE Goal
    BY <1>4, <1>5
  <2> QED
    BY <2>1, <2>2
<1>6. ASSUME NEW t \in Type, NEW c \in CacheSize \cup {NoSize}, check(t, c) \/ Client(t, c) PROVE Goal
  BY <1>5, <1>6 DEF check, Client
<1>7. CASE get_var \/ history_length \/ UNCHANGED allVars
  BY <1>5, <1>7 DEF get_var, history_length, allVars
<1>8. CASE clear
  BY <1>5, <1>8 DEF clear
<1>9. CASE clean_up
  <2>1. Without(Unused) \subseteq instances
    BY UnusedEnd DEF ReadInv
  <2> QED
    BY <1>5, <1>9, <2>1 DEF clean_up
<1>10. ASSUME NEW at \in Time, NEW h \in BOOLEAN, Hit(at, h) PROVE Goal
  <2>1. PICK x \in Cached : instances' = (instances \ {x}) \cup {Use(x, h)}
    BY <1>10 DEF Hit
  <2>2. x \in instances
    BY <2>1 DEF Cached
  <2>3. Use(x, h).at = x.at /\ Use(x, h).status = x.status
    BY <1>2, <2>2 DEF Use, Field
  <2> QED
    BY <1>4, <2>1, <2>2, <2>3
<1>11. ASSUME NEW at \in Time, NEW h \in BOOLEAN, Build(at, h) PROVE Goal
  <2>1. PICK a, v : instances' = Without(oldest(ToRemove))
                      \cup {[at |-> at, status |-> a, val |-> v, cached |-> TRUE, held |-> h]}
    BY <1>11 DEF Build
  <2> DEFINE new == [at |-> at, status |-> a, val |-> v, cached |-> TRUE, held |-> h]
  <2>2. oldest(ToRemove) \in SUBSET Unused
    BY DEF oldest
  <2>3. Without(oldest(ToRemove)) \subseteq instances
    BY <2>2, UnusedEnd DEF ReadInv
  <2>4. \A x \in instances : x.at # new.at
    BY <1>2, <1>11 DEF Build, Cached
  <2>5. instances' \subseteq instances \cup {new}
    BY <2>1, <2>3
  <2> HIDE DEF new
  <2> QED
    BY <1>3, <2>4, <2>5
<1>12. ASSUME NEW at \in Time, ClientWrites(at) PROVE Goal
  BY <1>5, <1>12 DEF ClientWrites
<1>13. ASSUME NEW x \in instances, Release(x) PROVE Goal
  <2> DEFINE y == [x EXCEPT !.held = FALSE]
  <2>1. y.at = x.at /\ y.status = x.status
    BY <1>2 DEF Field
  <2>2. instances' \subseteq instances \cup {y}
    BY <1>13 DEF Release
  <2> HIDE DEF y
  <2> QED
    BY <1>4, <2>1, <2>2
<1>14. ASSUME NEW x \in instances, sync(x) PROVE Goal
  <2> DEFINE v == IF Read(x.at) = "Ready" THEN SlotOf(x.at).val ELSE Draft
             y == Synced(x, Read(x.at), v)
  <2>1. instances' \subseteq instances \cup {y} /\ UNCHANGED <<slot, highest_time, next_free_pos>>
    BY <1>14 DEF sync, disk
  <2>2. y.at = x.at /\ y.status = Read(x.at)
    BY <1>2 DEF Synced, Field
  <2>3. ASSUME NEW z \in instances, z.at = x.at, z.status = "Ready", InFile(z.at)', z.at \notin lost' PROVE Read(x.at) = "Ready"
    <3>1. z.at \in Time /\ Gone(z.at) /\ Filed(z.at, z.val) /\ DiskInv
      BY <1>2, <2>3 DEF Sound, ReadInv
    <3>2. InFile(z.at) /\ z.at \notin lost /\ HistoryValue[z.at] = z.at
      BY <1>1, <2>3, <3>1 DEF Grows, Filed
    <3>3. Readable(z.at) /\ SlotOf(z.at).flag = "ready"
      BY <3>1, <3>2, InFileReadable
    <3>4. ~(highest_time = NoTime \/ z.at > highest_time)
      <4>1. highest_time \in Nat /\ z.at \in Nat
        BY <3>1, Basics DEF Gone
      <4> QED
        BY <3>1, <4>1 DEF Gone
    <3> QED
      BY <2>3, <3>3, <3>4 DEF Read
  <2> HIDE DEF y
  <2> QED
    BY <1>3, <2>1, <2>2, <2>3
<1>15. ASSUME NEW x \in instances, NEW ready \in BOOLEAN, set(x, ready) PROVE Goal
  <2>1. PICK a, v : instances' = (instances \ {x}) \cup {[x EXCEPT !.status = a, !.val = v]}
    BY <1>15 DEF set
  <2> DEFINE y == [x EXCEPT !.status = a, !.val = v]
  <2>2. y.at = x.at /\ x.status # "Ready"
    BY <1>2, <1>15 DEF Field, set, Evaluable
  <2>3. \A z \in instances : z.at = y.at => z = x
    BY <2>2 DEF ReadInv, CacheInv, OneInstance
  <2> HIDE DEF y
  <2> QED
    BY <1>3, <2>1, <2>2, <2>3 DEF y
<1> QED
  BY <1>6, <1>7, <1>8, <1>9, <1>10, <1>11, <1>12, <1>13, <1>14, <1>15 DEF CacheNext, instance

(* An instance that is ready stays so, with its value, as long as it is in *)
(* the file and was not lost, for every size of the file and of the cache, *)
(* whether the server or Realize writes the file (Instance::set,           *)
(* Instance::sync, Center::operator[], Realize.__setitem__).               *)
THEOREM ReadyForever == CacheSpec => ReadyStays
<1>1. ReadInv /\ [CacheNext]_allVars =>
        [\A x \in instances, y \in instances' :
           x.at = y.at /\ x.held /\ y.held /\ x.status = "Ready" /\ InFile(x.at)' /\ x.at \notin lost' =>
             y.status = "Ready" /\ y.val = x.val]_allVars
  BY ReadyKept
<1> QED
  BY <1>1, ReadInit, ReadStep, PTL DEF CacheSpec, ReadyStays

-----------------------------------------------------------------------------
(* The lock of an instance: nobody sleeps on a condition that holds,       *)
(* however many threads there are.                                         *)

Inside == {t \in Visitors : pc[t] = "in"}

LockTypes ==
  /\ nb_readers \in Nat
  /\ writing \in BOOLEAN
  /\ pc \in [Thread -> {"out", "testing", "asleep", "counting", "in"}]

(* The readers counted are those inside. *)
LockInv == LockTypes /\ nb_readers = Cardinality(Inside) /\ NoLostWakeUp

-----------------------------------------------------------------------------
LEMMA VisitorsFinite == IsFiniteSet(Visitors)
BY InstanceAssumption, FS_Union DEF Visitors

LEMMA InsideFinite ==
  /\ IsFiniteSet(Inside)
  /\ Cardinality(Inside) \in Nat
<1>1. Inside \subseteq Visitors
  BY DEF Inside
<1> QED
  BY <1>1, VisitorsFinite, FS_Subset, FS_CardinalityType

LEMMA Apart == Visitors \cap Setters = {}
BY InstanceAssumption DEF Visitors

(* A step that lets nobody in or out keeps the count. *)
LEMMA SameInside ==
  ASSUME LockInv, nb_readers' = nb_readers,
         \A t \in Visitors : pc'[t] = "in" <=> pc[t] = "in"
  PROVE  nb_readers' = Cardinality(Inside)'
<1>1. Inside' = Inside
  BY DEF Inside
<1> QED
  BY <1>1 DEF LockInv

(* The threads that are woken leave their sleep, and nothing else changes. *)
LEMMA Woken ==
  ASSUME NEW T \in SUBSET Thread, NEW p \in [Thread -> {"out", "testing", "asleep", "counting", "in"}]
  PROVE  /\ Wake(T, p) \in [Thread -> {"out", "testing", "asleep", "counting", "in"}]
         /\ \A t \in Thread : Wake(T, p)[t] = "in" <=> p[t] = "in"
         /\ \A t \in Thread : Wake(T, p)[t] = "asleep" <=> p[t] = "asleep" /\ t \notin T
BY DEF Wake

LEMMA LockInitial == LockInit => LockInv
<1> SUFFICES ASSUME LockInit PROVE LockInv
  OBVIOUS
<1>1. Inside = {}
  BY DEF LockInit, Inside, Visitors, Thread
<1>2. Cardinality(Inside) = 0
  BY <1>1, FS_EmptySet
<1> QED
  BY <1>2 DEF LockInit, LockInv, LockTypes, NoLostWakeUp, Visitors, Thread

LEMMA LockStep == LockInv /\ [LockNext]_lockVars => LockInv'
<1> SUFFICES ASSUME LockInv, [LockNext]_lockVars PROVE LockInv'
  OBVIOUS
<1> USE DEF LockTypes
<1>a. Visitors \subseteq Thread /\ Setters \subseteq Thread
  BY DEF Thread
<1>1. ASSUME NEW t \in Visitors, visit(t) PROVE LockInv'
  <2>1. pc'[t] = "testing" /\ \A u \in Thread \ {t} : pc'[u] = pc[u]
    BY <1>1, <1>a DEF visit, Goto, LockInv
  <2>2. nb_readers' = Cardinality(Inside)'
    BY <1>1, <1>a, <2>1, SameInside DEF visit
  <2>3. LockTypes'
    BY <1>1, <1>a DEF visit, Goto, LockInv
  <2>4. NoLostWakeUp'
    BY <1>1, <1>a, <2>1 DEF visit, LockInv, NoLostWakeUp
  <2> QED
    BY <2>2, <2>3, <2>4 DEF LockInv
<1>2. ASSUME NEW t \in Visitors, test_writing(t) PROVE LockInv'
  <2>1. pc'[t] = (IF writing THEN "asleep" ELSE "counting") /\ \A u \in Thread \ {t} : pc'[u] = pc[u]
    BY <1>2, <1>a DEF test_writing, Goto, LockInv
  <2>2. nb_readers' = Cardinality(Inside)'
    BY <1>2, <1>a, <2>1, SameInside DEF test_writing
  <2>3. LockTypes'
    BY <1>2, <1>a DEF test_writing, Goto, LockInv
  <2>4. NoLostWakeUp'
    BY <1>2, <1>a, <2>1, Apart DEF test_writing, LockInv, NoLostWakeUp
  <2> QED
    BY <2>2, <2>3, <2>4 DEF LockInv
<1>3. ASSUME NEW t \in Visitors, count(t) PROVE LockInv'
  <2>1. pc'[t] = "in" /\ \A u \in Thread \ {t} : pc'[u] = pc[u]
    BY <1>3, <1>a DEF count, Goto, LockInv
  <2>2. t \notin Inside /\ Inside' = Inside \cup {t}
    BY <1>3, <1>a, <2>1 DEF count, Inside
  <2>3. nb_readers' = Cardinality(Inside)'
    BY <1>3, <2>2, InsideFinite, FS_AddElement DEF count, LockInv
  <2>4. LockTypes'
    BY <1>3, <1>a DEF count, Goto, LockInv
  <2>5. NoLostWakeUp'
    BY <1>3, <1>a, <2>1 DEF count, LockInv, NoLostWakeUp
  <2> QED
    BY <2>3, <2>4, <2>5 DEF LockInv
<1>4. ASSUME NEW t \in Visitors, uncount(t) PROVE LockInv'
  <2> DEFINE left == [pc EXCEPT ![t] = "out"]
  <2>1. left \in [Thread -> {"out", "testing", "asleep", "counting", "in"}]
    BY <1>4, <1>a DEF LockInv
  <2>2. pc' = (IF nb_readers = 1 THEN Wake(Setters, left) ELSE left)
    BY <1>4 DEF uncount
  <2>a. /\ Wake(Setters, left) \in [Thread -> {"out", "testing", "asleep", "counting", "in"}]
        /\ \A u \in Thread : Wake(Setters, left)[u] = "in" <=> left[u] = "in"
        /\ \A u \in Thread : Wake(Setters, left)[u] = "asleep" <=> left[u] = "asleep" /\ u \notin Setters
    BY <1>a, <2>1, Woken
  <2>b. /\ pc' \in [Thread -> {"out", "testing", "asleep", "counting", "in"}]
        /\ \A u \in Thread : pc'[u] = "in" <=> left[u] = "in"
        /\ \A u \in Thread : pc'[u] = "asleep" <=> left[u] = "asleep" /\ (nb_readers = 1 => u \notin Setters)
    <3>1. CASE nb_readers = 1
      <4> HIDE DEF left
      <4> QED
        BY <2>2, <2>a, <3>1
    <3>2. CASE nb_readers # 1
      <4> HIDE DEF left
      <4> QED
        BY <2>1, <2>2, <3>2
    <3> QED
      BY <3>1, <3>2
  <2>c. \A u \in Thread : left[u] = (IF u = t THEN "out" ELSE pc[u])
    BY <1>a DEF LockInv
  <2>3. t \in Inside /\ Inside' = Inside \ {t}
    <3>1. \A u \in Visitors : pc'[u] = "in" <=> u # t /\ pc[u] = "in"
      BY <1>a, <2>b, <2>c
    <3> QED
      BY <1>4, <3>1 DEF uncount, Inside
  <2>4. Cardinality(Inside \ {t}) = Cardinality(Inside) - 1
    BY <2>3, InsideFinite, FS_RemoveElement
  <2>5. IsFiniteSet(Inside \ {t})
    BY InsideFinite, FS_Subset
  <2>6. Cardinality(Inside)' \in Nat /\ nb_readers' = Cardinality(Inside)'
    BY <1>4, <2>3, <2>4, <2>5, FS_CardinalityType DEF uncount, LockInv
  <2>d. \A u \in Thread : pc'[u] = "asleep" => pc[u] = "asleep"
    BY <2>b, <2>c
  <2>7. NoLostWakeUp'
    <3>1. \A u \in Visitors : pc'[u] = "asleep" => writing'
      BY <1>4, <1>a, <2>d DEF uncount, LockInv, NoLostWakeUp
    <3>2. \A u \in Setters : pc'[u] = "asleep" => nb_readers' # 0
      <4>1. CASE nb_readers = 1
        BY <1>a, <2>b, <4>1
      <4>2. CASE nb_readers # 1
        BY <1>4, <4>2 DEF uncount, LockInv
      <4> QED
        BY <4>1, <4>2
    <3> QED
      BY <3>1, <3>2 DEF NoLostWakeUp
  <2> QED
    BY <1>4, <2>b, <2>6, <2>7 DEF uncount, LockInv
<1>5. ASSUME NEW t \in Setters, raise(t) PROVE LockInv'
  <2>1. pc'[t] = "testing" /\ \A u \in Thread \ {t} : pc'[u] = pc[u]
    BY <1>5, <1>a DEF raise, Goto, LockInv
  <2>2. nb_readers' = Cardinality(Inside)'
    BY <1>5, <1>a, <2>1, SameInside DEF raise
  <2>3. LockTypes'
    BY <1>5, <1>a DEF raise, Goto, LockInv
  <2>4. NoLostWakeUp'
    BY <1>5, <1>a, <2>1 DEF raise, LockInv, NoLostWakeUp
  <2> QED
    BY <2>2, <2>3, <2>4 DEF LockInv
<1>6. ASSUME NEW t \in Setters, test_readers(t) PROVE LockInv'
  <2>1. pc'[t] = (IF nb_readers # 0 THEN "asleep" ELSE "in") /\ \A u \in Thread \ {t} : pc'[u] = pc[u]
    BY <1>6, <1>a DEF test_readers, Goto, LockInv
  <2>2. nb_readers' = Cardinality(Inside)'
    BY <1>6, <1>a, <2>1, Apart, SameInside DEF test_readers
  <2>3. LockTypes'
    BY <1>6, <1>a DEF test_readers, Goto, LockInv
  <2>4. NoLostWakeUp'
    BY <1>6, <1>a, <2>1, Apart DEF test_readers, LockInv, NoLostWakeUp
  <2> QED
    BY <2>2, <2>3, <2>4 DEF LockInv
<1>7. ASSUME NEW t \in Setters, lower(t) PROVE LockInv'
  <2> DEFINE left == [pc EXCEPT ![t] = "out"]
  <2>1. left \in [Thread -> {"out", "testing", "asleep", "counting", "in"}]
    BY <1>7, <1>a DEF LockInv
  <2>2. /\ \A u \in Thread : pc'[u] = "in" <=> left[u] = "in"
        /\ \A u \in Thread : pc'[u] = "asleep" <=> left[u] = "asleep" /\ u \notin Visitors
        /\ pc' \in [Thread -> {"out", "testing", "asleep", "counting", "in"}]
    <3>1. pc' = Wake(Visitors, left)
      BY <1>7 DEF lower
    <3> HIDE DEF left
    <3> QED
      BY <1>a, <2>1, <3>1, Woken
  <2>3. nb_readers' = Cardinality(Inside)'
    BY <1>7, <1>a, <2>2, Apart, SameInside DEF lower, LockInv
  <2>4. NoLostWakeUp'
    BY <1>7, <1>a, <2>2 DEF lower, LockInv, NoLostWakeUp
  <2> QED
    BY <1>7, <2>2, <2>3, <2>4 DEF lower, LockInv
<1>8. ASSUME NEW t \in Thread, spurious_wake(t) PROVE LockInv'
  <2>1. pc'[t] = "testing" /\ \A u \in Thread \ {t} : pc'[u] = pc[u]
    BY <1>8 DEF spurious_wake, Goto, LockInv
  <2>2. nb_readers' = Cardinality(Inside)'
    BY <1>8, <1>a, <2>1, SameInside DEF spurious_wake
  <2>3. LockTypes'
    BY <1>8 DEF spurious_wake, Goto, LockInv
  <2>4. NoLostWakeUp'
    BY <1>8, <1>a, <2>1 DEF spurious_wake, LockInv, NoLostWakeUp
  <2> QED
    BY <2>2, <2>3, <2>4 DEF LockInv
<1>9. CASE UNCHANGED lockVars
  BY <1>9 DEF lockVars, LockInv, NoLostWakeUp, Inside
<1> QED
  BY <1>1, <1>2, <1>3, <1>4, <1>5, <1>6, <1>7, <1>8, <1>9 DEF LockNext, ReaderRuns, SetterRuns

(* Nobody sleeps on a condition that holds already, for any number of      *)
(* threads of each sort (get, sync and set of data::Instance).             *)
THEOREM NobodySleepsForNothing == LockSpec => []NoLostWakeUp
<1>1. LockInv => NoLostWakeUp
  BY DEF LockInv
<1> QED
  BY LockInitial, LockStep, <1>1, PTL DEF LockSpec
=============================================================================
