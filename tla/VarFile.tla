------------------------------ MODULE VarFile ------------------------------
(***************************************************************************)
(* The file of a variable: a circular buffer of slots and a header with    *)
(* the highest instant written and the slot after its own (data::File in   *)
(* cxsomVariable.hpp).  What pycxsom writes in it is in Realize.           *)
(*                                                                         *)
(* Abstraction: a slot holds its flag and a value, whatever its bytes.  A  *)
(* slot beyond the end of the file, which grows as it is written, has no   *)
(* flag: the stream throws when it is read.                                *)
(* Calls exclude each other here, as the mutex of data::Variable makes     *)
(* them do inside the server; FileSharing drops that.                      *)
(***************************************************************************)
EXTENDS Integers

CONSTANTS
  Time,       (* the instants                                               *)
  Value,      (* the values of the variable                                 *)
  NoValue,    (* the instant has no value                                   *)
  NoTime,     (* no instant has been written                                *)
  file_size   (* how many slots the buffer has                              *)

ASSUME VarFileAssumption ==
  /\ Time \subseteq Nat
  /\ \A t \in Time : 0..t \subseteq Time
  /\ NoValue \notin Value
  /\ NoTime \notin Nat
  /\ file_size \in Nat

(* The slots.  Those from file_size on are after the buffer: data::File    *)
(* never reaches them.                                                     *)
Slot == 0..file_size \cup Time
Absent   == [flag |-> "none",  val |-> NoValue]
Null     == [flag |-> "busy",  val |-> NoValue]
Holds(v) == [flag |-> "ready", val |-> v]

VARIABLES slot, highest_time, next_free_pos

vars == <<slot, highest_time, next_free_pos>>

Init ==
  /\ slot = [p \in Slot |-> Absent]
  /\ highest_time = NoTime
  /\ next_free_pos = 0

next_pos(p) == IF p + 1 = file_size THEN 0 ELSE p + 1

is_past_in_buffer(htma) == htma < file_size

pos_in_past(htma) ==
  IF htma < next_free_pos THEN next_free_pos - htma - 1
                          ELSE file_size + next_free_pos - htma - 1

-----------------------------------------------------------------------------
(* File::read. *)

Readable(t) ==
  /\ file_size # 0
  /\ highest_time # NoTime
  /\ t <= highest_time
  /\ is_past_in_buffer(highest_time - t)

SlotOf(t) == slot[pos_in_past(highest_time - t)]

Read(t) ==
  CASE highest_time = NoTime \/ t > highest_time  -> "Busy"
    [] Readable(t) /\ SlotOf(t).flag = "ready"    -> "Ready"
    [] Readable(t) /\ SlotOf(t).flag = "busy"     -> "Busy"
    [] Readable(t) /\ SlotOf(t).flag = "none"     -> "Error"
    [] OTHER                                      -> "Forgotten"

-----------------------------------------------------------------------------
(* File::write, branch by branch. *)

(* v goes to slot pos, and the slots of C are cleared. *)
Fill(pos, v, C) ==
  slot' = [p \in Slot |-> IF p = pos THEN Holds(v)
                          ELSE IF p \in C THEN Null ELSE slot[p]]

(* The buffer has no slot: only the highest instant is kept. *)
WriteNothing(at) ==
  /\ highest_time # NoTime => at > highest_time
  /\ highest_time' = at
  /\ UNCHANGED <<slot, next_free_pos>>

(* Variant of ClearedBefore: the slots before the first write are left as  *)
(* they are, with no zero in the file.                                     *)
NoneBefore(at) == {}

(* The slots cleared by a first write that does not fill the buffer.       *)
ClearedBefore(at) == 0..(at - 1)

WriteFirst(at, v) ==
  /\ highest_time = NoTime
  /\ IF at >= file_size THEN /\ Fill(0, v, 0..(file_size - 1))
                             /\ next_free_pos' = next_pos(0)
                        ELSE /\ Fill(at, v, ClearedBefore(at))
                             /\ next_free_pos' = next_pos(at)
  /\ highest_time' = at

(* A slot that is ready is left alone, and so is an instant out of the buffer. *)
WritePast(at, v) ==
  /\ Readable(at)
  /\ SlotOf(at).flag = "busy"
  /\ Fill(pos_in_past(highest_time - at), v, {})
  /\ UNCHANGED <<highest_time, next_free_pos>>

(* Variant of ClearedPart: the slots after the wrap are not cleared.       *)
ClearedToEnd(data_pos) == next_free_pos..(data_pos - 1)

(* The slots cleared between the highest instant and the new one, when     *)
(* data_pos is the position of the new one before it is wrapped.           *)
ClearedPart(data_pos) ==
  IF data_pos < file_size
  THEN next_free_pos..(data_pos - 1)
  ELSE next_free_pos..(file_size - 1) \cup 0..(data_pos - file_size - 1)

WriteFuture(at, v) ==
  LET nb_zeros == at - 1 - highest_time
      data_pos == next_free_pos + nb_zeros
      wrapped  == IF data_pos >= file_size THEN data_pos - file_size ELSE data_pos
  IN  /\ highest_time # NoTime
      /\ at > highest_time
      /\ IF nb_zeros > file_size
         THEN /\ Fill(0, v, 0..(file_size - 1))
              /\ next_free_pos' = next_pos(0)
         ELSE /\ Fill(wrapped, v, ClearedPart(data_pos))
              /\ next_free_pos' = next_pos(wrapped)
      /\ highest_time' = at

Write(at, v) ==
  IF file_size = 0
  THEN WriteNothing(at)
  ELSE WriteFirst(at, v) \/ WritePast(at, v) \/ WriteFuture(at, v)

Next == \E at \in Time, v \in Value : Write(at, v)

Spec == Init /\ [][Next]_vars

-----------------------------------------------------------------------------
(* The history the file holds. *)
HistoryValue ==
  [t \in Time |-> IF Readable(t) /\ SlotOf(t).flag = "ready" THEN SlotOf(t).val ELSE NoValue]

H == INSTANCE History WITH highest <- highest_time, value <- HistoryValue

(* The circular buffer implements the history: a write that clears too     *)
(* many slots or too few, or a position computed from the wrong end, would *)
(* lose a value still in the buffer or show an old one under a new         *)
(* instant.                                                                *)
ImplementsHistory == H!Spec

(* File::read answers what the history says: busy for an instant in the    *)
(* buffer that has no value, forgotten for one before it.                  *)
ReadsHistory == \A t \in Time : Read(t) = H!Availability(t)
=============================================================================
