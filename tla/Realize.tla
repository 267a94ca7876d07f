------------------------------ MODULE Realize ------------------------------
(***************************************************************************)
(* The file of a variable as pycxsom writes it (Realize in                 *)
(* pycxsom/variable.py).  It repeats data::File, but for two things: it    *)
(* writes nothing in a buffer without slots (it raises Forgotten), and its *)
(* first write fills the whole buffer when at > file_size, not when        *)
(* at >= file_size.  A first write at the instant file_size thus goes to   *)
(* the slot after the buffer, and leaves next_free_pos beyond it: other    *)
(* writes may follow there, until one comes back into the buffer.          *)
(*                                                                         *)
(* A call is one step: the bytes it writes, flags before contents, are     *)
(* flushed when it ends.  A call that raises changes nothing.              *)
(***************************************************************************)
EXTENDS VarFile

setitem_first(at, v) ==
  /\ highest_time = NoTime
  /\ IF at > file_size THEN /\ Fill(0, v, 0..(file_size - 1))
                            /\ next_free_pos' = next_pos(0)
                       ELSE /\ Fill(at, v, ClearedBefore(at))
                            /\ next_free_pos' = next_pos(at)
  /\ highest_time' = at

(* __setitem__: past and future instants are written as File::write does   *)
(* (min(file_size, data_pos) bounds the slots cleared before the wrap, and *)
(* there are none when next_free_pos is after the buffer).                 *)
setitem(at, v) ==
  /\ file_size # 0
  /\ setitem_first(at, v) \/ WritePast(at, v) \/ WriteFuture(at, v)

(* The instants of the buffer whose slot is after its end.                 *)
Strays == {t \in Time : Readable(t) /\ pos_in_past(highest_time - t) >= file_size}
=============================================================================
