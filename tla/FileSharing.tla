---------------------------- MODULE FileSharing ----------------------------
(***************************************************************************)
(* The file of a variable, written by the server while another program     *)
(* reads it (data::File in cxsomVariable.hpp; Realize in                   *)
(* pycxsom/variable.py, or a File of another process).                     *)
(*                                                                         *)
(* A step of the server is what one seek or flush sends to the file: the   *)
(* header is sent in two parts, and a content may be seen half written.    *)
(* The reader reads the header, in two parts too, and then slots.  The     *)
(* server may stop at any step; it finds the file again when it restarts.  *)
(*                                                                         *)
(* Abstraction: a content is two halves, and the value of an instant is    *)
(* the instant itself, so that a value tells which instant it is of.       *)
(***************************************************************************)
EXTENDS Integers

CONSTANTS
  MaxTime,    (* bound: the last instant written                            *)
  file_size,  (* how many slots the buffer has                              *)
  NoTime,     (* no instant has been written                                *)
  NoValue,    (* the bytes of a slot that has been cleared                  *)
  Crashes     (* where in a write the server may stop                       *)

ASSUME SharingAssumption ==
  /\ MaxTime \in Nat /\ file_size \in Nat \ {0}
  /\ NoTime \notin Nat /\ NoValue \notin Nat
  /\ Crashes \subseteq {"head", "tail", "ready", "highest", "next"}

Time  == 0..MaxTime
Value == [head : Time \cup {NoValue}, tail : Time \cup {NoValue}]
Blank == [head |-> NoValue, tail |-> NoValue]

VARIABLES
  slot,                         (* the slots in the file                    *)
  highest_in_file,              (* the header in the file                   *)
  next_in_file,
  highest_time, next_free_pos,  (* the header in the memory of the server   *)
  todo,                         (* the write in progress                    *)
  rpc,                          (* where the reader is                      *)
  r_highest, r_next,            (* the header in the memory of the reader   *)
  r_at, r_val,                  (* what it reads and has read               *)
  headers,                      (* the headers written so far, and whether  *)
  overtaken                     (* the server has begun to reuse the slot   *)
                                (* that is read: to state properties        *)

file   == <<slot, highest_in_file, next_in_file>>
memory == <<highest_time, next_free_pos>>
reader == <<rpc, r_highest, r_next, r_at, r_val>>
vars   == <<file, memory, todo, reader, headers, overtaken>>

(* The positions are computed as in VarFile, from the header in memory.    *)
S == INSTANCE VarFile WITH NoValue <- Blank
R == INSTANCE VarFile WITH NoValue <- Blank, highest_time <- r_highest,
                           next_free_pos <- r_next

Idle == [pc |-> "idle", at |-> NoTime, pos |-> 0, next |-> 0]

Init ==
  /\ slot = [p \in 0..(file_size - 1) |-> S!Absent]
  /\ highest_in_file = NoTime /\ next_in_file = 0
  /\ highest_time = NoTime /\ next_free_pos = 0
  /\ todo = Idle
  /\ rpc = "closed"
  /\ r_highest = NoTime /\ r_next = 0 /\ r_at = NoTime /\ r_val = Blank
  /\ headers = {}
  /\ overtaken = FALSE

-----------------------------------------------------------------------------
(* File::write, step by step. *)

(* When at is written, t is out of the buffer. *)
Overtakes(at, t) == at # NoTime /\ t # NoTime /\ at >= t + file_size

(* A write of at goes to slot pos: the slots of C are cleared, and the     *)
(* flag of pos says that the slot is not ready.                            *)
Begin(at, pos, C, next) ==
  /\ todo.pc = "idle"
  /\ slot' = [p \in 0..(file_size - 1) |->
                IF p = pos THEN [slot[p] EXCEPT !.flag = "busy"]
                ELSE IF p \in C THEN S!Null ELSE slot[p]]
  /\ todo' = [pc |-> "head", at |-> at, pos |-> pos, next |-> next]
  /\ overtaken' = (overtaken \/ Overtakes(at, r_at))
  /\ UNCHANGED <<highest_in_file, next_in_file, memory, reader, headers>>

BeginFirst(at) ==
  /\ highest_time = NoTime
  /\ IF at >= file_size THEN Begin(at, 0, 0..(file_size - 1), S!next_pos(0))
                        ELSE Begin(at, at, S!ClearedBefore(at), S!next_pos(at))

(* The header does not change. *)
BeginPast(at) ==
  /\ S!Readable(at)
  /\ S!SlotOf(at).flag = "busy"
  /\ Begin(at, S!pos_in_past(highest_time - at), {}, next_free_pos)

BeginFuture(at) ==
  LET nb_zeros == at - 1 - highest_time
      data_pos == next_free_pos + nb_zeros
      wrapped  == IF data_pos >= file_size THEN data_pos - file_size ELSE data_pos
  IN  /\ highest_time # NoTime
      /\ at > highest_time
      /\ IF nb_zeros > file_size
         THEN Begin(at, 0, 0..(file_size - 1), S!next_pos(0))
         ELSE Begin(at, wrapped, S!ClearedPart(data_pos), S!next_pos(wrapped))

Advance(from, to) ==
  /\ todo.pc = from
  /\ todo' = [todo EXCEPT !.pc = to]

(* Variant of WriteHead: the slot is marked ready at once. *)
WriteHeadReady ==
  /\ Advance("head", "tail")
  /\ slot' = [slot EXCEPT ![todo.pos].val.head = todo.at, ![todo.pos].flag = "ready"]
  /\ UNCHANGED <<highest_in_file, next_in_file, memory, reader, headers, overtaken>>

WriteHead ==
  /\ Advance("head", "tail")
  /\ slot' = [slot EXCEPT ![todo.pos].val.head = todo.at]
  /\ UNCHANGED <<highest_in_file, next_in_file, memory, reader, headers, overtaken>>

WriteTail ==
  /\ Advance("tail", "ready")
  /\ slot' = [slot EXCEPT ![todo.pos].val.tail = todo.at]
  /\ UNCHANGED <<highest_in_file, next_in_file, memory, reader, headers, overtaken>>

(* The header in memory has changed by now if it changes. *)
WriteReady ==
  /\ todo.pc = "ready"
  /\ slot' = [slot EXCEPT ![todo.pos].flag = "ready"]
  /\ IF highest_time # NoTime /\ todo.at <= highest_time
     THEN todo' = Idle /\ UNCHANGED memory
     ELSE /\ todo' = [todo EXCEPT !.pc = "highest"]
          /\ highest_time' = todo.at
          /\ next_free_pos' = todo.next
  /\ UNCHANGED <<highest_in_file, next_in_file, reader, headers, overtaken>>

WriteHighest ==
  /\ Advance("highest", "next")
  /\ highest_in_file' = highest_time
  /\ UNCHANGED <<slot, next_in_file, memory, reader, headers, overtaken>>

WriteNext ==
  /\ todo.pc = "next"
  /\ todo' = Idle
  /\ next_in_file' = next_free_pos
  /\ headers' = headers \cup {<<highest_time, next_free_pos>>}
  /\ UNCHANGED <<slot, highest_in_file, memory, reader, overtaken>>

(* The server stops and restarts: realize finds the header in the file. *)
Restart ==
  /\ todo.pc \in Crashes
  /\ todo' = Idle
  /\ highest_time' = highest_in_file
  /\ next_free_pos' = next_in_file
  /\ UNCHANGED <<file, reader, headers, overtaken>>

-----------------------------------------------------------------------------
(* The reader: private_update (or sync), then __getitem__ (or read) as     *)
(* often as it likes.                                                      *)

Server == <<file, memory, todo, headers>>

ReadHighest ==
  /\ rpc \in {"closed", "open"}
  /\ rpc' = "highest"
  /\ r_highest' = highest_in_file
  /\ UNCHANGED <<Server, overtaken, r_next, r_at, r_val>>

ReadNext ==
  /\ rpc = "highest"
  /\ rpc' = "open"
  /\ r_next' = next_in_file
  /\ UNCHANGED <<Server, overtaken, r_highest, r_at, r_val>>

(* The instants out of the buffer are answered without the file. *)
StartRead(at) ==
  /\ rpc = "open"
  /\ R!Readable(at)
  /\ rpc' = "flag"
  /\ r_at' = at
  /\ overtaken' = (Overtakes(highest_time, at) \/ Overtakes(todo.at, at))
  /\ UNCHANGED <<Server, r_highest, r_next, r_val>>

(* Variant of ReadFlag: the flag is not tested. *)
ReadAnyFlag ==
  /\ rpc = "flag"
  /\ rpc' = "head"
  /\ UNCHANGED <<Server, overtaken, r_highest, r_next, r_at, r_val>>

(* A read beyond the end of the file raises an error. *)
ReadFlag ==
  /\ rpc = "flag"
  /\ rpc' = IF R!SlotOf(r_at).flag = "ready" THEN "head" ELSE "open"
  /\ UNCHANGED <<Server, overtaken, r_highest, r_next, r_at, r_val>>

ReadHead ==
  /\ rpc = "head"
  /\ rpc' = "tail"
  /\ r_val' = [head |-> R!SlotOf(r_at).val.head, tail |-> NoValue]
  /\ UNCHANGED <<Server, overtaken, r_highest, r_next, r_at>>

ReadTail ==
  /\ rpc = "tail"
  /\ rpc' = "read"
  /\ r_val' = [r_val EXCEPT !.tail = R!SlotOf(r_at).val.tail]
  /\ UNCHANGED <<Server, overtaken, r_highest, r_next, r_at>>

EndRead ==
  /\ rpc = "read"
  /\ rpc' = "open"
  /\ r_at' = NoTime /\ r_val' = Blank
  /\ overtaken' = FALSE
  /\ UNCHANGED <<Server, r_highest, r_next>>

-----------------------------------------------------------------------------
WriteStep == WriteHead \/ WriteTail \/ WriteReady \/ WriteHighest \/ WriteNext
ReadStep  == ReadHighest \/ ReadNext \/ ReadFlag \/ ReadHead \/ ReadTail \/ EndRead

Next ==
  \/ \E at \in Time : BeginFirst(at) \/ BeginPast(at) \/ BeginFuture(at) \/ StartRead(at)
  \/ WriteStep \/ Restart \/ ReadStep

Spec == Init /\ [][Next]_vars

-----------------------------------------------------------------------------
Whole(t) == [head |-> t, tail |-> t]

(* A reader that has a whole header, and whose slot the server does not    *)
(* begin to reuse, reads the value of the instant it asks for, wherever    *)
(* the server is and wherever it has stopped: the content is written       *)
(* before the flag, and the flag before the header.                        *)
ReadsTheInstant ==
  rpc = "read" /\ <<r_highest, r_next>> \in headers /\ ~overtaken => r_val = Whole(r_at)

(* Between two writes, what the server says is ready at an instant is the  *)
(* value of this instant, "determined (forever)" (cxsomVariable.hpp:60),   *)
(* whether it has restarted or not.                                        *)
ServerReadsTheInstant ==
  todo.pc = "idle" =>
    \A t \in Time : S!Readable(t) /\ S!SlotOf(t).flag = "ready" => S!SlotOf(t).val = Whole(t)
=============================================================================
