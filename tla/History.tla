------------------------------ MODULE History ------------------------------
(***************************************************************************)
(* What the file of a variable promises (data::File, cxsomVariable.hpp):   *)
(* it keeps the values of the last file_size instants, the highest one     *)
(* included.  Each is written at most once, in any order; an instant that  *)
(* falls out of this buffer is forgotten.                                  *)
(***************************************************************************)
EXTENDS Integers

CONSTANTS
  Time,       (* the instants                                               *)
  Value,      (* the values of the variable                                 *)
  NoValue,    (* the instant has no value                                   *)
  NoTime,     (* no instant has been written                                *)
  file_size   (* how many instants the file keeps                           *)

VARIABLES
  highest,    (* the latest instant written                                 *)
  value       (* the value kept for each instant, or NoValue                *)

(* is_past_in_buffer, for the instants that are not later than h. *)
InBuffer(t, h) == h # NoTime /\ t <= h /\ h - t < file_size

(* File::read. *)
Availability(t) ==
  CASE highest = NoTime \/ t > highest             -> "Busy"
    [] InBuffer(t, highest) /\ value[t] = NoValue  -> "Busy"
    [] InBuffer(t, highest) /\ value[t] # NoValue  -> "Ready"
    [] OTHER                                       -> "Forgotten"

Init ==
  /\ highest = NoTime
  /\ value = [t \in Time |-> NoValue]

(* A write later than all others moves the buffer. *)
WriteLater(at, v) ==
  /\ highest = NoTime \/ at > highest
  /\ highest' = at
  /\ value' = [t \in Time |-> IF ~InBuffer(t, at) THEN NoValue
                              ELSE IF t = at THEN v ELSE value[t]]

(* A write in the buffer counts if there is no value yet. *)
WriteEarlier(at, v) ==
  /\ InBuffer(at, highest)
  /\ value[at] = NoValue
  /\ value' = [value EXCEPT ![at] = v]
  /\ UNCHANGED highest

Next == \E at \in Time, v \in Value : WriteLater(at, v) \/ WriteEarlier(at, v)

Spec == Init /\ [][Next]_<<highest, value>>
=============================================================================
