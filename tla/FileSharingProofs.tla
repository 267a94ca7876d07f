------------------------- MODULE FileSharingProofs -------------------------
(***************************************************************************)
(* The server and another program read in the file of a variable the       *)
(* values of the instants they ask for, whatever the size of the buffer    *)
(* and the instants, and wherever the server stops before it begins to     *)
(* change the header.                                                      *)
(***************************************************************************)
EXTENDS FileSharing, TLAPS

Position == 0..(file_size - 1)
State    == [flag : {"none", "busy", "ready"}, val : Value]
Instants == Time \cup {NoTime}

TypeOK ==
  /\ slot \in [Position -> State]
  /\ highest_in_file \in Instants /\ next_in_file \in Position
  /\ highest_time \in Instants /\ next_free_pos \in Position
  /\ todo \in [pc : {"idle", "head", "tail", "ready", "highest", "next"},
               at : Instants, pos : Position, next : Position]
  /\ todo.pc # "idle" => todo.at \in Time
  /\ rpc \in {"closed", "highest", "open", "flag", "head", "tail", "read"}
  /\ r_highest \in Instants /\ r_next \in Position
  /\ r_at \in Instants /\ r_val \in Value
  /\ headers \subseteq Instants \X Position
  /\ overtaken \in BOOLEAN

-----------------------------------------------------------------------------
(* A header is the highest instant h and the position n that follows its   *)
(* own: the instants it has in the buffer, and their positions.            *)
InWindow(h, t) == h # NoTime /\ t <= h /\ h - t < file_size

PosAt(n, back) == IF back < n THEN n - back - 1 ELSE file_size + n - back - 1

(* What the header h, n finds ready is the value of the instant.           *)
Finds(h, n) ==
  \A t \in Time :
    LET s == slot[PosAt(n, h - t)]
    IN  InWindow(h, t) /\ s.flag = "ready" => s.val = Whole(t)

(* Two headers have the instants of both at the same positions.            *)
Agree(h, n, k, m) ==
  \A t \in Time : InWindow(h, t) /\ InWindow(k, t) => PosAt(n, h - t) = PosAt(m, k - t)

-----------------------------------------------------------------------------
(* The content and the flag of a slot are being written.                   *)
Filling == todo.pc \in {"head", "tail", "ready"}

(* at is not an instant up to the highest one.                             *)
Later(at) == highest_time = NoTime \/ at > highest_time

(* The header changes after the slot is ready: in memory, then in the file.*)
HeaderInv ==
  /\ todo.pc = "idle" \/ Filling => highest_in_file = highest_time /\ next_in_file = next_free_pos
  /\ todo.pc = "next" => highest_in_file = highest_time
  /\ todo.pc \in {"highest", "next"} => todo.at = highest_time
  /\ highest_in_file # NoTime => highest_time # NoTime /\ highest_in_file <= highest_time

(* The slot that is written is busy until its content is whole.            *)
ContentInv ==
  /\ Filling => slot[todo.pos].flag = "busy"
  /\ todo.pc \in {"tail", "ready"} => slot[todo.pos].val.head = todo.at
  /\ todo.pc = "ready" => slot[todo.pos].val.tail = todo.at

(* Neither the header nor the one that will replace it finds the value of  *)
(* another instant.                                                        *)
PlaceInv ==
  /\ Finds(highest_time, next_free_pos)
  /\ Filling /\ ~Later(todo.at) =>
       /\ InWindow(highest_time, todo.at)
       /\ todo.pos = PosAt(next_free_pos, highest_time - todo.at)
  /\ Filling /\ Later(todo.at) =>
       /\ todo.pos = PosAt(todo.next, 0)
       /\ Finds(todo.at, todo.next)
       /\ Agree(highest_time, next_free_pos, todo.at, todo.next)

ServerInv == TypeOK /\ HeaderInv /\ ContentInv /\ PlaceInv

-----------------------------------------------------------------------------
(* The headers written, and the one of the memory that will be.            *)
Headers == headers \cup {<<highest_time, next_free_pos>>}

Upto(h) == h # NoTime => highest_time # NoTime /\ h <= highest_time

(* An old header has the instants still in the buffer where the server has.*)
OldInv ==
  /\ \A hd \in headers : Upto(hd[1]) /\ Agree(hd[1], hd[2], highest_time, next_free_pos)
  /\ Upto(r_highest)

Reading == rpc \in {"flag", "head", "tail", "read"}

(* The slot that is read keeps its instant.                                *)
KeptInv ==
  Reading =>
    /\ r_at \in Time /\ InWindow(r_highest, r_at)
    /\ ~overtaken => ~Overtakes(highest_time, r_at) /\ (todo.pc # "idle" => ~Overtakes(todo.at, r_at))

Sound == <<r_highest, r_next>> \in Headers /\ ~overtaken

(* Once its flag is read, a slot stays ready, and holds what is read.      *)
ReadInv ==
  Sound =>
    /\ rpc \in {"head", "tail", "read"} => slot[PosAt(r_next, r_highest - r_at)].flag = "ready"
    /\ rpc \in {"tail", "read"} => r_val.head = r_at
    /\ rpc = "read" => r_val.tail = r_at

ReaderInv == ServerInv /\ OldInv /\ KeptInv /\ ReadInv

-----------------------------------------------------------------------------
LEMMA Constants ==
  /\ Time \subseteq Nat /\ file_size \in Nat /\ file_size > 0 /\ NoTime \notin Nat
  /\ Position = 0..(file_size - 1) /\ Blank \in Value
BY SharingAssumption DEF Time, Position, Blank, Value

LEMMA PositionInBuffer ==
  ASSUME NEW n \in Position, NEW back \in Nat, back < file_size
  PROVE  PosAt(n, back) \in Position
BY Constants DEF PosAt

(* Two instants of the buffer do not share a slot.                         *)
LEMMA PositionInjective ==
  ASSUME NEW n \in Position, NEW b \in Nat, NEW c \in Nat, b < file_size, c < file_size,
         PosAt(n, b) = PosAt(n, c)
  PROVE  b = c
BY Constants DEF PosAt

LEMMA WindowPosition ==
  ASSUME NEW h \in Instants, NEW n \in Position, NEW t \in Time, InWindow(h, t)
  PROVE  /\ h \in Nat /\ t \in Nat /\ t <= h /\ h - t \in Nat /\ h - t < file_size
         /\ PosAt(n, h - t) \in Position
<1>1. h \in Nat /\ t \in Nat /\ t <= h /\ h - t \in Nat /\ h - t < file_size
  BY Constants DEF InWindow, Instants
<1> QED
  BY <1>1, PositionInBuffer

(* What File::read looks at, for the server and for the reader.            *)
LEMMA ReadAt ==
  ASSUME NEW t
  PROVE  /\ S!Readable(t) <=> InWindow(highest_time, t)
         /\ S!SlotOf(t) = slot[PosAt(next_free_pos, highest_time - t)]
         /\ R!Readable(t) <=> InWindow(r_highest, t)
         /\ R!SlotOf(t) = slot[PosAt(r_next, r_highest - t)]
<1>1. file_size # 0
  BY Constants
<1> QED
  BY <1>1 DEF S!Readable, S!SlotOf, S!is_past_in_buffer, S!pos_in_past, R!Readable, R!SlotOf,
              R!is_past_in_buffer, R!pos_in_past, InWindow, PosAt

LEMMA States ==
  /\ S!Absent \in State
  /\ S!Null \in State /\ S!Null.flag = "busy"
BY Constants DEF S!Absent, S!Null, State

-----------------------------------------------------------------------------
(* The slots when a write begins. *)
LEMMA BeginSlots ==
  ASSUME TypeOK, NEW at, NEW pos \in Position, NEW C, NEW next, Begin(at, pos, C, next)
  PROVE  /\ slot' \in [Position -> State]
         /\ slot'[pos].flag = "busy"
         /\ \A p \in Position : p # pos /\ p \in C => slot'[p].flag = "busy"
         /\ \A p \in Position : p # pos /\ p \notin C => slot'[p] = slot[p]
<1>1. slot' = [p \in Position |->
                 IF p = pos THEN [slot[p] EXCEPT !.flag = "busy"]
                 ELSE IF p \in C THEN S!Null ELSE slot[p]]
  BY DEF Begin, Position
<1>2. /\ [slot[pos] EXCEPT !.flag = "busy"] \in State
      /\ [slot[pos] EXCEPT !.flag = "busy"].flag = "busy"
  BY DEF TypeOK, State
<1> QED
  BY <1>1, <1>2, States DEF TypeOK

(* What a write later than all others does to the slots: those of the      *)
(* instants between are cleared, those of the buffer are left, where they  *)
(* are in the new header too.                                              *)
Moves(at, pos, next) ==
  /\ pos = PosAt(next, 0)
  /\ \A t \in Time : t < at /\ at - t < file_size =>
       LET p == PosAt(next, at - t)
       IN  /\ p # pos
           /\ InWindow(highest_time, t) => p = PosAt(next_free_pos, highest_time - t) /\ slot'[p] = slot[p]
           /\ ~InWindow(highest_time, t) => slot'[p].flag = "busy"

BeginsLater(at) ==
  \E pos \in Position, next \in Position, C \in SUBSET Position :
    Begin(at, pos, C, next) /\ Moves(at, pos, next)

LEMMA FirstMoves ==
  ASSUME TypeOK, NEW at \in Time, BeginFirst(at)
  PROVE  Later(at) /\ BeginsLater(at)
<1> USE Constants
<1>1. highest_time = NoTime /\ at \in Nat /\ Later(at)
  BY DEF BeginFirst, Later
<1>2. \A t \in Time : ~InWindow(highest_time, t)
  BY <1>1 DEF InWindow
<1>3. CASE at >= file_size
  <2> DEFINE next == S!next_pos(0)
  <2>1. Begin(at, 0, Position, next)
    BY <1>3 DEF BeginFirst
  <2>2. 0 \in Position /\ next \in Position /\ PosAt(next, 0) = 0
    BY DEF S!next_pos, PosAt
  <2>3. \A b \in Nat : b > 0 /\ b < file_size => PosAt(next, b) \in Position /\ PosAt(next, b) # 0
    BY DEF S!next_pos, PosAt
  <2>4. \A p \in Position : p # 0 => slot'[p].flag = "busy"
    <3> HIDE DEF next
    <3> QED
      BY <2>1, <2>2, BeginSlots
  <2>5. Moves(at, 0, next)
    <3> SUFFICES ASSUME NEW t \in Time, t < at, at - t < file_size
                 PROVE  PosAt(next, at - t) # 0 /\ slot'[PosAt(next, at - t)].flag = "busy"
      BY <1>2, <2>2 DEF Moves
    <3>1. at - t \in Nat /\ at - t > 0
      BY <1>1
    <3> QED
      BY <2>3, <2>4, <3>1
  <2> QED
    BY <1>1, <2>1, <2>2, <2>5 DEF BeginsLater
<1>4. CASE at < file_size
  <2> DEFINE next == S!next_pos(at)
             C == S!ClearedBefore(at)
  <2>1. Begin(at, at, C, next)
    BY <1>1, <1>4 DEF BeginFirst
  <2>2. at \in Position /\ next \in Position /\ PosAt(next, 0) = at
    BY <1>1, <1>4 DEF S!next_pos, PosAt
  <2>3. C \subseteq Position /\ C = 0..(at - 1)
    BY <1>1, <1>4 DEF S!ClearedBefore
  <2>4. \A p \in C : p \in Position /\ p # at /\ slot'[p].flag = "busy"
    <3>1. \A p \in C : p \in Position /\ p # at
      BY <1>1, <2>3
    <3>2. \A p \in Position : p # at /\ p \in C => slot'[p].flag = "busy"
      <4> HIDE DEF C, next
      <4> QED
        BY <2>1, <2>2, BeginSlots
    <3> QED
      BY <3>1, <3>2
  <2>5. Moves(at, at, next)
    <3> SUFFICES ASSUME NEW t \in Time, t < at, at - t < file_size
                 PROVE  PosAt(next, at - t) # at /\ slot'[PosAt(next, at - t)].flag = "busy"
      BY <1>2, <2>2 DEF Moves
    <3>1. PosAt(next, at - t) \in C
      BY <1>1, <1>4, <2>3 DEF S!next_pos, PosAt
    <3> QED
      BY <2>4, <3>1
  <2> QED
    BY <1>1, <2>1, <2>2, <2>3, <2>5 DEF BeginsLater
<1> QED
  BY <1>1, <1>3, <1>4

LEMMA FutureMoves ==
  ASSUME TypeOK, NEW at \in Time, BeginFuture(at)
  PROVE  Later(at) /\ BeginsLater(at)
<1> USE Constants
<1> DEFINE nb_zeros == at - 1 - highest_time
           data_pos == next_free_pos + nb_zeros
           wrapped  == IF data_pos >= file_size THEN data_pos - file_size ELSE data_pos
<1>1. /\ at \in Nat /\ highest_time \in Nat /\ highest_time # NoTime /\ at > highest_time
      /\ next_free_pos \in Nat /\ next_free_pos < file_size /\ nb_zeros \in Nat /\ Later(at)
  BY DEF BeginFuture, TypeOK, Instants, Later
<1>2. CASE nb_zeros > file_size
  <2> DEFINE next == S!next_pos(0)
  <2>1. Begin(at, 0, Position, next)
    BY <1>2 DEF BeginFuture
  <2>2. 0 \in Position /\ next \in Position /\ PosAt(next, 0) = 0
    BY DEF S!next_pos, PosAt
  <2>3. \A b \in Nat : b > 0 /\ b < file_size => PosAt(next, b) \in Position /\ PosAt(next, b) # 0
    BY DEF S!next_pos, PosAt
  <2>4. \A p \in Position : p # 0 => slot'[p].flag = "busy"
    <3> HIDE DEF next
    <3> QED
      BY <2>1, <2>2, BeginSlots
  <2>5. Moves(at, 0, next)
    <3> SUFFICES ASSUME NEW t \in Time, t < at, at - t < file_size
                 PROVE  /\ PosAt(next, at - t) # 0 /\ slot'[PosAt(next, at - t)].flag = "busy"
                        /\ ~InWindow(highest_time, t)
      BY <2>2 DEF Moves
    <3>1. at - t \in Nat /\ at - t > 0
      BY <1>1
    <3>2. ~InWindow(highest_time, t)
      BY <1>1, <1>2 DEF InWindow
    <3> QED
      BY <2>3, <2>4, <3>1, <3>2
  <2> QED
    BY <1>1, <2>1, <2>2, <2>5 DEF BeginsLater
<1>3. CASE nb_zeros <= file_size
  <2> DEFINE next == S!next_pos(wrapped)
             C == S!ClearedPart(data_pos)
  <2>1. Begin(at, wrapped, C, next)
    BY <1>1, <1>3 DEF BeginFuture
  <2>2. wrapped \in Position /\ next \in Position /\ PosAt(next, 0) = wrapped
    BY <1>1, <1>3 DEF S!next_pos, PosAt
  <2>3. C \subseteq Position
    BY <1>1, <1>3 DEF S!ClearedPart
  <2>4. /\ \A p \in Position : p # wrapped /\ p \in C => slot'[p].flag = "busy"
        /\ \A p \in Position : p # wrapped /\ p \notin C => slot'[p] = slot[p]
    BY <2>1, <2>2, BeginSlots
  <2>5. Moves(at, wrapped, next)
    <3> SUFFICES ASSUME NEW t \in Time, t < at, at - t < file_size
                 PROVE  LET p == PosAt(next, at - t)
                        IN  /\ p # wrapped
                            /\ InWindow(highest_time, t) =>
                                 p = PosAt(next_free_pos, highest_time - t) /\ slot'[p] = slot[p]
                            /\ ~InWindow(highest_time, t) => slot'[p].flag = "busy"
      BY <2>2 DEF Moves
    <3> DEFINE p == PosAt(next, at - t)
    <3>1. t \in Nat
      OBVIOUS
    <3>2. p \in Position /\ p # wrapped
      BY <1>1, <1>3, <3>1 DEF S!next_pos, PosAt
    <3>3. CASE t <= highest_time
      <4>1. p = PosAt(next_free_pos, highest_time - t)
        BY <1>1, <1>3, <3>1, <3>3 DEF S!next_pos, PosAt
      <4>2. p \notin C
        BY <1>1, <1>3, <3>1, <3>3 DEF S!next_pos, PosAt, S!ClearedPart
      <4>3. InWindow(highest_time, t)
        BY <1>1, <3>1, <3>3 DEF InWindow
      <4> QED
        BY <2>4, <3>2, <4>1, <4>2, <4>3
    <3>4. CASE t > highest_time
      <4>1. p \in C
        BY <1>1, <1>3, <3>1, <3>4 DEF S!next_pos, PosAt, S!ClearedPart
      <4>2. ~InWindow(highest_time, t)
        BY <1>1, <3>1, <3>4 DEF InWindow
      <4> QED
        BY <2>4, <3>2, <4>1, <4>2
    <3> QED
      BY <1>1, <3>1, <3>3, <3>4
  <2> QED
    BY <1>1, <2>1, <2>2, <2>3, <2>5 DEF BeginsLater
<1> QED
  BY <1>1, <1>2, <1>3

(* A write of an instant in the buffer goes to its slot, which is busy.    *)
LEMMA PastPlace ==
  ASSUME TypeOK, NEW at \in Time, BeginPast(at)
  PROVE  LET pos == PosAt(next_free_pos, highest_time - at)
         IN  /\ InWindow(highest_time, at) /\ ~Later(at)
             /\ pos \in Position /\ slot[pos].flag = "busy"
             /\ Begin(at, pos, {}, next_free_pos)
<1> DEFINE pos == PosAt(next_free_pos, highest_time - at)
<1>1. InWindow(highest_time, at) /\ slot[pos].flag = "busy"
  BY ReadAt DEF BeginPast
<1>2. pos \in Position /\ highest_time \in Nat /\ at \in Nat /\ at <= highest_time
  BY <1>1, WindowPosition DEF TypeOK
<1>3. ~Later(at)
  BY <1>2, Constants DEF Later
<1>4. S!pos_in_past(highest_time - at) = pos
  BY DEF S!pos_in_past, PosAt
<1>5. Begin(at, S!pos_in_past(highest_time - at), {}, next_free_pos)
  BY DEF BeginPast
<1> QED
  BY <1>1, <1>2, <1>3, <1>4, <1>5

-----------------------------------------------------------------------------
LEMMA BeginType ==
  ASSUME TypeOK, NEW at \in Time, NEW pos \in Position, NEW next \in Position, NEW C,
         Begin(at, pos, C, next)
  PROVE  TypeOK'
<1>1. slot' \in [Position -> State]
  BY BeginSlots
<1>2. /\ todo' = [pc |-> "head", at |-> at, pos |-> pos, next |-> next]
      /\ overtaken' \in BOOLEAN
      /\ UNCHANGED <<highest_in_file, next_in_file, highest_time, next_free_pos, headers,
                     rpc, r_highest, r_next, r_at, r_val>>
  BY DEF Begin, memory, reader, TypeOK
<1>3. /\ todo' \in [pc : {"idle", "head", "tail", "ready", "highest", "next"},
                    at : Instants, pos : Position, next : Position]
      /\ todo'.at \in Time
  BY <1>2 DEF Instants
<1> QED
  BY <1>1, <1>2, <1>3 DEF TypeOK

LEMMA AdvanceType ==
  ASSUME TypeOK, NEW from, NEW to \in {"head", "tail", "ready", "highest", "next"}, from # "idle",
         Advance(from, to)
  PROVE  /\ todo' \in [pc : {"idle", "head", "tail", "ready", "highest", "next"},
                       at : Instants, pos : Position, next : Position]
         /\ todo.pc = from /\ todo.at \in Time /\ todo.pos \in Position
         /\ todo'.pc = to /\ todo'.at = todo.at /\ todo'.pos = todo.pos /\ todo'.next = todo.next
BY DEF TypeOK, Advance

LEMMA ReadType ==
  ASSUME TypeOK, NEW h \in Instants, NEW n \in Position, NEW t \in Time, InWindow(h, t)
  PROVE  slot[PosAt(n, h - t)].val \in Value
<1>1. PosAt(n, h - t) \in Position
  BY WindowPosition
<1> QED
  BY <1>1 DEF TypeOK, State

(* A slot after a step of a write. *)
Others(p) == \A q \in Position : q # p => slot'[q] = slot[q]

LEMMA HeadSlot ==
  ASSUME TypeOK, NEW p \in Position, NEW t \in Time, slot' = [slot EXCEPT ![p].val.head = t]
  PROVE  /\ slot' \in [Position -> State] /\ Others(p)
         /\ slot'[p].flag = slot[p].flag
         /\ slot'[p].val.head = t
<1> DEFINE s == [slot[p] EXCEPT !.val.head = t]
<1>1. slot[p] \in State /\ slot \in [Position -> State]
  BY DEF TypeOK
<1>2. s \in State /\ s.flag = slot[p].flag /\ s.val.head = t
  BY <1>1 DEF State, Value
<1>3. slot' = [slot EXCEPT ![p] = s]
  OBVIOUS
<1> HIDE DEF s
<1> QED
  BY <1>1, <1>2, <1>3 DEF Others

LEMMA TailSlot ==
  ASSUME TypeOK, NEW p \in Position, NEW t \in Time, slot' = [slot EXCEPT ![p].val.tail = t]
  PROVE  /\ slot' \in [Position -> State] /\ Others(p)
         /\ slot'[p].flag = slot[p].flag
         /\ slot'[p].val.head = slot[p].val.head /\ slot'[p].val.tail = t
<1> DEFINE s == [slot[p] EXCEPT !.val.tail = t]
<1>1. slot[p] \in State /\ slot \in [Position -> State]
  BY DEF TypeOK
<1>2. s \in State /\ s.flag = slot[p].flag /\ s.val.head = slot[p].val.head /\ s.val.tail = t
  BY <1>1 DEF State, Value
<1>3. slot' = [slot EXCEPT ![p] = s]
  OBVIOUS
<1> HIDE DEF s
<1> QED
  BY <1>1, <1>2, <1>3 DEF Others

LEMMA ReadySlot ==
  ASSUME TypeOK, NEW p \in Position, slot' = [slot EXCEPT ![p].flag = "ready"]
  PROVE  /\ slot' \in [Position -> State] /\ Others(p)
         /\ slot'[p].flag = "ready" /\ slot'[p].val = slot[p].val
<1> DEFINE s == [slot[p] EXCEPT !.flag = "ready"]
<1>1. slot[p] \in State /\ slot \in [Position -> State]
  BY DEF TypeOK
<1>2. s \in State /\ s.flag = "ready" /\ s.val = slot[p].val
  BY <1>1 DEF State
<1>3. slot' = [slot EXCEPT ![p] = s]
  OBVIOUS
<1> HIDE DEF s
<1> QED
  BY <1>1, <1>2, <1>3 DEF Others

LEMMA TypeStep ==
  ASSUME TypeOK, KeptInv, Next
  PROVE  TypeOK'
<1> USE Constants
<1>1. ASSUME NEW at \in Time, BeginFirst(at) \/ BeginPast(at) \/ BeginFuture(at)
      PROVE  TypeOK'
  <2>1. CASE BeginPast(at)
    BY <2>1, PastPlace, BeginType DEF TypeOK
  <2>2. CASE BeginFirst(at) \/ BeginFuture(at)
    <3>1. BeginsLater(at)
      BY <2>2, FirstMoves, FutureMoves
    <3> QED
      BY <3>1, BeginType DEF BeginsLater
  <2> QED
    BY <1>1, <2>1, <2>2
<1>2. CASE WriteHead \/ WriteTail \/ WriteReady \/ WriteHighest \/ WriteNext
  <2>1. CASE WriteHead
    <3>1. /\ slot' = [slot EXCEPT ![todo.pos].val.head = todo.at] /\ Advance("head", "tail")
          /\ UNCHANGED <<highest_in_file, next_in_file, highest_time, next_free_pos, headers,
                         rpc, r_highest, r_next, r_at, r_val, overtaken>>
      BY <2>1 DEF WriteHead, memory, reader
    <3>2. /\ todo.at \in Time /\ todo.pos \in Position
          /\ todo' \in [pc : {"idle", "head", "tail", "ready", "highest", "next"},
                        at : Instants, pos : Position, next : Position]
          /\ todo'.at = todo.at
      BY <3>1, AdvanceType
    <3>3. slot' \in [Position -> State]
      BY <3>1, <3>2, HeadSlot
    <3> QED
      BY <3>1, <3>2, <3>3 DEF TypeOK
  <2>2. CASE WriteTail
    <3>1. /\ slot' = [slot EXCEPT ![todo.pos].val.tail = todo.at] /\ Advance("tail", "ready")
          /\ UNCHANGED <<highest_in_file, next_in_file, highest_time, next_free_pos, headers,
                         rpc, r_highest, r_next, r_at, r_val, overtaken>>
      BY <2>2 DEF WriteTail, memory, reader
    <3>2. /\ todo.at \in Time /\ todo.pos \in Position
          /\ todo' \in [pc : {"idle", "head", "tail", "ready", "highest", "next"},
                        at : Instants, pos : Position, next : Position]
          /\ todo'.at = todo.at
      BY <3>1, AdvanceType
    <3>3. slot' \in [Position -> State]
      BY <3>1, <3>2, TailSlot
    <3> QED
      BY <3>1, <3>2, <3>3 DEF TypeOK
  <2>3. CASE WriteReady
    <3>1. /\ slot' = [slot EXCEPT ![todo.pos].flag = "ready"] /\ todo.pc = "ready"
          /\ UNCHANGED <<highest_in_file, next_in_file, headers,
                         rpc, r_highest, r_next, r_at, r_val, overtaken>>
      BY <2>3 DEF WriteReady, reader
    <3>2. \/ todo' = Idle /\ highest_time' = highest_time /\ next_free_pos' = next_free_pos
          \/ /\ todo' = [todo EXCEPT !.pc = "highest"]
             /\ highest_time' = todo.at /\ next_free_pos' = todo.next
      BY <2>3 DEF WriteReady, memory
    <3>3. slot' \in [Position -> State]
      <4>1. todo.pos \in Position
        BY DEF TypeOK
      <4> QED
        BY <3>1, <4>1, ReadySlot
    <3>4. /\ todo' \in [pc : {"idle", "head", "tail", "ready", "highest", "next"},
                        at : Instants, pos : Position, next : Position]
          /\ todo'.pc # "idle" => todo'.at \in Time
          /\ highest_time' \in Instants /\ next_free_pos' \in Position
      <4>1. CASE todo' = [todo EXCEPT !.pc = "highest"]
        <5>1. todo.at \in Time /\ todo.next \in Position /\ todo'.at = todo.at
          BY <3>1, <4>1 DEF TypeOK
        <5>2. todo' \in [pc : {"idle", "head", "tail", "ready", "highest", "next"},
                         at : Instants, pos : Position, next : Position]
          BY <4>1 DEF TypeOK
        <5> QED
          BY <3>2, <5>1, <5>2 DEF Instants, TypeOK
      <4>2. CASE todo' = Idle
        <5>1. /\ todo' \in [pc : {"idle", "head", "tail", "ready", "highest", "next"},
                            at : Instants, pos : Position, next : Position]
              /\ todo'.pc = "idle"
          BY <4>2 DEF Idle, Instants
        <5>2. todo.pc = "ready" /\ todo.at \in Time /\ todo.next \in Position
          BY <3>1 DEF TypeOK
        <5> QED
          BY <3>2, <5>1, <5>2 DEF TypeOK, Instants
      <4> QED
        BY <3>2, <4>1, <4>2
    <3> QED
      BY <3>1, <3>3, <3>4 DEF TypeOK
  <2>4. CASE WriteHighest
    <3>1. /\ Advance("highest", "next") /\ highest_in_file' = highest_time
          /\ UNCHANGED <<slot, next_in_file, highest_time, next_free_pos, headers,
                         rpc, r_highest, r_next, r_at, r_val, overtaken>>
      BY <2>4 DEF WriteHighest, memory, reader
    <3> QED
      BY <3>1, AdvanceType DEF TypeOK
  <2>5. CASE WriteNext
    BY <2>5 DEF WriteNext, TypeOK, Idle, memory, reader, Instants
  <2> QED
    BY <1>2, <2>1, <2>2, <2>3, <2>4, <2>5
<1>3. CASE Restart
  BY <1>3 DEF Restart, TypeOK, Idle, file, reader, Instants
<1>4. ASSUME NEW at \in Time, StartRead(at)
      PROVE  TypeOK'
  BY <1>4 DEF StartRead, TypeOK, Server, file, memory, Instants, Overtakes
<1>5. CASE ReadHighest \/ ReadNext \/ EndRead
  BY <1>5 DEF ReadHighest, ReadNext, EndRead, TypeOK, Server, file, memory, Instants
<1>6. CASE ReadFlag
  BY <1>6 DEF ReadFlag, TypeOK, Server, file, memory
<1>7. CASE ReadHead \/ ReadTail
  <2>1. R!SlotOf(r_at).val \in Value
    BY <1>7, ReadType, ReadAt DEF KeptInv, Reading, ReadHead, ReadTail, TypeOK
  <2>2. r_val' \in Value /\ rpc' \in {"tail", "read"}
    BY <1>7, <2>1 DEF ReadHead, ReadTail, TypeOK, Value
  <2> QED
    BY <1>7, <2>2 DEF ReadHead, ReadTail, TypeOK, Server, file, memory
<1> QED
  BY <1>1, <1>2, <1>3, <1>4, <1>5, <1>6, <1>7 DEF Next, WriteStep, ReadStep

-----------------------------------------------------------------------------
(* What is read, with a whole header and while the slot is not reused, is  *)
(* where the server has it.                                                *)
LEMMA ReadPosition ==
  ASSUME TypeOK, OldInv, KeptInv, Reading, Sound
  PROVE  LET p == PosAt(r_next, r_highest - r_at)
         IN  /\ InWindow(highest_time, r_at) /\ r_at \in Time /\ p \in Position
             /\ p = PosAt(next_free_pos, highest_time - r_at)
<1> USE Constants
<1>1. r_at \in Time /\ InWindow(r_highest, r_at) /\ ~Overtakes(highest_time, r_at)
  BY DEF KeptInv, Sound
<1>2. r_highest \in Nat /\ r_at \in Nat /\ r_at <= r_highest
      /\ PosAt(r_next, r_highest - r_at) \in Position
  BY <1>1, WindowPosition DEF TypeOK
<1>3. highest_time # NoTime /\ highest_time \in Nat /\ r_highest <= highest_time
  BY <1>2 DEF OldInv, Upto, TypeOK, Instants
<1>4. InWindow(highest_time, r_at)
  <2>1. ~(highest_time >= r_at + file_size)
    BY <1>1, <1>2, <1>3 DEF Overtakes
  <2> QED
    BY <1>2, <1>3, <2>1 DEF InWindow
<1>5. CASE <<r_highest, r_next>> = <<highest_time, next_free_pos>>
  <2>1. r_highest = highest_time /\ r_next = next_free_pos
    BY <1>5
  <2> QED
    BY <1>1, <1>2, <1>4, <2>1
<1>6. CASE <<r_highest, r_next>> \in headers
  <2>1. Agree(r_highest, r_next, highest_time, next_free_pos)
    BY <1>6 DEF OldInv
  <2> QED
    BY <1>1, <1>2, <1>4, <2>1 DEF Agree
<1> QED
  BY <1>5, <1>6 DEF Sound, Headers

(* A slot that is ready after a step was so before finds no other value.   *)
LEMMA FindsKept ==
  ASSUME NEW h \in Instants, NEW n \in Position, Finds(h, n),
         \A p \in Position : slot'[p].flag = "ready" => slot'[p] = slot[p]
  PROVE  \A t \in Time :
           LET s == slot'[PosAt(n, h - t)]
           IN  InWindow(h, t) /\ s.flag = "ready" => s.val = Whole(t)
<1> SUFFICES ASSUME NEW t \in Time, InWindow(h, t), slot'[PosAt(n, h - t)].flag = "ready"
             PROVE  slot'[PosAt(n, h - t)].val = Whole(t)
  OBVIOUS
<1>1. PosAt(n, h - t) \in Position
  BY WindowPosition
<1> QED
  BY <1>1 DEF Finds

(* A write later than all others begins. *)
LEMMA LaterStep ==
  ASSUME ReaderInv, TypeOK', NEW at \in Time, Later(at), BeginsLater(at)
  PROVE  ReaderInv'
<1> USE Constants
<1>1. PICK pos \in Position, next \in Position, C \in SUBSET Position :
        Begin(at, pos, C, next) /\ Moves(at, pos, next)
  BY DEF BeginsLater
<1>2. TypeOK /\ HeaderInv /\ ContentInv /\ PlaceInv /\ OldInv /\ KeptInv /\ ReadInv
  BY DEF ReaderInv, ServerInv
<1>3. /\ todo.pc = "idle" /\ todo' = [pc |-> "head", at |-> at, pos |-> pos, next |-> next]
      /\ overtaken' = (overtaken \/ Overtakes(at, r_at))
      /\ UNCHANGED <<highest_in_file, next_in_file, highest_time, next_free_pos, headers,
                     rpc, r_highest, r_next, r_at, r_val>>
  BY <1>1 DEF Begin, memory, reader
<1>4. /\ todo'.pc = "head" /\ todo'.at = at /\ todo'.pos = pos /\ todo'.next = next
      /\ at \in Nat /\ at \in Instants
  BY <1>3 DEF Instants
<1>5. /\ slot'[pos].flag = "busy"
      /\ \A p \in Position : slot'[p].flag = "ready" => slot'[p] = slot[p]
  BY <1>1, <1>2, BeginSlots
<1>6. highest_time = NoTime \/ (highest_time \in Nat /\ highest_time < at)
  BY <1>2, <1>4 DEF Later, TypeOK, Instants
<1>7. HeaderInv' /\ ContentInv'
  <2>1. HeaderInv'
    BY <1>2, <1>3, <1>4 DEF HeaderInv, Filling
  <2> QED
    BY <1>4, <1>5, <2>1 DEF ContentInv, Filling
<1>8. PlaceInv'
  <2>1. Finds(highest_time, next_free_pos)'
    <3>1. Finds(highest_time, next_free_pos) /\ highest_time \in Instants /\ next_free_pos \in Position
      BY <1>2 DEF PlaceInv, TypeOK
    <3> QED
      BY <1>3, <1>5, <3>1, FindsKept DEF Finds
  <2>2. Later(todo.at)'
    BY <1>3, <1>4 DEF Later
  <2>3. pos = PosAt(next, 0)
    BY <1>1 DEF Moves
  <2>4. ASSUME NEW t \in Time, InWindow(at, t), t # at
        PROVE  LET p == PosAt(next, at - t)
               IN  /\ p # pos
                   /\ InWindow(highest_time, t) => p = PosAt(next_free_pos, highest_time - t) /\ slot'[p] = slot[p]
                   /\ ~InWindow(highest_time, t) => slot'[p].flag = "busy"
    <3>1. t < at /\ at - t < file_size
      BY <1>4, <2>4 DEF InWindow
    <3> QED
      BY <1>1, <3>1 DEF Moves
  <2>5. \A t \in Time :
          LET s == slot'[PosAt(next, at - t)]
          IN  InWindow(at, t) /\ s.flag = "ready" => s.val = Whole(t)
    <3> SUFFICES ASSUME NEW t \in Time, InWindow(at, t), slot'[PosAt(next, at - t)].flag = "ready"
                 PROVE  slot'[PosAt(next, at - t)].val = Whole(t)
      OBVIOUS
    <3>1. t # at
      <4>1. at - at = 0
        BY <1>4
      <4> QED
        BY <1>5, <2>3, <4>1
    <3>2. /\ InWindow(highest_time, t)
          /\ PosAt(next, at - t) = PosAt(next_free_pos, highest_time - t)
          /\ slot'[PosAt(next, at - t)] = slot[PosAt(next, at - t)]
      BY <2>4, <3>1
    <3> QED
      BY <1>2, <3>2 DEF PlaceInv, Finds
  <2>6. Finds(todo.at, todo.next)'
    BY <1>4, <2>5 DEF Finds
  <2>7. Agree(highest_time, next_free_pos, todo.at, todo.next)'
    <3> SUFFICES ASSUME NEW t \in Time, InWindow(highest_time, t), InWindow(at, t)
                 PROVE  PosAt(next_free_pos, highest_time - t) = PosAt(next, at - t)
      BY <1>3, <1>4 DEF Agree
    <3>1. t # at
      BY <1>4, <1>6 DEF InWindow
    <3> QED
      BY <2>4, <3>1
  <2> QED
    BY <1>4, <2>1, <2>2, <2>3, <2>6, <2>7 DEF PlaceInv
<1>9. OldInv'
  BY <1>2, <1>3 DEF OldInv, Upto
<1>10. KeptInv'
  BY <1>2, <1>3, <1>4 DEF KeptInv, Reading
<1>11. ReadInv'
  <2> SUFFICES ASSUME Sound'
               PROVE  /\ rpc \in {"head", "tail", "read"} => slot'[PosAt(r_next, r_highest - r_at)].flag = "ready"
                      /\ rpc \in {"tail", "read"} => r_val.head = r_at
                      /\ rpc = "read" => r_val.tail = r_at
    BY <1>3 DEF ReadInv
  <2>1. Sound /\ ~Overtakes(at, r_at)
    BY <1>2, <1>3 DEF Sound, Headers, TypeOK
  <2>2. ASSUME rpc \in {"head", "tail", "read"}
        PROVE  slot'[PosAt(r_next, r_highest - r_at)].flag = "ready"
    <3> DEFINE p == PosAt(r_next, r_highest - r_at)
    <3>1. InWindow(highest_time, r_at) /\ r_at \in Time /\ p \in Position
          /\ p = PosAt(next_free_pos, highest_time - r_at)
      BY <1>2, <2>1, <2>2, ReadPosition DEF Reading
    <3>2. r_at < at /\ at - r_at < file_size
      BY <1>4, <1>6, <2>1, <3>1 DEF InWindow, Overtakes
    <3>3. slot'[p] = slot[p]
      BY <1>1, <3>1, <3>2 DEF Moves
    <3>4. slot[p].flag = "ready"
      BY <1>2, <2>1, <2>2 DEF ReadInv
    <3> QED
      BY <3>3, <3>4
  <2> QED
    BY <1>2, <2>1, <2>2 DEF ReadInv
<1> QED
  BY <1>7, <1>8, <1>9, <1>10, <1>11 DEF ReaderInv, ServerInv

(* A slot that is read is ready, and stays as it is in a step that changes *)
(* only a slot that is busy.                                               *)
LEMMA ReadKept ==
  ASSUME ReaderInv, NEW pos \in Position, slot[pos].flag = "busy", Others(pos),
         UNCHANGED <<rpc, r_highest, r_next, r_at, r_val>>, Sound' => Sound
  PROVE  ReadInv'
<1>1. TypeOK /\ OldInv /\ KeptInv /\ ReadInv
  BY DEF ReaderInv, ServerInv
<1> SUFFICES ASSUME Sound'
             PROVE  /\ rpc \in {"head", "tail", "read"} => slot'[PosAt(r_next, r_highest - r_at)].flag = "ready"
                    /\ rpc \in {"tail", "read"} => r_val.head = r_at
                    /\ rpc = "read" => r_val.tail = r_at
  BY DEF ReadInv
<1>2. ASSUME rpc \in {"head", "tail", "read"}
      PROVE  slot'[PosAt(r_next, r_highest - r_at)].flag = "ready"
  <2> DEFINE p == PosAt(r_next, r_highest - r_at)
  <2>1. p \in Position
    BY <1>1, <1>2, ReadPosition DEF Reading
  <2>2. slot[p].flag = "ready"
    BY <1>1, <1>2 DEF ReadInv
  <2> QED
    BY <2>1, <2>2 DEF Others
<1> QED
  BY <1>1, <1>2 DEF ReadInv

(* The write of an instant of the buffer begins. *)
LEMMA PastStep ==
  ASSUME ReaderInv, TypeOK', NEW at \in Time, BeginPast(at)
  PROVE  ReaderInv'
<1> USE Constants
<1> DEFINE pos == PosAt(next_free_pos, highest_time - at)
<1>1. TypeOK /\ HeaderInv /\ ContentInv /\ PlaceInv /\ OldInv /\ KeptInv /\ ReadInv
  BY DEF ReaderInv, ServerInv
<1>2. /\ InWindow(highest_time, at) /\ ~Later(at)
      /\ pos \in Position /\ slot[pos].flag = "busy"
      /\ Begin(at, pos, {}, next_free_pos)
  BY <1>1, PastPlace
<1> HIDE DEF pos
<1>3. /\ todo.pc = "idle" /\ todo' = [pc |-> "head", at |-> at, pos |-> pos, next |-> next_free_pos]
      /\ overtaken' = (overtaken \/ Overtakes(at, r_at))
      /\ UNCHANGED <<highest_in_file, next_in_file, highest_time, next_free_pos, headers,
                     rpc, r_highest, r_next, r_at, r_val>>
  BY <1>2 DEF Begin, memory, reader
<1>4. todo'.pc = "head" /\ todo'.at = at /\ todo'.pos = pos
  BY <1>3
<1>5. slot'[pos].flag = "busy" /\ Others(pos)
  <2>1. slot'[pos].flag = "busy" /\ \A p \in Position : p # pos /\ p \notin {} => slot'[p] = slot[p]
    <3> DEFINE C == {}
    <3>1. Begin(at, pos, C, next_free_pos)
      BY <1>2
    <3> HIDE DEF C
    <3>2. slot'[pos].flag = "busy" /\ \A p \in Position : p # pos /\ p \notin C => slot'[p] = slot[p]
      BY <1>1, <1>2, <3>1, BeginSlots
    <3> QED
      BY <3>2 DEF C
  <2> QED
    BY <2>1 DEF Others
<1>6. \A p \in Position : slot'[p].flag = "ready" => slot'[p] = slot[p]
  BY <1>5 DEF Others
<1>7. HeaderInv' /\ ContentInv'
  <2>1. HeaderInv'
    BY <1>1, <1>3, <1>4 DEF HeaderInv, Filling
  <2> QED
    BY <1>4, <1>5, <2>1 DEF ContentInv, Filling
<1>8. PlaceInv'
  <2>1. Finds(highest_time, next_free_pos)'
    <3>1. Finds(highest_time, next_free_pos) /\ highest_time \in Instants /\ next_free_pos \in Position
      BY <1>1 DEF PlaceInv, TypeOK
    <3> QED
      BY <1>3, <1>6, <3>1, FindsKept DEF Finds
  <2>2. ~Later(todo.at)'
    BY <1>2, <1>3, <1>4 DEF Later
  <2>3. InWindow(highest_time, todo.at)' /\ todo'.pos = PosAt(next_free_pos, highest_time - todo.at)'
    BY <1>2, <1>3, <1>4 DEF pos, PosAt, InWindow
  <2> QED
    BY <2>1, <2>2, <2>3 DEF PlaceInv
<1>9. OldInv' /\ KeptInv'
  BY <1>1, <1>3, <1>4 DEF OldInv, Upto, KeptInv, Reading
<1>10. ReadInv'
  <2>1. Sound' => Sound
    BY <1>1, <1>3 DEF Sound, Headers, TypeOK
  <2> QED
    BY <1>2, <1>3, <1>5, <2>1, ReadKept
<1> QED
  BY <1>7, <1>8, <1>9, <1>10 DEF ReaderInv, ServerInv

(* The content of the slot is written, half after half. *)
LEMMA FillStep ==
  ASSUME ReaderInv, TypeOK', WriteHead \/ WriteTail
  PROVE  ReaderInv'
<1> USE Constants
<1>1. TypeOK /\ HeaderInv /\ ContentInv /\ PlaceInv /\ OldInv /\ KeptInv /\ ReadInv
  BY DEF ReaderInv, ServerInv
<1>2. /\ UNCHANGED <<highest_in_file, next_in_file, highest_time, next_free_pos, headers,
                     rpc, r_highest, r_next, r_at, r_val, overtaken>>
      /\ todo.pc \in {"head", "tail"} /\ todo.at \in Time /\ todo.pos \in Position
      /\ todo'.pc \in {"tail", "ready"}
      /\ todo'.at = todo.at /\ todo'.pos = todo.pos /\ todo'.next = todo.next
  <2>1. CASE WriteHead
    BY <1>1, <2>1, AdvanceType DEF WriteHead, memory, reader
  <2>2. CASE WriteTail
    BY <1>1, <2>2, AdvanceType DEF WriteTail, memory, reader
  <2> QED
    BY <2>1, <2>2
<1>3. Filling /\ Filling' /\ slot[todo.pos].flag = "busy"
  BY <1>1, <1>2 DEF Filling, ContentInv
<1>4. /\ Others(todo.pos) /\ slot'[todo.pos].flag = "busy"
      /\ slot'[todo.pos].val.head = todo.at
      /\ todo'.pc = "ready" => slot'[todo.pos].val.tail = todo.at
  <2>1. CASE WriteHead
    <3>1. slot' = [slot EXCEPT ![todo.pos].val.head = todo.at] /\ todo'.pc # "ready"
      BY <1>1, <2>1, AdvanceType DEF WriteHead
    <3> QED
      BY <1>1, <1>2, <1>3, <3>1, HeadSlot
  <2>2. CASE WriteTail
    <3>1. slot' = [slot EXCEPT ![todo.pos].val.tail = todo.at] /\ todo.pc = "tail"
      BY <2>2 DEF WriteTail, Advance
    <3>2. slot[todo.pos].val.head = todo.at
      BY <1>1, <3>1 DEF ContentInv
    <3> QED
      BY <1>1, <1>2, <1>3, <3>1, <3>2, TailSlot
  <2> QED
    BY <2>1, <2>2
<1>5. \A p \in Position : slot'[p].flag = "ready" => slot'[p] = slot[p]
  BY <1>4 DEF Others
<1>6. HeaderInv' /\ ContentInv'
  <2>1. HeaderInv'
    BY <1>1, <1>2, <1>3 DEF HeaderInv
  <2> QED
    BY <1>2, <1>4, <2>1 DEF ContentInv
<1>7. PlaceInv'
  <2>1. Finds(highest_time, next_free_pos)'
    <3>1. Finds(highest_time, next_free_pos) /\ highest_time \in Instants /\ next_free_pos \in Position
      BY <1>1 DEF PlaceInv, TypeOK
    <3> QED
      BY <1>2, <1>5, <3>1, FindsKept DEF Finds
  <2>2. CASE Later(todo.at)
    <3>1. /\ todo.pos = PosAt(todo.next, 0) /\ Finds(todo.at, todo.next)
          /\ Agree(highest_time, next_free_pos, todo.at, todo.next)
          /\ todo.at \in Instants /\ todo.next \in Position
      BY <1>1, <1>3, <2>2 DEF PlaceInv, TypeOK
    <3>2. Finds(todo.at, todo.next)'
      BY <1>2, <1>5, <3>1, FindsKept DEF Finds
    <3>3. Later(todo.at)' /\ Agree(highest_time, next_free_pos, todo.at, todo.next)'
      BY <1>2, <2>2, <3>1 DEF Later, Agree
    <3> QED
      BY <1>2, <2>1, <3>1, <3>2, <3>3 DEF PlaceInv
  <2>3. CASE ~Later(todo.at)
    <3>1. InWindow(highest_time, todo.at) /\ todo.pos = PosAt(next_free_pos, highest_time - todo.at)
      BY <1>1, <1>3, <2>3 DEF PlaceInv
    <3>2. ~Later(todo.at)' /\ InWindow(highest_time, todo.at)'
          /\ todo'.pos = PosAt(next_free_pos, highest_time - todo.at)'
      BY <1>2, <2>3, <3>1 DEF Later
    <3> QED
      BY <2>1, <3>2 DEF PlaceInv
  <2> QED
    BY <2>2, <2>3
<1>8. OldInv' /\ KeptInv'
  BY <1>1, <1>2 DEF OldInv, Upto, KeptInv, Reading
<1>9. ReadInv'
  <2>1. Sound' => Sound
    BY <1>2 DEF Sound, Headers
  <2> QED
    BY <1>2, <1>3, <1>4, <2>1, ReadKept
<1> QED
  BY <1>6, <1>7, <1>8, <1>9 DEF ReaderInv, ServerInv

(* The slot is marked ready, and the header in memory follows. *)
LEMMA PastReady ==
  ASSUME ReaderInv, TypeOK', WriteReady, ~Later(todo.at)
  PROVE  ReaderInv'
<1> USE Constants
<1>1. TypeOK /\ HeaderInv /\ ContentInv /\ PlaceInv /\ OldInv /\ KeptInv /\ ReadInv
  BY DEF ReaderInv, ServerInv
<1>2. /\ todo.pc = "ready" /\ todo.at \in Time /\ todo.pos \in Position
      /\ slot' = [slot EXCEPT ![todo.pos].flag = "ready"] /\ todo' = Idle /\ todo'.pc = "idle"
      /\ UNCHANGED <<highest_in_file, next_in_file, highest_time, next_free_pos, headers,
                     rpc, r_highest, r_next, r_at, r_val, overtaken>>
  <2>1. highest_time # NoTime /\ todo.at <= highest_time
    <3>1. highest_time # NoTime /\ ~(todo.at > highest_time)
      BY DEF Later
    <3>2. highest_time \in Nat /\ todo.at \in Nat
      BY <1>1, <3>1 DEF WriteReady, TypeOK, Instants
    <3> QED
      BY <3>1, <3>2
  <2> QED
    BY <1>1, <2>1 DEF WriteReady, memory, reader, TypeOK, Idle
<1>3. /\ slot[todo.pos].flag = "busy"
      /\ Others(todo.pos) /\ slot'[todo.pos].flag = "ready" /\ slot'[todo.pos].val = Whole(todo.at)
  <2>1. slot[todo.pos].flag = "busy" /\ slot[todo.pos].val.head = todo.at /\ slot[todo.pos].val.tail = todo.at
    BY <1>1, <1>2 DEF ContentInv, Filling
  <2>2. slot[todo.pos].val = Whole(todo.at)
    BY <1>1, <1>2, <2>1 DEF TypeOK, State, Value, Whole
  <2> QED
    BY <1>1, <1>2, <2>1, <2>2, ReadySlot
<1>4. InWindow(highest_time, todo.at) /\ todo.pos = PosAt(next_free_pos, highest_time - todo.at)
  BY <1>1, <1>2 DEF PlaceInv, Filling
<1>5. HeaderInv' /\ ContentInv'
  BY <1>1, <1>2 DEF HeaderInv, ContentInv, Filling
<1>6. PlaceInv'
  <2>1. ASSUME NEW t \in Time, InWindow(highest_time, t),
               slot'[PosAt(next_free_pos, highest_time - t)].flag = "ready"
        PROVE  slot'[PosAt(next_free_pos, highest_time - t)].val = Whole(t)
    <3> DEFINE p == PosAt(next_free_pos, highest_time - t)
    <3>1. p \in Position /\ highest_time - t \in Nat /\ highest_time - t < file_size
          /\ highest_time \in Nat /\ t \in Nat
      BY <1>1, <2>1, WindowPosition DEF TypeOK
    <3>2. CASE p = todo.pos
      <4>1. highest_time - todo.at \in Nat /\ highest_time - todo.at < file_size /\ todo.at \in Nat
        BY <1>1, <1>2, <1>4, WindowPosition DEF TypeOK
      <4>2. highest_time - t = highest_time - todo.at
        BY <1>1, <1>4, <3>1, <3>2, <4>1, PositionInjective DEF TypeOK
      <4>3. t = todo.at
        BY <3>1, <4>1, <4>2
      <4> QED
        BY <1>3, <3>2, <4>3
    <3>3. CASE p # todo.pos
      <4>1. slot'[p] = slot[p]
        BY <1>3, <3>1, <3>3 DEF Others
      <4> QED
        BY <1>1, <2>1, <4>1 DEF PlaceInv, Finds
    <3> QED
      BY <3>2, <3>3
  <2>2. Finds(highest_time, next_free_pos)'
    BY <1>2, <2>1 DEF Finds
  <2> QED
    BY <1>2, <2>2 DEF PlaceInv, Filling
<1>7. OldInv' /\ KeptInv'
  BY <1>1, <1>2 DEF OldInv, Upto, KeptInv, Reading
<1>8. ReadInv'
  <2>1. Sound' => Sound
    BY <1>2 DEF Sound, Headers
  <2> QED
    BY <1>2, <1>3, <2>1, ReadKept
<1> QED
  BY <1>5, <1>6, <1>7, <1>8 DEF ReaderInv, ServerInv

LEMMA LaterReady ==
  ASSUME ReaderInv, TypeOK', WriteReady, Later(todo.at)
  PROVE  ReaderInv'
<1> USE Constants
<1> DEFINE at == todo.at
           next == todo.next
<1>1. TypeOK /\ HeaderInv /\ ContentInv /\ PlaceInv /\ OldInv /\ KeptInv /\ ReadInv
  BY DEF ReaderInv, ServerInv
<1>2. /\ todo.pc = "ready" /\ at \in Time /\ at \in Nat /\ todo.pos \in Position /\ next \in Position
      /\ at # NoTime /\ at \in Instants
  BY <1>1 DEF WriteReady, TypeOK, Instants
<1>3. highest_time = NoTime \/ (highest_time \in Nat /\ highest_time < at)
  BY <1>1, <1>2 DEF Later, TypeOK, Instants
<1>4. /\ slot' = [slot EXCEPT ![todo.pos].flag = "ready"]
      /\ todo' = [todo EXCEPT !.pc = "highest"]
      /\ highest_time' = at /\ next_free_pos' = next
      /\ UNCHANGED <<highest_in_file, next_in_file, headers,
                     rpc, r_highest, r_next, r_at, r_val, overtaken>>
  <2>1. ~(highest_time # NoTime /\ at <= highest_time)
    BY <1>2, <1>3
  <2> QED
    BY <2>1 DEF WriteReady, reader
<1>5. todo'.pc = "highest" /\ todo'.at = at
  BY <1>1, <1>4 DEF TypeOK
<1>6. /\ slot[todo.pos].flag = "busy"
      /\ Others(todo.pos) /\ slot'[todo.pos].flag = "ready" /\ slot'[todo.pos].val = Whole(at)
  <2>1. slot[todo.pos].flag = "busy" /\ slot[todo.pos].val.head = at /\ slot[todo.pos].val.tail = at
    BY <1>1, <1>2 DEF ContentInv, Filling
  <2>2. slot[todo.pos].val = Whole(at)
    BY <1>1, <1>2, <2>1 DEF TypeOK, State, Value, Whole
  <2> QED
    BY <1>1, <1>2, <1>4, <2>1, <2>2, ReadySlot
<1>7. /\ todo.pos = PosAt(next, 0) /\ Finds(at, next)
      /\ Agree(highest_time, next_free_pos, at, next)
  BY <1>1, <1>2 DEF PlaceInv, Filling
<1>8. HeaderInv' /\ ContentInv'
  <2>1. highest_in_file # NoTime => highest_in_file \in Nat /\ highest_in_file <= at
    BY <1>1, <1>2, <1>3 DEF HeaderInv, TypeOK, Instants
  <2> QED
    BY <1>1, <1>2, <1>4, <1>5, <2>1 DEF HeaderInv, ContentInv, Filling
<1>9. PlaceInv'
  <2>1. ASSUME NEW t \in Time, InWindow(at, t), slot'[PosAt(next, at - t)].flag = "ready"
        PROVE  slot'[PosAt(next, at - t)].val = Whole(t)
    <3> DEFINE p == PosAt(next, at - t)
    <3>1. p \in Position /\ at - t \in Nat /\ at - t < file_size /\ t \in Nat
      BY <1>2, <2>1, WindowPosition
    <3>2. CASE p = todo.pos
      <4>1. at - t = 0
        BY <1>2, <1>7, <3>1, <3>2, PositionInjective
      <4>2. t = at
        BY <1>2, <3>1, <4>1
      <4> QED
        BY <1>6, <3>2, <4>2
    <3>3. CASE p # todo.pos
      <4>1. slot'[p] = slot[p]
        BY <1>6, <3>1, <3>3 DEF Others
      <4> QED
        BY <1>7, <2>1, <4>1 DEF Finds
    <3> QED
      BY <3>2, <3>3
  <2>2. Finds(highest_time, next_free_pos)'
    BY <1>4, <2>1 DEF Finds
  <2> QED
    BY <1>5, <2>2 DEF PlaceInv, Filling
<1>10. OldInv'
  <2>1. ASSUME NEW hd \in headers
        PROVE  (hd[1] # NoTime => hd[1] <= at) /\ Agree(hd[1], hd[2], at, next)
    <3>1. /\ Upto(hd[1]) /\ Agree(hd[1], hd[2], highest_time, next_free_pos)
          /\ hd[1] \in Instants
      BY <1>1 DEF OldInv, TypeOK
    <3>2. hd[1] # NoTime => hd[1] \in Nat /\ highest_time \in Nat /\ hd[1] <= highest_time /\ hd[1] <= at
      <4> DEFINE h == hd[1]
      <4>1. h # NoTime => highest_time # NoTime /\ h <= highest_time /\ h \in Time
        BY <3>1 DEF Upto, Instants
      <4> HIDE DEF h, at
      <4>2. ASSUME h # NoTime
            PROVE  h \in Nat /\ highest_time \in Nat /\ h <= highest_time /\ h <= at
        <5>1. h \in Nat /\ highest_time \in Nat /\ h <= highest_time /\ highest_time < at /\ at \in Nat
          BY <1>2, <1>3, <4>1, <4>2
        <5> QED
          BY <5>1
      <4> QED
        BY <4>2 DEF h
    <3>3. ASSUME NEW t \in Time, InWindow(hd[1], t), InWindow(at, t)
          PROVE  PosAt(hd[2], hd[1] - t) = PosAt(next, at - t)
      <4>1. InWindow(highest_time, t)
        BY <1>2, <1>3, <3>2, <3>3 DEF InWindow
      <4> QED
        BY <1>7, <3>1, <3>3, <4>1 DEF Agree
    <3> QED
      BY <3>2, <3>3 DEF Agree
  <2>2. r_highest # NoTime => r_highest <= at
    BY <1>1, <1>2, <1>3 DEF OldInv, Upto, TypeOK, Instants
  <2> QED
    BY <1>2, <1>4, <2>1, <2>2 DEF OldInv, Upto
<1>11. KeptInv'
  BY <1>1, <1>2, <1>4, <1>5 DEF KeptInv, Reading
<1>12. ReadInv'
  <2>1. CASE Reading
    <3>1. r_highest \in Nat /\ r_highest # at
      <4>1. r_highest \in Nat /\ r_highest # NoTime
        BY <1>1, <2>1, WindowPosition DEF KeptInv, TypeOK
      <4> QED
        BY <1>1, <1>2, <1>3, <4>1 DEF OldInv, Upto
    <3>2. Sound' => Sound
      BY <1>4, <3>1 DEF Sound, Headers
    <3> QED
      BY <1>2, <1>4, <1>6, <3>2, ReadKept
  <2>2. CASE ~Reading
    BY <1>4, <2>2 DEF ReadInv, Reading
  <2> QED
    BY <2>1, <2>2
<1> QED
  BY <1>8, <1>9, <1>10, <1>11, <1>12 DEF ReaderInv, ServerInv

(* The header goes to the file, and a server that stops before that starts *)
(* again from the header it had.                                           *)
LEMMA HeaderStep ==
  ASSUME ReaderInv, TypeOK',
         WriteHighest \/ WriteNext \/ (Restart /\ Filling)
  PROVE  ReaderInv'
<1> USE Constants
<1>1. TypeOK /\ HeaderInv /\ ContentInv /\ PlaceInv /\ OldInv /\ KeptInv /\ ReadInv
  BY DEF ReaderInv, ServerInv
<1>2. UNCHANGED <<slot, highest_time, next_free_pos, rpc, r_highest, r_next, r_at, r_val, overtaken>>
  BY <1>1 DEF WriteHighest, WriteNext, Restart, HeaderInv, memory, reader, file
<1>3. /\ todo.pc \in {"head", "tail", "ready", "highest", "next"}
      /\ todo'.pc \in {"idle", "next"} /\ ~Filling'
      /\ todo'.pc = "next" => todo'.at = todo.at
  BY <1>1 DEF WriteHighest, WriteNext, Restart, Filling, Advance, Idle, TypeOK
<1>4. HeaderInv'
  <2>1. CASE WriteHighest
    <3>1. todo.pc = "highest" /\ todo'.pc = "next" /\ todo'.at = highest_time /\ highest_in_file' = highest_time
      BY <1>1, <2>1 DEF WriteHighest, Advance, HeaderInv, TypeOK
    <3>2. highest_time # NoTime => highest_time <= highest_time
      BY <1>1 DEF TypeOK, Instants
    <3> QED
      BY <1>2, <3>1, <3>2 DEF HeaderInv, Filling
  <2>2. CASE WriteNext
    <3>1. /\ todo.pc = "next" /\ todo'.pc = "idle" /\ next_in_file' = next_free_pos
          /\ highest_in_file' = highest_in_file /\ highest_in_file = highest_time
      BY <1>1, <2>2 DEF WriteNext, Idle, HeaderInv
    <3> QED
      BY <1>1, <1>2, <3>1 DEF HeaderInv, Filling
  <2>3. CASE Restart /\ Filling
    <3>1. /\ todo'.pc = "idle" /\ highest_in_file' = highest_in_file /\ next_in_file' = next_in_file
          /\ highest_in_file = highest_time /\ next_in_file = next_free_pos
      BY <1>1, <2>3 DEF Restart, Idle, HeaderInv, file
    <3> QED
      BY <1>1, <1>2, <3>1 DEF HeaderInv, Filling
  <2> QED
    BY <2>1, <2>2, <2>3
<1>5. ContentInv' /\ PlaceInv'
  BY <1>1, <1>2, <1>3 DEF ContentInv, PlaceInv, Finds
<1>6. headers' = headers \/ headers' = Headers
  BY DEF WriteHighest, WriteNext, Restart, Headers
<1>7. Headers' = Headers
  BY <1>2, <1>6 DEF Headers
<1>8. OldInv'
  <2>1. \A hd \in Headers : Upto(hd[1]) /\ Agree(hd[1], hd[2], highest_time, next_free_pos)
    <3>1. Upto(highest_time) /\ Agree(highest_time, next_free_pos, highest_time, next_free_pos)
      BY <1>1 DEF Upto, Agree, TypeOK, Instants
    <3> QED
      BY <1>1, <3>1 DEF OldInv, Headers
  <2>2. headers' \subseteq Headers
    BY <1>6 DEF Headers
  <2> QED
    BY <1>1, <1>2, <2>1, <2>2 DEF OldInv, Upto, Agree
<1>9. KeptInv'
  BY <1>1, <1>2, <1>3 DEF KeptInv, Reading
<1>10. ReadInv'
  BY <1>1, <1>2, <1>7 DEF ReadInv, Sound
<1> QED
  BY <1>4, <1>5, <1>8, <1>9, <1>10 DEF ReaderInv, ServerInv

(* A step of the reader leaves the server as it is. *)
LEMMA ServerKept ==
  ASSUME ReaderInv, TypeOK', UNCHANGED Server
  PROVE  /\ ServerInv'
         /\ Headers' = Headers
         /\ \A hd \in headers' : Upto(hd[1])' /\ Agree(hd[1], hd[2], highest_time, next_free_pos)'
         /\ UNCHANGED <<slot, highest_time, next_free_pos, todo>>
<1>1. UNCHANGED <<slot, highest_in_file, next_in_file, highest_time, next_free_pos, todo, headers>>
  BY DEF Server, file, memory
<1>2. TypeOK /\ HeaderInv /\ ContentInv /\ PlaceInv /\ OldInv
  BY DEF ReaderInv, ServerInv
<1>3. HeaderInv' /\ ContentInv'
  BY <1>1, <1>2 DEF HeaderInv, ContentInv, Filling
<1>4. PlaceInv'
  BY <1>1, <1>2 DEF PlaceInv, Finds, Filling, Later, Agree
<1> QED
  BY <1>1, <1>2, <1>3, <1>4 DEF ServerInv, Headers, OldInv, Upto, Agree

LEMMA LookStep ==
  ASSUME ReaderInv, TypeOK', ReadHighest \/ ReadNext \/ EndRead
  PROVE  ReaderInv'
<1>1. UNCHANGED Server /\ ~Reading'
  BY DEF ReadHighest, ReadNext, EndRead, Reading
<1>2. HeaderInv /\ OldInv
  BY DEF ReaderInv, ServerInv
<1>3. Upto(r_highest)'
  <2>1. r_highest' = r_highest \/ r_highest' = highest_in_file
    BY DEF ReadHighest, ReadNext, EndRead
  <2> QED
    BY <1>1, <1>2, <2>1, ServerKept DEF HeaderInv, OldInv, Upto
<1>4. OldInv'
  BY <1>1, <1>3, ServerKept DEF OldInv
<1>5. KeptInv' /\ ReadInv'
  BY <1>1 DEF KeptInv, ReadInv, Reading
<1> QED
  BY <1>1, <1>4, <1>5, ServerKept DEF ReaderInv

LEMMA StartStep ==
  ASSUME ReaderInv, TypeOK', NEW at \in Time, StartRead(at)
  PROVE  ReaderInv'
<1>1. /\ UNCHANGED Server /\ UNCHANGED <<r_highest, r_next>> /\ rpc' = "flag" /\ r_at' = at
      /\ InWindow(r_highest, at)
      /\ overtaken' = (Overtakes(highest_time, at) \/ Overtakes(todo.at, at))
  BY ReadAt DEF StartRead
<1>2. OldInv
  BY DEF ReaderInv
<1>3. OldInv'
  BY <1>1, <1>2, ServerKept DEF OldInv, Upto
<1>4. KeptInv'
  BY <1>1, ServerKept DEF KeptInv
<1>5. ReadInv'
  BY <1>1 DEF ReadInv
<1> QED
  BY <1>1, <1>3, <1>4, <1>5, ServerKept DEF ReaderInv

LEMMA ReadStepInv ==
  ASSUME ReaderInv, TypeOK', ReadFlag \/ ReadHead \/ ReadTail
  PROVE  ReaderInv'
<1> DEFINE p == PosAt(r_next, r_highest - r_at)
<1>1. TypeOK /\ PlaceInv /\ OldInv /\ KeptInv /\ ReadInv
  BY DEF ReaderInv, ServerInv
<1>2. /\ UNCHANGED Server /\ UNCHANGED <<r_highest, r_next, r_at, overtaken>>
      /\ Reading
  BY DEF ReadFlag, ReadHead, ReadTail, Reading
<1>3. OldInv' /\ KeptInv'
  BY <1>1, <1>2, ServerKept DEF OldInv, Upto, KeptInv, Reading
<1>4. Sound' => Sound
  BY <1>2, ServerKept DEF Sound
<1>5. R!SlotOf(r_at) = slot[p]
  BY ReadAt
<1>6. ASSUME Sound, slot[p].flag = "ready"
      PROVE  slot[p].val = Whole(r_at)
  <2>1. InWindow(highest_time, r_at) /\ r_at \in Time /\ p = PosAt(next_free_pos, highest_time - r_at)
    BY <1>1, <1>2, <1>6, ReadPosition
  <2> QED
    BY <1>1, <1>6, <2>1 DEF PlaceInv, Finds
<1>7. ReadInv'
  <2> HIDE DEF p
  <2> SUFFICES ASSUME Sound, rpc' \in {"head", "tail", "read"}
               PROVE  /\ slot[p].flag = "ready"
                      /\ rpc' \in {"tail", "read"} => r_val'.head = r_at
                      /\ rpc' = "read" => r_val'.tail = r_at
    BY <1>2, <1>4, ServerKept DEF ReadInv, p
  <2>1. CASE ReadFlag
    BY <1>5, <2>1 DEF ReadFlag
  <2>2. CASE ReadHead
    <3>1. /\ slot[p].flag = "ready" /\ rpc' = "tail"
          /\ r_val' = [head |-> slot[p].val.head, tail |-> NoValue]
      BY <1>1, <1>5, <2>2 DEF ReadHead, ReadInv, p
    <3> QED
      BY <1>6, <3>1 DEF Whole
  <2>3. CASE ReadTail
    <3>1. /\ slot[p].flag = "ready" /\ r_val.head = r_at
          /\ r_val' = [r_val EXCEPT !.tail = slot[p].val.tail]
      BY <1>1, <1>5, <2>3 DEF ReadTail, ReadInv, p
    <3> QED
      BY <1>1, <1>6, <3>1 DEF Whole, TypeOK, Value
  <2> QED
    BY <2>1, <2>2, <2>3
<1> QED
  BY <1>2, <1>3, <1>7, ServerKept DEF ReaderInv

-----------------------------------------------------------------------------
(* The server does not stop while the header is written. *)
HeaderWhole == Crashes \cap {"highest", "next"} = {}

LEMMA SharingInit == Init => ReaderInv
<1> USE Constants
<1> SUFFICES ASSUME Init
             PROVE  ReaderInv
  OBVIOUS
<1>1. TypeOK
  <2>1. 0 \in Position /\ NoTime \in Instants
    BY DEF Instants
  <2>2. slot \in [Position -> State]
    BY States DEF Init
  <2>3. /\ todo.pc = "idle"
        /\ todo \in [pc : {"idle", "head", "tail", "ready", "highest", "next"},
                     at : Instants, pos : Position, next : Position]
    BY <2>1 DEF Init, Idle
  <2> QED
    BY <2>1, <2>2, <2>3 DEF Init, TypeOK
<1>2. HeaderInv /\ ContentInv /\ OldInv /\ KeptInv
  BY DEF Init, HeaderInv, ContentInv, OldInv, KeptInv, Filling, Idle, Upto, Reading
<1>3. PlaceInv /\ ReadInv
  BY DEF Init, PlaceInv, Finds, InWindow, Filling, Idle, ReadInv
<1> QED
  BY <1>1, <1>2, <1>3 DEF ReaderInv, ServerInv

LEMMA SharingStep ==
  ASSUME HeaderWhole, ReaderInv, [Next]_vars
  PROVE  ReaderInv'
<1>1. CASE Next
  <2>1. TypeOK /\ KeptInv
    BY DEF ReaderInv, ServerInv
  <2>2. TypeOK'
    BY <1>1, <2>1, TypeStep
  <2>3. ASSUME NEW at \in Time, BeginFirst(at) \/ BeginFuture(at)
        PROVE  ReaderInv'
    BY <2>1, <2>2, <2>3, FirstMoves, FutureMoves, LaterStep
  <2>4. ASSUME NEW at \in Time, BeginPast(at)
        PROVE  ReaderInv'
    BY <2>2, <2>4, PastStep
  <2>5. ASSUME NEW at \in Time, StartRead(at)
        PROVE  ReaderInv'
    BY <2>2, <2>5, StartStep
  <2>6. CASE WriteStep
    BY <2>2, <2>6, FillStep, PastReady, LaterReady, HeaderStep DEF WriteStep
  <2>7. CASE Restart
    <3>1. Filling
      BY <2>7, SharingAssumption DEF Restart, HeaderWhole, Filling
    <3> QED
      BY <2>2, <2>7, <3>1, HeaderStep
  <2>8. CASE ReadStep
    BY <2>2, <2>8, LookStep, ReadStepInv DEF ReadStep
  <2> QED
    BY <1>1, <2>3, <2>4, <2>5, <2>6, <2>7, <2>8 DEF Next
<1>2. CASE UNCHANGED vars
  <2>1. /\ UNCHANGED Server /\ UNCHANGED reader /\ UNCHANGED overtaken
    BY <1>2 DEF vars, Server
  <2>2. TypeOK'
    BY <1>2 DEF vars, file, memory, reader, TypeOK, ReaderInv, ServerInv
  <2>3. OldInv' /\ KeptInv' /\ ReadInv'
    BY <2>1, <2>2, ServerKept DEF reader, ReaderInv, OldInv, Upto, KeptInv, Reading, ReadInv, Sound
  <2> QED
    BY <2>1, <2>2, <2>3, ServerKept DEF ReaderInv
<1> QED
  BY <1>1, <1>2

LEMMA SharingInvariant == ASSUME HeaderWhole PROVE Spec => []ReaderInv
<1>1. ReaderInv /\ [Next]_vars => ReaderInv'
  BY SharingStep
<1> QED
  BY <1>1, SharingInit, PTL DEF Spec

(* Between two writes, what the server says is ready at an instant is the  *)
(* value of this instant, wherever in the content of a slot, or before its *)
(* flag, it has stopped before.                                            *)
THEOREM ServerReads == ASSUME HeaderWhole PROVE Spec => []ServerReadsTheInstant
<1>1. ReaderInv => ServerReadsTheInstant
  BY ReadAt DEF ReaderInv, ServerInv, PlaceInv, Finds, ServerReadsTheInstant
<1> QED
  BY <1>1, SharingInvariant, PTL

(* A program that reads the file with a whole header, and whose slot the   *)
(* server does not begin to reuse, reads the value of the instant it asks  *)
(* for, wherever the server is and has stopped.                            *)
THEOREM ReaderReads == ASSUME HeaderWhole PROVE Spec => []ReadsTheInstant
<1>1. ReaderInv => ReadsTheInstant
  <2> SUFFICES ASSUME ReaderInv, rpc = "read", <<r_highest, r_next>> \in headers, ~overtaken
               PROVE  r_val = Whole(r_at)
    BY DEF ReadsTheInstant
  <2>1. Sound
    BY DEF Sound, Headers
  <2>2. r_val.head = r_at /\ r_val.tail = r_at
    BY <2>1 DEF ReaderInv, ReadInv
  <2> QED
    BY <2>2 DEF ReaderInv, ServerInv, TypeOK, Value, Whole
<1> QED
  BY <1>1, SharingInvariant, PTL
=============================================================================
