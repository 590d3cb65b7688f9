------------------------------ MODULE RingBuffer ------------------------------
(***************************************************************************)
(* The ring buffers of the drivers (ringbuffer.c): two indices, each with  *)
(* a mirror bit that tells an empty buffer from a full one.  The functions *)
(* lock nothing; their callers do, so each is one step.                    *)
(***************************************************************************)
EXTENDS Caller

CONSTANTS
  RbSize,  \* buffer_size, a multiple of RT_ALIGN_SIZE
  Byte,    \* the bytes a handler puts
  Burst    \* the lengths of a put or a get

ASSUME RingBufferAssumption ==
  /\ RbSize \in Nat \ {0} /\ RbSize < 2^15
  /\ None \notin Byte
  /\ Burst \subseteq Nat \ {0} /\ \A n \in Burst : n < 2^16

VARIABLES
  ring,  \* buffer_ptr, read_index, read_mirror, write_index, write_mirror
  kept   \* history: bytes, those the buffer owes its readers, oldest first: put, not yet got and
         \* not discarded as the oldest by a forced put; emptied, a forced put has met
         \* ForceEmpties since the buffer was last reset

EmptyRing ==
  [buf |-> [i \in 0..(RbSize - 1) |-> None], ri |-> 0, rm |-> 0, wi |-> 0, wm |-> 0]

NothingKept == [bytes |-> <<>>, emptied |-> FALSE]

RbInit == ring = EmptyRing /\ kept = NothingKept

\* rt_ringbuffer_data_len, with rt_ringbuffer_status
DataLen(r) ==
  IF r.wi = r.ri THEN IF r.rm = r.wm THEN 0 ELSE RbSize
  ELSE IF r.wi > r.ri THEN r.wi - r.ri ELSE RbSize - (r.ri - r.wi)

SpaceLen(r) == RbSize - DataLen(r)

\* memcpy of the bytes s to the write index on, around the end
Copied(r, s) ==
  [i \in 0..(RbSize - 1) |->
     LET j == (i - r.wi) % RbSize IN IF j < Len(s) THEN s[j + 1] ELSE r.buf[i]]

\* An index n places on, and its mirror bit: flipped when the index reaches the end
Moved(i, n) == IF RbSize - i > n THEN i + n ELSE n - (RbSize - i)
Flipped(i, m, n) == IF RbSize - i > n THEN m ELSE 1 - m

Written(r, s) ==
  [r EXCEPT !.buf = Copied(r, s), !.wi = Moved(@, Len(s)), !.wm = Flipped(r.wi, @, Len(s))]

\* rt_ringbuffer_put, rt_ringbuffer_putchar: what does not fit is dropped
RbPut(r, s) == Written(r, SubSeq(s, 1, Min({Len(s), SpaceLen(r)})))

(***************************************************************************)
(* rt_ringbuffer_put_force: the last bytes of s in any case.  When they    *)
(* did not fit the read index follows the write index; if the write went   *)
(* around the end the read mirror is flipped, whatever it was.             *)
(***************************************************************************)
Newest(s) == SubSeq(s, Max({1, Len(s) - RbSize + 1}), Len(s))

RbPutForce(r, s) ==
  LET last == Newest(s)
      w == Written(r, last)
  IN  IF Len(last) <= SpaceLen(r) THEN w
      ELSE [w EXCEPT !.ri = w.wi, !.rm = Flipped(r.wi, @, Len(last))]

\* rt_ringbuffer_putchar_force
RbPutcharForce(r, c) ==
  LET w == Written(r, <<c>>)
  IN  IF SpaceLen(r) > 0 THEN w
      ELSE [w EXCEPT !.ri = w.wi, !.rm = Flipped(r.wi, @, 1)]

BadRbGet(r, n) ==
  [r EXCEPT !.ri = Moved(@, n), !.rm = IF RbSize - r.ri >= n THEN @ ELSE 1 - @]

\* rt_ringbuffer_get of n bytes there are, rt_ringbuffer_getchar
RbGet(r, n) == [r EXCEPT !.ri = Moved(@, n), !.rm = Flipped(r.ri, @, n)]

\* A forced put that overflows before the write index has gone round flips both mirrors,
\* and the full buffer reads as empty
ForceEmpties(r, s) == Len(Newest(s)) > SpaceLen(r) /\ r.rm = r.wm

\* What the buffer owes after a put, a forced put ("When the buffer is full, it will
\* discard the old data") and a get
KeptPut(q, s) == [q EXCEPT !.bytes = @ \o SubSeq(s, 1, Min({Len(s), RbSize - Len(@)}))]
KeptForced(q, s) ==
  [bytes |-> Newest(q.bytes \o s), emptied |-> q.emptied \/ ForceEmpties(ring, s)]
KeptGot(q, n) == [q EXCEPT !.bytes = SubSeq(@, n + 1, Len(@))]

-----------------------------------------------------------------------------
\* The use of a buffer by the handlers and the threads of a driver, which disable
\* interrupts around it
RbDoPut(s) ==
  /\ "rb_put" \in use.handler
  /\ ring' = RbPut(ring, s)
  /\ kept' = KeptPut(kept, s)
  /\ UNCHANGED caller

RbDoForce(s) ==
  /\ "rb_force" \in use.handler
  /\ ring' = RbPutForce(ring, s)
  /\ kept' = KeptForced(kept, s)
  /\ UNCHANGED caller

RbDoCharForce(c) ==
  /\ "rb_char_force" \in use.handler
  /\ ring' = RbPutcharForce(ring, c)
  /\ kept' = [kept EXCEPT !.bytes = Newest(Append(@, c))]
  /\ UNCHANGED caller

RbDoGet(n) ==
  /\ "rb_put" \in use.handler
  /\ DataLen(ring) > 0
  /\ ring' = RbGet(ring, Min({n, DataLen(ring)}))
  /\ kept' = KeptGot(kept, n)
  /\ UNCHANGED caller

\* rt_ringbuffer_reset
RbReset ==
  /\ "rb_put" \in use.handler
  /\ ring' = [ring EXCEPT !.ri = 0, !.rm = 0, !.wi = 0, !.wm = 0]
  /\ kept' = NothingKept
  /\ UNCHANGED caller

RbNext ==
  \/ \E n \in Burst : RbDoGet(n) \/ \E s \in [1..n -> Byte] : RbDoPut(s) \/ RbDoForce(s)
  \/ \E c \in Byte : RbDoCharForce(c)
  \/ RbReset

RbType ==
  /\ ring \in [buf : [0..(RbSize - 1) -> Byte \cup {None}], ri : 0..(RbSize - 1), rm : {0, 1},
               wi : 0..(RbSize - 1), wm : {0, 1}]
  /\ kept \in [bytes : Seq(Byte), emptied : BOOLEAN]

\* The bytes from the read index on
RbContents == [i \in 1..DataLen(ring) |-> ring.buf[(ring.ri + i - 1) % RbSize]]

\* rt_ringbuffer_get returns the bytes put and forced in, in order and the oldest discarded
\* first, through every wrap of the indices and flip of the mirrors, a full and an empty
\* buffer told apart.  Excluded, from then until the next reset, is a buffer that
\* rt_ringbuffer_put_force has emptied against its comment by flipping both mirrors
\* (ForceEmpties): there the code keeps none of the bytes it owes
RbKeepsBytes == ~kept.emptied => RbContents = kept.bytes
=============================================================================
