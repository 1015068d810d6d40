------------------------------ MODULE UipReass ------------------------------
(***************************************************************************)
(* The reassembly of IP fragments (uip_reass of src/plc-sw/uip/uip.c): one *)
(* buffer, a bitmap of the blocks of eight octets that have arrived, a     *)
(* flag for the last fragment, and a timer.                                *)
(*                                                                         *)
(* Lengths and offsets are counted in blocks; a byte of the bitmap stands  *)
(* for PerByte blocks.  The bitmap is the set of blocks whose bits are     *)
(* set, and the buffer says of each block which datagram its octets are    *)
(* of.  What the header holds, its checksum, and the octets of a fragment  *)
(* beyond its last whole block are left out.                               *)
(*                                                                         *)
(* The bitmap has room for whole bytes only, fifteen for the 1010 octets   *)
(* of the buffer (uip.c:553), the copy starts behind the header (603), and *)
(* a length that is less than the header's wraps (590): a fragment that    *)
(* passes the test of 595 may still be written beyond the arrays.  From    *)
(* then on, and for as long as the program runs, anything may be handed    *)
(* out.  What else such a write does to the memory is not in the model.    *)
(*                                                                         *)
(* Bounds: Frags, the fragments that arrive.                               *)
(***************************************************************************)
EXTENDS Integers

CONSTANTS
  Ids,         \* datagrams: source, destination and ipid
  Nobody,      \* what the buffer holds at first
  BUFSIZE,     \* blocks of the buffer, header included
  HEADER,      \* blocks of the header
  PerByte,     \* 8
  MAXAGE,      \* UIP_REASS_MAXAGE
  Frags        \* the fragments: where, how many blocks, are there more; the
               \* length is that of the datagram less the header's

VARIABLE reass

Blocks == 0..(BUFSIZE - 1)

(* What the proofs assume of the constants.                                *)
ReassSizes ==
  /\ BUFSIZE \in Nat /\ PerByte \in Nat \ {0} /\ HEADER \in Nat /\ MAXAGE \in Nat
  /\ Frags \subseteq [at : Nat, len : Int, more : BOOLEAN]

ASSUME ReassAssumption == ReassSizes

NoPacket == [id |-> Nobody]

(* The bytes of uip_reassbitmap, and the blocks that have a bit in them.   *)
BitmapBytes == BUFSIZE \div PerByte
Inside      == PerByte * BitmapBytes

(* beyond: something was written beyond the arrays.                        *)
EmptyBuffer == [tmr |-> 0, id |-> Nobody, last |-> FALSE, len |-> 0, bitmap |-> {},
                buf |-> [b \in Blocks |-> Nobody], packet |-> NoPacket, beyond |-> FALSE]

ReassInit == reass = EmptyBuffer

(* What comes out then: nothing, or octets of any datagram under the       *)
(* header of any.                                                          *)
AnyPacket ==
  {NoPacket} \cup [id : Ids, len : 1..BUFSIZE, buf : {[b \in Blocks |-> i] : i \in Ids}]
Strays    == {[EmptyBuffer EXCEPT !.packet = p, !.beyond = TRUE] : p \in AnyPacket}

(* With no packet in the buffer a fragment starts one.                     *)
Started_dirty(r, id) == [r EXCEPT !.tmr = MAXAGE, !.id = id, !.last = FALSE]
Started(r, id) == [r EXCEPT !.tmr = MAXAGE, !.id = id, !.last = FALSE, !.bitmap = {}]

Span(f) == {b \in Blocks : f.at <= b /\ b < f.at + f.len}

(* Copied into the buffer, marked in the bitmap, and if it is the last the *)
(* length of the packet is known.                                          *)
Copied(r, f) ==
  [r EXCEPT !.buf = [b \in Blocks |-> IF b \in Span(f) THEN r.id ELSE @[b]],
            !.bitmap = @ \cup Span(f),
            !.last = @ \/ ~f.more,
            !.len = IF f.more THEN @ ELSE f.at + f.len]

(* The test that the fragment fits; the end is a word of 16 bits, here in  *)
(* blocks of eight octets.                                                 *)
Fits(f) == f.at <= BUFSIZE /\ (f.at + f.len) % 8192 <= BUFSIZE

(* What passes it, and is still copied or marked beyond the arrays.        *)
Overruns(f) ==
  \/ f.len < 0
  \/ f.len > 0 /\ HEADER + f.at + f.len > BUFSIZE
  \/ f.at + f.len > Inside

(* The blocks that a byte of the bitmap stands for.                        *)
Byte(i) == {b \in Blocks : b \div PerByte = i}
LastByte(r) == r.len \div PerByte

(* The bytes up to, and not including, the one before the last must be     *)
(* full; for a packet within the first byte LastByte - 1 wraps, and bytes  *)
(* beyond the bitmap are looked at, all that a u16 reaches, which are not  *)
(* all full.  The last byte must hold the rest; past says whether what     *)
(* lies beyond the bitmap does, when the last byte is that.                *)
FullByte(r, i)  == Byte(i) \subseteq r.bitmap
LastHolds(r, past) ==
  IF LastByte(r) < BitmapBytes
  THEN Byte(LastByte(r)) \cap r.bitmap = {b \in Byte(LastByte(r)) : b < r.len}
  ELSE past
Complete(r, past) ==
  /\ r.last
  /\ LastByte(r) > 0
  /\ \A i \in 0..(LastByte(r) - 2) : FullByte(r, i)
  /\ LastHolds(r, past)

Delivered(r) ==
  [r EXCEPT !.tmr = 0, !.packet = [id |-> r.id, len |-> r.len, buf |-> r.buf]]

(* A fragment for another packet is dropped, one that does not fit drops   *)
(* the packet in the buffer.                                               *)
uip_reass(reas, id, f, past) ==
  LET r == [IF reas.tmr = 0 THEN Started(reas, id) ELSE reas EXCEPT !.packet = NoPacket]
  IN  IF id # r.id THEN r
      ELSE IF ~Fits(f) THEN [r EXCEPT !.tmr = 0]
      ELSE IF Overruns(f) THEN [r EXCEPT !.beyond = TRUE]
      ELSE IF Complete(Copied(r, f), past) THEN Delivered(Copied(r, f))
      ELSE Copied(r, f)

(* uip_process comes here with fragments only, not with a whole datagram.  *)
IsFragment(f) == f.at # 0 \/ f.more

Arrives(id, f) ==
  /\ ~reass.beyond
  /\ IsFragment(f)
  /\ \E past \in BOOLEAN :
       LET r == uip_reass(reass, id, f, past)
       IN  IF r.beyond THEN reass' \in Strays ELSE reass' = r

Stray == reass.beyond /\ reass' \in Strays

(* uip_periodic of any connection.                                         *)
Age == ~reass.beyond /\ reass.tmr > 0 /\ reass' = [reass EXCEPT !.tmr = @ - 1, !.packet = NoPacket]

ReassNext == Age \/ Stray \/ \E id \in Ids, f \in Frags : Arrives(id, f)
ReassSpec == ReassInit /\ [][ReassNext]_reass

-----------------------------------------------------------------------------
(* What is handed out of the buffer: the length, in which the header is    *)
(* not counted, is that of the copy, in which it is (uip.c:662), so that   *)
(* as much of the end of the packet stays behind.                          *)
InPacket(b) == b < reass.packet.len - HEADER

(* A packet is handed to the stack when all of it has arrived (uip.c:657   *)
(* "If we have come this far, we have a full packet in the buffer"), as    *)
(* long as nothing was written beyond the arrays.                          *)
PacketIsFull ==
  ~reass.beyond /\ reass.packet # NoPacket =>
    \A b \in Blocks : InPacket(b) => reass.packet.buf[b] = reass.packet.id

(* As long as every fragment that was taken ended within the bitmap and    *)
(* the buffer (of the 1010 octets of the build, the first 960: uip.c:553,  *)
(* 590, 603), a packet holds octets of its own datagram only, apart from   *)
(* the blocks of the byte before the last, which nothing looks at, however *)
(* fragments of several are mixed, repeated, or come after the timer ran   *)
(* out.                                                                    *)
CheckedIsOwn ==
  ~reass.beyond /\ reass.packet # NoPacket =>
    \A b \in Blocks : InPacket(b) /\ b \notin Byte(LastByte(reass.packet) - 1) =>
      reass.packet.buf[b] = reass.packet.id
=============================================================================
