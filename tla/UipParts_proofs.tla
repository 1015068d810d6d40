-------------------------- MODULE UipParts_proofs ---------------------------
(***************************************************************************)
(* Proofs about five parts of the stack that keep a state of their own:    *)
(* the estimator of round trips, the reassembly of fragments, the          *)
(* forwarding of packets, the ports of UDP, and the checksums.  They hold  *)
(* for every value of the constants that the parts assume.                 *)
(*                                                                         *)
(* The first four properties are not inductive.  Each section gives the    *)
(* invariant that makes its property true, and the lemmas about the        *)
(* operators of the part that carry the invariant through a step.  The     *)
(* last is a matter of arithmetic, and each step makes it true anew.       *)
(***************************************************************************)
EXTENDS UipRtt, UipReass, UipFw, UipIp, UipChksum, FoldLemmas

(***************************************************************************)
(* The round-trip time estimator (UipRtt).                                 *)
(***************************************************************************)

(* That no octet overflows depends on what the octets hold: the average    *)
(* stays below 256 and the deviation between 3 and 127.                    *)
RttInv ==
  /\ rtt \in [sa : 0..255, sv : 3..127, rto : 3..255, took : 0..31, exact : BOOLEAN]
  /\ RttCovered

(***************************************************************************)
(* The widths of the variables.                                            *)
(***************************************************************************)

(* An octet keeps what fits, signed or not.                                *)
LEMMA UnsignedKeeps == ASSUME NEW n \in 0..255 PROVE u8(n) = n
BY DEF u8

LEMMA SignedKeeps == ASSUME NEW n \in -128..127 PROVE char(n) = n
<1>1. n + 128 \in 0..255 OBVIOUS
<1>2. (n + 128) % 256 = n + 128 BY <1>1
<1> QED BY <1>2 DEF char

(* The eighth of an octet.                                                 *)
Octet == 0..255
LEMMA Eighth ==
  ASSUME NEW a \in Octet, NEW q, q = a \div 8
  PROVE  q \in 0..31 /\ 8 * q <= a /\ a < 8 * q + 8
<1>1. a \in 0..255 BY DEF Octet
<1>2. q \in Int /\ 8 * q <= a /\ a < 8 * q + 8 BY <1>1
<1> QED BY <1>1, <1>2

(* The deviation after one of d periods.                                   *)
LEMMA RttSpread ==
  ASSUME NEW sv \in 3..127, NEW d \in 0..31
  PROVE  LET f == d - (sv \div 4)
         IN  f \in -128..127 /\ sv + f \in 3..127 /\ sv + f >= d + 3
<1> DEFINE q == sv \div 4
<1>1. q \in Int /\ 4 * q <= sv /\ sv < 4 * q + 4 OBVIOUS
<1> HIDE DEF q
<1>2. q \in 0..31 /\ sv - q >= 3 /\ sv - q <= 96 BY <1>1
<1>3. d - q \in -128..127 /\ sv + (d - q) \in 3..127 /\ sv + (d - q) >= d + 3 BY <1>2
<1> QED BY <1>3 DEF q

(* A timeout p + v after a trip of m periods that is not shorter than the  *)
(* average q before it.                                                    *)
LEMMA RttTimeout ==
  ASSUME NEW p \in 0..31, NEW v \in 3..127, NEW q \in 0..31, NEW m \in 0..31,
         p >= q, v >= (m - q) + 3
  PROVE  p + v \in 3..255 /\ p + v >= m
OBVIOUS

(***************************************************************************)
(* The invariant.                                                          *)
(***************************************************************************)

LEMMA RttInitInv == RttInit => RttInv
BY RttAssumption DEF RttInit, RttInv, RttCovered

LEMMA RttNextInv == RttInv /\ [RttNext]_rtt => RttInv'
<1> SUFFICES ASSUME RttInv, [RttNext]_rtt PROVE RttInv' OBVIOUS
<1>1. CASE UNCHANGED rtt BY <1>1 DEF RttInv, RttCovered
<1>2. CASE RttNext
  <2>1. PICK m \in Trips : m <= rtt.rto /\ Acknowledged(m) BY <1>2 DEF RttNext
  <2>2. m \in 0..31 BY RttAssumption
  <2>3. rtt.sa \in 0..255 /\ rtt.sv \in 3..127 BY DEF RttInv
  <2> DEFINE q == rtt.sa \div 8
             e == m - q
             d == IF e < 0 THEN -e ELSE e
             f == d - (rtt.sv \div 4)
             sa == rtt.sa + e
             sv == rtt.sv + f
             p == sa \div 8
             rto == p + sv
  <2>4. /\ q \in 0..31 /\ sa \in 0..255 /\ p \in 0..31
        /\ IF q <= m THEN p >= q ELSE p >= m
    <3>q. q = rtt.sa \div 8 OBVIOUS
    <3>s. sa = rtt.sa + (m - q) OBVIOUS
    <3>p. p = sa \div 8 OBVIOUS
    <3> HIDE DEF q, e, sa, p
    <3>2. q \in 0..31 /\ 8 * q <= rtt.sa /\ rtt.sa < 8 * q + 8
      <4>1. rtt.sa \in Octet BY <2>3 DEF Octet
      <4> QED BY <3>q, <4>1, Eighth
    <3>4. sa \in 0..255
      <4>1. m - q \in -31..31 /\ rtt.sa \in Int /\ q \in Int BY <2>2, <2>3, <3>2
      <4>2. sa \in Int /\ sa >= 7 * q /\ sa <= 7 * q + 38 BY <2>2, <3>s, <3>2, <4>1
      <4> QED BY <3>2, <4>2
    <3>5. p \in 0..31 /\ 8 * p <= sa /\ sa < 8 * p + 8
      <4>1. sa \in Octet BY <3>4 DEF Octet
      <4> QED BY <3>p, <4>1, Eighth
    <3>7. q <= m => p >= q BY <2>2, <2>3, <3>s, <3>2, <3>5
    <3>8. m < q => p >= m BY <2>2, <2>3, <3>s, <3>2, <3>5
    <3> QED BY <2>2, <3>2, <3>4, <3>5, <3>7, <3>8
  <2>a. rto = p + sv /\ p = sa \div 8 OBVIOUS
  <2> HIDE DEF q, p, rto
  <2>5. e \in -31..31 /\ d \in 0..31 /\ e = m - q BY <2>2, <2>4
  <2>d. e < 0 => d = -e OBVIOUS
  <2>e. ~(e < 0) => d = e OBVIOUS
  <2> HIDE DEF e, d
  <2>6. f \in -128..127 /\ sv \in 3..127 /\ sv >= d + 3 BY <2>3, <2>5, RttSpread
  <2> HIDE DEF f, sa, sv
  <2>7. rto \in 3..255 /\ rto >= m
    <3>1. CASE q <= m
      <4>1. sv >= (m - q) + 3 BY <3>1, <2>2, <2>4, <2>5, <2>6, <2>e
      <4>2. p >= q BY <3>1, <2>4
      <4> QED BY <4>1, <4>2, <2>2, <2>4, <2>6, <2>a, RttTimeout
    <3>2. CASE ~(q <= m) BY <3>2, <2>2, <2>4, <2>6, <2>a
    <3> QED BY <3>1, <3>2
  <2>8. char(m) = m /\ char(e) = e
    <3>1. m \in -128..127 /\ e \in -128..127 BY <2>2, <2>5
    <3> QED BY <3>1, SignedKeeps
  <2>9. Deviation(e) = d
    <3>1. -e \in -128..127 BY <2>5
    <3>2. char(-e) = -e BY <3>1, SignedKeeps
    <3> QED BY <3>2, <2>d, <2>e DEF Deviation
  <2>10. char(f) = f BY <2>6, SignedKeeps
  <2>11. u8(sa) = sa /\ u8(sv) = sv /\ u8(rto) = rto
    <3>1. sa \in 0..255 /\ sv \in 0..255 /\ rto \in 0..255 BY <2>4, <2>6, <2>7
    <3> QED BY <3>1, UnsignedKeeps
  <2>12. m < 128 /\ {sa, sv, rto} \subseteq 0..255 BY <2>2, <2>4, <2>6, <2>7
  <2>13. rtt' = [sa |-> sa, sv |-> sv, rto |-> rto, took |-> m, exact |-> TRUE]
    <3>1. rtt' = [sa |-> u8(sa), sv |-> u8(sv), rto |-> u8((u8(sa) \div 8) + u8(sv)), took |-> m,
                  exact |-> m < 128 /\ {sa, sv, (u8(sa) \div 8) + u8(sv)} \subseteq 0..255]
      <4>1. char(char(m) - (rtt.sa \div 8)) = e BY <2>8 DEF e, q
      <4>2. char(Deviation(e) - (rtt.sv \div 4)) = f BY <2>9, <2>10 DEF f
      <4> QED BY <2>1, <4>1, <4>2 DEF Acknowledged, sa, sv
    <3> QED BY <3>1, <2>11, <2>12, <2>a
  <2> QED BY <2>2, <2>4, <2>6, <2>7, <2>13 DEF RttInv, RttCovered
<1> QED BY <1>1, <1>2

(* No octet of the estimator overflows, and the timeout covers the last    *)
(* round trip (uip.c, the estimator of uip_process), for any timeout at    *)
(* the start and any round trips below 32 periods.                         *)
THEOREM TripsCovered == RttSpec => []RttCovered
<1>1. RttInv => RttCovered BY DEF RttInv
<1> QED BY RttInitInv, RttNextInv, <1>1, PTL DEF RttSpec

(***************************************************************************)
(* The reassembly of fragments (UipReass).                                 *)
(***************************************************************************)

(* The buffer, and what uip_reass hands out.                               *)
BufNames  == Ids \cup {Nobody}
Bufs      == [Blocks -> BufNames]
HandedOut == {NoPacket} \cup [id : BufNames, len : Nat, buf : Bufs]
Buffers ==
  [tmr : Nat, id : BufNames, last : BOOLEAN, len : Nat, bitmap : SUBSET Blocks,
   buf : Bufs, packet : HandedOut, beyond : BOOLEAN]

(* A marked block holds octets of the packet.                              *)
Marked(r) == \A b \in r.bitmap : r.buf[b] = r.id

(* A packet that is handed out is its own in the blocks that were looked at.*)
OwnBlocks(p) ==
  \A b \in Blocks : b < p.len - HEADER /\ b \notin Byte(LastByte(p) - 1) => p.buf[b] = p.id

(* As long as nothing was written beyond the arrays the end of the packet  *)
(* is within the bitmap, and while the timer runs every block marked holds *)
(* octets of the packet that is being put together.                        *)
ReassInv ==
  reass.beyond \/
  /\ reass \in Buffers
  /\ reass.len <= Inside
  /\ reass.tmr > 0 => Marked(reass)
  /\ reass.packet # NoPacket => OwnBlocks(reass.packet)

(***************************************************************************)
(* The arithmetic of the bitmap.                                           *)
(***************************************************************************)

(* The byte of the bitmap grows with the block.                            *)
LEMMA DivMonotonic ==
  ASSUME NEW d \in Nat \ {0}, NEW a \in Nat, NEW b \in Nat, a <= b
  PROVE  a \div d \in Nat /\ a \div d <= b \div d
OBVIOUS

(* A block before the end of a packet is in one of the bytes that Complete *)
(* looks at, or in the byte before the last.                               *)
LEMMA LookedAt ==
  ASSUME ReassSizes, NEW b \in Blocks, NEW len \in Nat, b < len
  PROVE  LET i == b \div PerByte
             l == len \div PerByte
         IN  b \in Byte(i) /\ i \in Nat /\ l \in Nat /\ i <= l
<1>1. b \in Nat /\ b <= len /\ PerByte \in Nat \ {0} BY DEF Blocks, ReassSizes
<1>2. b \in Byte(b \div PerByte) BY DEF Byte
<1> QED BY <1>1, <1>2, DivMonotonic

(* A block before the end of the bitmap is in one of its bytes.            *)
LEMMA WithinBitmap ==
  ASSUME ReassSizes, NEW b \in Blocks, b < Inside
  PROVE  b \div PerByte < BitmapBytes
<1> DEFINE d == PerByte
           n == BitmapBytes
<1>1. d \in Nat \ {0} /\ n \in Nat /\ b \in Nat /\ b < d * n
  BY DEF Blocks, ReassSizes, Inside, BitmapBytes
<1> HIDE DEF d, n
<1>2. b \div d < n BY <1>1
<1> QED BY <1>2 DEF d, n

(* A complete packet, in a buffer whose marked blocks are its own.         *)
LEMMA CompleteOwn ==
  ASSUME ReassSizes, NEW r \in Buffers, r.len <= Inside, Marked(r),
         NEW past \in BOOLEAN, Complete(r, past)
  PROVE  OwnBlocks([id |-> r.id, len |-> r.len, buf |-> r.buf])
<1> DEFINE p == [id |-> r.id, len |-> r.len, buf |-> r.buf]
           l == r.len \div PerByte
<1>1. r.len \in Nat /\ HEADER \in Nat BY DEF Buffers, ReassSizes
<1> SUFFICES ASSUME NEW b \in Blocks, b < r.len, b \notin Byte(l - 1)
             PROVE  b \in r.bitmap
  <2>1. \A b \in Blocks : b < r.len - HEADER => b < r.len BY <1>1 DEF Blocks
  <2> QED BY <2>1 DEF OwnBlocks, Marked, LastByte
<1> DEFINE i == b \div PerByte
<1>2. b \in Byte(i) /\ i \in Nat /\ l \in Nat /\ i <= l BY <1>1, LookedAt
<1>a. i < BitmapBytes
  <2>1. b < Inside BY <1>1 DEF Blocks, Inside, BitmapBytes, ReassSizes
  <2> QED BY <2>1, WithinBitmap
<1> HIDE DEF i
<1>3. CASE i = l
  <2>1. LastByte(r) < BitmapBytes BY <1>3, <1>a DEF LastByte
  <2>2. Byte(l) \cap r.bitmap = {c \in Byte(l) : c < r.len}
    BY <2>1 DEF Complete, LastHolds, LastByte
  <2> QED BY <1>2, <1>3, <2>2
<1>4. CASE i # l
  <2>1. i # l - 1 BY <1>2
  <2>2. i \in 0..(l - 2) BY <1>2, <1>4, <2>1
  <2> QED BY <1>2, <2>2 DEF Complete, FullByte, LastByte
<1> QED BY <1>3, <1>4

(***************************************************************************)
(* What a fragment does to the buffer.                                     *)
(***************************************************************************)

(* A fragment of a new packet clears the bitmap.                           *)
LEMMA StartedSound ==
  ASSUME ReassSizes, NEW r \in Buffers, NEW id \in Ids
  PROVE  /\ Started(r, id) \in Buffers /\ Marked(Started(r, id))
         /\ Started(r, id).len = r.len
BY DEF Buffers, BufNames, Bufs, Marked, Started, ReassSizes

(* A fragment of the packet in the buffer is copied where it is marked.    *)
LEMMA CopiedSound ==
  ASSUME ReassSizes, NEW r \in Buffers, r.len <= Inside, Marked(r), r.id \in Ids,
         NEW f \in Frags, ~Overruns(f)
  PROVE  /\ Copied(r, f) \in Buffers /\ Copied(r, f).len <= Inside /\ Marked(Copied(r, f))
         /\ Copied(r, f).packet = r.packet
<1> DEFINE e == Copied(r, f)
           buf == [b \in Blocks |-> IF b \in Span(f) THEN r.id ELSE r.buf[b]]
           last == r.last \/ ~f.more
           len == IF f.more THEN r.len ELSE f.at + f.len
<1>1. last \in BOOLEAN /\ len \in Nat /\ len <= Inside
  <2>1. f.at \in Nat /\ f.len \in Int /\ f.more \in BOOLEAN BY DEF ReassSizes
  <2>2. f.len >= 0 /\ f.at + f.len <= Inside /\ Inside \in Int
    <3>1. Inside \in Int BY DEF Inside, BitmapBytes, ReassSizes
    <3> QED BY <2>1, <3>1 DEF Overruns
  <2> QED BY <2>1, <2>2 DEF Buffers
<1>2. buf \in Bufs BY DEF Buffers, BufNames, Bufs
<1>3. Span(f) \subseteq Blocks BY DEF Span
<1>4. e = [r EXCEPT !.buf = buf, !.bitmap = r.bitmap \cup Span(f), !.last = last, !.len = len]
  BY Zenon DEF Copied, Buffers
<1> HIDE DEF e, buf, last, len
<1>5. e \in Buffers /\ e.packet = r.packet /\ e.len <= Inside BY <1>1, <1>2, <1>3, <1>4 DEF Buffers
<1>6. Marked(e)
  <2>1. \A b \in Blocks : buf[b] = IF b \in Span(f) THEN r.id ELSE r.buf[b] BY DEF buf
  <2> QED BY <1>3, <1>4, <2>1 DEF Marked, Buffers, BufNames, Bufs
<1> QED BY <1>5, <1>6 DEF e

(***************************************************************************)
(* The invariant.                                                          *)
(***************************************************************************)

LEMMA NoPacketHandedOut == NoPacket \in HandedOut
BY DEF HandedOut

LEMMA ReassInitInv == ASSUME ReassSizes PROVE ReassInit => ReassInv
<1> SUFFICES ASSUME ReassInit PROVE ReassInv OBVIOUS
<1> DEFINE buf == [b \in Blocks |-> Nobody]
<1>1. buf \in Bufs BY DEF Bufs, BufNames
<1>2. reass = [tmr |-> 0, id |-> Nobody, last |-> FALSE, len |-> 0, bitmap |-> {},
               buf |-> buf, packet |-> NoPacket, beyond |-> FALSE]
  BY DEF ReassInit, EmptyBuffer
<1> HIDE DEF buf
<1>3. reass \in Buffers BY <1>1, <1>2, NoPacketHandedOut DEF Buffers, BufNames
<1>4. 0 <= Inside BY DEF Inside, BitmapBytes, ReassSizes
<1> QED BY <1>2, <1>3, <1>4 DEF ReassInv

LEMMA ArrivesInv ==
  ASSUME ReassSizes, ReassInv, NEW id \in Ids, NEW f \in Frags, Arrives(id, f)
  PROVE  ReassInv'
<1>0. PICK past \in BOOLEAN :
         IF uip_reass(reass, id, f, past).beyond THEN reass' \in Strays
         ELSE reass' = uip_reass(reass, id, f, past)
  BY DEF Arrives
<1>a. CASE uip_reass(reass, id, f, past).beyond
  <2>1. reass' \in Strays BY <1>0, <1>a
  <2>2. \A r \in Strays : r.beyond BY DEF Strays, EmptyBuffer
  <2> QED BY <2>1, <2>2 DEF ReassInv
<1>b. SUFFICES ASSUME ~uip_reass(reass, id, f, past).beyond PROVE ReassInv' BY <1>a
<1>c. reass' = uip_reass(reass, id, f, past) BY <1>0, <1>b
<1> DEFINE q == IF reass.tmr = 0 THEN Started(reass, id) ELSE reass
           r == [q EXCEPT !.packet = NoPacket]
           e == Copied(r, f)
<1>1. q \in Buffers /\ Marked(q) /\ q.len <= Inside
  <2>1. /\ reass \in Buffers /\ (reass.tmr > 0 => Marked(reass)) /\ reass.tmr \in Nat
        /\ reass.len <= Inside
    BY DEF ReassInv, Buffers, Arrives
  <2> QED BY <2>1, StartedSound
<1> HIDE DEF q
<1>2. r \in Buffers /\ Marked(r) /\ r.packet = NoPacket /\ r.len <= Inside
  BY <1>1, NoPacketHandedOut DEF Buffers, Marked
<1> HIDE DEF r
<1>3. CASE id # r.id
  <2>1. reass' = r BY <1>c, <1>3 DEF uip_reass, r, q
  <2> QED BY <1>2, <2>1 DEF ReassInv
<1>4. CASE id = r.id /\ ~Fits(f)
  <2>1. reass' = [r EXCEPT !.tmr = 0] BY <1>c, <1>4 DEF uip_reass, r, q
  <2> QED BY <1>2, <2>1 DEF ReassInv, Buffers, BufNames, Bufs
<1>5. CASE id = r.id /\ Fits(f) /\ Overruns(f)
  <2>1. uip_reass(reass, id, f, past) = [r EXCEPT !.beyond = TRUE] BY <1>5 DEF uip_reass, r, q
  <2> QED BY <1>b, <1>2, <2>1 DEF Buffers
<1>6. CASE id = r.id /\ Fits(f) /\ ~Overruns(f)
  <2>1. reass' = IF Complete(e, past) THEN Delivered(e) ELSE e
    BY <1>c, <1>6 DEF uip_reass, r, q
  <2>2. e \in Buffers /\ Marked(e) /\ e.packet = NoPacket /\ e.len <= Inside
    BY <1>2, <1>6, CopiedSound
  <2> HIDE DEF e
  <2>3. CASE Complete(e, past)
    <3> DEFINE p == [id |-> e.id, len |-> e.len, buf |-> e.buf]
    <3>1. OwnBlocks(p) BY <2>2, <2>3, CompleteOwn
    <3>2. reass' = [e EXCEPT !.tmr = 0, !.packet = p] BY <2>1, <2>3 DEF Delivered
    <3>3. p \in HandedOut BY <2>2 DEF Buffers, HandedOut
    <3> HIDE DEF p
    <3>4. /\ reass' \in Buffers /\ reass'.tmr = 0 /\ reass'.packet = p
          /\ reass'.len = e.len
      BY <2>2, <3>2, <3>3 DEF Buffers
    <3> QED BY <2>2, <3>1, <3>4 DEF ReassInv
  <2>4. CASE ~Complete(e, past) BY <2>1, <2>2, <2>4 DEF ReassInv
  <2> QED BY <2>3, <2>4
<1> QED BY <1>3, <1>4, <1>5, <1>6

LEMMA AgeInv == ASSUME ReassInv, Age PROVE ReassInv'
<1>1. reass' = [reass EXCEPT !.tmr = reass.tmr - 1, !.packet = NoPacket] /\ reass.tmr > 0
      /\ ~reass.beyond
  BY DEF Age
<1>2. reass \in Buffers /\ reass.tmr - 1 \in Nat /\ reass.len <= Inside
  BY <1>1 DEF ReassInv, Buffers
<1> DEFINE t == reass.tmr - 1
<1>3. reass' = [reass EXCEPT !.tmr = t, !.packet = NoPacket] /\ t \in Nat BY <1>1, <1>2
<1> HIDE DEF t
<1>4. reass' \in Buffers /\ reass'.packet = NoPacket /\ reass'.len = reass.len
  BY <1>2, <1>3, NoPacketHandedOut DEF Buffers
<1>5. Marked(reass') BY <1>1 DEF ReassInv, Buffers, Marked
<1> QED BY <1>2, <1>4, <1>5 DEF ReassInv

LEMMA ReassNextInv == ASSUME ReassSizes PROVE ReassInv /\ [ReassNext]_reass => ReassInv'
<1> SUFFICES ASSUME ReassInv, [ReassNext]_reass PROVE ReassInv' OBVIOUS
<1>1. CASE Age BY <1>1, AgeInv
<1>2. ASSUME NEW id \in Ids, NEW f \in Frags, Arrives(id, f) PROVE ReassInv'
  BY <1>2, ArrivesInv
<1>3. CASE Stray
  <2>1. reass' \in Strays BY <1>3 DEF Stray
  <2>2. \A r \in Strays : r.beyond BY DEF Strays, EmptyBuffer
  <2> QED BY <2>1, <2>2 DEF ReassInv
<1>4. CASE UNCHANGED reass BY <1>4 DEF ReassInv
<1> QED BY <1>1, <1>2, <1>3, <1>4 DEF ReassNext

(* In the blocks that uip_reass looks at, the packet it hands out holds    *)
(* octets of its own datagram only (uip.c:639-657), whatever fragments of  *)
(* whatever datagrams arrive in whatever order, and whenever the timer     *)
(* runs out, for any sizes of the buffer, the header and the bytes, up to  *)
(* the first fragment that is written beyond the arrays: one that ends     *)
(* beyond the whole bytes of the bitmap, or of the buffer less the header, *)
(* or of which the length is less than the header's.                       *)
THEOREM OwnPacket == ReassSpec => []CheckedIsOwn
<1> USE ReassAssumption
<1>1. ReassInit => ReassInv BY ReassInitInv
<1>2. ReassInv /\ [ReassNext]_reass => ReassInv' BY ReassNextInv
<1>3. ReassInv => CheckedIsOwn BY DEF ReassInv, CheckedIsOwn, OwnBlocks, InPacket
<1> QED BY <1>1, <1>2, <1>3, PTL DEF ReassSpec

(***************************************************************************)
(* The forwarding of packets (UipFw).                                      *)
(***************************************************************************)

(* There is always an entry to give to a packet.                           *)
LEMMA OldestIs ==
  ASSUME FwSizes, NEW c, \A i \in Entries : c[i].timer \in Nat
  PROVE  Oldest(c) \in Entries
<1> DEFINE unused == {i \in Entries : c[i].timer = 0}
           Elder(i, j) == c[i].timer < c[j].timer \/ (c[i].timer = c[j].timer /\ i >= j)
           N == FWCACHE_SIZE
<1>0. N \in Nat \ {0} /\ Entries = 1..N BY DEF FwSizes, Entries
<1>1. CASE unused # {}
  <2>1. unused \in SUBSET Nat BY <1>0
  <2>2. Min(unused) \in unused
    <3> HIDE DEF unused
    <3> QED BY <2>1, <1>1, MinIs
  <2> QED BY <1>1, <2>2 DEF Oldest
<1>2. CASE unused = {}
  <2> DEFINE Times == {c[i].timer : i \in Entries}
  <2>1. Times \in SUBSET Nat /\ Times # {} BY <1>0
  <2>2. PICK x \in Times : \A y \in Times : x <= y
    <3> HIDE DEF Times
    <3> QED BY <2>1, LeastNumber
  <2> DEFINE Gaps == {N - i : i \in {j \in Entries : c[j].timer = x}}
  <2>3. Gaps \in SUBSET Nat /\ Gaps # {} BY <1>0
  <2>4. PICK g \in Gaps : \A h \in Gaps : g <= h
    <3> HIDE DEF Gaps
    <3> QED BY <2>3, LeastNumber
  <2>5. PICK i \in Entries : c[i].timer = x /\ g = N - i BY <2>4
  <2>6. ASSUME NEW j \in Entries PROVE Elder(i, j)
    <3>1. x <= c[j].timer /\ x \in Nat BY <2>1, <2>2
    <3>2. c[j].timer = x => N - i <= N - j BY <2>4, <2>5
    <3>3. i \in Int /\ j \in Int /\ N \in Int BY <1>0
    <3> QED BY <2>5, <3>1, <3>2, <3>3
  <2>7. Oldest(c) = CHOOSE k \in Entries : \A j \in Entries : Elder(k, j) BY <1>2 DEF Oldest
  <2> HIDE DEF Elder
  <2> QED BY <2>6, <2>7
<1> QED BY <1>1, <1>2

(***************************************************************************)
(* Forwarding.                                                             *)
(***************************************************************************)

(* The record of the forwarder and its cache.                              *)
FwShaped(t) ==
  /\ t = [cache |-> t.cache, in |-> t.in, sent |-> t.sent, last |-> t.last, result |-> t.result]
  /\ t.cache = [i \in Entries |-> [timer |-> t.cache[i].timer, key |-> t.cache[i].key]]
  /\ \A i \in Entries : t.cache[i].timer \in 0..FW_TIME
  /\ t.last = [key |-> t.last.key, age |-> t.last.age]
  /\ t.last.age \in 0..FW_TIME

(* The cache holds what went out last for as long as it is meant to.       *)
FwHolds(t) ==
  t.last.key # NoKey /\ t.last.age < FW_TIME =>
    \E i \in Entries : t.cache[i].timer = FW_TIME - t.last.age /\ t.cache[i].key = t.last.key

(* The invariant of the forwarder.                                         *)
FwInv == FwShaped(fw) /\ FwHolds(fw)

(* No packet has the key of an empty entry.                                *)
LEMMA KeyIs == \A p : Key(p) # NoKey
<1> TAKE p
<1>1. "src" \in DOMAIN Key(p) BY DEF Key
<1>2. "src" \notin DOMAIN NoKey BY DEF NoKey
<1> QED BY <1>1, <1>2

(* What goes out is registered.                                            *)
LEMMA OutputHolds ==
  ASSUME FwSizes, NEW t, FwShaped(t), NEW p
  PROVE  LET u == uip_fw_output(t, p)
         IN  /\ FwShaped(u) /\ FwHolds(u) /\ u.in = t.in
             /\ \A o \in u.sent : o.packet = p
<1> DEFINE k == Oldest(t.cache)
           c == [t.cache EXCEPT ![k] = [timer |-> FW_TIME, key |-> Key(p)]]
           out == {[netif |-> n, packet |-> p] : n \in Outputs(p)}
           l == [key |-> Key(p), age |-> 0]
           u == uip_fw_output(t, p)
<1>1. FW_TIME \in Nat /\ \A i \in Entries : t.cache[i].timer \in 0..FW_TIME
  BY DEF FwSizes, FwShaped
<1>2. k \in Entries
  <2>1. \A i \in Entries : t.cache[i].timer \in Nat BY <1>1
  <2> QED BY <2>1, OldestIs
<1> HIDE DEF k
<1>3. u = [cache |-> c, in |-> t.in, sent |-> out, last |-> l, result |-> t.result]
  <2>1. t = [cache |-> t.cache, in |-> t.in, sent |-> t.sent, last |-> t.last, result |-> t.result]
    BY DEF FwShaped
  <2>2. u = [[t EXCEPT !.cache[k] = [timer |-> FW_TIME, key |-> Key(p)], !.last = l] EXCEPT !.sent = out]
    BY DEF uip_fw_output, fwcache_register, k
  <2> HIDE DEF u, out, l
  <2> QED BY <2>1, <2>2
<1>4. /\ c = [i \in Entries |-> [timer |-> c[i].timer, key |-> c[i].key]]
      /\ \A i \in Entries : c[i].timer \in 0..FW_TIME
      /\ c[k].timer = FW_TIME /\ c[k].key = Key(p)
  BY <1>1, <1>2 DEF FwShaped
<1> HIDE DEF c
<1>5. \A o \in out : o.packet = p OBVIOUS
<1>6. l = [key |-> l.key, age |-> l.age] /\ l.age = 0 /\ l.key = Key(p) OBVIOUS
<1> HIDE DEF out, l, u
<1>7. FwShaped(u) BY <1>1, <1>3, <1>4, <1>6 DEF FwShaped
<1>8. FwHolds(u) BY <1>1, <1>2, <1>3, <1>4, <1>6 DEF FwHolds
<1> QED BY <1>3, <1>5, <1>7, <1>8 DEF u

(* A packet that the forwarder takes, in a state with nothing sent yet.    *)
LEMMA ForwardHolds ==
  ASSUME FwSizes, NEW t, FwShaped(t), FwHolds(t), t.sent = {}, NEW p \in Packets
  PROVE  LET u == uip_fw_forward(t, p)
         IN  /\ FwShaped(u) /\ FwHolds(u) /\ u.in = t.in
             /\ Key(p) = t.last.key /\ t.last.age < FW_TIME => u.sent = {}
             /\ \A o \in u.sent :
                  \/ o.packet.ttl \in 1..(p.ttl - 1)
                  \/ p.proto # "icmp" /\ o.packet.proto = "icmp" /\ o.packet.dest = p.src
<1> DEFINE u == uip_fw_forward(t, p)
           q == [p EXCEPT !.ttl = p.ttl - 1]
           e == time_exceeded(p)
           a == [e EXCEPT !.ttl = e.ttl - 1]
           result == IF Broadcast(p) THEN "LOCAL" ELSE "FORWARDED"
<1>1. /\ p = [id |-> p.id, src |-> p.src, dest |-> p.dest, proto |-> p.proto, ttl |-> p.ttl]
      /\ p.ttl \in Nat
  BY DEF FwSizes
<1>2. ASSUME NEW v, NEW r, FwShaped(v), FwHolds(v)
      PROVE  LET w == [v EXCEPT !.result = r]
             IN  FwShaped(w) /\ FwHolds(w) /\ w.in = v.in /\ w.sent = v.sent
  <2> DEFINE w == [v EXCEPT !.result = r]
  <2>1. v = [cache |-> v.cache, in |-> v.in, sent |-> v.sent, last |-> v.last, result |-> v.result]
    BY <1>2 DEF FwShaped
  <2>2. w = [cache |-> v.cache, in |-> v.in, sent |-> v.sent, last |-> v.last, result |-> r] BY <2>1
  <2> HIDE DEF w
  <2>3. FwShaped(w)  BY <1>2, <2>2 DEF FwShaped
  <2>4. FwHolds(w) BY <1>2, <2>2 DEF FwHolds
  <2> QED BY <2>2, <2>3, <2>4 DEF w
<1>3. CASE p.dest = Host
  <2>1. u = [t EXCEPT !.result = "LOCAL"] BY <1>3 DEF uip_fw_forward
  <2> QED BY <1>2, <2>1
<1>4. CASE p.dest # Host /\ Cached(t, p)
  <2>1. u = [t EXCEPT !.result = "FORWARDED"] BY <1>4 DEF uip_fw_forward
  <2> QED BY <1>2, <2>1
<1>5. CASE p.dest # Host /\ ~Cached(t, p) /\ Broadcast(p) /\ p.ttl <= 1
  <2>1. u = [t EXCEPT !.result = "LOCAL"] BY <1>5 DEF uip_fw_forward
  <2> QED BY <1>2, <2>1
<1>6. CASE p.dest # Host /\ ~Cached(t, p) /\ ~(Broadcast(p) /\ p.ttl <= 1)
  <2> DEFINE v == Sent(t, p)
             Goes(o) == \/ o.packet.ttl \in 1..(p.ttl - 1)
                        \/ p.proto # "icmp" /\ o.packet.proto = "icmp" /\ o.packet.dest = p.src
  <2>1. u = [v EXCEPT !.result = result] BY <1>6 DEF uip_fw_forward
  <2>2. ~(Key(p) = t.last.key /\ t.last.age < FW_TIME)
    <3> SUFFICES ASSUME Key(p) = t.last.key, t.last.age < FW_TIME PROVE FALSE OBVIOUS
    <3>1. PICK i \in Entries : t.cache[i].timer = FW_TIME - t.last.age /\ t.cache[i].key = Key(p)
      BY KeyIs DEF FwHolds
    <3>2. t.cache[i].timer > 0 BY <3>1 DEF FwShaped, FwSizes
    <3> QED BY <1>6, <3>1, <3>2 DEF Cached
  <2>3. FwShaped(v) /\ FwHolds(v) /\ v.in = t.in /\ \A o \in v.sent : Goes(o)
    <3>1. CASE p.ttl > 1
      <4>1. v = uip_fw_output(t, q) BY <1>1, <3>1 DEF Sent
      <4>2. q.ttl \in 1..(p.ttl - 1) BY <1>1, <3>1
      <4> HIDE DEF v, q
      <4> QED BY <4>1, <4>2, OutputHolds
    <3>2. CASE p.ttl <= 1 /\ p.proto # "icmp"
      <4>1. v = uip_fw_output(t, a) BY <1>1, <3>2 DEF Sent
      <4>2. a.proto = "icmp" /\ a.dest = p.src BY <1>1 DEF time_exceeded
      <4> HIDE DEF v, a
      <4> QED BY <3>2, <4>1, <4>2, OutputHolds
    <3>3. CASE p.ttl <= 1 /\ p.proto = "icmp" BY <3>3 DEF Sent
    <3> QED BY <1>1, <3>1, <3>2, <3>3
  <2> HIDE DEF v, result, u
  <2>4. FwShaped(u) /\ FwHolds(u) /\ u.in = t.in /\ \A o \in u.sent : Goes(o)
    BY <1>2, <2>1, <2>3
  <2> QED BY <2>2, <2>4 DEF u
<1> QED BY <1>3, <1>4, <1>5, <1>6

LEMMA FwInitInv == ASSUME FwSizes PROVE FwInit => FwInv
<1> SUFFICES ASSUME FwInit PROVE FwInv OBVIOUS
<1>1. FwShaped(fw) BY DEF FwInit, FwShaped, FwSizes
<1>2. FwHolds(fw) BY DEF FwInit, FwHolds
<1> QED BY <1>1, <1>2 DEF FwInv

(* A call begins with nothing sent.                                        *)
LEMMA CalledHolds ==
  ASSUME NEW v, FwShaped(v), FwHolds(v), NEW p
  PROVE  LET t == [v EXCEPT !.in = p, !.sent = {}]
         IN  FwShaped(t) /\ FwHolds(t) /\ t.in = p /\ t.sent = {} /\ t.last = v.last
<1> DEFINE t == [v EXCEPT !.in = p, !.sent = {}]
<1>1. v = [cache |-> v.cache, in |-> v.in, sent |-> v.sent, last |-> v.last, result |-> v.result]
  BY DEF FwShaped
<1>2. t = [cache |-> v.cache, in |-> p, sent |-> {}, last |-> v.last, result |-> v.result]
  <2> DEFINE none == {}
  <2>1. t = [v EXCEPT !.in = p, !.sent = none] OBVIOUS
  <2> HIDE DEF none, t
  <2>2. t = [cache |-> v.cache, in |-> p, sent |-> none, last |-> v.last, result |-> v.result]
    BY <1>1, <2>1
  <2> QED BY <2>2 DEF none
<1> HIDE DEF t
<1>3. FwShaped(t) BY <1>2 DEF FwShaped
<1>4. FwHolds(t) BY <1>2 DEF FwHolds
<1> QED BY <1>2, <1>3, <1>4 DEF t

LEMMA FwNextInv == ASSUME FwSizes PROVE FwInv /\ [FwNext]_fw => FwInv' /\ (fw' = fw \/ NoCircling)
<1> SUFFICES ASSUME FwInv, [FwNext]_fw PROVE FwInv' /\ (fw' = fw \/ NoCircling) OBVIOUS
<1>1. CASE uip_fw_periodic
  <2> DEFINE c == [i \in Entries |-> Ticked(fw.cache[i])]
             a == IF fw.last.age < FW_TIME THEN fw.last.age + 1 ELSE fw.last.age
             l == [key |-> fw.last.key, age |-> a]
  <2>1. /\ fw = [cache |-> fw.cache, in |-> fw.in, sent |-> fw.sent, last |-> fw.last, result |-> fw.result]
        /\ fw.cache = [i \in Entries |-> [timer |-> fw.cache[i].timer, key |-> fw.cache[i].key]]
        /\ \A i \in Entries : fw.cache[i].timer \in 0..FW_TIME
        /\ fw.last = [key |-> fw.last.key, age |-> fw.last.age]
        /\ fw.last.age \in 0..FW_TIME
    BY DEF FwInv, FwShaped
  <2>2. FW_TIME \in Nat BY DEF FwSizes
  <2>3. fw' = [cache |-> c, in |-> Quiet, sent |-> {}, last |-> l, result |-> fw.result]
    <3>1. fw' = [fw EXCEPT !.cache = c, !.in = Quiet, !.sent = {}, !.last.age = a]
      BY <1>1 DEF uip_fw_periodic
    <3> HIDE DEF c, a
    <3> QED BY <2>1, <3>1
  <2>4. /\ c = [i \in Entries |-> [timer |-> c[i].timer, key |-> c[i].key]]
        /\ \A i \in Entries :
             /\ c[i].timer = (IF fw.cache[i].timer > 0 THEN fw.cache[i].timer - 1 ELSE 0)
             /\ c[i].timer \in 0..FW_TIME /\ c[i].key = fw.cache[i].key
    <3>1. \A i \in Entries :
            c[i] = [timer |-> IF fw.cache[i].timer > 0 THEN fw.cache[i].timer - 1 ELSE 0,
                    key |-> fw.cache[i].key]
      <4> TAKE i \in Entries
      <4> DEFINE e == fw.cache[i]
      <4>1. e = [timer |-> e.timer, key |-> e.key]
        <5>1. fw.cache[i] = [timer |-> fw.cache[i].timer, key |-> fw.cache[i].key] BY <2>1
        <5> QED BY <5>1
      <4>2. c[i] = Ticked(e) OBVIOUS
      <4> HIDE DEF e, c
      <4>3. Ticked(e) = [timer |-> IF e.timer > 0 THEN e.timer - 1 ELSE 0, key |-> e.key]
        BY <4>1 DEF Ticked
      <4> QED BY <4>2, <4>3 DEF e
    <3>2. c = [i \in Entries |-> c[i]] OBVIOUS
    <3> HIDE DEF c
    <3> QED BY <2>1, <2>2, <3>1, <3>2
  <2> HIDE DEF c
  <2>5. l = [key |-> l.key, age |-> l.age] /\ l.age \in 0..FW_TIME BY <2>1, <2>2
  <2>6. FwShaped(fw)' BY <2>3, <2>4, <2>5 DEF FwShaped
  <2>7. FwHolds(fw)'
    <3> SUFFICES ASSUME l.key # NoKey, l.age < FW_TIME
                 PROVE  \E i \in Entries : c[i].timer = FW_TIME - l.age /\ c[i].key = l.key
      BY <2>3 DEF FwHolds
    <3>1. fw.last.age < FW_TIME /\ a = fw.last.age + 1 BY <2>1, <2>2
    <3>2. PICK i \in Entries : /\ fw.cache[i].timer = FW_TIME - fw.last.age
                               /\ fw.cache[i].key = fw.last.key
      BY <3>1 DEF FwInv, FwHolds
    <3> QED BY <2>1, <2>2, <2>4, <3>1, <3>2
  <2>8. NoCircling BY <2>3 DEF NoCircling
  <2> QED BY <2>6, <2>7, <2>8 DEF FwInv
<1>2. ASSUME NEW p \in Packets, Forward(p) PROVE FwInv' /\ NoCircling
  <2> DEFINE t == [fw EXCEPT !.in = p, !.sent = {}]
  <2>1. FwShaped(t) /\ FwHolds(t) /\ t.in = p /\ t.sent = {} /\ t.last = fw.last
    BY CalledHolds DEF FwInv
  <2>2. fw' = uip_fw_forward(t, p) BY <1>2 DEF Forward
  <2> HIDE DEF t
  <2> QED BY <2>1, <2>2, ForwardHolds DEF FwInv, NoCircling
<1>3. ASSUME NEW p \in Packets, Output(p) PROVE FwInv' /\ NoCircling
  <2> DEFINE t == [fw EXCEPT !.in = Quiet, !.sent = {}]
  <2>0. FwShaped(fw) /\ FwHolds(fw) BY DEF FwInv
  <2>1. FwShaped(t) /\ t.in = Quiet BY <2>0, CalledHolds
  <2>2. fw' = uip_fw_output(t, p) BY <1>3 DEF Output
  <2> HIDE DEF t
  <2> QED BY <2>1, <2>2, OutputHolds DEF FwInv, NoCircling
<1>4. CASE UNCHANGED fw BY <1>4 DEF FwInv
<1> QED BY <1>1, <1>2, <1>3, <1>4 DEF FwNext

(* Nothing circles, for caches and times of any size: a packet that went   *)
(* out last is not forwarded while the cache holds it, and what is         *)
(* forwarded has lost one of its ttl (uip_fw_forward of uip-fw.c).         *)
THEOREM NothingCircles == FwSpec => NoCircle
<1> USE FwAssumption
<1>1. FwInit => FwInv BY FwInitInv
<1>2. FwInv /\ [FwNext]_fw => FwInv' /\ [NoCircling]_fw BY FwNextInv
<1> QED BY <1>1, <1>2, PTL DEF FwSpec, NoCircle

(***************************************************************************)
(* The ports of UDP connections (UipIp).                                   *)
(***************************************************************************)

(* Numbers that are put into a set without two on the same place.          *)
LEMMA Injects ==
  ASSUME NEW m \in Nat, NEW T, IsFiniteSet(T), NEW f \in [0..(m - 1) -> T],
         \A x, y \in 0..(m - 1) : f[x] = f[y] => x = y
  PROVE  m <= Cardinality(T)
<1> DEFINE S == 0..(m - 1)
<1>1. IsFiniteSet(S) /\ Cardinality(S) = m
  <2>1. 0 \in Int /\ m - 1 \in Int OBVIOUS
  <2>2. IsFiniteSet(S) /\ Cardinality(S) = IF 0 > m - 1 THEN 0 ELSE (m - 1) - 0 + 1
    BY <2>1, FS_Interval
  <2> QED BY <2>2
<1>2. Cardinality(T) \in Nat BY FS_CardinalityType
<1> HIDE DEF S
<1>3. ~(Cardinality(T) < m)
  <2> SUFFICES ASSUME Cardinality(T) < m PROVE FALSE OBVIOUS
  <2>1. f \in [S -> T] BY DEF S
  <2>2. \E x, y \in S : x # y /\ f[x] = f[y] BY <1>1, <2>1, FS_PigeonHole
  <2> QED BY <2>2 DEF S
<1> QED BY <1>2, <1>3

(***************************************************************************)
(* The ports that uip_udp_new tries.                                       *)
(***************************************************************************)

(* Ports below FirstPort are given once, those of the cycle in every lap.  *)
LastPorts == StartPort..(LastPort - 1)     \* values of lastport
Cycle     == FirstPort..(LastPort - 1)     \* ports of every lap
NewPorts  == (StartPort + 1)..(LastPort - 1)

(* The port tried n after the first.                                       *)
Nth(last, n) == IF last + 1 + n < LastPort THEN last + 1 + n ELSE last + 1 + n - Lap

(* The ports that the loop of uip_udp_new goes through, by number.         *)
LEMMA TriedIs ==
  ASSUME UdpSizes, NEW last \in LastPorts
  PROVE  \A n \in 0..UIP_UDP_CONNS : Tried(last)[n] = Nth(last, n)
<1> DEFINE D == 0..UIP_UDP_CONNS
           Recurs(f) == f = [n \in D |-> Following(IF n = 0 THEN last ELSE f[n - 1])]
           h == [n \in D |-> Nth(last, n)]
           f == Tried(last)
<1>1. /\ UIP_UDP_CONNS \in Nat /\ StartPort \in Nat /\ FirstPort \in Nat /\ LastPort \in Nat
      /\ StartPort < FirstPort /\ UIP_UDP_CONNS < LastPort - FirstPort /\ last \in Nat
      /\ StartPort <= last /\ last < LastPort
  BY DEF UdpSizes, LastPorts, Lap
<1>2. Nth(last, 0) = Following(last) BY <1>1 DEF Nth, Following, Lap
<1>3. ASSUME NEW n \in 1..UIP_UDP_CONNS PROVE Nth(last, n) = Following(Nth(last, n - 1))
  BY <1>1 DEF Nth, Following, Lap
<1>4. Recurs(h)
  <2>1. ASSUME NEW n \in D PROVE h[n] = Following(IF n = 0 THEN last ELSE h[n - 1])
    <3>1. CASE n = 0 BY <1>2, <3>1
    <3>2. CASE n # 0
      <4>1. n \in 1..UIP_UDP_CONNS /\ n - 1 \in D BY <1>1, <3>2
      <4> QED BY <1>3, <3>2, <4>1
    <3> QED BY <3>1, <3>2
  <2>2. h = [n \in D |-> h[n]] OBVIOUS
  <2> HIDE DEF h, D
  <2> QED BY <2>1, <2>2
<1>5. Recurs(f)
  <2>1. f = CHOOSE g : Recurs(g) BY DEF Tried
  <2>2. \E g : Recurs(g)
    <3> HIDE DEF Recurs, h
    <3> QED BY <1>4
  <2> HIDE DEF Recurs, f
  <2> QED BY <2>1, <2>2
<1> HIDE DEF f
<1>6. \A n \in D : f[n] = Following(IF n = 0 THEN last ELSE f[n - 1]) BY <1>5
<1> DEFINE Ok == {n \in D : f[n] = Nth(last, n)}
<1>7. 0 \in Ok BY <1>1, <1>2, <1>6
<1>8. \A n \in 1..UIP_UDP_CONNS : n - 1 \in Ok => n \in Ok
  <2> TAKE n \in 1..UIP_UDP_CONNS
  <2> HAVE n - 1 \in Ok
  <2>1. n \in D /\ n # 0 /\ f[n - 1] = Nth(last, n - 1) BY <1>1
  <2>2. f[n] = Following(f[n - 1]) BY <1>6, <2>1
  <2> QED BY <1>3, <2>1, <2>2
<1>9. \A n \in D : n \in Ok
  <2> HIDE DEF Ok
  <2> QED BY <1>1, <1>7, <1>8, UpTo
<1> QED BY <1>9 DEF f

(* They are ports of new connections, and all different.                   *)
LEMMA NthIs ==
  ASSUME UdpSizes, NEW last \in LastPorts
  PROVE  /\ \A n \in 0..UIP_UDP_CONNS : Nth(last, n) \in NewPorts
         /\ \A n, k \in 0..UIP_UDP_CONNS : Nth(last, n) = Nth(last, k) => n = k
BY DEF UdpSizes, LastPorts, NewPorts, Nth, Lap

(* The first m ports that are tried are in use.                            *)
Skips(c, last, m) == \A k \in 0..(m - 1) : Nth(last, k) \in UdpPorts(c)

(* One of them is free, and the first is taken.                            *)
LEMMA NextPortIs ==
  ASSUME UdpSizes, NEW last \in LastPorts, NEW c
  PROVE  \E n \in 0..UIP_UDP_CONNS :
           /\ NextPort(c, last) = Nth(last, n) /\ Nth(last, n) \notin UdpPorts(c)
           /\ Skips(c, last, n)
<1> DEFINE N == UIP_UDP_CONNS
           Free == {n \in 0..N : Nth(last, n) \notin UdpPorts(c)}
<1>1. N \in Nat \ {0} /\ Slots = 0..(N - 1) BY DEF UdpSizes, Slots
<1>2. Free # {}
  <2> SUFFICES ASSUME Free = {} PROVE FALSE OBVIOUS
  <2> DEFINE f == [n \in 0..N |-> CHOOSE i \in Slots : c[i].lport = Nth(last, n)]
  <2>1. \A n \in 0..N : \E i \in Slots : c[i].lport = Nth(last, n) BY DEF UdpPorts
  <2>2. \A n \in 0..N : f[n] \in Slots /\ c[f[n]].lport = Nth(last, n) BY <2>1
  <2>3. f \in [0..N -> Slots] BY <2>2
  <2>4. \A x, y \in 0..N : f[x] = f[y] => x = y BY <2>2, NthIs
  <2>5. IsFiniteSet(Slots) /\ Cardinality(Slots) = N
    <3>1. 0 \in Int /\ N - 1 \in Int BY <1>1
    <3>2. /\ IsFiniteSet(0..(N - 1))
          /\ Cardinality(0..(N - 1)) = IF 0 > N - 1 THEN 0 ELSE (N - 1) - 0 + 1
      BY <3>1, FS_Interval
    <3> QED BY <1>1, <3>2
  <2> HIDE DEF f, N
  <2>6. N + 1 \in Nat /\ (N + 1) - 1 = N BY <1>1
  <2>7. N + 1 <= Cardinality(Slots)
    <3>1. f \in [0..((N + 1) - 1) -> Slots] BY <2>3, <2>6
    <3>2. \A x, y \in 0..((N + 1) - 1) : f[x] = f[y] => x = y BY <2>4, <2>6
    <3> QED BY <2>5, <2>6, <3>1, <3>2, Injects
  <2> QED BY <1>1, <2>5, <2>7
<1>3. NextPort(c, last) = Tried(last)[Min(Free)]
  <2>1. Free = {n \in 0..N : Tried(last)[n] \notin UdpPorts(c)} BY TriedIs
  <2> QED BY <2>1 DEF NextPort
<1>4. Min(Free) \in Free /\ \A n \in Free : Min(Free) <= n
  <2>1. Free \in SUBSET Nat BY <1>1
  <2> HIDE DEF Free
  <2> QED BY <1>2, <2>1, MinIs
<1> DEFINE n == Min(Free)
<1> HIDE DEF n
<1>5. n \in 0..N /\ Nth(last, n) \notin UdpPorts(c) /\ NextPort(c, last) = Nth(last, n)
  BY <1>3, <1>4, TriedIs DEF n
<1>6. Skips(c, last, n)
  <2> SUFFICES ASSUME NEW k \in 0..(n - 1) PROVE Nth(last, k) \in UdpPorts(c) BY DEF Skips
  <2>1. k \in 0..N /\ ~(n <= k) BY <1>1, <1>5
  <2> QED BY <1>4, <2>1 DEF n
<1> QED BY <1>5, <1>6

(***************************************************************************)
(* How far uip_udp_new has come since a port was given.                    *)
(***************************************************************************)

(* How many ports ago port was tried, when lastport is last.               *)
Dist(port, last) == IF last >= port THEN last - port ELSE last - port + Lap

(* The connections that are passed over before port is given again.        *)
Ahead(c, port, last) ==
  {i \in Slots : c[i].lport \in Cycle /\ Dist(port, last) < Dist(port, c[i].lport)}

(* A port below the lap is never given again.  Of the others each call     *)
(* takes one, and passes over a connection that was there before.          *)
Placed(c, port, last, age) ==
  IF port < FirstPort THEN port <= last
  ELSE age + UIP_UDP_CONNS < Lap =>
         /\ last \in Cycle
         /\ Dist(port, last) + Cardinality(Ahead(c, port, last)) < age + UIP_UDP_CONNS

(* The table, and the connections ahead in it, can be counted.             *)
LEMMA SlotsFinite == ASSUME UdpSizes PROVE IsFiniteSet(Slots) /\ Cardinality(Slots) = UIP_UDP_CONNS
<1> DEFINE N == UIP_UDP_CONNS
<1>1. N \in Nat \ {0} /\ Slots = 0..(N - 1) BY DEF UdpSizes, Slots
<1>2. 0 \in Int /\ N - 1 \in Int BY <1>1
<1>3. IsFiniteSet(0..(N - 1)) /\ Cardinality(0..(N - 1)) = IF 0 > N - 1 THEN 0 ELSE (N - 1) - 0 + 1
  BY <1>2, FS_Interval
<1> QED BY <1>1, <1>3

LEMMA AheadFinite ==
  ASSUME UdpSizes, NEW c, NEW port, NEW last
  PROVE  IsFiniteSet(Ahead(c, port, last)) /\ Cardinality(Ahead(c, port, last)) \in Nat
<1>1. Ahead(c, port, last) \in SUBSET Slots BY DEF Ahead
<1>2. IsFiniteSet(Ahead(c, port, last)) BY <1>1, SlotsFinite, FS_Subset
<1> QED BY <1>2, FS_CardinalityType

(* The places of the ports that are tried, as long as the lap is not over. *)
LEMMA NthDist ==
  ASSUME UdpSizes, NEW last \in Cycle, NEW port \in Cycle, NEW k \in Nat,
         Dist(port, last) + k + 1 < Lap
  PROVE  Nth(last, k) \in Cycle /\ Dist(port, Nth(last, k)) = Dist(port, last) + k + 1
BY DEF UdpSizes, Cycle, Dist, Nth, Lap

(* f says by which connections.                                            *)
Passed(f, c, port, last, m) ==
  /\ f \in [0..(m - 1) -> Ahead(c, port, last)]
  /\ \A k \in 0..(m - 1) : c[f[k]].lport = Nth(last, k)
  /\ \A x, y \in 0..(m - 1) : f[x] = f[y] => x = y

(* The connections passed over are ahead.                                  *)
LEMMA PassedAhead ==
  ASSUME UdpSizes, NEW c, NEW last \in Cycle, NEW port \in Cycle, NEW m \in 0..UIP_UDP_CONNS,
         Dist(port, last) + m < Lap, Skips(c, last, m)
  PROVE  \E f : Passed(f, c, port, last, m)
<1> DEFINE f == [k \in 0..(m - 1) |-> CHOOSE i \in Slots : c[i].lport = Nth(last, k)]
<1>1. last \in LastPorts /\ UIP_UDP_CONNS \in Nat BY DEF UdpSizes, Cycle, LastPorts
<1>2. ASSUME NEW k \in 0..(m - 1) PROVE f[k] \in Slots /\ c[f[k]].lport = Nth(last, k)
  <2>1. \E i \in Slots : c[i].lport = Nth(last, k) BY DEF UdpPorts, Skips
  <2> QED BY <2>1
<1> HIDE DEF f
<1>d. Dist(port, last) \in Int BY DEF Dist, Cycle, UdpSizes, Lap
<1>l. Lap \in Int BY DEF Lap, UdpSizes
<1>3. ASSUME NEW k \in 0..(m - 1) PROVE f[k] \in Ahead(c, port, last)
  <2>1. k \in Nat /\ m \in Int /\ k + 1 <= m BY <1>1
  <2>2. Dist(port, last) + k + 1 < Lap BY <2>1, <1>d, <1>l
  <2>3. Nth(last, k) \in Cycle /\ Dist(port, last) < Dist(port, Nth(last, k))
    BY <2>1, <2>2, <1>d, NthDist
  <2> QED BY <1>2, <2>3 DEF Ahead
<1>4. \A x, y \in 0..(m - 1) : f[x] = f[y] => x = y
  <2> TAKE x, y \in 0..(m - 1)
  <2> HAVE f[x] = f[y]
  <2>1. Nth(last, x) = Nth(last, y) BY <1>2
  <2>2. x \in 0..UIP_UDP_CONNS /\ y \in 0..UIP_UDP_CONNS BY <1>1
  <2> QED BY <1>1, <2>1, <2>2, NthIs
<1>5. f = [k \in 0..(m - 1) |-> f[k]] BY DEF f
<1>6. f \in [0..(m - 1) -> Ahead(c, port, last)] BY <1>3, <1>5
<1>7. Passed(f, c, port, last, m) BY <1>2, <1>4, <1>6 DEF Passed
<1> QED BY <1>7

(* The port that is given is before the end of the lap.                    *)
LEMMA GivenInLap ==
  ASSUME UdpSizes, NEW c, NEW last \in Cycle, NEW port \in Cycle, NEW age \in Nat,
         age + UIP_UDP_CONNS < Lap,
         Dist(port, last) + Cardinality(Ahead(c, port, last)) < age + UIP_UDP_CONNS,
         NEW n \in 0..UIP_UDP_CONNS, Skips(c, last, n)
  PROVE  /\ n <= Cardinality(Ahead(c, port, last)) /\ Dist(port, last) + n + 1 < Lap
         /\ Nth(last, n) \in Cycle /\ Dist(port, Nth(last, n)) = Dist(port, last) + n + 1
         /\ Nth(last, n) # port
<1> DEFINE d == Dist(port, last)
           a == Cardinality(Ahead(c, port, last))
           m == IF n <= Lap - d - 1 THEN n ELSE Lap - d - 1
<1>1. UIP_UDP_CONNS \in Nat /\ Lap \in Nat BY DEF UdpSizes, Lap
<1>2. d \in 0..(Lap - 1) BY DEF UdpSizes, Cycle, Dist, Lap
<1>3. a \in Nat /\ IsFiniteSet(Ahead(c, port, last)) BY AheadFinite
<1> HIDE DEF d, a
<1>4. m \in 0..UIP_UDP_CONNS /\ d + m < Lap /\ m <= n /\ (m < n => m = Lap - d - 1)
  BY <1>1, <1>2
<1> HIDE DEF m
<1>5. m <= a
  <2>1. \A k \in 0..(m - 1) : k \in 0..(n - 1) BY <1>1, <1>4
  <2>2. PICK f : Passed(f, c, port, last, m)
    <3>1. Skips(c, last, m) BY <2>1 DEF Skips
    <3>2. m \in 0..UIP_UDP_CONNS /\ Dist(port, last) + m < Lap BY <1>4 DEF d
    <3> QED BY <3>1, <3>2, PassedAhead
  <2>3. m \in Nat BY <1>1, <1>4
  <2> QED BY <1>3, <2>2, <2>3, Injects DEF a, Passed
<1>6. d + a < age + UIP_UDP_CONNS BY DEF d, a
<1>7. m = n BY <1>1, <1>2, <1>3, <1>4, <1>5, <1>6
<1>8. n <= a /\ d + n + 1 < Lap BY <1>1, <1>2, <1>3, <1>5, <1>6, <1>7
<1>9. n \in Nat BY <1>1
<1>10. Nth(last, n) \in Cycle /\ Dist(port, Nth(last, n)) = d + n + 1
  BY <1>8, <1>9, NthDist DEF d
<1>11. Dist(port, port) = 0 BY DEF Dist, Cycle, UdpSizes
<1> QED BY <1>2, <1>8, <1>9, <1>10, <1>11 DEF d, a

(* What a call of uip_udp_new does for the places; c is the table before   *)
(* it and e the one after it.                                              *)
LEMMA PlacedNext ==
  ASSUME UdpSizes, NEW c, NEW e, NEW last \in LastPorts, NEW port \in NewPorts, NEW age \in Nat,
         Placed(c, port, last, age),
         NEW n \in 0..UIP_UDP_CONNS, Skips(c, last, n),
         \A i \in Slots : e[i].lport \in {c[i].lport, Nth(last, n)}
  PROVE  /\ Placed(e, port, Nth(last, n), age + 1)
         /\ age + UIP_UDP_CONNS < Lap => Nth(last, n) # port
<1> DEFINE new == Nth(last, n)
           A == Ahead(c, port, last)
           B == Ahead(e, port, new)
<1>1. /\ UIP_UDP_CONNS \in Nat \ {0} /\ StartPort \in Nat /\ FirstPort \in Nat /\ LastPort \in Nat
      /\ Lap = LastPort - FirstPort /\ StartPort < FirstPort /\ UIP_UDP_CONNS < Lap
  BY DEF UdpSizes, Lap
<1>2. new \in NewPorts BY NthIs
<1>3. CASE port < FirstPort
  <2>1. port <= last BY <1>3 DEF Placed
  <2>2. port < new /\ new # port BY <1>1, <1>3, <2>1 DEF Nth, LastPorts, NewPorts
  <2> HIDE DEF new
  <2> QED BY <1>1, <1>2, <1>3, <2>2 DEF Placed, NewPorts, new
<1>4. CASE ~(port < FirstPort) /\ age + UIP_UDP_CONNS < Lap
  <2>1. port \in Cycle BY <1>1, <1>4 DEF Cycle, NewPorts
  <2>2. /\ last \in Cycle
        /\ Dist(port, last) + Cardinality(A) < age + UIP_UDP_CONNS
    BY <1>4 DEF Placed
  <2>3. /\ n <= Cardinality(A) /\ Dist(port, last) + n + 1 < Lap
        /\ new \in Cycle /\ Dist(port, new) = Dist(port, last) + n + 1
        /\ new # port
    BY <1>4, <2>1, <2>2, GivenInLap
  <2>d. Dist(port, last) \in Nat /\ n \in Nat BY <1>1, <2>1, <2>2 DEF Dist, Cycle
  <2>p. PICK f : Passed(f, c, port, last, n)
    <3>1. Dist(port, last) + n < Lap BY <1>1, <2>3, <2>d
    <3> QED BY <2>1, <2>2, <3>1, PassedAhead
  <2>4. /\ f \in [0..(n - 1) -> A]
        /\ \A k \in 0..(n - 1) : c[f[k]].lport = Nth(last, k)
        /\ \A x, y \in 0..(n - 1) : f[x] = f[y] => x = y
    BY <2>p DEF Passed
  <2>5. B \subseteq A
    <3> SUFFICES ASSUME NEW i \in Slots, e[i].lport \in Cycle, Dist(port, new) < Dist(port, e[i].lport)
                 PROVE  i \in A
      BY DEF Ahead
    <3>1. e[i].lport = c[i].lport
      <4>1. Dist(port, new) \in Nat BY <2>3, <2>d
      <4> QED BY <4>1
    <3>2. Dist(port, c[i].lport) \in Int BY <1>1, <2>1, <3>1 DEF Dist, Cycle
    <3>3. Dist(port, last) < Dist(port, c[i].lport) BY <2>3, <2>d, <3>1, <3>2
    <3> QED BY <3>1, <3>3 DEF Ahead
  <2>6. \A k \in 0..(n - 1) : f[k] \in A \ B
    <3> TAKE k \in 0..(n - 1)
    <3>1. f[k] \in A /\ c[f[k]].lport = Nth(last, k) BY <2>4
    <3>2. k \in Nat /\ k + 1 <= n BY <2>d
    <3>3. Dist(port, last) + k + 1 < Lap BY <1>1, <2>3, <2>d, <3>2
    <3>4. Dist(port, Nth(last, k)) = Dist(port, last) + k + 1 BY <2>1, <2>2, <3>2, <3>3, NthDist
    <3>5. ~(Dist(port, new) < Dist(port, Nth(last, k))) BY <2>3, <2>d, <3>2, <3>4
    <3>6. ~(Dist(port, new) < Dist(port, new)) BY <2>3, <2>d
    <3>7. f[k] \in Slots BY <3>1 DEF Ahead
    <3> HIDE DEF new
    <3>8. f[k] \notin B BY <3>1, <3>5, <3>6, <3>7 DEF Ahead, new
    <3> QED BY <3>1, <3>8
  <2>7. Cardinality(B) + n <= Cardinality(A)
    <3> HIDE DEF A, B
    <3>1. IsFiniteSet(A) /\ Cardinality(A) \in Nat /\ IsFiniteSet(B) /\ Cardinality(B) \in Nat
      BY AheadFinite DEF A, B
    <3>2. IsFiniteSet(A \ B) /\ Cardinality(A \ B) = Cardinality(A) - Cardinality(A \cap B)
      BY <3>1, FS_Difference
    <3>3. A \cap B = B /\ B \in SUBSET A BY <2>5 DEF A, B
    <3>c. Cardinality(A \cap B) = Cardinality(B) BY <3>3
    <3>4. f \in [0..(n - 1) -> A \ B]
      <4>1. f = [k \in 0..(n - 1) |-> f[k]] BY <2>4
      <4> QED BY <2>6, <4>1
    <3>5. n <= Cardinality(A \ B) BY <2>4, <2>d, <3>2, <3>4, Injects
    <3> QED BY <2>d, <3>1, <3>2, <3>c, <3>5
  <2>8. Cardinality(A) \in Nat /\ Cardinality(B) \in Nat BY AheadFinite
  <2> HIDE DEF A, B, new
  <2>9. Dist(port, new) + Cardinality(B) < (age + 1) + UIP_UDP_CONNS
    BY <1>1, <2>2, <2>3, <2>7, <2>8, <2>d
  <2> QED BY <1>4, <2>3, <2>9 DEF Placed, B, new
<1>5. CASE ~(port < FirstPort) /\ ~(age + UIP_UDP_CONNS < Lap)
  <2>1. ~((age + 1) + UIP_UDP_CONNS < Lap) BY <1>1, <1>5
  <2> QED BY <1>5, <2>1 DEF Placed
<1> QED BY <1>3, <1>4, <1>5

(* The place of a port that has just been given.                           *)
LEMMA PlacedFirst ==
  ASSUME UdpSizes, NEW e, NEW port \in NewPorts, NEW slot \in Slots, e[slot].lport = port
  PROVE  Placed(e, port, port, 0)
<1> DEFINE A == Ahead(e, port, port)
<1>1. UIP_UDP_CONNS \in Nat \ {0} BY DEF UdpSizes
<1>2. slot \notin A
  <2>1. Dist(port, port) = 0 BY DEF Dist, NewPorts, UdpSizes
  <2> QED BY <2>1 DEF Ahead
<1>3. A \subseteq Slots \ {slot} BY <1>2 DEF Ahead
<1>4. IsFiniteSet(Slots \ {slot}) /\ Cardinality(Slots \ {slot}) = UIP_UDP_CONNS - 1
  BY SlotsFinite, FS_RemoveElement
<1>5. Cardinality(A) <= UIP_UDP_CONNS - 1 BY <1>3, <1>4, FS_Subset
<1>6. Cardinality(A) \in Nat BY AheadFinite
<1> HIDE DEF A
<1>7. ~(port < FirstPort) => port \in Cycle /\ Dist(port, port) = 0
  BY DEF Dist, Cycle, NewPorts, UdpSizes
<1>8. 0 + Cardinality(A) < 0 + UIP_UDP_CONNS BY <1>1, <1>5, <1>6
<1>9. port <= port BY DEF NewPorts, UdpSizes
<1> QED BY <1>7, <1>8, <1>9 DEF Placed, A

(* Where no connection comes to be ahead.                                  *)
LEMMA PlacedSame ==
  ASSUME UdpSizes, NEW c, NEW e, NEW port \in NewPorts, NEW last \in LastPorts, NEW age \in Nat,
         Placed(c, port, last, age), \A i \in Slots : e[i].lport = c[i].lport \/ e[i].lport \notin Cycle
  PROVE  Placed(e, port, last, age)
<1> DEFINE A == Ahead(c, port, last)
           B == Ahead(e, port, last)
<1>1. B \subseteq A BY DEF Ahead
<1>2. /\ IsFiniteSet(A) /\ Cardinality(A) \in Nat /\ Cardinality(B) \in Nat BY AheadFinite
<1> HIDE DEF A, B
<1>3. Cardinality(B) <= Cardinality(A) BY <1>1, <1>2, FS_Subset
<1>4. Dist(port, last) \in Int /\ UIP_UDP_CONNS \in Int
  BY DEF Dist, Lap, NewPorts, LastPorts, UdpSizes
<1> QED BY <1>2, <1>3, <1>4 DEF Placed, A, B

(* A call grows the age, as far as it is counted.                          *)
LEMMA PlacedOlder ==
  ASSUME UdpSizes, NEW e, NEW last, NEW port \in NewPorts, NEW age \in Nat, Placed(e, port, last, age + 1)
  PROVE  Older(age) \in Nat /\ Placed(e, port, last, Older(age))
<1>1. Lap \in Nat /\ UIP_UDP_CONNS \in Nat \ {0} BY DEF UdpSizes, Lap
<1>2. CASE age < Lap BY <1>1, <1>2 DEF Older
<1>3. CASE ~(age < Lap)
  <2>1. Older(age) = age BY <1>3 DEF Older
  <2>2. ~(age + UIP_UDP_CONNS < Lap) BY <1>1, <1>3
  <2> QED BY <2>1, <2>2 DEF Placed
<1> QED BY <1>2, <1>3

(***************************************************************************)
(* The table.                                                              *)
(***************************************************************************)

(* The record of the table.                                                *)
UdpTyped(t) ==
  /\ t = [conns |-> t.conns, lastport |-> t.lastport, hostaddr |-> t.hostaddr,
          age |-> t.age, late |-> t.late, lateage |-> t.lateage]
  /\ t.conns = [i \in Slots |-> [lport |-> t.conns[i].lport, rport |-> t.conns[i].rport,
                                ripaddr |-> t.conns[i].ripaddr]]
  /\ \A i \in Slots : t.conns[i].lport \in {0, BindPort} \cup NewPorts
  /\ t.lastport \in LastPorts
  /\ t.age \in [Slots -> Nat] /\ t.lateage \in Nat

(* No two connections in use have one port.                                *)
DistinctPorts(c) ==
  \A i, j \in Slots : c[i].lport # 0 /\ c[i].lport = c[j].lport => i = j

(* Every connection with a port of uip_udp_new is as far as its age says.  *)
UdpPlaced(t) ==
  \A i \in Slots : t.conns[i].lport \in NewPorts =>
    Placed(t.conns, t.conns[i].lport, t.lastport, t.age[i])

(* The port of the connection that was removed has not been given again.   *)
LatePlaced(t) ==
  t.late # Unbound =>
    /\ t.late.lport \in NewPorts
    /\ Placed(t.conns, t.late.lport, t.lastport, t.lateage)
    /\ t.lateage + UIP_UDP_CONNS < Lap => \A i \in Slots : t.conns[i].lport # t.late.lport

(* The invariant: connections have ports of their own, and a port is given *)
(* again only when a lap is over.                                          *)
UdpInv == UdpTyped(udp) /\ DistinctPorts(udp.conns) /\ UdpPlaced(udp) /\ LatePlaced(udp)

(* The port of the DHCP client is none of those.                           *)
LEMMA PortsApart == UdpSizes => 0 \notin NewPorts /\ BindPort \notin NewPorts /\ BindPort # 0
BY DEF UdpSizes, NewPorts

LEMMA UdpInitInv == ASSUME UdpSizes PROVE UdpInit => UdpInv
<1> SUFFICES ASSUME UdpInit PROVE UdpInv OBVIOUS
<1>1. \A i \in Slots : udp.conns[i] = Unbound BY DEF UdpInit, uip_udp_init
<1>2. UdpTyped(udp)
  <2>1. udp.lastport \in LastPorts BY DEF UdpInit, LastPorts, UdpSizes, Lap
  <2> QED BY <2>1 DEF UdpInit, UdpTyped, uip_udp_init, Unbound
<1>3. DistinctPorts(udp.conns) BY <1>1 DEF DistinctPorts, Unbound
<1>4. UdpPlaced(udp) BY <1>1, PortsApart DEF UdpPlaced, Unbound
<1>5. LatePlaced(udp) BY DEF LatePlaced, UdpInit
<1> QED BY <1>2, <1>3, <1>4, <1>5 DEF UdpInv

(* A call of uip_udp_new, with room in the table or without.               *)
LEMMA NewInv ==
  ASSUME UdpSizes, UdpInv, NEW ripaddr, NEW rport, New(ripaddr, rport)
  PROVE  UdpInv'
<1> DEFINE c == udp.conns
           last == udp.lastport
           port == NextPort(c, last)
           slot == IF FreeSlots(c) = {} THEN -1 ELSE Min(FreeSlots(c))
           made == [lport |-> port, rport |-> rport, ripaddr |-> ripaddr]
           e == [i \in Slots |-> IF i = slot THEN made ELSE c[i]]
           old == [i \in Slots |-> IF c[i].lport = 0 THEN 0 ELSE Older(udp.age[i])]
<1>1. UdpTyped(udp) /\ DistinctPorts(c) /\ UdpPlaced(udp) /\ LatePlaced(udp) BY DEF UdpInv
<1>2. udp' = [udp EXCEPT !.conns = e, !.lastport = port, !.lateage = Older(udp.lateage), !.age = old]
  BY DEF New, uip_udp_new
<1>3. /\ udp'.conns = e /\ udp'.lastport = port /\ udp'.hostaddr = udp.hostaddr
      /\ udp'.age = old /\ udp'.late = udp.late /\ udp'.lateage = Older(udp.lateage)
      /\ udp' = [conns |-> e, lastport |-> port, hostaddr |-> udp.hostaddr,
                 age |-> old, late |-> udp.late, lateage |-> Older(udp.lateage)]
  <2> DEFINE a == Older(udp.lateage)
  <2> HIDE DEF e, port, old, a
  <2>1. udp' = [udp EXCEPT !.conns = e, !.lastport = port, !.lateage = a, !.age = old]
    BY <1>2 DEF a
  <2>2. udp = [conns |-> udp.conns, lastport |-> udp.lastport, hostaddr |-> udp.hostaddr,
               age |-> udp.age, late |-> udp.late, lateage |-> udp.lateage]
    BY <1>1 DEF UdpTyped
  <2> QED BY <2>1, <2>2 DEF a
<1>4. PICK n \in 0..UIP_UDP_CONNS :
           port = Nth(last, n) /\ port \notin UdpPorts(c) /\ Skips(c, last, n)
  <2>1. last \in LastPorts BY <1>1 DEF UdpTyped
  <2> QED BY <2>1, NextPortIs
<1>5. last \in LastPorts /\ port \in NewPorts
  <2>1. last \in LastPorts BY <1>1 DEF UdpTyped
  <2> QED BY <2>1, <1>4, NthIs
<1>6. \A i \in Slots : i = slot => c[i].lport = 0
  <2> DEFINE F == FreeSlots(c)
  <2>1. F \in SUBSET Nat /\ \A i \in F : c[i].lport = 0 BY DEF FreeSlots, Slots
  <2>2. -1 \notin Slots BY DEF Slots, UdpSizes
  <2> HIDE DEF F
  <2>3. F # {} => Min(F) \in F BY <2>1, MinIs
  <2> QED BY <2>1, <2>2, <2>3 DEF F
<1>7. \A i \in Slots : /\ i = slot => e[i] = made /\ c[i].lport = 0
                       /\ i # slot => e[i] = c[i]
  BY <1>6
<1>m. made.lport = port OBVIOUS
<1>8. \A i \in Slots : e[i].lport \in {c[i].lport, Nth(last, n)} BY <1>4, <1>7, <1>m
<1>9. \A i \in Slots : c[i].lport # port BY <1>4 DEF UdpPorts
<1>a. \A i \in Slots : udp.age[i] \in Nat /\ udp.lateage \in Nat BY <1>1 DEF UdpTyped
<1>t. \A i \in Slots : c[i] = [lport |-> c[i].lport, rport |-> c[i].rport, ripaddr |-> c[i].ripaddr]
  BY <1>1 DEF UdpTyped
<1>s. /\ e = [i \in Slots |-> [lport |-> e[i].lport, rport |-> e[i].rport, ripaddr |-> e[i].ripaddr]]
  <2>1. \A i \in Slots : e[i] = [lport |-> e[i].lport, rport |-> e[i].rport, ripaddr |-> e[i].ripaddr]
    <3> TAKE i \in Slots
    <3>1. CASE i = slot
      <4>1. e[i] = made BY <1>7, <3>1
      <4> QED BY <4>1
    <3>2. CASE i # slot
      <4>1. e[i] = c[i] BY <1>7, <3>2
      <4> QED BY <4>1, <1>t
    <3> QED BY <3>1, <3>2
  <2>2. e = [i \in Slots |-> e[i]] OBVIOUS
  <2> HIDE DEF e
  <2> QED BY <2>1, <2>2
<1>o. \A i \in Slots : old[i] = IF c[i].lport = 0 THEN 0 ELSE Older(udp.age[i]) OBVIOUS
<1>n. Lap \in Nat /\ \A a \in Nat : Older(a) \in Nat BY DEF UdpSizes, Lap, Older
<1>od. old \in [Slots -> Nat] BY <1>a, <1>n
<1> HIDE DEF c, last, port, slot, made, e, old
<1>10. UdpTyped(udp)'
  <2>1. \A i \in Slots : e[i].lport \in {0, BindPort} \cup NewPorts
    BY <1>1, <1>4, <1>5, <1>8 DEF UdpTyped, c
  <2>2. port \in LastPorts BY <1>5 DEF NewPorts, LastPorts, UdpSizes
  <2>3. Older(udp.lateage) \in Nat BY <1>1, <1>n DEF UdpTyped
  <2> QED BY <1>3, <1>s, <1>od, <2>1, <2>2, <2>3 DEF UdpTyped
<1>11. DistinctPorts(udp.conns)' BY <1>1, <1>3, <1>7, <1>9, <1>m DEF DistinctPorts
<1>12. UdpPlaced(udp)'
  <2> SUFFICES ASSUME NEW i \in Slots, e[i].lport \in NewPorts
               PROVE  Placed(e, e[i].lport, port, old[i])
    BY <1>3 DEF UdpPlaced
  <2>1. CASE i = slot
    <3>1. e[i].lport = port /\ old[i] = 0 BY <1>7, <1>m, <1>o, <2>1
    <3> QED BY <1>5, <3>1, PlacedFirst
  <2>2. CASE i # slot
    <3>1. e[i] = c[i] /\ c[i].lport # 0 BY <1>7, <2>2, PortsApart
    <3>2. Placed(c, c[i].lport, last, udp.age[i]) /\ udp.age[i] \in Nat
      BY <1>1, <1>a, <3>1 DEF UdpPlaced, c, last
    <3>3. Placed(e, c[i].lport, port, udp.age[i] + 1)
      BY <1>4, <1>5, <1>8, <3>1, <3>2, PlacedNext
    <3>4. Placed(e, c[i].lport, port, Older(udp.age[i])) BY <3>1, <3>2, <3>3, PlacedOlder
    <3> QED BY <1>o, <3>1, <3>4
  <2> QED BY <2>1, <2>2
<1>13. LatePlaced(udp)'
  <2> DEFINE l == udp.late.lport
             a == udp.lateage
  <2> SUFFICES ASSUME udp.late # Unbound
               PROVE  /\ l \in NewPorts /\ Placed(e, l, port, Older(a))
                      /\ Older(a) + UIP_UDP_CONNS < Lap => \A i \in Slots : e[i].lport # l
    BY <1>3 DEF LatePlaced
  <2>1. /\ l \in NewPorts /\ Placed(c, l, last, a) /\ a \in Nat
        /\ a + UIP_UDP_CONNS < Lap => \A i \in Slots : c[i].lport # l
    BY <1>1 DEF LatePlaced, UdpTyped, c, last
  <2> HIDE DEF l, a
  <2>2. /\ Placed(e, l, port, a + 1)
        /\ a + UIP_UDP_CONNS < Lap => port # l
    BY <1>4, <1>5, <1>8, <2>1, PlacedNext
  <2>3. Placed(e, l, port, Older(a)) BY <2>1, <2>2, PlacedOlder
  <2>4. Older(a) + UIP_UDP_CONNS < Lap => a + UIP_UDP_CONNS < Lap
    BY <1>n, <2>1 DEF Older, UdpSizes
  <2> QED BY <1>4, <1>8, <2>1, <2>2, <2>3, <2>4
<1> QED BY <1>10, <1>11, <1>12, <1>13 DEF UdpInv

(* The port of an entry is changed; the rest of the table stays.           *)
LEMMA PortChanges ==
  ASSUME UdpSizes, NEW t, UdpTyped(t), NEW slot \in Slots, NEW port \in {0, BindPort},
         NEW e, e = [t.conns EXCEPT ![slot].lport = port]
  PROVE  /\ e = [i \in Slots |-> [lport |-> e[i].lport, rport |-> e[i].rport, ripaddr |-> e[i].ripaddr]]
         /\ \A i \in Slots : e[i].lport = IF i = slot THEN port ELSE t.conns[i].lport
         /\ \A i \in Slots : e[i].lport \in {0, BindPort} \cup NewPorts
         /\ \A i \in Slots : e[i].lport = t.conns[i].lport \/ e[i].lport \notin Cycle
<1> DEFINE c == t.conns
<1>1. /\ c = [i \in Slots |-> [lport |-> c[i].lport, rport |-> c[i].rport, ripaddr |-> c[i].ripaddr]]
      /\ \A i \in Slots : c[i].lport \in {0, BindPort} \cup NewPorts
  BY DEF UdpTyped
<1> HIDE DEF c
<1>2. e = [c EXCEPT ![slot].lport = port] BY DEF c
<1>3. /\ e = [i \in Slots |-> [lport |-> e[i].lport, rport |-> e[i].rport, ripaddr |-> e[i].ripaddr]]
      /\ \A i \in Slots : e[i].lport = IF i = slot THEN port ELSE c[i].lport
  <2> DEFINE new == [lport |-> port, rport |-> c[slot].rport, ripaddr |-> c[slot].ripaddr]
  <2>1. e = [c EXCEPT ![slot] = new]
    <3>1. c[slot] = [lport |-> c[slot].lport, rport |-> c[slot].rport, ripaddr |-> c[slot].ripaddr]
      BY <1>1
    <3>2. new = [c[slot] EXCEPT !.lport = port] BY <3>1
    <3> QED BY <1>2, <3>2
  <2>2. new.lport = port /\ new = [lport |-> new.lport, rport |-> new.rport, ripaddr |-> new.ripaddr]
    OBVIOUS
  <2> HIDE DEF new
  <2>3. /\ e = [i \in Slots |-> e[i]] /\ e[slot] = new
        /\ \A i \in Slots : i # slot => e[i] = c[i]
    BY <1>1, <2>1
  <2>4. \A i \in Slots : e[i] = [lport |-> e[i].lport, rport |-> e[i].rport, ripaddr |-> e[i].ripaddr]
    <3> SUFFICES ASSUME NEW i \in Slots
                 PROVE  e[i] = [lport |-> e[i].lport, rport |-> e[i].rport, ripaddr |-> e[i].ripaddr]
      OBVIOUS
    <3>1. CASE i = slot BY <2>2, <2>3, <3>1
    <3>2. CASE i # slot
      <4>1. e[i] = c[i] BY <2>3, <3>2
      <4> QED BY <1>1, <4>1
    <3> QED BY <3>1, <3>2
  <2> QED BY <2>2, <2>3, <2>4
<1>4. 0 \notin Cycle /\ BindPort \notin Cycle BY DEF UdpSizes, Cycle
<1>5. \A i \in Slots : /\ e[i].lport \in {0, BindPort} \cup NewPorts
                       /\ e[i].lport = c[i].lport \/ e[i].lport \notin Cycle
  BY <1>1, <1>3, <1>4
<1> QED BY <1>3, <1>5 DEF c

LEMMA BindInv == ASSUME UdpSizes, UdpInv, NEW slot \in Slots, Bind(slot) PROVE UdpInv'
<1> DEFINE c == udp.conns
           e == [c EXCEPT ![slot].lport = BindPort]
<1>1. UdpTyped(udp) /\ DistinctPorts(c) /\ UdpPlaced(udp) /\ LatePlaced(udp) BY DEF UdpInv
<1>2. udp' = [udp EXCEPT !.conns = e] /\ \A i \in Slots : c[i].lport # BindPort
  BY DEF Bind, uip_udp_bind, UdpPorts
<1>3. /\ e = [i \in Slots |-> [lport |-> e[i].lport, rport |-> e[i].rport, ripaddr |-> e[i].ripaddr]]
      /\ \A i \in Slots : e[i].lport = IF i = slot THEN BindPort ELSE c[i].lport
      /\ \A i \in Slots : e[i].lport \in {0, BindPort} \cup NewPorts
      /\ \A i \in Slots : e[i].lport = c[i].lport \/ e[i].lport \notin Cycle
  BY <1>1, PortChanges
<1> HIDE DEF e
<1>4. udp' = [conns |-> e, lastport |-> udp.lastport, hostaddr |-> udp.hostaddr,
              age |-> udp.age, late |-> udp.late, lateage |-> udp.lateage]
  BY <1>1, <1>2 DEF UdpTyped
<1>5. UdpTyped(udp)' BY <1>1, <1>3, <1>4 DEF UdpTyped
<1>6. DistinctPorts(udp.conns)' BY <1>1, <1>2, <1>3, <1>4 DEF DistinctPorts
<1>7. UdpPlaced(udp)'
  <2> SUFFICES ASSUME NEW i \in Slots, e[i].lport \in NewPorts
               PROVE  Placed(e, e[i].lport, udp.lastport, udp.age[i])
    BY <1>4 DEF UdpPlaced
  <2>1. e[i].lport = c[i].lport BY <1>3, PortsApart
  <2>2. Placed(c, c[i].lport, udp.lastport, udp.age[i]) BY <1>1, <2>1 DEF UdpPlaced
  <2>3. udp.age[i] \in Nat /\ udp.lastport \in LastPorts BY <1>1 DEF UdpTyped
  <2> QED BY <1>3, <2>1, <2>2, <2>3, PlacedSame
<1>8. LatePlaced(udp)'
  <2> DEFINE l == udp.late.lport
  <2> SUFFICES ASSUME udp.late # Unbound
               PROVE  /\ l \in NewPorts /\ Placed(e, l, udp.lastport, udp.lateage)
                      /\ udp.lateage + UIP_UDP_CONNS < Lap => \A i \in Slots : e[i].lport # l
    BY <1>4 DEF LatePlaced
  <2>1. /\ l \in NewPorts /\ Placed(c, l, udp.lastport, udp.lateage)
        /\ udp.lateage \in Nat /\ udp.lastport \in LastPorts
        /\ udp.lateage + UIP_UDP_CONNS < Lap => \A i \in Slots : c[i].lport # l
    BY <1>1 DEF LatePlaced, UdpTyped
  <2> HIDE DEF l, c
  <2>2. Placed(e, l, udp.lastport, udp.lateage) BY <1>3, <2>1, PlacedSame
  <2> QED BY <1>3, <2>1, <2>2, PortsApart
<1> QED BY <1>5, <1>6, <1>7, <1>8 DEF UdpInv

LEMMA RemoveInv == ASSUME UdpSizes, UdpInv, NEW slot \in Slots, RemoveUdp(slot) PROVE UdpInv'
<1> DEFINE c == udp.conns
           e == [c EXCEPT ![slot].lport = 0]
           conn == c[slot]
           kept == conn.lport = BindPort
           late == IF kept THEN udp.late ELSE conn
           lateage == IF kept THEN udp.lateage ELSE udp.age[slot]
           age == [udp.age EXCEPT ![slot] = 0]
<1>1. UdpTyped(udp) /\ DistinctPorts(c) /\ UdpPlaced(udp) /\ LatePlaced(udp) BY DEF UdpInv
<1>2. conn.lport # 0 /\ udp' = [udp EXCEPT !.conns = e, !.age[slot] = 0, !.late = late, !.lateage = lateage]
  BY DEF RemoveUdp, uip_udp_remove
<1>3. /\ e = [i \in Slots |-> [lport |-> e[i].lport, rport |-> e[i].rport, ripaddr |-> e[i].ripaddr]]
      /\ \A i \in Slots : e[i].lport = IF i = slot THEN 0 ELSE c[i].lport
      /\ \A i \in Slots : e[i].lport \in {0, BindPort} \cup NewPorts
      /\ \A i \in Slots : e[i].lport = c[i].lport \/ e[i].lport \notin Cycle
  BY <1>1, PortChanges
<1>4. udp' = [conns |-> e, lastport |-> udp.lastport, hostaddr |-> udp.hostaddr,
              age |-> age, late |-> late, lateage |-> lateage]
  <2> HIDE DEF e, late, lateage
  <2> QED BY <1>1, <1>2 DEF UdpTyped
<1>a. /\ udp.age \in [Slots -> Nat] /\ age \in [Slots -> Nat] /\ lateage \in Nat
      /\ \A i \in Slots : age[i] = IF i = slot THEN 0 ELSE udp.age[i]
  BY <1>1 DEF UdpTyped
<1>p. udp.lastport \in LastPorts /\ conn.lport \in {0, BindPort} \cup NewPorts BY <1>1 DEF UdpTyped
<1> HIDE DEF e, age
<1>5. UdpTyped(udp)'
  <2> HIDE DEF late, lateage
  <2> QED BY <1>1, <1>3, <1>4, <1>a DEF UdpTyped
<1>6. DistinctPorts(udp.conns)' BY <1>1, <1>3, <1>4 DEF DistinctPorts
<1>7. UdpPlaced(udp)'
  <2> SUFFICES ASSUME NEW i \in Slots, e[i].lport \in NewPorts
               PROVE  Placed(e, e[i].lport, udp.lastport, age[i])
    BY <1>4 DEF UdpPlaced
  <2>1. i # slot /\ e[i].lport = c[i].lport /\ age[i] = udp.age[i] BY <1>3, <1>a, PortsApart
  <2>2. Placed(c, c[i].lport, udp.lastport, udp.age[i]) BY <1>1, <2>1 DEF UdpPlaced
  <2>3. udp.age[i] \in Nat BY <1>a
  <2> QED BY <1>3, <1>p, <2>1, <2>2, <2>3, PlacedSame
<1>8. LatePlaced(udp)'
  <2> SUFFICES ASSUME late # Unbound
               PROVE  /\ late.lport \in NewPorts /\ Placed(e, late.lport, udp.lastport, lateage)
                      /\ lateage + UIP_UDP_CONNS < Lap => \A i \in Slots : e[i].lport # late.lport
    BY <1>4 DEF LatePlaced
  <2>1. /\ late.lport \in NewPorts /\ Placed(c, late.lport, udp.lastport, lateage)
        /\ lateage + UIP_UDP_CONNS < Lap => \A i \in Slots : i # slot => c[i].lport # late.lport
    <3>1. CASE kept
      <4>1. late = udp.late /\ lateage = udp.lateage BY <3>1
      <4> QED BY <1>1, <4>1 DEF LatePlaced
    <3>2. CASE ~kept
      <4>1. late = conn /\ lateage = udp.age[slot] BY <3>2
      <4>2. conn.lport \in NewPorts BY <1>2, <1>p, <3>2
      <4>3. Placed(c, conn.lport, udp.lastport, udp.age[slot]) BY <1>1, <4>2 DEF UdpPlaced
      <4>4. \A i \in Slots : i # slot => c[i].lport # conn.lport BY <1>1, <1>2 DEF DistinctPorts
      <4> QED BY <4>1, <4>2, <4>3, <4>4
    <3> QED BY <3>1, <3>2
  <2> HIDE DEF late, lateage, c
  <2>2. Placed(e, late.lport, udp.lastport, lateage) BY <1>3, <1>a, <1>p, <2>1, PlacedSame
  <2> QED BY <1>3, <2>1, <2>2, PortsApart
<1> QED BY <1>5, <1>6, <1>7, <1>8 DEF UdpInv

LEMMA UdpNextInv == ASSUME UdpSizes PROVE UdpInv /\ [UdpNext]_udp => UdpInv'
<1> SUFFICES ASSUME UdpInv, [UdpNext]_udp PROVE UdpInv' OBVIOUS
<1>1. ASSUME NEW addr \in Peers \cup {all_ones_addr}, NEW rport \in Servers, New(addr, rport)
      PROVE  UdpInv'
  BY <1>1, NewInv
<1>2. ASSUME NEW slot \in Slots, Bind(slot) PROVE UdpInv' BY <1>2, BindInv
<1>3. ASSUME NEW slot \in Slots, RemoveUdp(slot) PROVE UdpInv' BY <1>3, RemoveInv
<1>4. CASE Configured
  <2>1. PICK addr \in HostAddrs : udp' = [udp EXCEPT !.hostaddr = addr] BY <1>4 DEF Configured
  <2>2. udp' = [conns |-> udp.conns, lastport |-> udp.lastport, hostaddr |-> addr,
                age |-> udp.age, late |-> udp.late, lateage |-> udp.lateage]
    BY <2>1 DEF UdpInv, UdpTyped
  <2> QED BY <2>2 DEF UdpInv, UdpTyped, UdpPlaced, LatePlaced
<1>5. CASE UNCHANGED udp BY <1>5 DEF UdpInv
<1> QED BY <1>1, <1>2, <1>3, <1>4, <1>5 DEF UdpNext

(***************************************************************************)
(* Where answers go.                                                       *)
(***************************************************************************)

(* What an answer to a connection looks like.                              *)
LEMMA AnswerIs ==
  ASSUME NEW q, NEW p \in Answers(q)
  PROVE  /\ p.destport = q.srcport /\ p.srcport = q.destport
         /\ p.src = q.dest \/ q.dest = all_ones_addr
         /\ p.dest \in {udp.hostaddr, all_ones_addr}
         /\ p.vhl = "0x45" /\ p.whole /\ ~p.fragment /\ p.checked /\ p.proto = "udp"
BY DEF Answers

(* An answer finds the connection that it is for.                          *)
LEMMA AnswersFound ==
  ASSUME UdpSizes, UdpInv, NEW i \in Slots, udp.conns[i].lport # 0,
         NEW p \in Answers(UdpSent(udp.conns, i, udp.hostaddr))
  PROVE  IpInput(p, udp.hostaddr) = "udp" /\ UdpFound(udp.conns, p) = i
<1> DEFINE c == udp.conns
           q == UdpSent(c, i, udp.hostaddr)
<1>q. q.srcport = c[i].lport /\ q.destport = c[i].rport /\ q.dest = c[i].ripaddr BY DEF UdpSent
<1> HIDE DEF q
<1>1. /\ p.destport = c[i].lport /\ p.srcport = c[i].rport
      /\ p.src = c[i].ripaddr \/ c[i].ripaddr = all_ones_addr
      /\ p.dest \in {udp.hostaddr, all_ones_addr}
      /\ p.vhl = "0x45" /\ p.whole /\ ~p.fragment /\ p.checked /\ p.proto = "udp"
  BY <1>q, AnswerIs DEF q
<1>2. IpInput(p, udp.hostaddr) = "udp" BY <1>1 DEF IpInput, WellFormed, UdpBroadcast, ForUs, Protocols
<1>3. DistinctPorts(c) BY DEF UdpInv
<1> HIDE DEF c
<1>4. {k \in Slots : MatchesUdp(c[k], p)} = {i}
  <2>1. MatchesUdp(c[i], p) BY <1>1 DEF MatchesUdp, c
  <2>2. \A k \in Slots : MatchesUdp(c[k], p) => k = i BY <1>1, <1>3 DEF MatchesUdp, DistinctPorts
  <2> QED BY <2>1, <2>2
<1>5. Min({i}) = i
  <2>1. {i} \in SUBSET Nat /\ {i} # {} BY DEF Slots
  <2> QED BY <2>1, MinIs
<1> QED BY <1>2, <1>4, <1>5 DEF UdpFound, c

(* A late one finds none.                                                  *)
LEMMA LateNotFound ==
  ASSUME UdpSizes, UdpInv, udp.late # Unbound, udp.lateage + UIP_UDP_CONNS < Lap, NEW p \in LateAnswers
  PROVE  UdpFound(udp.conns, p) = -1
<1> DEFINE q == UdpSent([i \in Slots |-> udp.late], 0, udp.hostaddr)
<1>1. q.srcport = udp.late.lport
  <2>1. 0 \in Slots BY DEF Slots, UdpSizes
  <2> QED BY <2>1 DEF UdpSent
<1> HIDE DEF q
<1>2. p.destport = udp.late.lport BY <1>1, AnswerIs DEF LateAnswers, q
<1>3. \A i \in Slots : udp.conns[i].lport # udp.late.lport BY DEF UdpInv, LatePlaced
<1>4. \A i \in Slots : ~MatchesUdp(udp.conns[i], p) BY <1>2, <1>3 DEF MatchesUdp
<1> QED BY <1>4 DEF UdpFound

(* Every answer to a packet of a UDP connection reaches that connection,   *)
(* and none that comes late reaches another, for tables and ranges of      *)
(* ports of any size (uip_udp_new and udp_input of uip.c).                 *)
THEOREM AnswersReach == UdpSpec => []RepliesFound
<1> USE UdpAssumption
<1>1. UdpInit => UdpInv BY UdpInitInv
<1>2. UdpInv /\ [UdpNext]_udp => UdpInv' BY UdpNextInv
<1>3. UdpInv => RepliesFound BY AnswersFound, LateNotFound DEF RepliesFound
<1> QED BY <1>1, <1>2, <1>3, PTL DEF UdpSpec

(***************************************************************************)
(* The checksums (UipChksum).  A sum that carries round is a sum but for   *)
(* multiples of 65535, and is never zero when anything was added: what     *)
(* changes the words of a message by nothing in all, as the adjusted       *)
(* checksum of an echo reply does, leaves the sum what it was; what        *)
(* changes one of them by less than 65535 does not.                        *)
(***************************************************************************)

(* Numbers of 16 bits.                                                     *)
U16 == {n \in Nat : n < 65536}

(* A word and its octets.                                                  *)
LEMMA OctetIs == \A a : a \in Octet <=> a \in Int /\ 0 <= a /\ a <= 255
BY SMT DEF Octet

LEMMA U16Is == \A n : n \in U16 <=> n \in Int /\ 0 <= n /\ n < 65536
BY SMT DEF U16

LEMMA HalvesOf ==
  ASSUME NEW a \in Octet, NEW b \in Octet
  PROVE  /\ 256 * a + b \in U16
         /\ (256 * a + b) \div 256 = a /\ (256 * a + b) % 256 = b
<1>1. a \in Int /\ b \in Int /\ 0 <= a /\ a <= 255 /\ 0 <= b /\ b <= 255 BY OctetIs
<1>2. 256 * a + b \in Int /\ 0 <= 256 * a + b /\ 256 * a + b < 65536 BY <1>1, SMT
<1>3. 256 * a + b \in U16 BY <1>2, U16Is
<1>4. (256 * a + b) \div 256 = a BY <1>1, SMT
<1>5. (256 * a + b) % 256 = b BY <1>1, SMT
<1> QED BY <1>3, <1>4, <1>5

LEMMA Halves ==
  ASSUME NEW n \in U16
  PROVE  /\ n \div 256 \in Octet /\ n % 256 \in Octet
         /\ n = 256 * (n \div 256) + (n % 256)
<1>1. n \in Int /\ 0 <= n /\ n < 65536 BY U16Is
<1>2. n \div 256 \in 0..255 BY <1>1, SMT
<1>3. n % 256 \in 0..255 BY <1>1, SMT
<1>4. n = 256 * (n \div 256) + (n % 256) BY <1>1, SMT
<1> QED BY <1>2, <1>3, <1>4 DEF Octet

LEMMA Swapped ==
  ASSUME NEW a \in Octet, NEW b \in Octet
  PROVE  /\ htons(256 * a + b) = 256 * b + a
         /\ 256 * a + b \in U16 /\ 256 * b + a \in U16
BY HalvesOf DEF htons

LEMMA SwapTwice ==
  ASSUME NEW n \in U16
  PROVE  htons(n) \in U16 /\ htons(htons(n)) = n
<1> DEFINE a == n \div 256  b == n % 256
<1>1. a \in Octet /\ b \in Octet /\ n = 256 * a + b BY Halves
<1>2. htons(n) = 256 * b + a BY DEF htons
<1> HIDE DEF a, b
<1> QED BY <1>1, <1>2, Swapped

LEMMA SwapNot ==
  ASSUME NEW n \in U16
  PROVE  htons(Not16(n)) = Not16(htons(n)) /\ Not16(n) \in U16
<1> DEFINE a == n \div 256  b == n % 256
<1>1. a \in Octet /\ b \in Octet /\ n = 256 * a + b BY Halves
<1>2. htons(n) = 256 * b + a BY DEF htons
<1> HIDE DEF a, b
<1>i. a \in Int /\ b \in Int /\ 0 <= a /\ a <= 255 /\ 0 <= b /\ b <= 255 BY <1>1, OctetIs
<1> DEFINE c == 255 - a  d == 255 - b
<1>3. c \in Octet /\ d \in Octet /\ c = 255 - a /\ d = 255 - b /\ c \in Int /\ d \in Int
  BY <1>i, OctetIs
<1> HIDE DEF c, d
<1>4. Not16(n) = 256 * c + d BY <1>1, <1>i, <1>3 DEF Not16
<1>5. htons(Not16(n)) = 256 * d + c BY <1>3, <1>4, Swapped
<1>6. Not16(htons(n)) = 256 * d + c BY <1>2, <1>i, <1>3 DEF Not16
<1>7. Not16(n) \in U16 BY <1>3, <1>4, Swapped
<1> QED BY <1>5, <1>6, <1>7

(* Sums that are the same but for the carries.                             *)
Carries(q) == 65535 * q
Cong(a, b) == \E q \in Int : a = b + Carries(q)

LEMMA CarriesAre ==
  ASSUME NEW q \in Int, NEW p \in Int
  PROVE  /\ Carries(q) \in Int /\ Carries(q) + Carries(p) = Carries(q + p)
         /\ 256 * Carries(q) = Carries(256 * q) /\ Carries(0) = 0
BY SMT DEF Carries

LEMMA CongMoves ==
  ASSUME NEW a \in Int, NEW b \in Int, NEW c \in Int, NEW d \in Int, Cong(a, b), Cong(c, d)
  PROVE  Cong(a + c, b + d) /\ Cong(256 * a, 256 * b)
<1>1. PICK q \in Int : a = b + Carries(q) BY DEF Cong
<1>2. PICK p \in Int : c = d + Carries(p) BY DEF Cong
<1>3. a + c = (b + d) + Carries(q + p) /\ q + p \in Int BY <1>1, <1>2, SMT DEF Carries
<1>4. 256 * a = 256 * b + Carries(256 * q) /\ 256 * q \in Int BY <1>1, SMT DEF Carries
<1> QED BY <1>3, <1>4 DEF Cong

LEMMA CongSame == ASSUME NEW a \in Int PROVE Cong(a, a)
<1>1. a = a + Carries(0) BY CarriesAre
<1> QED BY <1>1 DEF Cong

LEMMA CongChain ==
  ASSUME NEW a \in Int, NEW b \in Int, NEW c \in Int, Cong(a, b), Cong(b, c)
  PROVE  Cong(a, c)
<1>1. PICK q \in Int : a = b + Carries(q) BY DEF Cong
<1>2. PICK p \in Int : b = c + Carries(p) BY DEF Cong
<1>3. a = c + Carries(q + p) /\ q + p \in Int BY <1>1, <1>2, SMT DEF Carries
<1> QED BY <1>3 DEF Cong

LEMMA CongBack == ASSUME NEW a \in Int, NEW b \in Int, Cong(a, b) PROVE Cong(b, a)
<1>1. PICK q \in Int : a = b + Carries(q) BY DEF Cong
<1>2. b = a + Carries(-q) /\ -q \in Int BY <1>1, SMT DEF Carries
<1> QED BY <1>2 DEF Cong

(* Two sums that are not zero are the same when they agree but for carries.*)
LEMMA CongEqual ==
  ASSUME NEW a \in U16, NEW b \in U16, a # 0, b # 0, Cong(a, b)
  PROVE  a = b
<1>1. PICK q \in Int : a = b + Carries(q) BY DEF Cong
<1>t. a \in Int /\ 0 < a /\ a < 65536 /\ b \in Int /\ 0 < b /\ b < 65536 BY U16Is
<1>2. ~(q >= 1) BY <1>1, <1>t, SMT DEF Carries
<1>3. ~(q <= -1) BY <1>1, <1>t, SMT DEF Carries
<1>4. q = 0 BY <1>2, <1>3, SMT
<1> QED BY <1>1, <1>4, <1>t, CarriesAre

(* A difference of less than a carry is not nothing.                       *)
LEMMA CongSmall ==
  ASSUME NEW d \in Int, -65535 < d, d < 65535, Cong(d, 0)
  PROVE  d = 0
<1>1. PICK q \in Int : d = 0 + Carries(q) BY DEF Cong
<1>2. ~(q >= 1) BY <1>1, SMT DEF Carries
<1>3. ~(q <= -1) BY <1>1, SMT DEF Carries
<1>4. q = 0 BY <1>2, <1>3, SMT
<1> QED BY <1>1, <1>4, CarriesAre

LEMMA SwapCong ==
  ASSUME NEW n \in U16
  PROVE  Cong(htons(n), 256 * n)
<1> DEFINE a == n \div 256  b == n % 256
<1>1. a \in Octet /\ b \in Octet /\ n = 256 * a + b BY Halves
<1>2. htons(n) = 256 * b + a BY DEF htons
<1> HIDE DEF a, b
<1>i. a \in Int /\ b \in Int BY <1>1, OctetIs
<1>3. htons(n) = 256 * n + Carries(-a) /\ -a \in Int BY <1>1, <1>2, <1>i, SMT DEF Carries
<1> QED BY <1>3 DEF Cong

LEMMA AddIs ==
  ASSUME NEW x \in U16, NEW t \in U16
  PROVE  /\ Add(x, t) \in U16 /\ Cong(Add(x, t), x + t)
         /\ Add(x, t) = 0 => x = 0 /\ t = 0
<1> DEFINE z == x + t
<1>1. x \in Int /\ 0 <= x /\ x < 65536 /\ t \in Int /\ 0 <= t /\ t < 65536 BY U16Is
<1>4. z \in Int BY <1>1
<1>2. CASE z < 65536
  <2>1. u16(z) = z BY <1>1, <1>2, SMT DEF u16
  <2>2. Add(x, t) = z BY <1>1, <2>1, SMT DEF Add
  <2>3. z \in U16 BY <1>1, <1>2, SMT, U16Is
  <2>4. z = 0 => x = 0 /\ t = 0 BY <1>1, SMT
  <2>5. Cong(z, z) BY <1>4, CongSame
  <2> QED BY <2>2, <2>3, <2>4, <2>5, Zenon
<1>3. CASE z >= 65536
  <2> DEFINE y == z - 65535
  <2>1. u16(z) = z - 65536 BY <1>1, <1>3, SMT DEF u16
  <2>2. u16(z + 1) = y BY <1>1, <1>3, SMT DEF u16
  <2>3. Add(x, t) = y BY <1>1, <2>1, <2>2, SMT DEF Add
  <2>4. y = z + Carries(-1) /\ -1 \in Int BY <1>1, SMT DEF Carries
  <2>6. y \in Int /\ 0 < y /\ y < 65536 BY <1>1, <1>3, SMT
  <2>7. y \in U16 /\ y # 0 BY <2>6, SMT, U16Is
  <2> HIDE DEF y, z
  <2>5. Cong(y, z) BY <2>4 DEF Cong
  <2> QED BY <2>3, <2>5, <2>7 DEF z
<1> QED BY <1>1, <1>2, <1>3, SMT

(* The words of a message, and what the sum goes through.                  *)
Words(p) == (Len(p) + 1) \div 2

LEMMA WordsAre ==
  ASSUME NEW p \in Seq(Octet)
  PROVE  /\ Words(p) \in Nat /\ Len(p) \in Nat
         /\ \A i \in 1..Len(p) : p[i] \in Octet /\ (i + 1) \div 2 \in 1..Words(p)
         /\ \A k \in 1..Words(p) : 2 * k - 1 \in 1..Len(p) /\ WordAt(p, k) \in U16
<1>1. Len(p) \in Nat /\ \A i \in 1..Len(p) : p[i] \in Octet BY LenProperties, ElementOfSeq
<1>2. Words(p) \in Nat BY <1>1, SMT DEF Words
<1>3. ASSUME NEW i \in 1..Len(p) PROVE (i + 1) \div 2 \in 1..Words(p)
  <2>1. i \in Int /\ 1 <= i /\ i <= Len(p) BY <1>1
  <2>2. 1 <= (i + 1) \div 2 /\ (i + 1) \div 2 <= Words(p) /\ (i + 1) \div 2 \in Int
    BY <1>1, <2>1, SMT DEF Words
  <2> QED BY <1>2, <2>2
<1>4. ASSUME NEW k \in 1..Words(p) PROVE 2 * k - 1 \in 1..Len(p) /\ WordAt(p, k) \in U16
  <2>1. k \in Int /\ 1 <= k /\ k <= (Len(p) + 1) \div 2 BY <1>2 DEF Words
  <2>2. 2 * k - 1 \in 1..Len(p) BY <1>1, <2>1, SMT
  <2>3. 0 \in Octet /\ p[2 * k - 1] \in Octet BY <1>1, <2>2 DEF Octet
  <2>4. CASE 2 * k <= Len(p)
    <3>1. 2 * k \in 1..Len(p) BY <1>1, <2>1, <2>4
    <3>2. p[2 * k] \in Octet BY <1>1, <3>1
    <3>3. WordAt(p, k) = 256 * p[2 * k - 1] + p[2 * k] BY <2>4 DEF WordAt
    <3> QED BY <2>2, <2>3, <3>2, <3>3, HalvesOf
  <2>5. CASE ~(2 * k <= Len(p))
    <3>1. WordAt(p, k) = 256 * p[2 * k - 1] + 0 BY <2>5 DEF WordAt
    <3> QED BY <2>2, <2>3, <3>1, HalvesOf
  <2> QED BY <2>4, <2>5
<1> QED BY <1>1, <1>2, <1>3, <1>4

Sums(h, x, p) ==
  /\ h \in [0..Words(p) -> U16] /\ h[0] = x /\ h[Words(p)] = chksum(x, p)
  /\ \A k \in 1..Words(p) : h[k] = Add(h[k - 1], WordAt(p, k))

LEMMA SumSteps ==
  ASSUME NEW x \in U16, NEW p \in Seq(Octet)
  PROVE  \E h : Sums(h, x, p)
<1> DEFINE n == Words(p)
           q == [i \in 1..n |-> WordAt(p, i)]
           F == [u \in U16 |-> [t \in U16 |-> Add(u, t)]]
           Is(g) == g = [S \in SUBSET DOMAIN q |->
                           IF S = {} THEN x ELSE Add(g[S \ {Max(S)}], q[Max(S)])]
           g == CHOOSE e : Is(e)
<1>1. F \in [U16 -> [U16 -> U16]] BY AddIs
<1>2. \A u \in U16 : \A t \in U16 : F[u][t] = Add(u, t) OBVIOUS
<1>w. n \in Nat /\ \A k \in 1..n : WordAt(p, k) \in U16 BY WordsAre
<1>3. /\ q \in Seq(U16) /\ Len(q) = n /\ DOMAIN q = 1..n
      /\ \A i \in 1..n : q[i] = WordAt(p, i) /\ q[i] \in U16
  BY <1>w
<1>5. chksum(x, p) = g[DOMAIN q] BY DEF chksum, FoldLeft, MapThenFoldSet, Words
<1> HIDE DEF q
<1>m. ASSUME NEW S \in SUBSET DOMAIN q, S # {}
      PROVE  Max(S) \in DOMAIN q /\ S \ {Max(S)} \in SUBSET DOMAIN q
  <2>1. n \in Nat /\ S \in SUBSET (0..n) BY <1>3, <1>w
  <2> QED BY <1>m, <2>1, MaxIs
<1>4. Is(g)
  <2> HIDE DEF F, n
  <2>1. PICK e : Folded(e, U16, x, F, q) BY <1>1, <1>3, FoldExists
  <2>2. ASSUME NEW S \in SUBSET DOMAIN q
        PROVE  e[S] = IF S = {} THEN x ELSE Add(e[S \ {Max(S)}], q[Max(S)])
    BY <2>1, <1>2, <1>3, <1>m DEF Folded
  <2>3. e = [S \in SUBSET DOMAIN q |-> e[S]] BY <2>1 DEF Folded
  <2>4. Is(e) BY <2>2, <2>3
  <2> HIDE DEF Is
  <2> QED BY <2>4
<1> HIDE DEF g, n
<1>6. g[{}] = x BY <1>4
<1>7. ASSUME NEW S \in SUBSET DOMAIN q, S # {}, g[S \ {Max(S)}] \in U16
      PROVE  g[S] = F[g[S \ {Max(S)}]][q[Max(S)]]
  <2> HIDE DEF F
  <2>1. g[S] = Add(g[S \ {Max(S)}], q[Max(S)]) BY <1>4, <1>7
  <2> QED BY <1>2, <1>3, <1>m, <1>7, <2>1
<1>8. Folds(g, U16, F, q)
  <2> HIDE DEF F
  <2> QED BY <1>6, <1>7 DEF Folds
<1> HIDE DEF F
<1>h. PICK h : Through(h, g, U16, F, q) BY <1>1, <1>3, <1>8, FoldSteps
<1>9. /\ h \in [0..n -> U16] /\ h[0] = x /\ h[n] = g[DOMAIN q]
      /\ \A k \in 1..n : h[k] = F[h[k - 1]][q[k]]
  BY <1>3, <1>6, <1>h DEF Through
<1>10. \A k \in 1..n : h[k] = Add(h[k - 1], WordAt(p, k))
  <2> TAKE k \in 1..n
  <2>1. h[k - 1] \in U16 /\ q[k] \in U16 /\ q[k] = WordAt(p, k) BY <1>3, <1>9, <1>w
  <2> QED BY <1>2, <1>9, <2>1
<1> QED BY <1>5, <1>9, <1>10 DEF Sums, n

(* It is zero only when it began with zero and there was nothing else.     *)
LEMMA SumZero ==
  ASSUME NEW x \in U16, NEW p \in Seq(Octet)
  PROVE  /\ chksum(x, p) \in U16
         /\ chksum(x, p) = 0 => x = 0 /\ \A i \in 1..Len(p) : p[i] = 0
<1> DEFINE n == Words(p)
<1>1. PICK h : Sums(h, x, p) BY SumSteps
<1>2. /\ n \in Nat /\ Len(p) \in Nat
      /\ \A i \in 1..Len(p) : p[i] \in Octet /\ (i + 1) \div 2 \in 1..n
      /\ \A k \in 1..n : WordAt(p, k) \in U16
  BY WordsAre
<1>3. /\ h \in [0..n -> U16] /\ h[0] = x /\ h[n] = chksum(x, p)
      /\ \A k \in 1..n : h[k] = Add(h[k - 1], WordAt(p, k))
  BY <1>1 DEF Sums
<1> HIDE DEF n
<1>4. chksum(x, p) \in U16 BY <1>2, <1>3
<1>5. ASSUME chksum(x, p) = 0
      PROVE  x = 0 /\ \A k \in 1..n : WordAt(p, k) = 0
  <2> DEFINE Ok == {k \in 0..n : h[n - k] = 0}
  <2>1. 0 \in Ok BY <1>2, <1>3, <1>5
  <2>2. \A k \in 1..n : n - k \in 0..n /\ n - k + 1 \in 1..n /\ (n - k + 1) - 1 = n - k BY <1>2
  <2>3. \A k \in 1..n : k - 1 \in Ok => k \in Ok
    <3> TAKE k \in 1..n
    <3> HAVE k - 1 \in Ok
    <3>1. n - (k - 1) = n - k + 1 BY <1>2
    <3>2. h[n - k + 1] = Add(h[n - k], WordAt(p, n - k + 1)) BY <1>3, <2>2
    <3>3. h[n - k] \in U16 /\ WordAt(p, n - k + 1) \in U16 BY <1>2, <1>3, <2>2
    <3>4. h[n - k] = 0 BY <3>1, <3>2, <3>3, AddIs
    <3> QED BY <1>2, <3>4
  <2>4. \A k \in 0..n : k \in Ok
    <3> HIDE DEF Ok
    <3> QED BY <1>2, <2>1, <2>3, UpTo
  <2>5. x = 0
    <3>1. n \in Ok /\ n - n = 0 BY <1>2, <2>4
    <3> QED BY <1>3, <3>1
  <2>6. ASSUME NEW k \in 1..n PROVE WordAt(p, k) = 0
    <3>1. n - k \in 0..n /\ n - (n - k) = k BY <1>2
    <3>2. h[k] = 0 BY <2>4, <3>1
    <3>3. h[k - 1] \in U16 /\ WordAt(p, k) \in U16 BY <1>2, <1>3
    <3> QED BY <1>3, <3>2, <3>3, AddIs
  <2> QED BY <2>5, <2>6
<1>6. ASSUME NEW i \in 1..Len(p), \A k \in 1..n : WordAt(p, k) = 0 PROVE p[i] = 0
  <2> DEFINE k == (i + 1) \div 2
  <2>1. k \in 1..n /\ WordAt(p, k) = 0 BY <1>2, <1>6
  <2>2. i \in Int /\ 1 <= i /\ i <= Len(p) BY <1>2
  <2>3. k \in Int /\ (i = 2 * k \/ i = 2 * k - 1) BY <2>2, SMT
  <2>4. 2 * k - 1 \in 1..Len(p) BY <2>1, WordsAre DEF n
  <2> HIDE DEF k
  <2>5. WordAt(p, k) = 256 * p[2 * k - 1] + (IF 2 * k <= Len(p) THEN p[2 * k] ELSE 0)
    BY DEF WordAt
  <2>6. p[2 * k - 1] \in Int /\ 0 <= p[2 * k - 1] BY <1>2, <2>4, OctetIs
  <2>7. CASE i = 2 * k
    <3>1. p[2 * k] \in Int /\ 0 <= p[2 * k] BY <1>2, <2>7, OctetIs
    <3>2. 256 * p[2 * k - 1] + p[2 * k] = 0 BY <2>1, <2>2, <2>5, <2>7
    <3> QED BY <2>6, <2>7, <3>1, <3>2
  <2>8. CASE i = 2 * k - 1
    <3>1. CASE 2 * k <= Len(p)
      <4>1. 2 * k \in 1..Len(p) BY <2>2, <2>3, <2>8, <3>1, <1>2
      <4>2. p[2 * k] \in Int /\ 0 <= p[2 * k] BY <1>2, <4>1, OctetIs
      <4>3. 256 * p[2 * k - 1] + p[2 * k] = 0 BY <2>1, <2>5, <3>1
      <4> QED BY <2>6, <2>8, <4>2, <4>3
    <3>2. CASE ~(2 * k <= Len(p)) BY <2>1, <2>5, <2>6, <2>8, <3>2
    <3> QED BY <3>1, <3>2
  <2> QED BY <2>3, <2>7, <2>8
<1> QED BY <1>4, <1>5, <1>6

(* One word changed by d, and where the sum begins, changes it by as much. *)
LEMMA SumShift ==
  ASSUME NEW x \in U16, NEW p \in Seq(Octet), NEW q \in Seq(Octet), Len(p) = Len(q),
         NEW j \in 1..Words(p), NEW d \in Int, Cong(WordAt(q, j), WordAt(p, j) + d),
         \A k \in 1..Words(p) : k # j => WordAt(q, k) = WordAt(p, k)
  PROVE  Cong(chksum(x, q), chksum(x, p) + d)
<1> DEFINE n == Words(p)
           at(k) == IF k >= j THEN d ELSE 0
<1>1. PICK h : Sums(h, x, p) BY SumSteps
<1>2. PICK g : Sums(g, x, q) BY SumSteps
<1>3. /\ n \in Nat /\ Words(q) = n
      /\ \A k \in 1..n : WordAt(p, k) \in U16 /\ WordAt(q, k) \in U16
  BY WordsAre DEF Words
<1>4. /\ h \in [0..n -> U16] /\ h[0] = x /\ h[n] = chksum(x, p)
      /\ \A k \in 1..n : h[k] = Add(h[k - 1], WordAt(p, k))
  BY <1>1 DEF Sums
<1>5. /\ g \in [0..n -> U16] /\ g[0] = x /\ g[n] = chksum(x, q)
      /\ \A k \in 1..n : g[k] = Add(g[k - 1], WordAt(q, k))
  BY <1>2, <1>3 DEF Sums
<1>i. /\ \A k \in 0..n : h[k] \in U16 /\ h[k] \in Int /\ g[k] \in U16 /\ g[k] \in Int
      /\ \A k \in 1..n : WordAt(p, k) \in Int /\ WordAt(q, k) \in Int
      /\ \A k \in 0..n : at(k) \in Int
  <2>1. \A k \in 0..n : h[k] \in U16 /\ g[k] \in U16
    <3> HIDE DEF n
    <3> QED BY <1>4, <1>5
  <2>2. \A k \in 0..n : at(k) \in Int OBVIOUS
  <2> HIDE DEF n, at
  <2> QED BY <1>3, <2>1, <2>2, U16Is
<1>j. j \in 1..n OBVIOUS
<1> HIDE DEF n
<1> DEFINE Ok == {k \in 0..n : Cong(g[k], h[k] + at(k))}
<1>6. 0 \in Ok
  <2>1. at(0) = 0 BY <1>j, <1>3
  <2> HIDE DEF at
  <2>2. h[0] + at(0) = g[0] /\ 0 \in 0..n BY <1>3, <1>4, <1>5, <1>i, <2>1
  <2> QED BY <1>i, <2>2, CongSame
<1>7. \A k \in 1..n : k - 1 \in Ok => k \in Ok
  <2> TAKE k \in 1..n
  <2> HAVE k - 1 \in Ok
  <2> DEFINE a == WordAt(p, k)  b == WordAt(q, k)  e == at(k) - at(k - 1)
  <2>1. k - 1 \in 0..n /\ k \in 0..n BY <1>3
  <2>2. e \in Int /\ at(k) \in Int /\ at(k - 1) \in Int /\ a \in Int /\ b \in Int BY <1>i, <2>1
  <2>3. Cong(b, a + e)
    <3>1. CASE k = j
      <4>1. e = d BY <1>3, <3>1
      <4> QED BY <3>1, <4>1
    <3>2. CASE k # j
      <4>1. e = 0 BY <1>3, <1>j, <3>2
      <4>2. b = a /\ a + 0 = a BY <3>2, <2>2 DEF n
      <4> HIDE DEF e, a, b
      <4> QED BY <2>2, <4>1, <4>2, CongSame
    <3> QED BY <3>1, <3>2
  <2> HIDE DEF at
  <2>h. h[k - 1] \in U16 /\ g[k - 1] \in U16 /\ h[k - 1] \in Int /\ g[k - 1] \in Int
        /\ h[k] \in Int /\ g[k] \in Int /\ a \in U16 /\ b \in U16
    BY <1>i, <1>3, <2>1
  <2>4. Cong(g[k - 1], h[k - 1] + at(k - 1)) OBVIOUS
  <2>5. e = at(k) - at(k - 1) OBVIOUS
  <2>6. h[k] = Add(h[k - 1], a) /\ g[k] = Add(g[k - 1], b) BY <1>4, <1>5
  <2> HIDE DEF a, b, e
  <2>7. Cong(g[k], g[k - 1] + b) /\ Cong(h[k], h[k - 1] + a) BY <2>6, <2>h, AddIs
  <2> DEFINE u == h[k - 1] + at(k - 1)  v == a + e  w == h[k - 1] + a
  <2>8. u \in Int /\ v \in Int /\ w \in Int /\ g[k - 1] + b \in Int
    <3>1. b \in Int /\ a \in Int BY <2>2
    <3>2. g[k - 1] + b \in Int BY <2>h, <3>1
    <3>3. w \in Int BY <2>h, <3>1
    <3>4. u \in Int /\ v \in Int BY <2>h, <2>2
    <3> QED BY <3>2, <3>3, <3>4
  <2>9. Cong(g[k - 1] + b, u + v)
    <3> HIDE DEF u, v
    <3> QED BY <2>h, <2>2, <2>3, <2>4, <2>8, CongMoves DEF u, v
  <2>10. u + v = w + at(k)
    <3> DEFINE r == h[k - 1]  y == at(k - 1)  z == at(k)
    <3>1. r \in Int /\ y \in Int /\ z \in Int /\ a \in Int /\ e \in Int /\ e = z - y
      BY <2>h, <2>2, <2>5
    <3> HIDE DEF r, y, z
    <3>2. (r + y) + (a + e) = (r + a) + z BY <3>1
    <3> QED BY <3>2 DEF r, y, z
  <2>11. Cong(w + at(k), h[k] + at(k))
    <3>1. Cong(w, h[k]) /\ Cong(at(k), at(k)) BY <2>7, <2>8, <2>h, <2>2, CongBack, CongSame
    <3> HIDE DEF w
    <3> QED BY <3>1, <2>8, <2>h, <2>2, CongMoves
  <2>12. Cong(g[k], w + at(k))
    <3> HIDE DEF u, v, w
    <3>1. Cong(g[k - 1] + b, w + at(k)) /\ w + at(k) \in Int BY <2>9, <2>10, <2>8, <2>2
    <3> QED BY <3>1, <2>7, <2>8, <2>h, CongChain
  <2>13. Cong(g[k], h[k] + at(k))
    <3> HIDE DEF w
    <3>1. \A r, s \in Int : r + s \in Int OBVIOUS
    <3>2. w + at(k) \in Int /\ h[k] + at(k) \in Int BY <3>1, <2>8, <2>h, <2>2, Zenon
    <3> QED BY <3>2, <2>11, <2>12, <2>h, CongChain
  <2> QED BY <2>1, <2>13
<1>8. n \in Ok
  <2> HIDE DEF Ok
  <2>1. \A k \in 0..n : k \in Ok BY <1>3, <1>6, <1>7, UpTo
  <2> QED BY <2>1, <1>3
<1>9. at(n) = d BY <1>3, <1>j
<1> QED BY <1>4, <1>5, <1>8, <1>9

(* A word stored in a message, most often a checksum, and the sum then.    *)
LEMMA StoreIs ==
  ASSUME NEW p \in Seq(Octet), NEW i \in 1..(Len(p) - 1), NEW n \in U16
  PROVE  /\ Store(p, i, n) \in Seq(Octet) /\ Len(Store(p, i, n)) = Len(p)
         /\ Store(p, i, n)[i] = n % 256 /\ Store(p, i, n)[i + 1] = n \div 256
         /\ \A j \in 1..Len(p) : j # i /\ j # i + 1 => Store(p, i, n)[j] = p[j]
<1> DEFINE a == n % 256  b == n \div 256  q == [p EXCEPT ![i] = a]  r == [q EXCEPT ![i + 1] = b]
<1>1. a \in Octet /\ b \in Octet BY Halves
<1>2. Len(p) \in Nat /\ i \in 1..Len(p) /\ i + 1 \in 1..Len(p) /\ i \in Int BY LenProperties
<1> HIDE DEF a, b
<1>3. /\ q \in Seq(Octet) /\ Len(q) = Len(p)
      /\ \A j \in 1..Len(p) : q[j] = IF j = i THEN a ELSE p[j]
  BY <1>1, <1>2, ExceptSeq
<1>4. Store(p, i, n) = r BY DEF Store, a, b
<1> HIDE DEF q
<1>5. /\ r \in Seq(Octet) /\ Len(r) = Len(p)
      /\ \A j \in 1..Len(p) : r[j] = IF j = i + 1 THEN b ELSE q[j]
  BY <1>1, <1>2, <1>3, ExceptSeq
<1> HIDE DEF r
<1>6. r[i] = a /\ r[i + 1] = b BY <1>2, <1>3, <1>5
<1>7. \A j \in 1..Len(p) : j # i /\ j # i + 1 => r[j] = p[j] BY <1>3, <1>5
<1> QED BY <1>4, <1>5, <1>6, <1>7 DEF a, b

LEMMA OtherWords ==
  ASSUME NEW p \in Seq(Octet), NEW q \in Seq(Octet), Len(p) = Len(q), NEW j \in Int,
         \A m \in 1..Len(p) : m # 2 * j /\ m # 2 * j - 1 => q[m] = p[m]
  PROVE  \A k \in 1..Words(p) : k # j => WordAt(q, k) = WordAt(p, k)
<1> TAKE k \in 1..Words(p)
<1> HAVE k # j
<1>1. Len(p) \in Nat /\ Words(p) \in Nat /\ 2 * k - 1 \in 1..Len(p) BY WordsAre
<1>2. k \in Int /\ 2 * k # 2 * j /\ 2 * k # 2 * j - 1 /\ 2 * k - 1 # 2 * j /\ 2 * k - 1 # 2 * j - 1
  BY <1>1
<1>3. q[2 * k - 1] = p[2 * k - 1] BY <1>1, <1>2
<1>4. CASE 2 * k <= Len(p)
  <2>1. 2 * k \in 1..Len(p) BY <1>1, <1>2, <1>4
  <2>2. q[2 * k] = p[2 * k] BY <1>2, <2>1
  <2> QED BY <1>3, <2>2 DEF WordAt
<1>5. CASE ~(2 * k <= Len(p)) BY <1>3, <1>5 DEF WordAt
<1> QED BY <1>4, <1>5

LEMMA StoreShift ==
  ASSUME NEW x \in U16, NEW p \in Seq(Octet), NEW j \in Nat \ {0}, 2 * j <= Len(p), NEW n \in U16
  PROVE  /\ WordAt(p, j) \in U16
         /\ Cong(chksum(x, Store(p, 2 * j - 1, n)), chksum(x, p) + (htons(n) - WordAt(p, j)))
<1> DEFINE i == 2 * j - 1  q == Store(p, i, n)  d == htons(n) - WordAt(p, j)
<1>1. Len(p) \in Nat /\ i \in 1..(Len(p) - 1) /\ i + 1 = 2 * j /\ i \in Int BY LenProperties
<1>2. j \in 1..Words(p) BY <1>1, SMT DEF Words
<1>3. WordAt(p, j) \in U16 BY <1>2, WordsAre
<1>i. i = 2 * j - 1 OBVIOUS
<1> HIDE DEF i
<1>4. /\ q \in Seq(Octet) /\ Len(q) = Len(p) /\ q[i] = n % 256 /\ q[i + 1] = n \div 256
      /\ \A m \in 1..Len(p) : m # i /\ m # i + 1 => q[m] = p[m]
  BY <1>1, StoreIs
<1> HIDE DEF q
<1>5. WordAt(q, j) = htons(n) BY <1>1, <1>i, <1>4 DEF WordAt, htons
<1>6. \A m \in 1..Len(p) : m # 2 * j /\ m # 2 * j - 1 => q[m] = p[m] BY <1>1, <1>i, <1>4
<1>7. \A k \in 1..Words(p) : k # j => WordAt(q, k) = WordAt(p, k)
  <2>1. j \in Int OBVIOUS
  <2> QED BY <1>4, <1>6, <2>1, OtherWords
<1>8. htons(n) \in U16 BY SwapTwice
<1>9. htons(n) \in Int /\ WordAt(p, j) \in Int BY <1>3, <1>8, U16Is
<1>10. d \in Int /\ WordAt(p, j) + d = WordAt(q, j) /\ WordAt(q, j) \in Int BY <1>5, <1>9
<1> HIDE DEF d
<1>11. Cong(WordAt(q, j), WordAt(p, j) + d) BY <1>10, CongSame
<1>12. Cong(chksum(x, q), chksum(x, p) + d) BY <1>2, <1>4, <1>7, <1>10, <1>11, SumShift
<1> QED BY <1>3, <1>12 DEF i, q, d

(* Something to sum but what is stored at its beginning.                   *)
Live(x, p) == x # 0 \/ \E i \in 3..Len(p) : p[i] # 0

LEMMA AllOnes16 == 65535 \in U16 /\ htons(65535) = 65535
<1>1. 255 \in Octet /\ 256 * 255 + 255 = 65535 BY SMT DEF Octet
<1> QED BY <1>1, Swapped

LEMMA StoredRight ==
  ASSUME NEW x \in U16, NEW p \in Seq(Octet), 2 <= Len(p), WordAt(p, 1) = 0, Live(x, p)
  PROVE  chksum(x, Store(p, 1, Not16(Nonzero(chksum(x, p))))) = 65535
<1> DEFINE s == chksum(x, p)  n == Not16(Nonzero(s))  q == Store(p, 1, n)
<1>0. Len(p) \in Nat /\ 1 \in 1..(Len(p) - 1) BY LenProperties
<1>1. s \in U16 /\ s # 0
  <2>1. \A i \in 3..Len(p) : i \in 1..Len(p) BY <1>0
  <2> QED BY <2>1, SumZero DEF Live
<1> HIDE DEF s
<1>2. Nonzero(s) = htons(s) /\ htons(s) \in U16 /\ htons(htons(s)) = s
  BY <1>1, SwapTwice DEF Nonzero
<1>3. n \in U16 /\ htons(n) = Not16(s) BY <1>2, SwapNot
<1> HIDE DEF n
<1>4. q \in Seq(Octet) /\ \A j \in 3..Len(p) : q[j] = p[j]
  <2>1. \A j \in 3..Len(p) : j \in 1..Len(p) /\ j # 1 /\ j # 1 + 1 BY <1>0
  <2> QED BY <1>0, <1>3, <2>1, StoreIs
<1>5. Len(q) = Len(p) BY <1>0, <1>3, StoreIs
<1>6. Cong(chksum(x, q), s + (htons(n) - 0))
  <2>1. 2 * 1 <= Len(p) /\ 1 \in Nat \ {0} /\ 2 * 1 - 1 = 1 BY <1>0
  <2>2. Cong(chksum(x, Store(p, 2 * 1 - 1, n)), s + (htons(n) - WordAt(p, 1)))
    BY <1>3, <2>1, StoreShift DEF s
  <2> QED BY <2>1, <2>2
<1>7. s + (htons(n) - 0) = 65535
  <2>1. s \in Int BY <1>1, U16Is
  <2> QED BY <1>3, <2>1, SMT DEF Not16
<1> HIDE DEF q
<1>8. chksum(x, q) \in U16 /\ chksum(x, q) # 0
  <2>1. Live(x, q) BY <1>4, <1>5 DEF Live
  <2>2. \A i \in 3..Len(q) : i \in 1..Len(q) BY <1>0, <1>5
  <2> QED BY <1>4, <2>1, <2>2, SumZero DEF Live
<1>9. chksum(x, q) = 65535
  <2> DEFINE t == 65535
  <2>1. t \in U16 /\ t # 0 /\ Cong(chksum(x, q), t) BY <1>6, <1>7, AllOnes16
  <2> HIDE DEF t
  <2>2. chksum(x, q) = t BY <1>8, <2>1, CongEqual
  <2> QED BY <2>2 DEF t
<1> QED BY <1>9 DEF q, n, s

(* A message of TCP, as it is sent.                                        *)
Start(addrs, p) == chksum(Len(p) + TCP, addrs)

LEMMA StartIs ==
  ASSUME NEW addrs \in Seq(Octet), NEW p \in Seq(Octet), Len(p) <= 60010
  PROVE  /\ Start(addrs, p) \in U16 /\ Start(addrs, p) # 0
         /\ upper_layer_chksum(TCP, addrs, p) = Nonzero(chksum(Start(addrs, p), p))
<1> DEFINE n == Len(p) + TCP
<1>1. Len(p) \in Nat BY LenProperties
<1>2. n \in Int /\ 0 < n /\ n < 65536 BY <1>1, SMT DEF TCP
<1>3. n \in U16 /\ n # 0 BY <1>2, U16Is
<1>4. Start(addrs, p) = chksum(n, addrs) BY DEF Start
<1>5. upper_layer_chksum(TCP, addrs, p) = Nonzero(chksum(chksum(n, addrs), p)) BY DEF upper_layer_chksum
<1> HIDE DEF n
<1> QED BY <1>3, <1>4, <1>5, SumZero

LEMMA NonzeroIs ==
  ASSUME NEW s \in U16, s # 0
  PROVE  Nonzero(s) = 65535 <=> s = 65535
<1>1. Nonzero(s) = htons(s) /\ htons(htons(s)) = s BY SwapTwice DEF Nonzero
<1> DEFINE t == 65535
<1>2. htons(t) = t BY AllOnes16
<1> HIDE DEF t
<1>3. Nonzero(s) = t <=> s = t BY <1>1, <1>2
<1> QED BY <1>3 DEF t

Sendable(data) == 2 <= Len(data) /\ Len(data) <= 60010
Summed(addrs, q) == Sendable(q) /\ chksum(Start(addrs, q), q) = 65535
SentAs(addrs, data, p) ==
  /\ p \in Seq(Octet) /\ Len(p) = Len(data)
  /\ \A i \in 3..Len(data) : p[i] = data[i]
  /\ Summed(addrs, p) /\ upper_layer_chksum(TCP, addrs, p) = 65535

LEMMA SentRight ==
  ASSUME NEW addrs \in Seq(Octet), NEW data \in Seq(Octet), Sendable(data)
  PROVE  SentAs(addrs, data, TcpSent(TCP, addrs, data))
<1> DEFINE e == Store(data, 1, 0)  x == Start(addrs, e)  n == Not16(Nonzero(chksum(x, e)))
           p == Store(e, 1, n)
<1>0. 2 <= Len(data) /\ Len(data) <= 60010 BY DEF Sendable
<1>1. Len(data) \in Nat /\ 1 \in 1..(Len(data) - 1) /\ 0 \in U16 BY <1>0, LenProperties, U16Is
<1>r. \A i \in 3..Len(data) : i \in 1..Len(data) /\ i # 1 /\ i # 1 + 1 BY <1>1
<1>2. /\ e \in Seq(Octet) /\ Len(e) = Len(data) /\ e[1] = 0 /\ e[1 + 1] = 0
      /\ \A i \in 3..Len(data) : e[i] = data[i]
  <2>1. 0 % 256 = 0 /\ 0 \div 256 = 0 BY SMT
  <2> QED BY <1>1, <1>r, <2>1, StoreIs
<1> HIDE DEF e
<1>3. WordAt(e, 1) = 0
  <2>1. 2 * 1 <= Len(e) /\ 2 * 1 - 1 = 1 /\ 2 * 1 = 1 + 1 BY <1>1, <1>2
  <2>2. WordAt(e, 1) = 256 * 0 + 0 BY <1>2, <2>1 DEF WordAt
  <2> QED BY <2>2
<1>4. /\ x \in U16 /\ x # 0 /\ upper_layer_chksum(TCP, addrs, e) = Nonzero(chksum(x, e))
      /\ chksum(x, e) \in U16
  BY <1>0, <1>2, StartIs, SumZero
<1>5. TcpSent(TCP, addrs, data) = Store(data, 1, n) BY <1>4 DEF TcpSent, e
<1> HIDE DEF x
<1>6. chksum(x, p) = 65535 BY <1>0, <1>1, <1>2, <1>3, <1>4, StoredRight DEF Live
<1>7. n \in U16
  <2>1. Nonzero(chksum(x, e)) \in U16 BY <1>4, SwapTwice, AllOnes16 DEF Nonzero
  <2> QED BY <2>1, SwapNot
<1> HIDE DEF n
<1>8. p \in Seq(Octet) /\ Len(p) = Len(data) /\ \A i \in 3..Len(data) : p[i] = data[i]
  BY <1>1, <1>2, <1>7, <1>r, StoreIs
<1>p. Store(data, 1, n) = p
  <2> DEFINE q == Store(data, 1, n)
  <2>1. /\ q \in Seq(Octet) /\ Len(q) = Len(data) /\ q[1] = n % 256 /\ q[1 + 1] = n \div 256
        /\ \A i \in 3..Len(data) : q[i] = data[i]
    BY <1>1, <1>7, <1>r, StoreIs
  <2>2. p[1] = n % 256 /\ p[1 + 1] = n \div 256 BY <1>1, <1>2, <1>7, StoreIs
  <2> HIDE DEF p, q
  <2>3. \A i \in 1..Len(q) : i = 1 \/ i = 1 + 1 \/ i \in 3..Len(data) BY <1>1, <2>1
  <2>4. \A i \in 1..Len(q) : q[i] = p[i] BY <1>8, <2>1, <2>2, <2>3
  <2> QED BY <1>8, <2>1, <2>4, SeqEqual DEF q
<1> HIDE DEF p
<1>9. Start(addrs, p) = x BY <1>2, <1>8 DEF Start, x
<1>10. upper_layer_chksum(TCP, addrs, p) = 65535
  <2>1. upper_layer_chksum(TCP, addrs, p) = Nonzero(chksum(x, p)) BY <1>0, <1>8, <1>9, StartIs
  <2> QED BY <1>6, <2>1, AllOnes16 DEF Nonzero
<1>11. Summed(addrs, p) BY <1>0, <1>6, <1>8, <1>9 DEF Summed, Sendable
<1>12. SentAs(addrs, data, p) BY <1>8, <1>10, <1>11 DEF SentAs
<1> QED BY <1>5, <1>p, <1>12

(* An octet that is not the one sent is noticed.                           *)
Noticed(addrs, p) == upper_layer_chksum(TCP, addrs, p) # 65535

LEMMA DamageNoticed ==
  ASSUME NEW addrs \in Seq(Octet), NEW q \in Seq(Octet), Summed(addrs, q),
         NEW i \in 1..Len(q), NEW o \in Octet, o # q[i]
  PROVE  Noticed(addrs, [q EXCEPT ![i] = o])
<1> DEFINE p == [q EXCEPT ![i] = o]  j == (i + 1) \div 2  x == Start(addrs, q)
           d == WordAt(p, j) - WordAt(q, j)
<1>1. /\ p \in Seq(Octet) /\ Len(p) = Len(q) /\ p[i] = o
      /\ \A m \in 1..Len(q) : m # i => p[m] = q[m]
  BY ExceptSeq
<1>2. Len(q) \in Nat /\ j \in 1..Words(q) /\ q[i] \in Octet /\ 2 * j - 1 \in 1..Len(q)
      /\ WordAt(q, j) \in U16 /\ j \in Int
  BY WordsAre
<1>3. i \in Int /\ 1 <= i /\ i <= Len(q) BY <1>2
<1>4. i = 2 * j \/ i = 2 * j - 1 BY <1>3, SMT
<1> HIDE DEF p, j
<1>5. Words(p) = Words(q) /\ WordAt(p, j) \in U16 BY <1>1, <1>2, WordsAre DEF Words
<1>6. d \in Int /\ WordAt(q, j) + d = WordAt(p, j) /\ WordAt(p, j) \in Int
  BY <1>2, <1>5, U16Is
<1>7. d # 0 /\ -65535 < d /\ d < 65535
  <2> DEFINE hi == 2 * j - 1  lo == 2 * j
  <2>w. /\ WordAt(p, j) = 256 * p[hi] + (IF lo <= Len(q) THEN p[lo] ELSE 0)
        /\ WordAt(q, j) = 256 * q[hi] + (IF lo <= Len(q) THEN q[lo] ELSE 0)
    BY <1>1 DEF WordAt
  <2>o. o \in Int /\ 0 <= o /\ o <= 255 /\ q[i] \in Int /\ 0 <= q[i] /\ q[i] <= 255
    BY <1>2, OctetIs
  <2>h. hi \in 1..Len(q) /\ q[hi] \in Int /\ hi # lo BY <1>2, WordsAre, OctetIs
  <2>l. lo <= Len(q) => lo \in 1..Len(q) /\ q[lo] \in Int
    <3> HAVE lo <= Len(q)
    <3>1. lo \in 1..Len(q) BY <1>2, <2>h
    <3> QED BY <3>1, WordsAre, OctetIs
  <2>c. i = lo \/ i = hi BY <1>4
  <2> HIDE DEF hi, lo
  <2>1. CASE i = hi
    <3>1. p[hi] = o BY <1>1, <2>1
    <3>2. lo <= Len(q) => p[lo] = q[lo] BY <1>1, <2>h, <2>l, <2>1
    <3>3. d = 256 * (o - q[i]) BY <2>w, <2>o, <2>l, <2>1, <3>1, <3>2
    <3> HIDE DEF d
    <3> QED BY <2>o, <3>3, SMT
  <2>2. CASE i = lo
    <3>1. p[hi] = q[hi] BY <1>1, <2>h, <2>2
    <3>2. lo <= Len(q) /\ p[lo] = o BY <1>1, <1>3, <2>2
    <3>3. d = o - q[i] BY <2>w, <2>o, <2>h, <2>2, <3>1, <3>2
    <3> HIDE DEF d
    <3> QED BY <2>o, <3>3, SMT
  <2> QED BY <2>1, <2>2, <2>c
<1>8. \A m \in 1..Len(q) : m # 2 * j /\ m # 2 * j - 1 => p[m] = q[m] BY <1>1, <1>4
<1>9. \A k \in 1..Words(q) : k # j => WordAt(p, k) = WordAt(q, k) BY <1>1, <1>2, <1>8, OtherWords
<1>s. Len(q) <= 60010 /\ chksum(Start(addrs, q), q) = 65535 BY DEF Summed, Sendable
<1>10. x \in U16 /\ x # 0 /\ Start(addrs, p) = x BY <1>1, <1>s, StartIs DEF Start
<1>11. upper_layer_chksum(TCP, addrs, p) = Nonzero(chksum(x, p)) BY <1>1, <1>10, <1>s, StartIs
<1>12. chksum(x, p) \in U16 /\ chksum(x, p) # 0 BY <1>1, <1>10, SumZero
<1>13. Cong(WordAt(p, j), WordAt(q, j) + d) BY <1>6, CongSame
<1> HIDE DEF d, x
<1>14. Cong(chksum(x, p), chksum(x, q) + d) BY <1>1, <1>2, <1>6, <1>9, <1>10, <1>13, SumShift
<1>15. ASSUME chksum(x, p) = 65535 PROVE FALSE
  <2>1. PICK c \in Int : 65535 = 65535 + d + Carries(c) BY <1>14, <1>15, <1>s DEF Cong, x
  <2>2. d = 0 + Carries(-c) /\ -c \in Int BY <1>6, <2>1, SMT DEF Carries
  <2>3. Cong(d, 0) BY <2>2 DEF Cong
  <2> QED BY <1>6, <1>7, <2>3, CongSmall
<1>16. upper_layer_chksum(TCP, addrs, p) # 65535 BY <1>11, <1>12, <1>15, NonzeroIs
<1> QED BY <1>16 DEF p, Noticed

(* The reply to an echo request has the sum of the request.                *)
LEMMA AdjustedIs ==
  ASSUME NEW n \in U16
  PROVE  Adjusted(n) \in U16 /\ Cong(htons(Adjusted(n)), htons(n) + 2048)
<1> DEFINE m == Adjusted(n)
<1>1. n \in Int /\ 0 <= n /\ n < 65536 BY U16Is
<1>2. htons(256 * ICMP_ECHO) = 8
  <2>1. 8 \in Octet /\ 0 \in Octet /\ 256 * ICMP_ECHO = 256 * 8 + 0 BY SMT DEF Octet, ICMP_ECHO
  <2> QED BY <2>1, Swapped
<1>3. htons(65535 - 256 * ICMP_ECHO) = 65527
  <2>1. 247 \in Octet /\ 255 \in Octet BY SMT DEF Octet
  <2>2. 65535 - 256 * ICMP_ECHO = 256 * 247 + 255 /\ 256 * 255 + 247 = 65527 BY SMT DEF ICMP_ECHO
  <2> QED BY <2>1, <2>2, Swapped
<1>4. m = IF n >= 65527 THEN u16(n + 8 + 1) ELSE u16(n + 8) BY <1>2, <1>3 DEF Adjusted
<1> HIDE DEF m
<1>5. m \in Int /\ 0 <= m /\ m < 65536 /\ (m = n + 8 + Carries(0) \/ m = n + 8 + Carries(-1))
  BY <1>1, <1>4, SMT DEF u16, Carries
<1>6. m \in U16 BY <1>5, U16Is
<1>7. Cong(m, n + 8)
  <2>1. 0 \in Int /\ -1 \in Int OBVIOUS
  <2>2. CASE m = n + 8 + Carries(0) BY <2>1, <2>2 DEF Cong
  <2>3. CASE m = n + 8 + Carries(-1) BY <2>1, <2>3 DEF Cong
  <2> QED BY <1>5, <2>2, <2>3
<1>8. htons(m) \in Int /\ htons(n) \in Int /\ n + 8 \in Int BY <1>1, <1>6, SwapTwice, U16Is
<1>9. Cong(256 * m, 256 * (n + 8)) BY <1>5, <1>7, <1>8, CongMoves
<1>10. Cong(htons(m), 256 * m) BY <1>6, SwapCong
<1>11. Cong(256 * n + 2048, htons(n) + 2048)
  <2>1. Cong(256 * n, htons(n)) BY <1>1, <1>8, SwapCong, CongBack
  <2>2. Cong(2048, 2048) BY CongSame
  <2> QED BY <1>1, <1>8, <2>1, <2>2, CongMoves
<1>12. 256 * (n + 8) = 256 * n + 2048 BY <1>1
<1> DEFINE a == 256 * m  b == 256 * n + 2048  c == htons(n) + 2048
<1>13. Cong(htons(m), a) /\ Cong(a, b) /\ Cong(b, c) BY <1>9, <1>10, <1>11, <1>12
<1>14. a \in Int /\ b \in Int /\ c \in Int BY <1>1, <1>5, <1>8
<1> HIDE DEF a, b, c
<1>15. Cong(htons(m), c)
  <2>1. Cong(htons(m), b) BY <1>8, <1>13, <1>14, CongChain
  <2> QED BY <2>1, <1>8, <1>13, <1>14, CongChain
<1> QED BY <1>6, <1>15 DEF m, c

LEMMA EchoRight ==
  ASSUME NEW p \in Seq(Octet), 4 <= Len(p), p[1] = ICMP_ECHO, ~Zeros(EchoReply(p))
  PROVE  chksum(0, EchoReply(p)) = chksum(0, p)
<1> DEFINE q == [p EXCEPT ![1] = 0]  n == Load(p, 3)  r == Store(q, 3, Adjusted(n))
<1>0. Len(p) \in Nat /\ \A i \in 1..4 : i \in 1..Len(p) /\ p[i] \in Octet
  <2>1. Len(p) \in Nat /\ \A i \in 1..Len(p) : p[i] \in Octet BY LenProperties, ElementOfSeq
  <2>2. \A i \in 1..4 : i \in 1..Len(p) BY <2>1
  <2> QED BY <2>1, <2>2
<1>1. 0 \in Octet /\ 1 \in 1..Len(p) BY <1>0 DEF Octet
<1>2. /\ q \in Seq(Octet) /\ Len(q) = Len(p) /\ q[1] = 0
      /\ \A j \in 1..Len(p) : j # 1 => q[j] = p[j]
  BY <1>1, ExceptSeq
<1>3. p[3] \in Octet /\ p[4] \in Octet /\ 3 + 1 = 4 BY <1>0
<1>4. n \in U16 /\ htons(n) = 256 * p[3] + p[4]
  <2>1. n = 256 * p[4] + p[3]
    <3>1. p[3] \in Int /\ p[4] \in Int BY <1>3, OctetIs
    <3> QED BY <1>3, <3>1 DEF Load
  <2> QED BY <1>3, <2>1, Swapped
<1> HIDE DEF n
<1>5. EchoReply(p) = r BY DEF EchoReply, n
<1> HIDE DEF q
<1>6. Adjusted(n) \in U16 /\ Cong(htons(Adjusted(n)), htons(n) + 2048) BY <1>4, AdjustedIs
<1> DEFINE m == Adjusted(n)
<1> HIDE DEF m
<1>7. WordAt(q, 2) = htons(n)
  <2>1. 2 * 2 <= Len(q) /\ 2 * 2 = 4 /\ 2 * 2 - 1 = 3 /\ q[3] = p[3] /\ q[4] = p[4]
    BY <1>0, <1>2
  <2> QED BY <1>4, <2>1 DEF WordAt
<1>z. 0 \in U16 BY U16Is
<1>8. Cong(chksum(0, r), chksum(0, q) + (htons(m) - htons(n)))
  <2>1. 2 \in Nat \ {0} /\ 2 * 2 <= Len(q) /\ 2 * 2 - 1 = 3 BY <1>2
  <2>2. Cong(chksum(0, Store(q, 2 * 2 - 1, m)), chksum(0, q) + (htons(m) - WordAt(q, 2)))
    BY <1>2, <1>6, <1>z, <2>1, StoreShift DEF m
  <2> QED BY <1>7, <2>1, <2>2 DEF m
<1>9. Cong(chksum(0, q), chksum(0, p) + (-2048))
  <2>1. 1 \in 1..Words(p)
    <3>1. 1 <= Words(p) /\ Words(p) \in Nat BY <1>0, SMT DEF Words
    <3> QED BY <3>1
  <2>2. 2 * 1 <= Len(p) /\ 2 * 1 = 2 /\ 2 * 1 - 1 = 1 /\ 2 \in 1..Len(p) /\ 2 # 1 BY <1>0
  <2>3. WordAt(p, 1) = 256 * 8 + p[2] /\ WordAt(q, 1) = 256 * 0 + p[2]
    BY <1>2, <2>2 DEF WordAt, ICMP_ECHO
  <2>4. p[2] \in Int BY <1>0, OctetIs
  <2>5. WordAt(q, 1) = WordAt(p, 1) + (-2048) /\ WordAt(q, 1) \in Int BY <2>3, <2>4
  <2>6. Cong(WordAt(q, 1), WordAt(p, 1) + (-2048)) BY <2>5, CongSame
  <2>7. \A k \in 1..Words(p) : k # 1 => WordAt(q, k) = WordAt(p, k)
    <3>1. \A i \in 1..Len(p) : i # 2 * 1 /\ i # 2 * 1 - 1 => q[i] = p[i] BY <1>2
    <3>2. 1 \in Int OBVIOUS
    <3> QED BY <1>2, <3>1, <3>2, OtherWords
  <2> DEFINE d == -2048
  <2>8. d \in Int OBVIOUS
  <2>9. Cong(WordAt(q, 1), WordAt(p, 1) + d) BY <2>6
  <2> HIDE DEF d
  <2>10. Cong(chksum(0, q), chksum(0, p) + d) BY <1>2, <1>z, <2>1, <2>7, <2>8, <2>9, SumShift
  <2> QED BY <2>10 DEF d
<1>10. r \in Seq(Octet) /\ Len(r) = Len(p)
  <2>1. 3 \in 1..(Len(q) - 1) BY <1>0, <1>2
  <2> QED BY <1>2, <1>6, <2>1, StoreIs
<1> DEFINE cr == chksum(0, r)  cq == chksum(0, q)  cp == chksum(0, p)  u == htons(m)  v == htons(n)
<1>11. /\ cr \in U16 /\ cq \in U16 /\ cp \in U16 /\ cp # 0
       /\ cr = 0 => \A i \in 1..Len(r) : r[i] = 0
  <2>1. p[1] # 0 /\ 1 \in 1..Len(p) BY <1>0 DEF ICMP_ECHO
  <2> HIDE DEF r
  <2> QED BY <1>2, <1>10, <1>z, <2>1, SumZero
<1>12. cr # 0
  <2> HIDE DEF r, cr
  <2>1. DOMAIN r = 1..Len(r) BY <1>10, LenProperties
  <2> QED BY <1>5, <1>11, <2>1 DEF Zeros
<1>13. cr \in Int /\ cq \in Int /\ cp \in Int /\ u \in Int /\ v \in Int
  BY <1>4, <1>6, <1>11, SwapTwice, U16Is DEF m
<1>14. Cong(cr, cq + (u - v)) /\ Cong(cq, cp + (-2048)) /\ Cong(u, v + 2048)
  BY <1>6, <1>8, <1>9 DEF m
<1> HIDE DEF cr, cq, cp, u, v
<1>15. Cong(cr, cp)
  <2>1. PICK a \in Int : cr = cq + (u - v) + Carries(a) BY <1>14 DEF Cong
  <2>2. PICK b \in Int : cq = cp + (-2048) + Carries(b) BY <1>14 DEF Cong
  <2>3. PICK c \in Int : u = v + 2048 + Carries(c) BY <1>14 DEF Cong
  <2>4. cr = cp + Carries(a + b + c) /\ a + b + c \in Int
    BY <1>13, <2>1, <2>2, <2>3, SMT DEF Carries
  <2> QED BY <2>4 DEF Cong
<1>16. cr = cp BY <1>11, <1>12, <1>15, CongEqual
<1> QED BY <1>5, <1>16 DEF cr, cp

(* A segment made by the splitting code, and the two of a full one.        *)
SegmentRight(addrs, s, seqno, data) ==
  /\ Passes(s.ip) /\ upper_layer_chksum(TCP, addrs, s.tcp) = 65535
  /\ 256 * s.ip[3] + s.ip[4] = HLEN + Len(data)
  /\ Seqno(s) = seqno /\ Payload(s) = data

LEMMA Octets2Are ==
  ASSUME NEW n \in U16
  PROVE  /\ Octets2(n) \in Seq(Octet) /\ Len(Octets2(n)) = 2
         /\ Octets2(n)[1] \in Octet /\ Octets2(n)[2] \in Octet
         /\ 256 * Octets2(n)[1] + Octets2(n)[2] = n
<1> DEFINE a == n \div 256  b == n % 256
<1>1. a \in Octet /\ b \in Octet /\ 256 * a + b = n BY Halves
<1>2. Octets2(n) = <<a, b>> BY DEF Octets2
<1> HIDE DEF a, b
<1> QED BY <1>1, <1>2

LEMMA ZerosThen ==
  ASSUME NEW q \in Seq(Octet)
  PROVE  /\ <<0, 0>> \o q \in Seq(Octet) /\ Len(<<0, 0>> \o q) = 2 + Len(q)
         /\ (<<0, 0>> \o q)[1] = 0 /\ (<<0, 0>> \o q)[2] = 0
         /\ \A i \in 1..Len(q) : (<<0, 0>> \o q)[i + 2] = q[i]
<1> DEFINE z == <<0, 0>>
<1>1. z \in Seq(Octet) /\ Len(z) = 2 /\ z[1] = 0 /\ z[2] = 0 BY DEF Octet
<1>2. Len(q) \in Nat BY LenProperties
<1> HIDE DEF z
<1>3. /\ z \o q \in Seq(Octet) /\ Len(z \o q) = 2 + Len(q)
      /\ \A i \in 1..(2 + Len(q)) : (z \o q)[i] = IF i <= 2 THEN z[i] ELSE q[i - 2]
  <2>1. /\ z \o q \in Seq(Octet) /\ Len(z \o q) = Len(z) + Len(q)
        /\ \A i \in 1..(Len(z) + Len(q)) : (z \o q)[i] = IF i <= Len(z) THEN z[i] ELSE q[i - Len(z)]
    BY <1>1, ConcatProperties
  <2> QED BY <1>1, <2>1
<1>4. 1 \in 1..(2 + Len(q)) /\ 2 \in 1..(2 + Len(q)) BY <1>2
<1>5. ASSUME NEW i \in 1..Len(q) PROVE (z \o q)[i + 2] = q[i]
  <2>1. i + 2 \in 1..(2 + Len(q)) /\ ~(i + 2 <= 2) /\ (i + 2) - 2 = i BY <1>2
  <2> QED BY <1>3, <2>1
<1> QED BY <1>1, <1>3, <1>4, <1>5 DEF z

LEMMA ZerosJoin ==
  ASSUME NEW p \in Seq(Octet), NEW q \in Seq(Octet)
  PROVE  <<0, 0>> \o p \o q = <<0, 0>> \o (p \o q)
<1> DEFINE z == <<0, 0>>
<1>1. z \in Seq(Octet) BY DEF Octet
<1> HIDE DEF z
<1>2. (z \o p) \o q = z \o (p \o q) BY <1>1, ConcatAssociative
<1> QED BY <1>2 DEF z

LEMMA HeaderRight ==
  ASSUME NEW n \in U16, n # 0
  PROVE  LET ip == <<0, 0>> \o Octets2(n)
             s == Store(ip, 1, Not16(uip_ipchksum(ip)))
         IN  Passes(s) /\ 256 * s[3] + s[4] = n
<1> DEFINE q == Octets2(n)  ip == <<0, 0>> \o q  m == Not16(uip_ipchksum(ip))  s == Store(ip, 1, m)
<1>1. q \in Seq(Octet) /\ Len(q) = 2 /\ q[1] \in Octet /\ q[2] \in Octet /\ 256 * q[1] + q[2] = n
  BY Octets2Are
<1> HIDE DEF q
<1>2. /\ ip \in Seq(Octet) /\ Len(ip) = 4 /\ ip[1] = 0 /\ ip[2] = 0
      /\ ip[3] = q[1] /\ ip[4] = q[2]
  <2>1. 1 \in 1..2 /\ 2 \in 1..2 /\ 1 + 2 = 3 /\ 2 + 2 = 4 OBVIOUS
  <2>2. \A i \in 1..2 : ip[i + 2] = q[i] BY <1>1, ZerosThen
  <2>3. ip[3] = q[1] /\ ip[4] = q[2] BY <2>1, <2>2
  <2>4. ip \in Seq(Octet) /\ Len(ip) = 2 + Len(q) /\ ip[1] = 0 /\ ip[2] = 0 BY <1>1, ZerosThen
  <2> QED BY <1>1, <2>3, <2>4
<1> HIDE DEF ip
<1>z. 0 \in U16 BY U16Is
<1>3. m = Not16(Nonzero(chksum(0, ip))) BY DEF uip_ipchksum
<1>4. m \in U16
  <2>1. chksum(0, ip) \in U16 BY <1>2, <1>z, SumZero
  <2>2. Nonzero(chksum(0, ip)) \in U16 BY <2>1, SwapTwice, AllOnes16 DEF Nonzero
  <2> QED BY <1>3, <2>2, SwapNot
<1>5. WordAt(ip, 1) = 0
  <2>1. 2 * 1 <= Len(ip) /\ 2 * 1 - 1 = 1 /\ 2 * 1 = 2 BY <1>2
  <2>2. WordAt(ip, 1) = 256 * 0 + 0 BY <1>2, <2>1 DEF WordAt
  <2> QED BY <2>2
<1>6. Live(0, ip)
  <2>1. q[1] # 0 \/ q[2] # 0 BY <1>1
  <2>2. 3 \in 3..Len(ip) /\ 4 \in 3..Len(ip) BY <1>2
  <2> QED BY <1>2, <2>1, <2>2 DEF Live
<1>7. chksum(0, s) = 65535
  <2>1. 2 <= Len(ip) BY <1>2
  <2>2. chksum(0, Store(ip, 1, Not16(Nonzero(chksum(0, ip))))) = 65535
    <3> DEFINE x == 0
    <3>1. x \in U16 /\ Live(x, ip) BY <1>6, <1>z
    <3> HIDE DEF x
    <3>2. chksum(x, Store(ip, 1, Not16(Nonzero(chksum(x, ip))))) = 65535
      <4>1. ip \in Seq(Octet) BY <1>2
      <4> QED BY <1>5, <2>1, <3>1, <4>1, StoredRight
    <3> QED BY <3>2 DEF x
  <2> DEFINE v == 65535
  <2> HIDE DEF m, v
  <2> QED BY <1>3, <2>2
<1>8. s[3] = ip[3] /\ s[4] = ip[4]
  <2>1. 1 \in 1..(Len(ip) - 1) /\ 3 \in 1..Len(ip) /\ 4 \in 1..Len(ip) /\ 1 + 1 = 2 BY <1>2
  <2>2. 3 # 1 /\ 3 # 1 + 1 /\ 4 # 1 /\ 4 # 1 + 1 OBVIOUS
  <2>3. ip \in Seq(Octet) BY <1>2
  <2> HIDE DEF m
  <2>4. \A j \in 1..Len(ip) : j # 1 /\ j # 1 + 1 => Store(ip, 1, m)[j] = ip[j]
    BY <1>4, <2>1, <2>3, StoreIs
  <2> QED BY <2>1, <2>2, <2>4
<1>9. Passes(s) BY <1>7 DEF Passes
<1>10. 256 * s[3] + s[4] = n BY <1>1, <1>2, <1>8
<1> HIDE DEF s, m
<1> QED BY <1>9, <1>10 DEF s, m, ip, q

LEMMA SegmentIs ==
  ASSUME NEW addrs \in Seq(Octet), NEW seqno \in U16, NEW data \in Seq(Octet), Len(data) <= 60000
  PROVE  SegmentRight(addrs, Segment(addrs, seqno, data), seqno, data)
<1> DEFINE s == Segment(addrs, seqno, data)  n == HLEN + Len(data)
           b == Octets2(seqno)  d == b \o data  e == <<0, 0>> \o d  t == TcpSent(TCP, addrs, e)
<1>1. n \in U16 /\ n # 0 /\ Len(data) \in Nat
  <2>1. Len(data) \in Nat BY LenProperties
  <2>2. n \in Int /\ 0 < n /\ n < 65536 BY <2>1, SMT DEF HLEN
  <2> QED BY <2>1, <2>2, U16Is
<1>2. b \in Seq(Octet) /\ Len(b) = 2 /\ b[1] \in Octet /\ b[2] \in Octet /\ 256 * b[1] + b[2] = seqno
  BY Octets2Are
<1>3. /\ s.ip = LET ip == <<0, 0>> \o Octets2(n) IN Store(ip, 1, Not16(uip_ipchksum(ip)))
      /\ s.tcp = TcpSent(TCP, addrs, <<0, 0>> \o b \o data)
  BY DEF Segment
<1>4. Passes(s.ip) /\ 256 * s.ip[3] + s.ip[4] = n
  <2> HIDE DEF n, s
  <2> QED BY <1>1, <1>3, HeaderRight
<1> HIDE DEF b
<1>5. <<0, 0>> \o b \o data = e
  <2>1. b \in Seq(Octet) BY <1>2
  <2> QED BY <2>1, ZerosJoin
<1>6. /\ d \in Seq(Octet) /\ Len(d) = 2 + Len(data) /\ d[1] = b[1] /\ d[2] = b[2]
      /\ \A i \in 1..Len(data) : d[i + 2] = data[i]
  <2>1. /\ d \in Seq(Octet) /\ Len(d) = 2 + Len(data)
        /\ \A i \in 1..(2 + Len(data)) : d[i] = IF i <= 2 THEN b[i] ELSE data[i - 2]
    <3>1. /\ d \in Seq(Octet) /\ Len(d) = Len(b) + Len(data)
          /\ \A i \in 1..(Len(b) + Len(data)) :
               d[i] = IF i <= Len(b) THEN b[i] ELSE data[i - Len(b)]
      <4>1. b \in Seq(Octet) BY <1>2
      <4> QED BY <4>1, ConcatProperties
    <3> HIDE DEF d
    <3> QED BY <1>2, <3>1
  <2>2. 1 \in 1..(2 + Len(data)) /\ 2 \in 1..(2 + Len(data)) BY <1>1
  <2>3. ASSUME NEW i \in 1..Len(data) PROVE d[i + 2] = data[i]
    <3>1. i + 2 \in 1..(2 + Len(data)) /\ ~(i + 2 <= 2) /\ (i + 2) - 2 = i BY <1>1
    <3> QED BY <2>1, <3>1
  <2> QED BY <2>1, <2>2, <2>3
<1> HIDE DEF d
<1>7. /\ e \in Seq(Octet) /\ Len(e) = 4 + Len(data) /\ e[3] = b[1] /\ e[4] = b[2]
      /\ \A i \in 1..Len(data) : e[i + 4] = data[i]
  <2>1. e \in Seq(Octet) /\ Len(e) = 2 + Len(d) /\ \A i \in 1..Len(d) : e[i + 2] = d[i]
    BY <1>6, ZerosThen
  <2>2. 1 \in 1..Len(d) /\ 2 \in 1..Len(d) /\ 1 + 2 = 3 /\ 2 + 2 = 4 BY <1>1, <1>6
  <2>3. ASSUME NEW i \in 1..Len(data) PROVE e[i + 4] = data[i]
    <3>1. i + 2 \in 1..Len(d) /\ (i + 2) + 2 = i + 4 BY <1>1, <1>6
    <3> QED BY <1>6, <2>1, <3>1
  <2>4. e[3] = b[1] /\ e[4] = b[2] BY <1>6, <2>1, <2>2
  <2>5. Len(e) = 4 + Len(data) BY <1>1, <1>6, <2>1
  <2> QED BY <2>1, <2>3, <2>4, <2>5
<1> HIDE DEF e
<1>8. /\ t \in Seq(Octet) /\ Len(t) = Len(e) /\ \A i \in 3..Len(e) : t[i] = e[i]
      /\ upper_layer_chksum(TCP, addrs, t) = 65535
  <2>1. Sendable(e) BY <1>1, <1>7 DEF Sendable
  <2>2. SentAs(addrs, e, t) BY <1>7, <2>1, SentRight
  <2> HIDE DEF t
  <2> QED BY <2>2 DEF SentAs
<1>9. s.tcp = t
  <2> DEFINE w == <<0, 0>> \o b \o data
  <2>1. s.tcp = TcpSent(TCP, addrs, w) BY <1>3
  <2>2. w = e BY <1>5
  <2> HIDE DEF s, w
  <2> QED BY <2>1, <2>2
<1> HIDE DEF t, s, n
<1>10. Seqno(s) = seqno
  <2>1. 3 \in 3..Len(e) /\ 4 \in 3..Len(e) BY <1>1, <1>7
  <2> QED BY <1>2, <1>7, <1>8, <1>9, <2>1 DEF Seqno
<1>11. Payload(s) = data
  <2> DEFINE y == SubSeq(t, 5, Len(t))
  <2>0. Len(t) = 4 + Len(data) /\ Len(t) \in Int /\ 5 \in Int BY <1>1, <1>7, <1>8
  <2>1. \A i \in 5..Len(t) : t[i] \in Octet
    <3>1. \A i \in 5..Len(t) : i \in 1..Len(t) BY <2>0
    <3> QED BY <1>8, <3>1, ElementOfSeq
  <2>2. /\ y \in Seq(Octet) /\ Len(y) = IF 5 <= Len(t) THEN Len(t) - 5 + 1 ELSE 0
        /\ \A i \in 1..(Len(t) - 5 + 1) : y[i] = t[5 + i - 1]
    BY <2>0, <2>1, SubSeqProperties
  <2>3. Len(y) = Len(data) /\ Len(t) - 5 + 1 = Len(data) BY <1>1, <2>0, <2>2
  <2>4. ASSUME NEW i \in 1..Len(data) PROVE y[i] = data[i]
    <3>1. 5 + i - 1 = i + 4 /\ i + 4 \in 3..Len(e) BY <1>1, <1>7
    <3> QED BY <1>7, <1>8, <2>2, <2>3, <3>1
  <2> HIDE DEF y
  <2>5. y = data BY <2>2, <2>3, <2>4, SeqEqual
  <2> QED BY <1>9, <2>5 DEF Payload, y
<1> QED BY <1>4, <1>8, <1>9, <1>10, <1>11 DEF SegmentRight, s, n

(* The data of one segment, and of two, in order.                          *)
LEMMA OneIsFlat == ASSUME NEW a PROVE FlattenSeq(<<a>>) = a
<1> DEFINE q == <<a>>
           Is(f) == f = [i \in 1..Len(q) |-> IF i = 1 THEN q[i] ELSE f[i - 1] \o q[i]]
           f == CHOOSE g : Is(g)
           h == [i \in 1..Len(q) |-> a]
<1>1. Len(q) = 1 /\ q[1] = a OBVIOUS
<1>2. FlattenSeq(q) = f[1] BY <1>1 DEF FlattenSeq
<1> HIDE DEF q
<1>3. Is(h)
  <2>1. \A i \in 1..Len(q) : i = 1 BY <1>1
  <2>2. \A i \in 1..Len(q) : h[i] = IF i = 1 THEN q[i] ELSE h[i - 1] \o q[i] BY <1>1, <2>1
  <2>3. h = [i \in 1..Len(q) |-> h[i]] OBVIOUS
  <2> HIDE DEF h
  <2> QED BY <2>2, <2>3
<1>4. Is(f)
  <2> HIDE DEF Is, h
  <2> QED BY <1>3
<1> HIDE DEF f
<1>5. f[1] = a
  <2>1. 1 \in 1..Len(q) BY <1>1
  <2> QED BY <1>1, <1>4, <2>1
<1> QED BY <1>2, <1>5 DEF q

LEMMA TwoAreFlat == ASSUME NEW a, NEW b PROVE FlattenSeq(<<a, b>>) = a \o b
<1> DEFINE q == <<a, b>>
           Is(f) == f = [i \in 1..Len(q) |-> IF i = 1 THEN q[i] ELSE f[i - 1] \o q[i]]
           f == CHOOSE g : Is(g)
           h == [i \in 1..Len(q) |-> IF i = 1 THEN a ELSE a \o b]
<1>1. Len(q) = 2 /\ q[1] = a /\ q[2] = b OBVIOUS
<1>2. FlattenSeq(q) = f[2] BY <1>1 DEF FlattenSeq
<1> HIDE DEF q
<1>0. 1 \in 1..Len(q) /\ 2 \in 1..Len(q) /\ 2 # 1 /\ 2 - 1 = 1 BY <1>1
<1>3. Is(h)
  <2>1. \A i \in 1..Len(q) : i = 1 \/ i = 2 BY <1>1
  <2>h. h[1] = a /\ h[2] = a \o b BY <1>0
  <2>2. \A i \in 1..Len(q) : h[i] = IF i = 1 THEN q[i] ELSE h[i - 1] \o q[i]
    <3> HIDE DEF h
    <3> QED BY <1>0, <1>1, <2>1, <2>h
  <2>3. h = [i \in 1..Len(q) |-> h[i]] OBVIOUS
  <2> HIDE DEF h
  <2> QED BY <2>2, <2>3
<1>4. Is(f)
  <2> HIDE DEF Is, h
  <2> QED BY <1>3
<1> HIDE DEF f
<1>5. f[1] = a BY <1>0, <1>1, <1>4
<1>6. f[2] = f[1] \o q[2] BY <1>0, <1>4
<1> QED BY <1>1, <1>2, <1>5, <1>6 DEF q

(* The parts of ChecksumsHold, of a state of the component.                *)
EchoHolds(t) == t.request # <<>> /\ ~Zeros(t.reply) => (Passes(t.reply) <=> Passes(t.request))
SentHolds(t) == t.sent # <<>> =>
  /\ upper_layer_chksum(TCP, t.addrs, t.sent) = 65535
  /\ \A p \in Damaged(t.sent) : upper_layer_chksum(TCP, t.addrs, p) # 65535
PieceHolds(t, i) ==
  /\ Passes(t.out[i].ip) /\ upper_layer_chksum(TCP, t.addrs, t.out[i].tcp) = 65535
  /\ 256 * t.out[i].ip[3] + t.out[i].ip[4] = HLEN + Len(Payload(t.out[i]))
  /\ i > 1 => Seqno(t.out[i]) = u16(Seqno(t.out[i - 1]) + Len(Payload(t.out[i - 1])))
OutHolds(t) == t.out # <<>> =>
  /\ FlattenSeq([i \in DOMAIN t.out |-> Payload(t.out[i])]) = Payload(t.whole)
  /\ Seqno(t.out[1]) = Seqno(t.whole)
  /\ \A i \in DOMAIN t.out : PieceHolds(t, i)

LEMMA ChecksumParts == EchoHolds(ck') /\ SentHolds(ck') /\ OutHolds(ck') => ChecksumsHold'
BY DEF ChecksumsHold, EchoHolds, SentHolds, OutHolds, PieceHolds

LEMMA OctetsAre ==
  ASSUME SumSizes
  PROVE  /\ \A o \in Bytes : o \in Octet
         /\ \A h \in Headers : h \in Seq(Octet) /\ Len(h) = 2
         /\ \A d \in Messages : d \in Seq(Octet) /\ 2 <= Len(d) /\ Len(d) <= 60000
         /\ \A d \in Payloads : d \in Seq(Octet) /\ Len(d) \in Nat /\ 1 <= Len(d) /\ Len(d) <= 60000
<1>1. \A o \in Bytes : o \in Octet BY DEF SumSizes, Octet
<1>2. ASSUME NEW n \in Nat, NEW d \in [1..n -> Bytes] PROVE d \in Seq(Octet) /\ Len(d) = n
  <2>1. d \in [1..n -> Octet] BY <1>1
  <2> QED BY <2>1
<1>3. \A h \in Headers : h \in Seq(Octet) /\ Len(h) = 2
  <2>1. 2 \in Nat OBVIOUS
  <2> QED BY <1>2, <2>1 DEF Headers
<1>4. ASSUME NEW d \in Messages PROVE d \in Seq(Octet) /\ 2 <= Len(d) /\ Len(d) <= 60000
  <2>1. PICK n \in 2..MaxLen : d \in [1..n -> Bytes] BY DEF Messages
  <2>2. n \in Nat /\ 2 <= n /\ n <= 60000 BY SMT DEF SumSizes
  <2> QED BY <1>2, <2>1, <2>2
<1>5. ASSUME NEW d \in Payloads PROVE d \in Seq(Octet) /\ Len(d) \in Nat /\ 1 <= Len(d) /\ Len(d) <= 60000
  <2>1. PICK n \in 1..Full : d \in [1..n -> Bytes] BY DEF Payloads
  <2>2. n \in Nat /\ 1 <= n /\ n <= 60000 BY SMT DEF SumSizes
  <2> QED BY <1>2, <2>1, <2>2
<1> QED BY <1>1, <1>3, <1>4, <1>5

LEMMA PingHolds == ASSUME SumSizes, ck = Nothing, Ping PROVE ChecksumsHold'
<1>1. PICK rest \in Headers, a \in Bytes, b \in Bytes :
        \E p \in {Right(Request(rest)), Store(Request(rest), 3, a + 256 * b)} :
          ck' = [ck EXCEPT !.request = p, !.reply = EchoReply(p)]
  BY DEF Ping
<1>2. PICK p \in {Right(Request(rest)), Store(Request(rest), 3, a + 256 * b)} :
        ck' = [ck EXCEPT !.request = p, !.reply = EchoReply(p)]
  BY <1>1
<1> DEFINE r == Request(rest)
<1>3. r \in Seq(Octet) /\ Len(r) = 6 /\ r[1] = ICMP_ECHO
  <2> DEFINE z == <<ICMP_ECHO, 0, 0, 0>>
  <2>1. z \in Seq(Octet) /\ Len(z) = 4 /\ z[1] = ICMP_ECHO BY DEF Octet, ICMP_ECHO
  <2>2. rest \in Seq(Octet) /\ Len(rest) = 2 BY OctetsAre
  <2> HIDE DEF z
  <2>3. /\ z \o rest \in Seq(Octet) /\ Len(z \o rest) = Len(z) + Len(rest)
        /\ \A i \in 1..(Len(z) + Len(rest)) :
             (z \o rest)[i] = IF i <= Len(z) THEN z[i] ELSE rest[i - Len(z)]
    BY <2>1, <2>2, ConcatProperties
  <2>4. r = z \o rest BY DEF Request, z
  <2> HIDE DEF r
  <2> QED BY <2>1, <2>2, <2>3, <2>4
<1> HIDE DEF r
<1>4. PICK n \in U16 : p = Store(r, 3, n)
  <2>1. CASE p = Right(r)
    <3>1. 0 \in U16 BY U16Is
    <3>2. chksum(0, r) \in U16 BY <1>3, <3>1, SumZero
    <3>3. Nonzero(chksum(0, r)) \in U16 BY <3>2, SwapTwice, AllOnes16 DEF Nonzero
    <3>4. Not16(uip_ipchksum(r)) \in U16 BY <3>3, SwapNot DEF uip_ipchksum
    <3> QED BY <2>1, <3>4 DEF Right
  <2>2. CASE p = Store(r, 3, a + 256 * b)
    <3>1. a \in Octet /\ b \in Octet BY OctetsAre
    <3>2. 256 * b + a \in U16 /\ 256 * b + a = a + 256 * b BY <3>1, HalvesOf, OctetIs
    <3> QED BY <2>2, <3>2
  <2> QED BY <1>2, <2>1, <2>2 DEF r
<1>5. p \in Seq(Octet) /\ 4 <= Len(p) /\ p[1] = ICMP_ECHO
  <2>1. 3 \in 1..(Len(r) - 1) /\ 1 \in 1..Len(r) /\ 1 # 3 /\ 1 # 3 + 1 BY <1>3
  <2>2. r \in Seq(Octet) BY <1>3
  <2>3. p \in Seq(Octet) /\ Len(p) = Len(r) BY <1>4, <2>1, <2>2, StoreIs
  <2>4. p[1] = r[1] BY <1>4, <2>1, <2>2, StoreIs
  <2> QED BY <1>3, <2>3, <2>4
<1>6. ck'.request = p /\ ck'.reply = EchoReply(p) /\ ck'.sent = <<>> /\ ck'.out = <<>>
  BY <1>2 DEF Nothing
<1>7. ~Zeros(EchoReply(p)) => (Passes(EchoReply(p)) <=> Passes(p)) BY <1>5, EchoRight DEF Passes
<1>8. EchoHolds(ck') /\ SentHolds(ck') /\ OutHolds(ck')
  BY <1>6, <1>7 DEF EchoHolds, SentHolds, OutHolds
<1> QED BY <1>8, ChecksumParts

LEMMA SendHolds == ASSUME SumSizes, ck = Nothing, Send PROVE ChecksumsHold'
<1>1. PICK addrs \in Headers, data \in Messages :
        ck' = [ck EXCEPT !.addrs = addrs, !.sent = TcpSent(TCP, addrs, data)]
  BY DEF Send
<1> DEFINE q == TcpSent(TCP, addrs, data)
<1>2. addrs \in Seq(Octet) BY OctetsAre
<1>3. data \in Seq(Octet) /\ Sendable(data) BY OctetsAre DEF Sendable
<1>4. SentAs(addrs, data, q) BY <1>2, <1>3, SentRight
<1>7. ck'.request = <<>> /\ ck'.addrs = addrs /\ ck'.sent = q /\ ck'.out = <<>>
  BY <1>1 DEF Nothing
<1> HIDE DEF q
<1>5. q \in Seq(Octet) /\ Summed(addrs, q) BY <1>4 DEF SentAs
<1>6. upper_layer_chksum(TCP, addrs, q) = 65535 BY <1>4 DEF SentAs
<1>8. ASSUME NEW p \in Damaged(q) PROVE upper_layer_chksum(TCP, addrs, p) # 65535
  <2>1. PICK i \in DOMAIN q, o \in Bytes : p = [q EXCEPT ![i] = o] /\ p # q
    BY <1>8 DEF Damaged
  <2>2. DOMAIN q = 1..Len(q) /\ Len(q) \in Nat BY <1>5, LenProperties
  <2>3. i \in 1..Len(q) /\ o \in Octet BY <2>2, OctetsAre
  <2>4. o # q[i]
    <3>1. q = [m \in 1..Len(q) |-> q[m]] BY <1>5
    <3> QED BY <2>1, <2>3, <3>1
  <2>5. q \in Seq(Octet) /\ p = [q EXCEPT ![i] = o] BY <1>5, <2>1
  <2>6. Noticed(addrs, [q EXCEPT ![i] = o]) BY <1>2, <1>5, <2>3, <2>4, <2>5, DamageNoticed
  <2>7. Noticed(addrs, p) BY <2>5, <2>6
  <2> QED BY <2>7 DEF Noticed
<1>9. EchoHolds(ck') BY <1>7 DEF EchoHolds
<1>10. SentHolds(ck') BY <1>6, <1>7, <1>8 DEF SentHolds
<1>11. OutHolds(ck') BY <1>7 DEF OutHolds
<1> QED BY <1>9, <1>10, <1>11, ChecksumParts

LEMMA SplitHolds == ASSUME SumSizes, ck = Nothing, SendSplit PROVE ChecksumsHold'
<1>1. PICK addrs \in Headers, seqno \in Seqnos, data \in Payloads :
        LET p == Segment(addrs, seqno, data)
        IN  ck' = [ck EXCEPT !.addrs = addrs, !.whole = p, !.out = uip_split_output(addrs, p)]
  BY DEF SendSplit
<1> DEFINE p == Segment(addrs, seqno, data)  out == uip_split_output(addrs, p)
<1>2. addrs \in Seq(Octet) /\ data \in Seq(Octet) /\ Len(data) \in Nat /\ 1 <= Len(data) /\ Len(data) <= 60000 BY OctetsAre
<1>3. seqno \in U16
  <2>1. 0 \in U16 /\ 65535 \in U16 BY U16Is, AllOnes16
  <2> QED BY <2>1 DEF Seqnos
<1>n. Len(data) \in Int /\ 0 < Len(data) /\ Len(data) <= 60000 BY <1>2
<1>4. SegmentRight(addrs, p, seqno, data) BY <1>2, <1>3, <1>n, SegmentIs
<1>5. /\ ck'.request = <<>> /\ ck'.sent = <<>> /\ ck'.addrs = addrs /\ ck'.whole = p
      /\ ck'.out = out
  BY <1>1 DEF Nothing
<1>6. Payload(p) = data /\ Seqno(p) = seqno BY <1>4 DEF SegmentRight
<1> HIDE DEF p
<1>7. OutHolds(ck')
  <2>1. CASE Len(data) # Full
    <3>1. out = <<p>> BY <1>6, <2>1 DEF uip_split_output
    <3> HIDE DEF out
    <3>2. DOMAIN out = {1} /\ out[1] = p BY <3>1
    <3>3. [i \in DOMAIN out |-> Payload(out[i])] = <<data>> BY <1>6, <3>2
    <3>4. FlattenSeq([i \in DOMAIN out |-> Payload(out[i])]) = data BY <3>3, OneIsFlat
    <3>5. PieceHolds(ck', 1) BY <1>4, <1>5, <1>6, <3>2 DEF PieceHolds, SegmentRight
    <3> QED BY <1>5, <1>6, <3>2, <3>4, <3>5 DEF OutHolds
  <2>2. CASE Len(data) = Full
    <3> DEFINE n == Len(data) \div 2  d1 == SubSeq(data, 1, n)  d2 == SubSeq(data, n + 1, Len(data))
               next == u16(seqno + n)  s1 == Segment(addrs, seqno, d1)  s2 == Segment(addrs, next, d2)
    <3>1. out = <<s1, s2>> BY <1>6, <2>2 DEF uip_split_output
    <3>2. n \in Nat /\ n <= Len(data) BY <1>n, SMT
    <3> HIDE DEF n
    <3>3. d1 \in Seq(Octet) /\ Len(d1) = n
      <4>1. \A i \in 1..n : data[i] \in Octet
        <5>1. \A i \in 1..n : i \in 1..Len(data) BY <1>n, <3>2
        <5> QED BY <1>2, <5>1, ElementOfSeq
      <4>2. d1 \in Seq(Octet) /\ Len(d1) = IF 1 <= n THEN n - 1 + 1 ELSE 0
        BY <3>2, <4>1, SubSeqProperties
      <4> QED BY <3>2, <4>2
    <3>4. d2 \in Seq(Octet) /\ Len(d2) <= 60000
      <4>1. \A i \in (n + 1)..Len(data) : data[i] \in Octet
        <5>1. \A i \in (n + 1)..Len(data) : i \in 1..Len(data) BY <1>n, <3>2
        <5> QED BY <1>2, <5>1, ElementOfSeq
      <4>2. n + 1 \in Int /\ Len(data) \in Int BY <1>n, <3>2
      <4>3. /\ d2 \in Seq(Octet)
            /\ Len(d2) = IF n + 1 <= Len(data) THEN Len(data) - (n + 1) + 1 ELSE 0
        BY <4>1, <4>2, SubSeqProperties
      <4> QED BY <1>n, <3>2, <4>3
    <3>5. d1 \o d2 = data
      <4>1. 1 \in 1..(Len(data) + 1) /\ n \in (1 - 1)..Len(data) /\ Len(data) \in n..Len(data)
        BY <1>n, <3>2
      <4> DEFINE l == Len(data)
      <4>2. data \in Seq(Octet) BY <1>2
      <4>3. SubSeq(data, 1, l) = data BY <4>2, SubSeqFull
      <4> HIDE DEF l
      <4>4. 1 \in 1..(l + 1) /\ n \in (1 - 1)..l /\ l \in n..l BY <4>1 DEF l
      <4>5. d1 \o d2 = SubSeq(data, 1, l)
        <5> DEFINE k == 1
        <5>1. k \in 1..(Len(data) + 1) /\ n \in (k - 1)..Len(data) /\ l \in n..Len(data)
          BY <4>4 DEF l
        <5> HIDE DEF k
        <5>2. SubSeq(data, k, n) \o SubSeq(data, n + 1, l) = SubSeq(data, k, l)
          BY <4>2, <5>1, ConcatAdjacentSubSeq
        <5> QED BY <5>2, Zenon DEF k, l
      <4> QED BY <4>3, <4>5
    <3> HIDE DEF d1, d2
    <3>6. next \in U16
      <4>1. seqno \in Int BY <1>3, U16Is
      <4>2. next \in Int /\ 0 <= next /\ next < 65536 BY <3>2, <4>1, SMT DEF u16
      <4> QED BY <4>2, U16Is
    <3> HIDE DEF next
    <3>7. SegmentRight(addrs, s1, seqno, d1)
      <4>1. Len(d1) <= 60000 BY <1>n, <3>2, <3>3
      <4> QED BY <1>2, <1>3, <3>3, <4>1, SegmentIs
    <3>8. SegmentRight(addrs, s2, next, d2) BY <1>2, <3>4, <3>6, SegmentIs
    <3> HIDE DEF s1, s2, out
    <3>9. DOMAIN out = {1, 2} /\ Len(out) = 2 /\ out[1] = s1 /\ out[2] = s2 BY <3>1
    <3>10. Payload(s1) = d1 /\ Payload(s2) = d2 /\ Seqno(s1) = seqno /\ Seqno(s2) = next
      BY <3>7, <3>8 DEF SegmentRight
    <3>11. FlattenSeq([i \in DOMAIN out |-> Payload(out[i])]) = data
      <4>1. [i \in DOMAIN out |-> Payload(out[i])] = <<d1, d2>>
        <5>1. DOMAIN out = 1..2 BY <3>9
        <5> QED BY <3>9, <3>10, <5>1
      <4> QED BY <3>5, <4>1, TwoAreFlat
    <3>12. PieceHolds(ck', 1)
      BY <1>5, <3>7, <3>9, <3>10 DEF PieceHolds, SegmentRight
    <3>13. PieceHolds(ck', 2)
      <4>1. next = u16(Seqno(s1) + Len(Payload(s1))) BY <3>3, <3>10 DEF next
      <4>2. 2 - 1 = 1 OBVIOUS
      <4> QED BY <1>5, <3>8, <3>9, <3>10, <4>1, <4>2 DEF PieceHolds, SegmentRight
    <3> QED BY <1>5, <1>6, <3>9, <3>10, <3>11, <3>12, <3>13 DEF OutHolds
  <2> QED BY <2>1, <2>2
<1>8. EchoHolds(ck') /\ SentHolds(ck') BY <1>5 DEF EchoHolds, SentHolds
<1> QED BY <1>7, <1>8, ChecksumParts

LEMMA NothingHolds == ck = Nothing => ChecksumsHold
BY DEF Nothing, ChecksumsHold

(* A reply to an echo request passes as the request did; what uIP sends    *)
(* passes, and nothing with one octet changed; and the two halves of a     *)
(* segment are segments, in order (uip.c, chksum and the adjustment of     *)
(* icmpchksum; uip-split.c).                                               *)
THEOREM SumsHold == SumSpec => []ChecksumsHold
<1>1. SumSizes BY SumAssumption
<1>2. SumInit => ChecksumsHold BY NothingHolds DEF SumInit
<1>3. ChecksumsHold /\ [SumNext]_ck => ChecksumsHold'
  <2> SUFFICES ASSUME ChecksumsHold, [SumNext]_ck PROVE ChecksumsHold' OBVIOUS
  <2>1. CASE ck = Nothing /\ Ping BY <1>1, <2>1, PingHolds
  <2>2. CASE ck = Nothing /\ Send BY <1>1, <2>2, SendHolds
  <2>3. CASE ck = Nothing /\ SendSplit BY <1>1, <2>3, SplitHolds
  <2>4. CASE ck' = Nothing BY <2>4 DEF Nothing, ChecksumsHold
  <2>5. CASE UNCHANGED ck BY <2>5 DEF ChecksumsHold
  <2> QED BY <2>1, <2>2, <2>3, <2>4, <2>5 DEF SumNext
<1> QED BY <1>2, <1>3, PTL DEF SumSpec
=============================================================================
