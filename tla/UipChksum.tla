----------------------------- MODULE UipChksum ------------------------------
(***************************************************************************)
(* The Internet checksum in uip.c: chksum, what uIP puts into the headers  *)
(* it sends, and the echo reply, whose checksum is not computed but        *)
(* adjusted; and uip-split.c, which makes two segments of a full one.      *)
(* Integers have the widths of the code; the processor and the macro HTONS *)
(* are little endian.                                                      *)
(*                                                                         *)
(* Of the headers a message has the checksum, and a segment the length, in *)
(* the IP header, and the sequence number, of 16 bits.                     *)
(*                                                                         *)
(* Bounds: Bytes, those of which messages consist, MaxLen, their number,   *)
(* and Full, the octets of data of a full segment.                         *)
(***************************************************************************)
EXTENDS SequencesExt

CONSTANTS Bytes, MaxLen, Full

(* What the proofs assume: a message and its protocol number, or a full    *)
(* segment with its headers, has a length of 16 bits.                      *)
SumSizes ==
  /\ Bytes \subseteq 0..255
  /\ MaxLen \in Nat /\ 2 <= MaxLen /\ MaxLen <= 60000
  /\ Full \in Nat /\ 1 <= Full /\ Full <= 60000

ASSUME SumAssumption == SumSizes

VARIABLE ck  \* the last echo request and its reply, the last message or segment sent

u16(n)   == n % 65536
Not16(n) == 65535 - n
htons(n) == 256 * (n % 256) + (n \div 256)

(* The sum of the words, the carry added again; an odd octet at the end is *)
(* the upper half of a word.                                               *)
WordAt(data, i) == 256 * data[2 * i - 1] + (IF 2 * i <= Len(data) THEN data[2 * i] ELSE 0)
Add_lost(sum, t) == u16(sum + t)
Add(sum, t) == IF u16(sum + t) < t THEN u16(sum + t + 1) ELSE u16(sum + t)
chksum(sum, data) == FoldLeft(Add, sum, [i \in 1..((Len(data) + 1) \div 2) |-> WordAt(data, i)])

(* Over the header, or a message after its length and its addresses.  Zero *)
(* is never returned.                                                      *)
Nonzero(sum) == IF sum = 0 THEN 65535 ELSE htons(sum)
uip_ipchksum(header) == Nonzero(chksum(0, header))
upper_layer_chksum(proto, addrs, data) ==
  Nonzero(chksum(chksum(Len(data) + proto, addrs), data))

(* The word at octet i of a message, as the processor loads and stores it. *)
Load(data, i)     == data[i] + 256 * data[i + 1]
Store(data, i, n) == [data EXCEPT ![i] = n % 256, ![i + 1] = n \div 256]

(* A message is sent with the complement of its sum, taken with zero in    *)
(* the place of it.                                                        *)
TcpSent(proto, addrs, data) ==
  Store(data, 1, Not16(upper_layer_chksum(proto, addrs, Store(data, 1, 0))))

ICMP_ECHO == 8
Adjusted(n) ==
  IF n >= htons(65535 - 256 * ICMP_ECHO) THEN u16(n + htons(256 * ICMP_ECHO) + 1)
  ELSE u16(n + htons(256 * ICMP_ECHO))
EchoReply(p) == Store([p EXCEPT ![1] = 0], 3, Adjusted(Load(p, 3)))

-----------------------------------------------------------------------------
(* A segment, with both checksums right.                                   *)

TCP  == 6
HLEN == 8
Octets2(n) == <<n \div 256, n % 256>>
Segment(addrs, seqno, data) ==
  LET ip == <<0, 0>> \o Octets2(HLEN + Len(data))
  IN  [ip  |-> Store(ip, 1, Not16(uip_ipchksum(ip))),
       tcp |-> TcpSent(TCP, addrs, <<0, 0>> \o Octets2(seqno) \o data)]
Seqno(p)   == 256 * p.tcp[3] + p.tcp[4]
Payload(p) == SubSeq(p.tcp, 5, Len(p.tcp))

(* A full segment is sent in two: the lengths, the sequence number and the *)
(* checksums of each half are its own.  The second has the odd octet.      *)
uip_split_output(addrs, p) ==
  LET data == Payload(p)
      len1 == Len(data) \div 2
  IN  IF Len(data) # Full THEN <<p>>
      ELSE << Segment(addrs, Seqno(p), SubSeq(data, 1, len1)),
              Segment(addrs, u16(Seqno(p) + len1), SubSeq(data, len1 + 1, Len(data))) >>

-----------------------------------------------------------------------------
Messages == UNION {[1..n -> Bytes] : n \in 2..MaxLen}
Headers  == [1..2 -> Bytes]
Payloads == UNION {[1..n -> Bytes] : n \in 1..Full}
Seqnos   == {0, 65535}

Request(rest) == <<ICMP_ECHO, 0, 0, 0>> \o rest
Right(p)      == Store(p, 3, Not16(uip_ipchksum(p)))

Nothing == [request |-> <<>>, reply |-> <<>>, addrs |-> <<>>, sent |-> <<>>,
            whole |-> <<>>, out |-> <<>>]
SumInit == ck = Nothing

(* An echo request has its right checksum, or any.                         *)
Ping == \E rest \in Headers, a \in Bytes, b \in Bytes :
        \E p \in {Right(Request(rest)), Store(Request(rest), 3, a + 256 * b)} :
          ck' = [ck EXCEPT !.request = p, !.reply = EchoReply(p)]
Send == \E addrs \in Headers, data \in Messages :
          ck' = [ck EXCEPT !.addrs = addrs, !.sent = TcpSent(TCP, addrs, data)]
SendSplit == \E addrs \in Headers, seqno \in Seqnos, data \in Payloads :
  LET p == Segment(addrs, seqno, data)
  IN  ck' = [ck EXCEPT !.addrs = addrs, !.whole = p, !.out = uip_split_output(addrs, p)]
SumNext == IF ck = Nothing THEN Ping \/ Send \/ SendSplit ELSE ck' = Nothing
SumSpec == SumInit /\ [][SumNext]_ck

Zeros(p) == \A i \in DOMAIN p : p[i] = 0
Passes(p) == chksum(0, p) = 65535
Damaged(p) == {[p EXCEPT ![i] = o] : i \in DOMAIN p, o \in Bytes} \ {p}

(* The reply to an echo request passes the check of whoever asked just if  *)
(* the request did, but for a reply of nothing but zeros, whose checksum   *)
(* ought to be 0xffff (uip.c, the adjustment of icmpchksum).  A message    *)
(* uIP sends passes its own check, and no longer when one octet changes.   *)
(* What leaves uip_split_output passes too, and is the data of the segment *)
(* in order, each piece at its sequence number.                            *)
ChecksumsHold ==
  /\ ck.request # <<>> /\ ~Zeros(ck.reply) => (Passes(ck.reply) <=> Passes(ck.request))
  /\ ck.sent # <<>> =>
       /\ upper_layer_chksum(TCP, ck.addrs, ck.sent) = 65535
       /\ \A p \in Damaged(ck.sent) : upper_layer_chksum(TCP, ck.addrs, p) # 65535
  /\ ck.out # <<>> =>
       /\ FlattenSeq([i \in DOMAIN ck.out |-> Payload(ck.out[i])]) = Payload(ck.whole)
       /\ Seqno(ck.out[1]) = Seqno(ck.whole)
       /\ \A i \in DOMAIN ck.out :
            /\ Passes(ck.out[i].ip) /\ upper_layer_chksum(TCP, ck.addrs, ck.out[i].tcp) = 65535
            /\ 256 * ck.out[i].ip[3] + ck.out[i].ip[4] = HLEN + Len(Payload(ck.out[i]))
            /\ i > 1 => Seqno(ck.out[i]) = u16(Seqno(ck.out[i-1]) + Len(Payload(ck.out[i-1])))
=============================================================================
