-------------------------- MODULE UipTcpLink_proofs --------------------------
(***************************************************************************)
(* Proofs about UipTcpLink: both streams arrive whole and in order over a  *)
(* network that loses, duplicates and reorders, for every number of octets *)
(* and of segments in flight, every size of the stack and every initial    *)
(* sequence number, also when the sequence numbers of the stack wrap, as   *)
(* long as the application closes only when everything is acknowledged.    *)
(*                                                                         *)
(* The invariant says what every segment under way, in either direction,   *)
(* may claim (BackOK, NetOK), what the connection keeps of the two streams *)
(* (StackOK), and what the peer has of them (PeerOK).  It builds on the    *)
(* invariant of UipTcp, for the steps of the stack are steps of UipTcp.    *)
(***************************************************************************)
EXTENDS UipTcpLink, UipTcp_proofs, SequenceTheorems

(* The octets of the stack by their place: the SYN has place 0, the first  *)
(* octet of the application place 1.                                       *)
Sq(i) == Plus(FirstIss, i)

BackRecs == [seg : OutSegs, first : Nat \ {0}]
PeerRecs ==
  [st : {"closed", "opening", "open", "dead"}, rcv : SeqNos, got : Seq(Nat),
   written : 0..PeerOctets, fin : BOOLEAN, finGot : BOOLEAN, acked : Nat]
AppRecs ==
  [started : BOOLEAN, left : BOOLEAN, base : Nat, high : 0..AppOctets, in : Seq(Nat)]

LinkTyped ==
  /\ net \subseteq InSegs /\ back \subseteq BackRecs
  /\ peer \in PeerRecs /\ app \in AppRecs

(* The stream of the application has an end that the peer may see.         *)
Finned(k, a) == a.started /\ k.st \notin {"SYN_RCVD", "ESTABLISHED"}

(* What the stack keeps of the two streams.                                *)
StackOK(k, a, p) ==
  /\ k.st # "SYN_SENT" /\ a.base <= a.high
  /\ k.st # "CLOSED" => a.started /\ k.peer = ThePeer /\ k.lport = ThePort
  /\ k.st = "SYN_RCVD" => k.snd_nxt = Sq(0) /\ a.base = 0 /\ a.high = 0
  /\ k.st = "ESTABLISHED" => k.snd_nxt = Sq(1 + a.base) /\ a.high = a.base + k.len
  /\ k.st \in {"FIN_WAIT_1", "CLOSING", "LAST_ACK"} => k.snd_nxt = Sq(1 + a.base) /\ a.high = a.base
  /\ k.st \in {"SYN_RCVD", "ESTABLISHED"} => k.rcv_nxt = 1 + Len(a.in)
  /\ k.st = "LAST_ACK" => a.left \/ (p.fin /\ p.written <= Len(a.in))
  /\ k.st \in {"FIN_WAIT_1", "FIN_WAIT_2", "CLOSING", "TIME_WAIT"} => a.left

(* An acknowledgment that tells the peer no more than is true.             *)
AckTrue(n, a, p) ==
  a.left \/ n <= 1 + Len(a.in) \/ (p.fin /\ p.written <= Len(a.in))

BackOK(m, k, a, p) ==
  \/ "RST" \in m.seg.flags
  \/ "SYN" \in m.seg.flags /\ m.seg.seq = Sq(0)
  \/ /\ m.seg.flags \cap {"SYN", "RST"} = {}
     /\ m.seg.len > 0 \/ "FIN" \in m.seg.flags => m.seg.seq = Sq(m.first)
     /\ m.first + m.seg.len <= a.high + 1
     /\ "FIN" \in m.seg.flags => m.seg.len = 0 /\ m.first = a.high + 1 /\ Finned(k, a)
     /\ AckTrue(m.seg.ack, a, p)

NetOK(s, p) ==
  /\ s.peer = ThePeer /\ s.lport = ThePort /\ "URG" \notin s.flags
  /\ "ACK" \in s.flags =>
       \E n \in 0..(AppOctets + 1) : s.ack = Sq(1 + n) /\ (n <= Len(p.got) \/ (p.finGot /\ n = Len(p.got) + 1))
  /\ s.len > 0 => s.seq >= 1 /\ s.seq + s.len <= p.written + 1
  /\ "FIN" \in s.flags => p.fin /\ s.seq >= 1 /\ s.seq + s.len = p.written + 1
  /\ "SYN" \in s.flags => s.seq = 0

(* The octets of the stack the peer has taken, its FIN included.           *)
Held(p) == Len(p.got) + IF p.finGot THEN 1 ELSE 0

PeerOK(p, k, a) ==
  /\ p.st \in {"closed", "opening"} => p.got = <<>> /\ ~p.finGot
  /\ p.st = "open" => p.rcv = Sq(1 + Held(p))
  /\ a.base <= Len(p.got) /\ Len(p.got) <= a.high
  /\ p.finGot => Len(p.got) = a.high /\ Finned(k, a)
  /\ AckTrue(p.acked, a, p)

LinkInv ==
  /\ IInv /\ LinkTyped
  /\ \A c \in Conns \ {0} : uip_conns[c].st = "CLOSED"
  /\ ~app.started => /\ conn.st = "CLOSED" /\ iss = FirstIss
                     /\ app.base = 0 /\ app.high = 0 /\ app.in = <<>>
  /\ StackOK(conn, app, peer)
  /\ \A s \in net : NetOK(s, peer)
  /\ \A m \in back : BackOK(m, conn, app, peer)
  /\ PeerOK(peer, conn, app)
  /\ StreamOut /\ StreamIn

(***************************************************************************)
(* Sequence numbers and octets.                                            *)
(***************************************************************************)
LEMMA PlusIs ==
  ASSUME NEW s \in 0..(SeqMod - 1), NEW n \in 0..(SeqMod - 1)
  PROVE  Plus(s, n) = IF s + n < SeqMod THEN s + n ELSE s + n - SeqMod
BY SizesAssumption DEF Plus

LEMMA PlusPlus ==
  ASSUME NEW s \in 0..(SeqMod - 1), NEW n \in Nat, NEW m \in Nat, n + m < SeqMod
  PROVE  Plus(Plus(s, n), m) = Plus(s, n + m)
<1>1. n \in 0..(SeqMod - 1) /\ m \in 0..(SeqMod - 1) /\ n + m \in 0..(SeqMod - 1)
  BY SizesAssumption
<1> DEFINE t == Plus(s, n)
<1>2. t = IF s + n < SeqMod THEN s + n ELSE s + n - SeqMod BY <1>1, PlusIs
<1>3. t \in 0..(SeqMod - 1) BY <1>1, <1>2, SizesAssumption
<1> HIDE DEF t
<1>4. Plus(t, m) = IF t + m < SeqMod THEN t + m ELSE t + m - SeqMod BY <1>1, <1>3, PlusIs
<1>5. Plus(s, n + m) = IF s + (n + m) < SeqMod THEN s + (n + m) ELSE s + (n + m) - SeqMod
  BY <1>1, PlusIs
<1> QED BY <1>1, <1>2, <1>4, <1>5, SizesAssumption DEF t

LEMMA SqPlus ==
  ASSUME NEW n \in Nat, NEW m \in Nat, n + m < SeqMod
  PROVE  Plus(Sq(n), m) = Sq(n + m)
<1>1. FirstIss \in 0..(SeqMod - 1) BY StreamsAssumption DEF SeqNos
<1> QED BY <1>1, PlusPlus DEF Sq

(* Two octets of a stream have different sequence numbers.                 *)
LEMMA SqInjective ==
  ASSUME NEW n \in 0..(SeqMod - 1), NEW m \in 0..(SeqMod - 1), Sq(n) = Sq(m)
  PROVE  n = m
<1>1. FirstIss \in 0..(SeqMod - 1) BY StreamsAssumption DEF SeqNos
<1> DEFINE x == Plus(FirstIss, n)  y == Plus(FirstIss, m)
<1>2. x = IF FirstIss + n < SeqMod THEN FirstIss + n ELSE FirstIss + n - SeqMod BY <1>1, PlusIs
<1>3. y = IF FirstIss + m < SeqMod THEN FirstIss + m ELSE FirstIss + m - SeqMod BY <1>1, PlusIs
<1>4. x = y BY DEF Sq
<1> HIDE DEF x, y
<1>5. x \in Int /\ y \in Int BY <1>1, <1>2, <1>3, SizesAssumption
<1> QED BY <1>1, <1>2, <1>3, <1>4, <1>5, SizesAssumption

LEMMA SqType == ASSUME NEW n \in Nat PROVE Sq(n) \in SeqNos
<1>1. FirstIss \in Nat BY StreamsAssumption DEF SeqNos
<1> QED BY <1>1, PlusType DEF Sq

LEMMA OctetsIs ==
  ASSUME NEW first \in Nat, NEW n \in Nat
  PROVE  /\ Octets(first, n) \in Seq(Nat) /\ Len(Octets(first, n)) = n
         /\ \A i \in 1..n : Octets(first, n)[i] = first + i - 1
<1>1. \A i \in 1..n : first + i - 1 \in Nat OBVIOUS
<1>2. Octets(first, n) \in [1..n -> Nat] BY <1>1 DEF Octets
<1>3. Octets(first, n) \in Seq(Nat) BY <1>2, IsASeq DEF Octets
<1>4. Len(Octets(first, n)) = n BY <1>2, <1>3, LenProperties DEF Octets
<1> QED BY <1>3, <1>4 DEF Octets

(* A stream that goes on with the next octets goes on counting.            *)
LEMMA StreamGrows ==
  ASSUME NEW s \in Seq(Nat), \A i \in DOMAIN s : s[i] = i,
         NEW n \in Nat, NEW first \in Nat, n > 0 => first = Len(s) + 1
  PROVE  /\ s \o Octets(first, n) \in Seq(Nat)
         /\ Len(s \o Octets(first, n)) = Len(s) + n
         /\ \A i \in DOMAIN (s \o Octets(first, n)) : (s \o Octets(first, n))[i] = i
<1> DEFINE o == Octets(first, n)  t == s \o o
<1>1. o \in Seq(Nat) /\ Len(o) = n /\ \A i \in 1..n : o[i] = first + i - 1 BY OctetsIs
<1> HIDE DEF o
<1>2. /\ t \in Seq(Nat) /\ Len(t) = Len(s) + n
      /\ \A i \in 1..Len(s) + n : t[i] = IF i <= Len(s) THEN s[i] ELSE o[i - Len(s)]
  BY <1>1, ConcatProperties
<1>3. DOMAIN s = 1..Len(s) /\ Len(s) \in Nat BY LenProperties
<1>4. DOMAIN t = 1..Len(t) BY <1>2, LenProperties
<1> HIDE DEF t
<1>5. ASSUME NEW i \in DOMAIN t PROVE t[i] = i
  <2>1. i \in 1..(Len(s) + n) BY <1>2, <1>4
  <2>2. CASE i <= Len(s) BY <1>2, <1>3, <2>1, <2>2
  <2>3. CASE i > Len(s)
    <3> DEFINE j == i - Len(s)
    <3>1. j \in 1..n /\ n > 0 /\ first = Len(s) + 1 BY <1>3, <2>1, <2>3
    <3>2. t[i] = o[j] BY <1>2, <1>3, <2>1, <2>3
    <3>3. o[j] = first + j - 1 BY <1>1, <3>1
    <3>4. Len(s) + 1 + j - 1 = i
      <4> DEFINE l == Len(s)
      <4>1. l \in Int /\ i \in Int BY <1>3, <2>1
      <4> HIDE DEF l
      <4>2. l + 1 + (i - l) - 1 = i BY <4>1
      <4> QED BY <4>2 DEF l
    <3>5. t[i] = Len(s) + 1 + j - 1 BY <3>1, <3>2, <3>3
    <3> QED BY <3>4, <3>5
  <2> QED BY <1>3, <2>1, <2>2, <2>3
<1> QED BY <1>2, <1>5 DEF t, o

LEMMA TheEnds == ThePeer \in Peers /\ ThePort \in Ports
BY StreamsAssumption DEF ThePeer, ThePort

LEMMA ZeroConn == 0 \in Conns
BY SizesAssumption DEF Conns

(***************************************************************************)
(* What a step of the stack must establish.                                *)
(***************************************************************************)

(* From record k and application a to e and b nothing is taken back, and   *)
(* the end of the stream stays where it was.                               *)
Grown(k, a, e, b) ==
  /\ a.base <= b.base /\ a.high <= b.high /\ Len(a.in) <= Len(b.in)
  /\ a.left => b.left
  /\ a.started => b.started
  /\ Finned(k, a) => Finned(e, b) /\ b.high = a.high

LEMMA BackKept ==
  ASSUME NEW m \in BackRecs, NEW k, NEW e, NEW a \in AppRecs, NEW b \in AppRecs,
         NEW p \in PeerRecs, Grown(k, a, e, b), BackOK(m, k, a, p)
  PROVE  BackOK(m, e, b, p)
<1>1. a.high \in Nat /\ b.high \in Nat /\ Len(a.in) \in Nat /\ Len(b.in) \in Nat
  BY StreamsAssumption DEF AppRecs
<1>2. m.first \in Nat /\ m.seg.len \in Nat /\ m.seg.ack \in Nat /\ p.written \in Nat
  BY StreamsAssumption DEF BackRecs, OutSegs, SeqNos, PeerRecs
<1>3. AckTrue(m.seg.ack, a, p) => AckTrue(m.seg.ack, b, p)
  BY <1>1, <1>2 DEF AckTrue, Grown
<1> QED BY <1>1, <1>2, <1>3 DEF BackOK, Grown

LEMMA PeerKept ==
  ASSUME NEW k, NEW e, NEW a \in AppRecs, NEW b \in AppRecs, NEW p \in PeerRecs,
         Grown(k, a, e, b), b.base <= Len(p.got), PeerOK(p, k, a)
  PROVE  PeerOK(p, e, b)
<1>1. a.high \in Nat /\ b.high \in Nat /\ Len(a.in) \in Nat /\ Len(b.in) \in Nat
  BY StreamsAssumption DEF AppRecs
<1>2. p.acked \in Nat /\ p.written \in Nat /\ Len(p.got) \in Nat
  BY StreamsAssumption DEF PeerRecs
<1>3. AckTrue(p.acked, a, p) => AckTrue(p.acked, b, p)
  BY <1>1, <1>2 DEF AckTrue, Grown
<1>4. p.finGot => Len(p.got) = b.high /\ Finned(e, b) BY DEF PeerOK, Grown
<1>5. Len(p.got) <= b.high BY <1>1, <1>2 DEF PeerOK, Grown
<1>6. AckTrue(p.acked, b, p) BY <1>3 DEF PeerOK
<1> HIDE DEF Grown
<1> QED BY <1>4, <1>5, <1>6 DEF PeerOK

(* The application after a step that leaves record e in entry 0.           *)
LEMMA AppIs ==
  ASSUME LinkInv, ~CloseAnyTime, IInv', NEW octets \in Seq(Nat), Application(octets),
         NEW e \in ConnRecs, uip_conns'[0] = e
  PROVE  /\ app' \in AppRecs
         /\ "ACKDATA" \notin ev'.flags => app'.base = app.base
         /\ "ACKDATA" \in ev'.flags => app'.base = app.base + conn.len
         /\ e.st = "ESTABLISHED" => app'.high = Most(app.high, app'.base + e.len)
         /\ e.st # "ESTABLISHED" => app'.high = app.high
         /\ e.st = "CLOSED" => (app'.started <=> app.started)
         /\ e.st # "CLOSED" => app'.started
         /\ app'.left <=> app.left \/ ev'.op \in {"close", "abort"}
         /\ app'.in = app.in \o octets
         /\ ev'.op = "close" =>
              ev'.flags \cap {"ACKDATA", "CONNECTED"} # {} \/ conn.len = 0
<1> DEFINE base == app.base + IF "ACKDATA" \in ev'.flags THEN conn.len ELSE 0
           high == IF e.st = "ESTABLISHED" THEN Most(app.high, base + e.len) ELSE app.high
           started == (app.started \/ e.st # "CLOSED")
           left == (app.left \/ ev'.op \in {"close", "abort"})
           in == app.in \o octets
<1>1. /\ app' = [started |-> started, left |-> left, base |-> base, high |-> high, in |-> in]
      /\ e.st = "ESTABLISHED" => base + e.len <= AppOctets
      /\ ev'.op = "close" => CloseAnyTime \/ OutstandingInCall = 0
  BY DEF Application
<1>2. app \in AppRecs /\ conn \in ConnRecs BY ZeroConn DEF LinkInv, LinkTyped, IInv, conn
<1>3. base \in Nat /\ base + e.len \in Nat
  <2>1. app.base \in Nat /\ conn.len \in Nat /\ e.len \in Nat BY <1>2 DEF AppRecs, ConnRecs
  <2>2. base = app.base + 0 \/ base = app.base + conn.len BY Zenon
  <2> HIDE DEF base
  <2> QED BY <2>1, <2>2
<1>4. high \in 0..AppOctets
  <2>1. app.high \in 0..AppOctets /\ AppOctets \in Nat BY <1>2, StreamsAssumption DEF AppRecs
  <2>2. e.st = "ESTABLISHED" => base + e.len \in 0..AppOctets BY <1>1, <1>3, <2>1
  <2>3. high \in {app.high, base + e.len} /\ (e.st # "ESTABLISHED" => high = app.high)
    BY Zenon DEF Most
  <2> HIDE DEF base, high
  <2> QED BY <2>1, <2>2, <2>3
<1>5. started \in BOOLEAN /\ left \in BOOLEAN BY Zenon
<1>6. in \in Seq(Nat) BY <1>2, ConcatProperties DEF AppRecs
<1>7. ev'.op = "close" =>
        ev'.flags \cap {"ACKDATA", "CONNECTED"} # {} \/ conn.len = 0
  BY <1>1 DEF OutstandingInCall
<1> HIDE DEF base, high, started, left, in
<1>8. app' \in AppRecs BY <1>1, <1>3, <1>4, <1>5, <1>6 DEF AppRecs
<1>9. /\ app'.base = base /\ app'.high = high /\ app'.started = started
      /\ app'.left = left /\ app'.in = in
  BY <1>1
<1>10. app.base + 0 = app.base BY <1>2 DEF AppRecs
<1>11. /\ "ACKDATA" \notin ev'.flags => base = app.base
       /\ "ACKDATA" \in ev'.flags => base = app.base + conn.len
  BY <1>10 DEF base
<1>12. /\ e.st = "ESTABLISHED" => high = Most(app.high, base + e.len)
       /\ e.st # "ESTABLISHED" => high = app.high
  BY DEF high
<1>13. /\ e.st = "CLOSED" => (started <=> app.started)
       /\ e.st # "CLOSED" => started
       /\ left <=> app.left \/ ev'.op \in {"close", "abort"}
  BY Zenon DEF started, left
<1> QED BY <1>7, <1>8, <1>9, <1>11, <1>12, <1>13 DEF in

LEMMA StackStep ==
  ASSUME LinkInv, IInv', NEW e \in ConnRecs, uip_conns' = [uip_conns EXCEPT ![0] = e],
         UNCHANGED peer, net' \subseteq net, Emit, app' \in AppRecs,
         ~app'.started => /\ e.st = "CLOSED" /\ iss' = FirstIss
                          /\ app'.base = 0 /\ app'.high = 0 /\ app'.in = <<>>,
         Grown(conn, app, e, app'), app'.base <= Len(peer.got),
         StackOK(e, app', peer), StreamIn',
         out' # NoSeg => BackOK([seg |-> out', first |-> app'.base + 1], e, app', peer)
  PROVE  LinkInv'
<1>1. conn' = e /\ \A c \in Conns \ {0} : uip_conns'[c] = uip_conns[c]
  BY ZeroConn DEF LinkInv, IInv, conn
<1>2. /\ peer \in PeerRecs /\ back \subseteq BackRecs /\ app \in AppRecs /\ net \subseteq InSegs
      /\ PeerOK(peer, conn, app) /\ \A m \in back : BackOK(m, conn, app, peer)
      /\ \A s \in net : NetOK(s, peer)
      /\ StreamOut
      /\ \A c \in Conns \ {0} : uip_conns[c].st = "CLOSED"
  BY DEF LinkInv, LinkTyped
<1> DEFINE m0 == [seg |-> out', first |-> app'.base + 1]
<1>3. out' # NoSeg => m0 \in BackRecs
  BY DEF IInv, RestTyped, BackRecs, AppRecs
<1>4. \A m \in back' : m \in back \/ (out' # NoSeg /\ m = m0)
  BY DEF Emit
<1> HIDE DEF m0
<1>5. back' \subseteq BackRecs BY <1>2, <1>3, <1>4
<1>6. \A m \in back' : BackOK(m, e, app', peer)
  BY <1>2, <1>4, BackKept DEF m0
<1>7. PeerOK(peer, e, app') BY <1>2, PeerKept
<1>8. LinkTyped' BY <1>2, <1>5 DEF LinkTyped
<1>9. StreamOut' BY <1>2 DEF StreamOut
<1>10. peer' = peer OBVIOUS
<1> QED BY <1>1, <1>2, <1>6, <1>7, <1>8, <1>9, <1>10 DEF LinkInv

(* A segment of a connection says nothing but the truth.                   *)
LEMMA Replied ==
  ASSUME NEW e \in ConnRecs, NEW a \in AppRecs, NEW p \in PeerRecs,
         StackOK(e, a, p), e.st # "CLOSED", NEW flags, NEW n \in Nat,
         \/ flags = {"SYN", "ACK"} /\ e.st = "SYN_RCVD"
         \/ flags = {"ACK"} /\ n = 0
         \/ flags = {"ACK"} /\ n = e.len /\ e.st = "ESTABLISHED"
         \/ flags = {"FIN", "ACK"} /\ n = 0 /\ e.st \in {"FIN_WAIT_1", "CLOSING", "LAST_ACK"}
  PROVE  BackOK([seg |-> Segment(e, flags, n), first |-> a.base + 1], e, a, p)
<1> DEFINE m == [seg |-> Segment(e, flags, n), first |-> a.base + 1]
<1>1. /\ m.first = a.base + 1 /\ m.seg.flags = flags /\ m.seg.seq = e.snd_nxt
      /\ m.seg.ack = e.rcv_nxt /\ m.seg.len = n
  BY DEF Segment
<1>2. a.base \in Nat /\ a.high \in Nat /\ e.len \in Nat /\ e.rcv_nxt \in Nat /\ Len(a.in) \in Nat
  BY StreamsAssumption DEF AppRecs, ConnRecs, SeqNos
<1> SUFFICES BackOK(m, e, a, p) OBVIOUS
<1> HIDE DEF m
<1>3. AckTrue(e.rcv_nxt, a, p)
  <2>1. CASE e.st \in {"SYN_RCVD", "ESTABLISHED"} BY <1>2, <2>1 DEF StackOK, AckTrue
  <2>2. CASE e.st \in {"LAST_ACK", "FIN_WAIT_1", "FIN_WAIT_2", "CLOSING", "TIME_WAIT"}
    BY <2>2 DEF StackOK, AckTrue
  <2> QED BY <2>1, <2>2 DEF StackOK, ConnRecs, States
<1>4. CASE flags = {"SYN", "ACK"} /\ e.st = "SYN_RCVD" BY <1>1, <1>4 DEF StackOK, BackOK
<1>5. CASE flags = {"ACK"} /\ n = 0 BY <1>1, <1>2, <1>3, <1>5 DEF StackOK, BackOK
<1>6. CASE flags = {"ACK"} /\ n = e.len /\ e.st = "ESTABLISHED"
  <2>1. e.snd_nxt = Sq(1 + a.base) /\ a.high = a.base + e.len BY <1>6 DEF StackOK
  <2>2. 1 + a.base = a.base + 1 BY <1>2
  <2>3. m.seg.seq = Sq(m.first) BY <1>1, <2>1, <2>2
  <2>4. m.first + m.seg.len <= a.high + 1 BY <1>1, <1>2, <1>6, <2>1
  <2> QED BY <1>1, <1>3, <1>6, <2>3, <2>4 DEF BackOK
<1>7. CASE flags = {"FIN", "ACK"} /\ n = 0 /\ e.st \in {"FIN_WAIT_1", "CLOSING", "LAST_ACK"}
  <2>1. e.snd_nxt = Sq(1 + a.base) /\ a.high = a.base /\ a.started BY <1>7 DEF StackOK
  <2>2. 1 + a.base = a.base + 1 BY <1>2
  <2>3. m.seg.seq = Sq(m.first) /\ m.first = a.high + 1 BY <1>1, <2>1, <2>2
  <2>4. m.first + m.seg.len <= a.high + 1 BY <1>1, <1>2, <1>7, <2>1
  <2>5. Finned(e, a) BY <1>7, <2>1 DEF Finned
  <2> QED BY <1>1, <1>3, <1>7, <2>3, <2>4, <2>5 DEF BackOK
<1> QED BY <1>4, <1>5, <1>6, <1>7

(* What the answer of the application makes of an open connection.         *)
LEMMA Answered ==
  ASSUME NEW x \in ConnRecs, x.st = "ESTABLISHED", NEW flags,
         "ACKDATA" \in flags => x.len = 0, NEW r \in ReplyRecs,
         NEW s, s = AppSend(x, flags, r)
  PROVE  \/ r.op = "abort" /\ s.conn.st = "CLOSED" /\ "RST" \in s.out.flags
         \/ /\ r.op # "abort"
            /\ s.conn.peer = x.peer /\ s.conn.lport = x.lport
            /\ s.conn.snd_nxt = x.snd_nxt /\ s.conn.rcv_nxt = x.rcv_nxt
            /\ \/ /\ r.op = "close" /\ s.conn.st = "FIN_WAIT_1"
                  /\ s.out = Segment(s.conn, {"FIN", "ACK"}, 0)
               \/ /\ r.op # "close" /\ s.conn.st = "ESTABLISHED" /\ s.conn.len >= x.len
                  /\ s.out \in {NoSeg, Segment(s.conn, {"ACK"}, 0),
                                Segment(s.conn, {"ACK"}, s.conn.len)}
<1> DEFINE n  == SendLen(x, flags, r)
           w  == Flow(x, r)
           l  == IF r.slen = 0 THEN x.len ELSE n
           kk == [w EXCEPT !.len  = l, !.nrtx = 0]
           ab == Enter(x, "CLOSED")
           g  == Enter(x, "FIN_WAIT_1")
           fn == [g EXCEPT !.len = 1, !.nrtx = 0]
<1>1. CASE r.op = "abort"
  <2>1. s = [conn |-> Closed(x), out |-> Segment(ab, {"RST", "ACK"}, 0)] BY <1>1 DEF AppSend
  <2>2. Closed(x).st = "CLOSED" BY DEF Closed, Unused
  <2>3. Segment(ab, {"RST", "ACK"}, 0).flags = {"RST", "ACK"} BY DEF Segment
  <2> HIDE DEF ab
  <2>4. s.conn.st = "CLOSED" /\ s.out.flags = {"RST", "ACK"} BY <2>1, <2>2, <2>3
  <2>5. "RST" \in s.out.flags BY <2>4
  <2> QED BY <1>1, <2>4, <2>5, Zenon
<1>2. CASE r.op = "close"
  <2>1. s = [conn |-> fn, out |-> Segment(fn, {"FIN", "ACK"}, 0)] BY <1>2 DEF AppSend
  <2>2. /\ fn.peer = x.peer /\ fn.lport = x.lport /\ fn.st = "FIN_WAIT_1"
        /\ fn.snd_nxt = x.snd_nxt /\ fn.rcv_nxt = x.rcv_nxt
    BY DEF Enter, ConnRecs
  <2> HIDE DEF fn
  <2> QED BY <1>2, <2>1, <2>2
<1>3. CASE r.op \notin {"abort", "close"}
  <2>1. w \in ConnRecs /\ w = [x EXCEPT !.stopped = w.stopped] BY DEF Flow, ConnRecs
  <2>2. [w EXCEPT !.len = IF r.slen = 0 THEN @ ELSE n, !.nrtx = 0] = kk
    BY <2>1 DEF ConnRecs
  <2>3. s = [conn |-> kk, out |-> Answer(kk, n, flags, r)] BY <1>3, <2>2 DEF AppSend
  <2> HIDE DEF w, l
  <2>4. /\ kk.peer = w.peer /\ kk.lport = w.lport /\ kk.st = w.st
        /\ kk.snd_nxt = w.snd_nxt /\ kk.rcv_nxt = w.rcv_nxt /\ kk.len = l
    BY <2>1 DEF ConnRecs
  <2>5. /\ w.peer = x.peer /\ w.lport = x.lport /\ w.st = x.st
        /\ w.snd_nxt = x.snd_nxt /\ w.rcv_nxt = x.rcv_nxt
    BY <2>1 DEF ConnRecs
  <2>6. l >= x.len BY DEF l, SendLen, Least, ConnRecs, ReplyRecs
  <2> HIDE DEF kk
  <2>7. Answer(kk, n, flags, r) \in {NoSeg, Segment(kk, {"ACK"}, 0), Segment(kk, {"ACK"}, kk.len)}
    BY DEF Answer
  <2> QED BY <1>3, <2>3, <2>4, <2>5, <2>6, <2>7
<1> QED BY <1>1, <1>2, <1>3

(* What a record may say, and that it is true.                             *)
Says(e, o) ==
  \/ o = NoSeg
  \/ o = Segment(e, {"ACK"}, 0)
  \/ e.st = "SYN_RCVD" /\ o = Segment(e, {"SYN", "ACK"}, 0)
  \/ e.st = "ESTABLISHED" /\ o = Segment(e, {"ACK"}, e.len)
  \/ e.st \in {"FIN_WAIT_1", "CLOSING", "LAST_ACK"} /\ o = Segment(e, {"FIN", "ACK"}, 0)

LEMMA SaysTrue ==
  ASSUME NEW e \in ConnRecs, NEW a \in AppRecs, NEW p \in PeerRecs,
         StackOK(e, a, p), e.st # "CLOSED", NEW o, Says(e, o), o # NoSeg
  PROVE  BackOK([seg |-> o, first |-> a.base + 1], e, a, p)
<1>1. e.len \in Nat BY DEF ConnRecs
<1>2. BackOK([seg |-> Segment(e, {"ACK"}, 0), first |-> a.base + 1], e, a, p) BY Replied
<1>3. e.st = "SYN_RCVD" =>
        BackOK([seg |-> Segment(e, {"SYN", "ACK"}, 0), first |-> a.base + 1], e, a, p)
  BY Replied
<1>4. e.st = "ESTABLISHED" =>
        BackOK([seg |-> Segment(e, {"ACK"}, e.len), first |-> a.base + 1], e, a, p)
  BY <1>1, Replied
<1>5. e.st \in {"FIN_WAIT_1", "CLOSING", "LAST_ACK"} =>
        BackOK([seg |-> Segment(e, {"FIN", "ACK"}, 0), first |-> a.base + 1], e, a, p)
  BY Replied
<1> QED BY <1>2, <1>3, <1>4, <1>5 DEF Says

(* A segment of the stack that resets says nothing else.                   *)
LEMMA ResetTrue ==
  ASSUME NEW o, "RST" \in o.flags, NEW first, NEW e, NEW a, NEW p
  PROVE  BackOK([seg |-> o, first |-> first], e, a, p)
BY DEF BackOK

(* The state of the stack, with the types it has.                          *)
LEMMA Here ==
  ASSUME LinkInv
  PROVE  /\ conn \in ConnRecs /\ app \in AppRecs /\ peer \in PeerRecs
         /\ StackOK(conn, app, peer) /\ PeerOK(peer, conn, app)
         /\ ConnOK(conn) /\ StreamIn
         /\ app.base \in Nat /\ app.high \in Nat /\ Len(app.in) \in Nat /\ Len(peer.got) \in Nat
         /\ app.base <= app.high /\ app.base <= Len(peer.got)
         /\ app.in \in Seq(Nat) /\ app.in \o <<>> = app.in
<1>1. /\ conn \in ConnRecs /\ app \in AppRecs /\ peer \in PeerRecs
      /\ StackOK(conn, app, peer) /\ PeerOK(peer, conn, app)
      /\ ConnOK(conn) /\ StreamIn
  BY ZeroConn DEF LinkInv, LinkTyped, IInv, Sound, conn
<1>2. /\ app.base \in Nat /\ app.high \in Nat /\ app.in \in Seq(Nat) /\ peer.got \in Seq(Nat)
  BY <1>1, StreamsAssumption DEF AppRecs, PeerRecs
<1>3. Len(app.in) \in Nat /\ Len(peer.got) \in Nat BY <1>2, LenProperties
<1>4. app.base <= app.high /\ app.base <= Len(peer.got) BY <1>1 DEF StackOK, PeerOK
<1>5. app.in \o <<>> = app.in BY <1>2, ConcatEmptySeq
<1> QED BY <1>1, <1>2, <1>3, <1>4, <1>5

(* The parts of a step that are not the stack's own.                       *)
Around(octets) == Application(octets) /\ Emit /\ net' \subseteq net /\ UNCHANGED peer

(* The connection ends, with a reset or in silence.                        *)
LEMMA Ends ==
  ASSUME LinkInv, ~CloseAnyTime, IInv', Around(<<>>), conn.st # "CLOSED",
         NEW e \in ConnRecs, uip_conns' = [uip_conns EXCEPT ![0] = e], e.st = "CLOSED",
         "ACKDATA" \notin ev'.flags, out' = NoSeg \/ "RST" \in out'.flags
  PROVE  LinkInv'
<1>1. uip_conns'[0] = e BY ZeroConn DEF LinkInv, IInv
<1>2. app.started BY Here DEF StackOK
<1>3. <<>> \in Seq(Nat) /\ Application(<<>>) BY DEF Around
<1>4. /\ app' \in AppRecs /\ app'.base = app.base /\ app'.high = app.high /\ app'.started
      /\ app.left => app'.left
      /\ app'.in = app.in
  BY <1>1, <1>2, <1>3, AppIs, Here
<1>5. Grown(conn, app, e, app') BY <1>2, <1>4, Here DEF Grown, Finned
<1>6. StackOK(e, app', peer) BY <1>4, Here DEF StackOK
<1>7. StreamIn' BY <1>4, Here DEF StreamIn
<1>8. out' # NoSeg => BackOK([seg |-> out', first |-> app'.base + 1], e, app', peer)
  BY ResetTrue
<1> QED BY <1>2, <1>4, <1>5, <1>6, <1>7, <1>8, StackStep, Here DEF Around

(* The streams stay as they are.                                           *)
LEMMA Stays ==
  ASSUME LinkInv, ~CloseAnyTime, IInv', Around(<<>>), conn.st # "CLOSED",
         NEW e \in ConnRecs, uip_conns' = [uip_conns EXCEPT ![0] = e],
         e.st = conn.st, e.snd_nxt = conn.snd_nxt, e.len = conn.len,
         e.peer = conn.peer, e.lport = conn.lport,
         conn.st \in {"SYN_RCVD", "ESTABLISHED"} => e.rcv_nxt = conn.rcv_nxt,
         "ACKDATA" \notin ev'.flags, Says(e, out')
  PROVE  LinkInv'
<1>1. uip_conns'[0] = e BY ZeroConn DEF LinkInv, IInv
<1>2. app.started BY Here DEF StackOK
<1>3. <<>> \in Seq(Nat) /\ Application(<<>>) BY DEF Around
<1>4. /\ app' \in AppRecs /\ app'.base = app.base /\ app'.started
      /\ e.st = "ESTABLISHED" => app'.high = Most(app.high, app'.base + e.len)
      /\ e.st # "ESTABLISHED" => app'.high = app.high
      /\ app.left => app'.left
      /\ app'.in = app.in
  BY <1>1, <1>2, <1>3, AppIs, Here
<1>5. app'.high = app.high
  BY <1>4, Here DEF Most, StackOK
<1>6. Grown(conn, app, e, app') BY <1>2, <1>4, <1>5, Here DEF Grown, Finned
<1>7. StackOK(e, app', peer) BY <1>4, <1>5, Here DEF StackOK
<1>8. StreamIn' BY <1>4, Here DEF StreamIn
<1>9. out' # NoSeg => BackOK([seg |-> out', first |-> app'.base + 1], e, app', peer)
  BY <1>4, <1>7, SaysTrue, Here
<1> QED BY <1>2, <1>4, <1>5, <1>6, <1>7, <1>8, <1>9, StackStep, Here DEF Around

(* The application was called, with the record x, and answered.            *)
LEMMA Called ==
  ASSUME LinkInv, ~CloseAnyTime, IInv', NEW octets \in Seq(Nat), Around(octets),
         conn.st \in {"SYN_RCVD", "ESTABLISHED"},
         NEW x \in ConnRecs, x.st = "ESTABLISHED", x.peer = ThePeer, x.lport = ThePort,
         NEW f, NEW r \in ReplyRecs, NEW s, s = AppSend(x, f, r), s.conn \in ConnRecs,
         uip_conns' = [uip_conns EXCEPT ![0] = s.conn], out' = s.out, ev' = Call(0, f, r),
         f \cap {"ACKDATA", "CONNECTED"} # {} \/ conn.len = 0 => x.len = 0,
         app'.base <= Len(peer.got), x.snd_nxt = Sq(1 + app'.base),
         app'.base + x.len = app.high,
         x.rcv_nxt = 1 + Len(app'.in), Len(app.in) <= Len(app'.in), StreamIn'
  PROVE  LinkInv'
<1> DEFINE e == s.conn
<1>1. uip_conns'[0] = e BY ZeroConn DEF LinkInv, IInv
<1>2. Application(octets) /\ ev'.flags = f /\ ev'.op = r.op BY DEF Around, Call
<1>3. /\ app' \in AppRecs /\ app.base <= app'.base
      /\ e.st = "ESTABLISHED" => app'.high = Most(app.high, app'.base + e.len)
      /\ e.st # "ESTABLISHED" => app'.high = app.high
      /\ app'.left <=> app.left \/ r.op \in {"close", "abort"}
      /\ r.op = "close" => f \cap {"ACKDATA", "CONNECTED"} # {} \/ conn.len = 0
      /\ app.started /\ app'.started
  <2>1. app.started BY Here DEF StackOK
  <2>2. conn.len \in Nat /\ app.base \in Nat BY Here DEF ConnRecs
  <2>3. /\ app' \in AppRecs
        /\ "ACKDATA" \notin ev'.flags => app'.base = app.base
        /\ "ACKDATA" \in ev'.flags => app'.base = app.base + conn.len
        /\ e.st = "ESTABLISHED" => app'.high = Most(app.high, app'.base + e.len)
        /\ e.st # "ESTABLISHED" => app'.high = app.high
        /\ e.st = "CLOSED" => (app'.started <=> app.started)
        /\ e.st # "CLOSED" => app'.started
        /\ app'.left <=> app.left \/ ev'.op \in {"close", "abort"}
        /\ ev'.op = "close" =>
             ev'.flags \cap {"ACKDATA", "CONNECTED"} # {} \/ conn.len = 0
    BY <1>1, <1>2, AppIs
  <2>4. app.base <= app'.base BY <2>2, <2>3
  <2> QED BY <1>2, <2>1, <2>3, <2>4
<1>4. app'.base \in Nat /\ x.len \in Nat /\ e.len \in Nat /\ app.high \in Nat
  <2>1. app'.base \in Nat BY <1>3 DEF AppRecs
  <2>2. x.len \in Nat BY DEF ConnRecs
  <2>3. e \in ConnRecs OBVIOUS
  <2> HIDE DEF e
  <2>4. e.len \in Nat BY <2>3 DEF ConnRecs
  <2> QED BY <2>1, <2>2, <2>4, Here
<1>5. ~Finned(conn, app) BY DEF Finned
<1>6. "ACKDATA" \in f => x.len = 0 OBVIOUS
<1>7. \/ r.op = "abort" /\ e.st = "CLOSED" /\ "RST" \in out'.flags
      \/ /\ r.op # "abort"
         /\ e.peer = ThePeer /\ e.lport = ThePort
         /\ e.snd_nxt = x.snd_nxt /\ e.rcv_nxt = x.rcv_nxt
         /\ \/ r.op = "close" /\ e.st = "FIN_WAIT_1" /\ Says(e, out')
            \/ r.op # "close" /\ e.st = "ESTABLISHED" /\ e.len >= x.len /\ Says(e, out')
  BY <1>6, Answered, SMTT(30) DEF Says
<1> HIDE DEF e
<1>8. CASE r.op = "abort"
  <2>1. e.st = "CLOSED" /\ "RST" \in out'.flags /\ app'.high = app.high BY <1>3, <1>7, <1>8
  <2>2. Grown(conn, app, e, app') BY <1>3, <1>4, <1>5, <2>1 DEF Grown
  <2>3. StackOK(e, app', peer) BY <1>4, <2>1 DEF StackOK
  <2> QED BY <1>3, <2>1, <2>2, <2>3, ResetTrue, StackStep DEF Around, e
<1>9. CASE r.op = "close"
  <2>1. e.st = "FIN_WAIT_1" /\ Says(e, out') /\ app'.high = app.high BY <1>3, <1>7, <1>9
  <2>2. x.len = 0 /\ app'.left BY <1>3, <1>9
  <2>3. app'.high = app'.base BY <1>4, <2>1, <2>2
  <2>4. Grown(conn, app, e, app') BY <1>3, <1>4, <1>5, <2>1 DEF Grown
  <2>5. StackOK(e, app', peer)
    <3>1. e.peer = ThePeer /\ e.lport = ThePort /\ e.snd_nxt = Sq(1 + app'.base)
      BY <1>7, <1>9
    <3> QED BY <1>3, <1>4, <2>1, <2>2, <2>3, <3>1 DEF StackOK
  <2>6. out' # NoSeg => BackOK([seg |-> out', first |-> app'.base + 1], e, app', peer)
    BY <1>3, <2>1, <2>5, SaysTrue, Here DEF e
  <2> QED BY <1>3, <2>4, <2>5, <2>6, StackStep DEF Around, e
<1>10. CASE r.op \notin {"abort", "close"}
  <2>1. /\ e.st = "ESTABLISHED" /\ e.len >= x.len /\ Says(e, out')
        /\ app'.high = Most(app.high, app'.base + e.len)
    BY <1>3, <1>7, <1>10
  <2>2. app'.high = app'.base + e.len /\ app.high <= app'.high BY <1>4, <2>1 DEF Most
  <2>3. Grown(conn, app, e, app') BY <1>3, <1>4, <1>5, <2>2 DEF Grown
  <2>4. StackOK(e, app', peer)
    <3>1. /\ e.peer = ThePeer /\ e.lport = ThePort /\ e.snd_nxt = Sq(1 + app'.base)
          /\ e.rcv_nxt = 1 + Len(app'.in)
      BY <1>7, <1>10
    <3>2. app'.base <= app'.high BY <1>4, <2>2
    <3> QED BY <1>3, <2>1, <2>2, <3>1, <3>2 DEF StackOK
  <2>5. out' # NoSeg => BackOK([seg |-> out', first |-> app'.base + 1], e, app', peer)
    BY <1>3, <2>1, <2>4, SaysTrue, Here DEF e
  <2> QED BY <1>3, <2>3, <2>4, <2>5, StackStep DEF Around, e
<1> QED BY <1>8, <1>9, <1>10

(* The application has left the connection, which goes on closing.         *)
LEMMA GoesOn ==
  ASSUME LinkInv, ~CloseAnyTime, IInv', Around(<<>>),
         conn.st \in {"FIN_WAIT_1", "FIN_WAIT_2", "CLOSING"},
         NEW e \in ConnRecs, uip_conns' = [uip_conns EXCEPT ![0] = e],
         e.st \in {"FIN_WAIT_1", "FIN_WAIT_2", "CLOSING", "TIME_WAIT"},
         e.peer = conn.peer, e.lport = conn.lport,
         e.st \in {"FIN_WAIT_1", "CLOSING"} =>
           conn.st # "FIN_WAIT_2" /\ e.snd_nxt = conn.snd_nxt,
         "ACKDATA" \notin ev'.flags, Says(e, out')
  PROVE  LinkInv'
<1>1. uip_conns'[0] = e BY ZeroConn DEF LinkInv, IInv
<1>2. app.started /\ app.left BY Here DEF StackOK
<1>3. <<>> \in Seq(Nat) /\ Application(<<>>) BY DEF Around
<1>4. /\ app' \in AppRecs /\ app'.base = app.base /\ app'.high = app.high /\ app'.started
      /\ app'.left
      /\ app'.in = app.in
  BY <1>1, <1>2, <1>3, AppIs, Here
<1>5. Grown(conn, app, e, app') BY <1>2, <1>4, Here DEF Grown, Finned
<1>6. StackOK(e, app', peer) BY <1>4, Here DEF StackOK
<1>7. StreamIn' BY <1>4, Here DEF StreamIn
<1>8. out' # NoSeg => BackOK([seg |-> out', first |-> app'.base + 1], e, app', peer)
  BY <1>6, <1>4, SaysTrue, Here
<1> QED BY <1>4, <1>5, <1>6, <1>7, <1>8, StackStep, Here DEF Around

(***************************************************************************)
(* The periodic timer.                                                     *)
(***************************************************************************)
LEMMA SilentFlags ==
  /\ NoEvent.flags = {}
  /\ \A c, f, r : Call(c, f, r).flags = f /\ Call(c, f, r).op = r.op
BY DEF NoEvent, Call

LEMMA LingerLink ==
  ASSUME LinkInv, ~CloseAnyTime, IInv', Around(<<>>), Linger(0)
  PROVE  LinkInv'
<1> DEFINE t == (conn.timer + 1) % U8
           e == IF t = UIP_TIME_WAIT_TIMEOUT THEN Closed(conn) ELSE [conn EXCEPT !.timer = t]
<1>1. conn.st \in {"TIME_WAIT", "FIN_WAIT_2"} BY DEF Linger, conn
<1>2. uip_conns' = [uip_conns EXCEPT ![0] = e] /\ out' = NoSeg /\ "ACKDATA" \notin ev'.flags
  BY SilentFlags DEF Linger, Outcome, conn
<1>3. uip_conns'[0] = e /\ e \in ConnRecs BY <1>2, ZeroConn DEF LinkInv, IInv
<1>4. CASE t = UIP_TIME_WAIT_TIMEOUT
  <2>1. e.st = "CLOSED" BY <1>4 DEF Closed, Unused
  <2> HIDE DEF e
  <2> QED BY <1>1, <1>2, <1>3, <2>1, Ends
<1>5. CASE t # UIP_TIME_WAIT_TIMEOUT
  <2>1. /\ e.st = conn.st /\ e.snd_nxt = conn.snd_nxt /\ e.len = conn.len
        /\ e.peer = conn.peer /\ e.lport = conn.lport
    BY <1>5, Here DEF ConnRecs
  <2> HIDE DEF e
  <2> QED BY <1>1, <1>2, <1>3, <2>1, Stays DEF Says
<1> QED BY <1>4, <1>5

LEMMA CountDownLink ==
  ASSUME LinkInv, ~CloseAnyTime, IInv', Around(<<>>), CountDown(0)
  PROVE  LinkInv'
<1> DEFINE e == [conn EXCEPT !.timer = @ - 1]
<1>1. conn.st # "CLOSED" BY DEF CountDown, Waiting, conn
<1>2. uip_conns' = [uip_conns EXCEPT ![0] = e] /\ out' = NoSeg /\ "ACKDATA" \notin ev'.flags
  BY SilentFlags DEF CountDown, Outcome, conn
<1>3. uip_conns'[0] = e /\ e \in ConnRecs BY <1>2, ZeroConn DEF LinkInv, IInv
<1>4. /\ e.st = conn.st /\ e.snd_nxt = conn.snd_nxt /\ e.len = conn.len
      /\ e.peer = conn.peer /\ e.lport = conn.lport /\ e.rcv_nxt = conn.rcv_nxt
  BY Here DEF ConnRecs
<1> HIDE DEF e
<1> QED BY <1>1, <1>2, <1>3, <1>4, Stays DEF Says

LEMMA TimeOutLink ==
  ASSUME LinkInv, ~CloseAnyTime, IInv', Around(<<>>), TimeOut(0)
  PROVE  LinkInv'
<1> DEFINE e == Closed(conn)
           k == Enter(conn, "CLOSED")
<1>1. conn.st # "CLOSED" BY DEF TimeOut, Waiting, conn
<1>2. /\ uip_conns' = [uip_conns EXCEPT ![0] = e]
      /\ out' = Segment(k, {"RST", "ACK"}, 0)
      /\ ev' = Call(0, {"TIMEDOUT"}, Silent)
  BY DEF TimeOut, Outcome, conn
<1>3. uip_conns'[0] = e /\ e \in ConnRecs BY <1>2, ZeroConn DEF LinkInv, IInv
<1>4. e.st = "CLOSED" BY DEF Closed, Unused
<1> HIDE DEF e, k
<1>5. "RST" \in out'.flags BY <1>2 DEF Segment
<1>6. "ACKDATA" \notin ev'.flags BY <1>2, SilentFlags
<1> QED BY <1>1, <1>2, <1>3, <1>4, <1>5, <1>6, Ends

LEMMA Same ==
  ASSUME LinkInv, ~CloseAnyTime, IInv', Around(<<>>), conn.st # "CLOSED",
         uip_conns' = [uip_conns EXCEPT ![0] = conn], ev' = NoEvent, Says(conn, out')
  PROVE  LinkInv'
<1>1. conn \in ConnRecs BY Here
<1>2. "ACKDATA" \notin ev'.flags BY SilentFlags
<1> QED BY <1>1, <1>2, Stays

LEMMA PeriodicIdleLink ==
  ASSUME LinkInv, ~CloseAnyTime, IInv', Around(<<>>), conn.st # "CLOSED", PeriodicIdle(0)
  PROVE  LinkInv'
<1>1. uip_conns' = [uip_conns EXCEPT ![0] = conn] /\ ev' = NoEvent /\ out' = NoSeg
  BY DEF PeriodicIdle, Outcome, conn
<1> QED BY <1>1, Same DEF Says

LEMMA RetransmitLink ==
  ASSUME LinkInv, ~CloseAnyTime, IInv', Around(<<>>), NEW r \in Replies, Retransmit(0, r)
  PROVE  LinkInv'
<1> DEFINE b == [conn EXCEPT !.timer = Backoff(conn.nrtx), !.nrtx = @ + 1]
           e == IF conn.st = "ESTABLISHED" THEN Flow(b, r) ELSE b
<1>1. conn.st \notin {"CLOSED", "TIME_WAIT", "FIN_WAIT_2", "SYN_SENT"}
  BY Here DEF Retransmit, Waiting, conn, StackOK
<1>2. /\ uip_conns' = [uip_conns EXCEPT ![0] = e]
      /\ out' = Resend(e, r)
      /\ ev' = IF conn.st = "ESTABLISHED" THEN Call(0, {"REXMIT"}, r) ELSE NoEvent
  BY DEF Retransmit, conn
<1>3. uip_conns'[0] = e /\ e \in ConnRecs BY <1>2, ZeroConn DEF LinkInv, IInv
<1>4. /\ b.st = conn.st /\ b.snd_nxt = conn.snd_nxt /\ b.len = conn.len
      /\ b.peer = conn.peer /\ b.lport = conn.lport /\ b.rcv_nxt = conn.rcv_nxt
  BY Here DEF ConnRecs
<1>5. /\ Flow(b, r).st = b.st /\ Flow(b, r).snd_nxt = b.snd_nxt /\ Flow(b, r).len = b.len
      /\ Flow(b, r).peer = b.peer /\ Flow(b, r).lport = b.lport
      /\ Flow(b, r).rcv_nxt = b.rcv_nxt
  BY Here DEF Flow, ConnRecs
<1> HIDE DEF b
<1>6. /\ e.st = conn.st /\ e.snd_nxt = conn.snd_nxt /\ e.len = conn.len
      /\ e.peer = conn.peer /\ e.lport = conn.lport /\ e.rcv_nxt = conn.rcv_nxt
  BY <1>4, <1>5
<1>7. "ACKDATA" \notin ev'.flags BY <1>2, SilentFlags
<1> HIDE DEF e
<1>8. Says(e, Resend(e, r))
  <2>1. e.st \in {"SYN_RCVD", "ESTABLISHED", "FIN_WAIT_1", "CLOSING", "LAST_ACK"}
    BY <1>1, <1>6, Here DEF ConnRecs, States
  <2>2. CASE e.st = "ESTABLISHED"
    <3>1. Resend(e, r) = Answer(e, r.slen, {}, r) BY <2>2 DEF Resend
    <3> QED BY <2>2, <3>1 DEF Answer, Says
  <2>3. CASE e.st = "SYN_RCVD" BY <2>3 DEF Resend, Says
  <2>4. CASE e.st \in {"FIN_WAIT_1", "CLOSING", "LAST_ACK"} BY <2>4 DEF Resend, Says
  <2> QED BY <2>1, <2>2, <2>3, <2>4
<1> QED BY <1>1, <1>2, <1>3, <1>6, <1>7, <1>8, Stays

LEMMA PollLink ==
  ASSUME LinkInv, ~CloseAnyTime, IInv', Around(<<>>), NEW r \in Replies, PollApp(0, r)
  PROVE  LinkInv'
<1> DEFINE s == AppSend(conn, {"POLL"}, r)
<1>1. /\ conn.st = "ESTABLISHED" /\ conn.len = 0 /\ r \in ReplyRecs
      /\ uip_conns' = [uip_conns EXCEPT ![0] = s.conn] /\ out' = s.out
      /\ ev' = Call(0, {"POLL"}, r)
  BY RepliesAssumption DEF PollApp, Pollable, Outcome, conn
<1> HIDE DEF s
<1>2. uip_conns'[0] = s.conn /\ s.conn \in ConnRecs BY <1>1, ZeroConn DEF LinkInv, IInv
<1>3. "ACKDATA" \notin ev'.flags BY <1>1, SilentFlags
<1> <<>> \in Seq(Nat) /\ Application(<<>>) BY DEF Around
<1>4. app'.base = app.base /\ app'.in = app.in
  BY <1>2, <1>3, AppIs, Here
<1>5. /\ conn.peer = ThePeer /\ conn.lport = ThePort /\ conn.snd_nxt = Sq(1 + app'.base)
      /\ app'.base + conn.len = app.high /\ conn.rcv_nxt = 1 + Len(app'.in)
  BY <1>1, <1>4, Here DEF StackOK
<1>6. StreamIn' /\ Len(app.in) <= Len(app'.in) BY <1>4, Here DEF StreamIn
<1>7. conn \in ConnRecs /\ app'.base <= Len(peer.got) /\ s = AppSend(conn, {"POLL"}, r)
  BY <1>4, Here DEF s
<1> QED BY <1>1, <1>2, <1>5, <1>6, <1>7, Called

(***************************************************************************)
(* Segments that come in.                                                  *)
(***************************************************************************)

(* An acknowledgment that counts tells of octets the peer has.             *)
LEMMA Acking ==
  ASSUME LinkInv, NEW seg \in net, Acks(conn, seg)
  PROVE  /\ conn.st = "SYN_RCVD" => seg.ack = Sq(1)
         /\ conn.st = "ESTABLISHED" => seg.ack = Sq(1 + app.high) /\ app.high <= Len(peer.got)
<1>1. seg.ack = Plus(conn.snd_nxt, conn.len) /\ "ACK" \in seg.flags BY DEF Acks
<1>2. AppOctets \in Nat /\ SeqMod \in Nat /\ AppOctets + 2 < SeqMod
  BY StreamsAssumption, SizesAssumption
<1>3. CASE conn.st = "SYN_RCVD"
  <2>1. conn.snd_nxt = Sq(0) /\ conn.len = 1 BY <1>3, Here DEF StackOK, ConnOK, DrivenConn, Owing
  <2>2. Plus(Sq(0), 1) = Sq(0 + 1) BY <1>2, SqPlus
  <2> QED BY <1>1, <1>3, <2>1, <2>2
<1>4. CASE conn.st = "ESTABLISHED"
  <2>1. conn.snd_nxt = Sq(1 + app.base) /\ app.high = app.base + conn.len
    BY <1>4, Here DEF StackOK
  <2>2. app.high <= AppOctets /\ app.base \in Nat /\ conn.len \in Nat
    BY Here DEF AppRecs, ConnRecs
  <2>3. Plus(Sq(1 + app.base), conn.len) = Sq(1 + app.base + conn.len)
    BY <1>2, <2>1, <2>2, SqPlus
  <2>4. 1 + app.base + conn.len = 1 + app.high BY <2>1, <2>2
  <2>5. seg.ack = Sq(1 + app.high) BY <1>1, <2>1, <2>3, <2>4
  <2>6. NetOK(seg, peer) BY DEF LinkInv
  <2>7. PICK n \in 0..(AppOctets + 1) :
          seg.ack = Sq(1 + n) /\ (n <= Len(peer.got) \/ (peer.finGot /\ n = Len(peer.got) + 1))
    BY <1>1, <2>6 DEF NetOK
  <2>8. 1 + n \in 0..(SeqMod - 1) /\ 1 + app.high \in 0..(SeqMod - 1)
    BY <1>2, <2>2, Here
  <2>9. 1 + n = 1 + app.high BY <2>5, <2>7, <2>8, SqInjective
  <2>10. ~peer.finGot BY <1>4, Here DEF PeerOK, Finned
  <2>11. n = app.high BY <2>2, <2>9, Here
  <2> QED BY <1>4, <2>5, <2>7, <2>10, <2>11
<1> QED BY <1>3, <1>4

LEMMA BroughtIs ==
  ASSUME NEW seg \in InSegs
  PROVE  /\ Brought(seg) \in Seq(Nat)
         /\ "NEWDATA" \notin ev'.flags => Brought(seg) = <<>>
<1>1. seg.seq \in Nat /\ seg.len \in Nat BY DEF InSegs, SeqNos
<1>2. Octets(seg.seq, seg.len) \in Seq(Nat) BY <1>1, OctetsIs
<1>3. <<>> \in Seq(Nat) OBVIOUS
<1> QED BY <1>2, <1>3, Zenon DEF Brought

(* The octets of a segment that is in order come next in the stream.       *)
LEMMA Delivered ==
  ASSUME LinkInv, NEW seg \in net, conn.st \in {"SYN_RCVD", "ESTABLISHED"},
         InOrder(conn, seg), NEW n \in {0, seg.len},
         "NEWDATA" \in ev'.flags <=> n > 0, app'.in = app.in \o Brought(seg)
  PROVE  /\ Len(app'.in) = Len(app.in) + n /\ Len(app.in) <= Len(app'.in) /\ StreamIn'
         /\ Plus(conn.rcv_nxt, n) = 1 + Len(app'.in)
         /\ "FIN" \in seg.flags /\ n = seg.len => peer.fin /\ peer.written <= Len(app'.in)
<1>1. /\ seg \in InSegs /\ NetOK(seg, peer) BY DEF LinkInv, LinkTyped
<1>2. /\ seg.len \in Nat /\ seg.seq \in Nat /\ n \in Nat /\ Len(app.in) \in Nat
      /\ app.in \in Seq(Nat) /\ peer.written \in Nat /\ peer.written <= PeerOctets
      /\ PeerOctets \in Nat /\ PeerOctets + 2 < SeqMod /\ SeqMod \in Nat
  <2>1. seg.len \in Nat /\ seg.seq \in Nat BY <1>1, SizesAssumption DEF InSegs, SeqNos
  <2>2. n \in Nat BY <2>1
  <2>3. PeerOctets \in Nat /\ PeerOctets + 2 < SeqMod /\ SeqMod \in Nat
    BY StreamsAssumption, SizesAssumption
  <2>4. peer.written \in Nat /\ peer.written <= PeerOctets BY <2>3, Here DEF PeerRecs
  <2> QED BY <2>1, <2>2, <2>3, <2>4, Here
<1>3. conn.rcv_nxt = 1 + Len(app.in) BY Here DEF StackOK
<1>4. seg.len > 0 \/ "FIN" \in seg.flags => seg.seq = 1 + Len(app.in)
  BY <1>2, <1>3 DEF InOrder
<1>5. n > 0 => 1 + Len(app.in) + n <= peer.written + 1 BY <1>1, <1>2, <1>4 DEF NetOK
<1>6. Plus(conn.rcv_nxt, n) = 1 + Len(app.in) + n
  <2> DEFINE l == 1 + Len(app.in)
  <2>1. l \in 0..(SeqMod - 1)
    <3>1. conn.rcv_nxt \in SeqNos BY Here DEF ConnRecs
    <3> QED BY <1>3, <3>1 DEF SeqNos
  <2>2. l + n < SeqMod /\ n \in 0..(SeqMod - 1)
    <3>1. n > 0 => l + n <= peer.written + 1 BY <1>5
    <3> HIDE DEF l
    <3>2. peer.written + 1 < SeqMod BY <1>2
    <3> QED BY <1>2, <2>1, <3>1, <3>2
  <2>3. conn.rcv_nxt = l BY <1>3
  <2> HIDE DEF l
  <2>4. Plus(conn.rcv_nxt, n) = l + n BY <2>1, <2>2, <2>3, PlusIs
  <2> QED BY <2>4 DEF l
<1>7. CASE n = 0
  <2>1. app'.in = app.in BY <1>1, <1>7, BroughtIs, Here
  <2>2. StreamIn' BY <2>1, Here DEF StreamIn
  <2>3. "FIN" \in seg.flags /\ n = seg.len => peer.fin /\ peer.written <= Len(app'.in)
    BY <1>1, <1>2, <1>4, <1>7, <2>1 DEF NetOK
  <2> QED BY <1>2, <1>6, <1>7, <2>1, <2>2, <2>3
<1>8. CASE n > 0
  <2>1. Brought(seg) = Octets(seg.seq, seg.len) /\ n = seg.len BY <1>2, <1>8 DEF Brought
  <2>2. seg.seq = Len(app.in) + 1 BY <1>2, <1>4, <1>8, <2>1
  <2>3. /\ Len(app.in \o Octets(seg.seq, seg.len)) = Len(app.in) + seg.len
        /\ \A i \in DOMAIN (app.in \o Octets(seg.seq, seg.len)) :
             (app.in \o Octets(seg.seq, seg.len))[i] = i
    BY <1>2, <2>2, StreamGrows, Here DEF StreamIn
  <2>4. StreamIn' /\ Len(app'.in) = Len(app.in) + n BY <2>1, <2>3 DEF StreamIn
  <2>5. ASSUME "FIN" \in seg.flags PROVE peer.fin /\ peer.written <= Len(app'.in)
    <3>1. peer.fin /\ seg.seq + seg.len = peer.written + 1 BY <1>1, <2>5 DEF NetOK
    <3>2. Len(app'.in) = Len(app.in) + seg.len BY <2>1, <2>4
    <3> QED BY <1>2, <2>2, <3>1, <3>2
  <2> QED BY <1>2, <1>6, <2>4, <2>5
<1> QED BY <1>2, <1>7, <1>8

(* A record that has taken an acknowledgment and n octets.                 *)
LEMMA Received ==
  ASSUME NEW k \in ConnRecs, NEW seg \in InSegs, NEW rto \in RTOS, NEW n \in Nat,
         NEW d, d = Receive(AfterAck(k, seg, rto), n)
  PROVE  /\ d \in ConnRecs /\ d.st = k.st /\ d.peer = k.peer /\ d.lport = k.lport
         /\ d.rcv_nxt = Plus(k.rcv_nxt, n)
         /\ Acks(k, seg) => d.len = 0 /\ d.snd_nxt = seg.ack
         /\ ~Acks(k, seg) => d.len = k.len /\ d.snd_nxt = k.snd_nxt
<1> DEFINE a == AfterAck(k, seg, rto)
<1>1. /\ a \in ConnRecs /\ a.st = k.st /\ a.peer = k.peer /\ a.lport = k.lport
      /\ Acks(k, seg) => a.len = 0
      /\ ~Acks(k, seg) => a = k
  BY AfterAckType
<1>2. /\ a.rcv_nxt = k.rcv_nxt
      /\ Acks(k, seg) => a.snd_nxt = seg.ack
  <2>1. CASE Acks(k, seg)
    <3> DEFINE t == IF k.nrtx = 0 THEN rto ELSE k.rto
    <3>1. a = [k EXCEPT !.snd_nxt = seg.ack, !.len = 0, !.rto = t, !.timer = t]
      BY <2>1 DEF AfterAck
    <3> HIDE DEF a, t
    <3> QED BY <3>1 DEF ConnRecs
  <2>2. CASE ~Acks(k, seg) BY <1>1, <2>2
  <2> QED BY <2>1, <2>2
<1> HIDE DEF a
<1>3. d \in ConnRecs /\ d = [a EXCEPT !.rcv_nxt = d.rcv_nxt] BY <1>1, ReceiveType DEF a
<1>4. d.rcv_nxt = Plus(a.rcv_nxt, n) BY <1>1 DEF Receive, ConnRecs, a
<1>5. /\ d.st = a.st /\ d.peer = a.peer /\ d.lport = a.lport
      /\ d.len = a.len /\ d.snd_nxt = a.snd_nxt
  BY <1>1, <1>3 DEF ConnRecs
<1> QED BY <1>1, <1>2, <1>3, <1>4, <1>5

(* The case that most steps are: nothing is brought to the application.    *)
LEMMA NothingBrought ==
  ASSUME NEW seg \in InSegs, Around(Brought(seg)), "NEWDATA" \notin ev'.flags
  PROVE  Around(<<>>)
BY BroughtIs DEF Around

LEMMA ResetInLink ==
  ASSUME LinkInv, ~CloseAnyTime, IInv', NEW seg \in InSegs, Around(Brought(seg)),
         conn.st # "CLOSED", ResetIn(0, seg)
  PROVE  LinkInv'
<1> DEFINE e == Closed(conn)
<1>1. /\ uip_conns' = [uip_conns EXCEPT ![0] = e] /\ out' = NoSeg
      /\ ev' = Call(0, {"ABORT"}, Silent)
  BY DEF ResetIn, Outcome, conn
<1>2. uip_conns'[0] = e /\ e \in ConnRecs BY <1>1, ZeroConn DEF LinkInv, IInv
<1>3. e.st = "CLOSED" BY DEF Closed, Unused
<1> HIDE DEF e
<1>4. "ACKDATA" \notin ev'.flags /\ "NEWDATA" \notin ev'.flags BY <1>1, SilentFlags
<1> QED BY <1>1, <1>2, <1>3, <1>4, NothingBrought, Ends

LEMMA SameIn ==
  ASSUME LinkInv, ~CloseAnyTime, IInv', NEW seg \in InSegs, Around(Brought(seg)),
         conn.st # "CLOSED",
         uip_conns' = [uip_conns EXCEPT ![0] = conn], ev' = NoEvent, Says(conn, out')
  PROVE  LinkInv'
<1>1. "NEWDATA" \notin ev'.flags BY SilentFlags
<1> QED BY <1>1, NothingBrought, Same

LEMMA OutOfOrderLink ==
  ASSUME LinkInv, ~CloseAnyTime, IInv', NEW seg \in InSegs, Around(Brought(seg)),
         conn.st # "CLOSED", OutOfOrder(0, seg)
  PROVE  LinkInv'
<1>1. /\ uip_conns' = [uip_conns EXCEPT ![0] = conn] /\ ev' = NoEvent
      /\ out' = Segment(conn, {"ACK"}, 0)
  BY DEF OutOfOrder, Outcome, conn
<1> QED BY <1>1, SameIn DEF Says

LEMMA TimeWaitInLink ==
  ASSUME LinkInv, ~CloseAnyTime, IInv', NEW seg \in InSegs, Around(Brought(seg)),
         conn.st # "CLOSED", TimeWaitIn(0, seg)
  PROVE  LinkInv'
<1>1. /\ uip_conns' = [uip_conns EXCEPT ![0] = conn] /\ ev' = NoEvent
      /\ out' = Segment(conn, {"ACK"}, 0)
  BY DEF TimeWaitIn, Outcome, PureAck, conn
<1> QED BY <1>1, SameIn DEF Says

LEMMA LastAckInLink ==
  ASSUME LinkInv, ~CloseAnyTime, IInv', NEW seg \in InSegs, Around(Brought(seg)),
         conn.st # "CLOSED", LastAckIn(0, seg)
  PROVE  LinkInv'
<1>1. CASE Acks(conn, seg)
  <2> DEFINE e == Closed(conn)
  <2>1. /\ uip_conns' = [uip_conns EXCEPT ![0] = e] /\ out' = NoSeg
        /\ ev' = Call(0, {"CLOSE"}, Silent)
    BY <1>1 DEF LastAckIn, Outcome, conn
  <2>2. uip_conns'[0] = e /\ e \in ConnRecs BY <2>1, ZeroConn DEF LinkInv, IInv
  <2>3. e.st = "CLOSED" BY DEF Closed, Unused
  <2> HIDE DEF e
  <2>4. "ACKDATA" \notin ev'.flags /\ "NEWDATA" \notin ev'.flags BY <2>1, SilentFlags
  <2> QED BY <2>1, <2>2, <2>3, <2>4, NothingBrought, Ends
<1>2. CASE ~Acks(conn, seg)
  <2>1. /\ uip_conns' = [uip_conns EXCEPT ![0] = conn] /\ ev' = NoEvent /\ out' = NoSeg
    BY <1>2 DEF LastAckIn, Outcome, conn
  <2> QED BY <2>1, SameIn DEF Says
<1> QED BY <1>1, <1>2

LEMMA SynRcvdInLink ==
  ASSUME LinkInv, ~CloseAnyTime, IInv', NEW seg \in net, Around(Brought(seg)),
         NEW r \in Replies, NEW rto \in RTOS, SynRcvdIn(0, seg, r, rto)
  PROVE  LinkInv'
<1> DEFINE d == Receive(AfterAck(conn, seg, rto), seg.len)
           x == [d EXCEPT !.st = "ESTABLISHED"]
           f == {"CONNECTED"} \cup DataEvent(seg.len)
           s == AppSend(x, f, r)
<1>1. /\ conn.st = "SYN_RCVD" /\ InOrder(conn, seg) /\ seg \in InSegs /\ seg.len \in Nat
      /\ r \in ReplyRecs
  BY RepliesAssumption DEF SynRcvdIn, InState, conn, LinkInv, LinkTyped, InSegs
<1>2. CASE ~Acks(conn, seg)
  <2>1. /\ uip_conns' = [uip_conns EXCEPT ![0] = conn] /\ ev' = NoEvent /\ out' = NoSeg
    BY <1>2 DEF SynRcvdIn, Outcome, conn
  <2> QED BY <1>1, <2>1, SameIn DEF Says
<1>3. CASE Acks(conn, seg)
  <2>1. /\ uip_conns' = [uip_conns EXCEPT ![0] = s.conn] /\ out' = s.out /\ ev' = Call(0, f, r)
    BY <1>3 DEF SynRcvdIn, Outcome, conn
  <2>2. /\ d \in ConnRecs /\ d.peer = conn.peer /\ d.lport = conn.lport
        /\ d.rcv_nxt = Plus(conn.rcv_nxt, seg.len) /\ d.len = 0 /\ d.snd_nxt = seg.ack
    BY <1>1, <1>3, Received, Here
  <2> HIDE DEF d
  <2>3. /\ x \in ConnRecs /\ x.st = "ESTABLISHED" /\ x.peer = conn.peer /\ x.lport = conn.lport
        /\ x.rcv_nxt = Plus(conn.rcv_nxt, seg.len) /\ x.len = 0 /\ x.snd_nxt = seg.ack
    BY <2>2 DEF ConnRecs, States
  <2>4. "ACKDATA" \notin f /\ ("NEWDATA" \in f <=> seg.len > 0) BY DEF DataEvent
  <2>5. s = AppSend(x, f, r) OBVIOUS
  <2> HIDE DEF x, f, s
  <2>6. ev'.flags = f BY <2>1, SilentFlags
  <2>7. uip_conns'[0] = s.conn /\ s.conn \in ConnRecs BY <2>1, ZeroConn DEF LinkInv, IInv
  <2>8. Brought(seg) \in Seq(Nat) /\ Application(Brought(seg)) BY <1>1, BroughtIs DEF Around
  <2>9. app'.base = app.base /\ app'.in = app.in \o Brought(seg) BY <2>4, <2>6, <2>7, <2>8, AppIs
  <2>10. /\ Len(app.in) <= Len(app'.in) /\ StreamIn'
         /\ Plus(conn.rcv_nxt, seg.len) = 1 + Len(app'.in)
    BY <1>1, <2>4, <2>6, <2>9, Delivered
  <2>11. app.base = 0 /\ app.high = 0 /\ conn.peer = ThePeer /\ conn.lport = ThePort
    BY <1>1, Here DEF StackOK
  <2>12. x.snd_nxt = Sq(1 + app'.base)
    <3>1. seg.ack = Sq(1) BY <1>1, <1>3, Acking
    <3>2. 1 + app'.base = 1 BY <2>9, <2>11
    <3> QED BY <2>3, <3>1, <3>2
  <2>13. app'.base + x.len = app.high /\ app'.base <= Len(peer.got) BY <2>3, <2>9, <2>11, Here
  <2> QED BY <1>1, <2>1, <2>3, <2>5, <2>7, <2>8, <2>10, <2>11, <2>12, <2>13, Called
<1> QED BY <1>2, <1>3

LEMMA EstablishedInLink ==
  ASSUME LinkInv, ~CloseAnyTime, IInv', NEW seg \in net, Around(Brought(seg)),
         NEW r \in Replies, NEW rto \in RTOS, EstablishedIn(0, seg, r, rto)
  PROVE  LinkInv'
<1> DEFINE n == DataLen(conn, seg)
           w == Window(conn, seg)
           d == Receive(AfterAck(conn, seg, rto), n)
           x == [d EXCEPT !.mss = w]
           f == AckEvent(conn, seg) \cup DataEvent(n)
           s == AppSend(x, f, r)
<1>1. /\ conn.st = "ESTABLISHED" /\ InOrder(conn, seg) /\ seg \in InSegs /\ seg.len \in Nat
      /\ r \in ReplyRecs /\ NetOK(seg, peer)
  BY RepliesAssumption DEF EstablishedIn, InState, conn, LinkInv, LinkTyped, InSegs
<1>2. n \in {0, seg.len} /\ n \in Nat BY <1>1 DEF NetOK, DataLen
<1>3. /\ f = {} => uip_conns' = [uip_conns EXCEPT ![0] = x] /\ ev' = NoEvent /\ out' = NoSeg
      /\ f # {} => /\ uip_conns' = [uip_conns EXCEPT ![0] = s.conn] /\ out' = s.out
                   /\ ev' = Call(0, f, r)
  BY DEF EstablishedIn, Outcome, conn
<1>4. /\ "ACKDATA" \in f <=> Acks(conn, seg)
      /\ "NEWDATA" \in f <=> n > 0
      /\ "CONNECTED" \notin f
  BY DEF AckEvent, DataEvent
<1>5. s = AppSend(x, f, r) OBVIOUS
<1>6. w \in 0..UIP_TCP_MSS
  <2>1. conn.initialmss \in 0..UIP_TCP_MSS /\ seg.wnd \in Nat BY <1>1, Here DEF ConnRecs, InSegs
  <2> QED BY <2>1, SizesAssumption DEF Window
<1> HIDE DEF n, w
<1>7. /\ d \in ConnRecs /\ d.st = "ESTABLISHED" /\ d.peer = conn.peer /\ d.lport = conn.lport
      /\ d.rcv_nxt = Plus(conn.rcv_nxt, n)
      /\ Acks(conn, seg) => d.len = 0 /\ d.snd_nxt = seg.ack
      /\ ~Acks(conn, seg) => d.len = conn.len /\ d.snd_nxt = conn.snd_nxt
  BY <1>1, <1>2, Received, Here
<1> HIDE DEF d
<1>8. /\ x \in ConnRecs /\ x.st = "ESTABLISHED" /\ x.peer = conn.peer /\ x.lport = conn.lport
      /\ x.rcv_nxt = Plus(conn.rcv_nxt, n)
      /\ Acks(conn, seg) => x.len = 0 /\ x.snd_nxt = seg.ack
      /\ ~Acks(conn, seg) => x.len = conn.len /\ x.snd_nxt = conn.snd_nxt
  BY <1>6, <1>7 DEF ConnRecs
<1> HIDE DEF x, f, s
<1>9. conn.peer = ThePeer /\ conn.lport = ThePort BY <1>1, Here DEF StackOK
<1>10. CASE f = {}
  <2>1. n = 0 /\ ~Acks(conn, seg) BY <1>2, <1>4, <1>10
  <2>2. "ACKDATA" \notin ev'.flags /\ "NEWDATA" \notin ev'.flags BY <1>3, <1>10, SilentFlags
  <2>3. x.rcv_nxt = conn.rcv_nxt
    <3>1. conn.rcv_nxt \in 0..(SeqMod - 1) BY Here DEF ConnRecs, SeqNos
    <3>2. Plus(conn.rcv_nxt, 0) = conn.rcv_nxt BY <3>1, SizesAssumption DEF Plus
    <3> QED BY <1>8, <2>1, <3>2
  <2>4. Says(x, out') BY <1>3, <1>10 DEF Says
  <2>5. Around(<<>>) BY <1>1, <2>2, NothingBrought
  <2> QED BY <1>1, <1>3, <1>8, <1>10, <2>1, <2>2, <2>3, <2>4, <2>5, Stays
<1>11. CASE f # {}
  <2>1. ev'.flags = f BY <1>3, <1>11, SilentFlags
  <2>2. uip_conns'[0] = s.conn /\ s.conn \in ConnRecs
    BY <1>3, <1>11, ZeroConn DEF LinkInv, IInv
  <2>3. Brought(seg) \in Seq(Nat) /\ Application(Brought(seg)) BY <1>1, BroughtIs DEF Around
  <2>4. /\ ~Acks(conn, seg) => app'.base = app.base
        /\ Acks(conn, seg) => app'.base = app.base + conn.len
        /\ app'.in = app.in \o Brought(seg)
    BY <1>4, <2>1, <2>2, <2>3, AppIs
  <2>5. /\ Len(app.in) <= Len(app'.in) /\ StreamIn'
        /\ Plus(conn.rcv_nxt, n) = 1 + Len(app'.in)
    BY <1>1, <1>2, <1>4, <2>1, <2>4, Delivered
  <2>6. /\ conn.snd_nxt = Sq(1 + app.base) /\ app.high = app.base + conn.len
        /\ app.high \in Nat /\ conn.len \in Nat /\ app.base \in Nat
    BY <1>1, Here DEF StackOK, ConnRecs
  <2>7. f \cap {"ACKDATA", "CONNECTED"} # {} \/ conn.len = 0 => x.len = 0
    BY <1>4, <1>8
  <2>8. /\ x.snd_nxt = Sq(1 + app'.base) /\ app'.base + x.len = app.high
        /\ app'.base <= Len(peer.got)
    <3>1. CASE Acks(conn, seg)
      <4>1. seg.ack = Sq(1 + app.high) /\ app.high <= Len(peer.got) BY <1>1, <3>1, Acking
      <4>2. app'.base = app.high /\ x.len = 0 BY <1>8, <2>4, <2>6, <3>1
      <4> QED BY <1>8, <2>6, <3>1, <4>1, <4>2
    <3>2. CASE ~Acks(conn, seg) BY <1>8, <2>4, <2>6, <3>2, Here
    <3> QED BY <3>1, <3>2
  <2>9. x.rcv_nxt = 1 + Len(app'.in) /\ x.peer = ThePeer /\ x.lport = ThePort
    BY <1>8, <1>9, <2>5
  <2>10. Around(Brought(seg)) /\ conn.st \in {"SYN_RCVD", "ESTABLISHED"} BY <1>1
  <2> QED BY <1>1, <1>3, <1>5, <1>8, <1>11, <2>2, <2>3, <2>5, <2>7, <2>8, <2>9, <2>10, Called
<1> QED BY <1>10, <1>11

LEMMA EstablishedFinLink ==
  ASSUME LinkInv, ~CloseAnyTime, IInv', NEW seg \in net, Around(Brought(seg)),
         NEW rto \in RTOS, EstablishedFin(0, seg, rto)
  PROVE  LinkInv'
<1> DEFINE k == AfterAck(conn, seg, rto)
           d == Receive(k, 1 + seg.len)
           g == Enter(d, "LAST_ACK")
           e == [g EXCEPT !.len = 1, !.nrtx = 0]
           f == {"CLOSE"} \cup AckEvent(conn, seg) \cup DataEvent(seg.len)
<1>1. /\ conn.st = "ESTABLISHED" /\ InOrder(conn, seg) /\ seg \in InSegs /\ seg.len \in Nat
      /\ "FIN" \in seg.flags
  BY DEF EstablishedFin, InState, conn, LinkInv, LinkTyped, InSegs
<1>2. /\ k \in ConnRecs
      /\ Acks(conn, seg) => k.len = 0
      /\ ~Acks(conn, seg) => k = conn
  BY <1>1, AfterAckType, Here
<1>3. /\ k.len > 0 => uip_conns' = [uip_conns EXCEPT ![0] = k] /\ ev' = NoEvent /\ out' = NoSeg
      /\ ~(k.len > 0) => /\ uip_conns' = [uip_conns EXCEPT ![0] = e] /\ ev' = Call(0, f, Silent)
                         /\ out' = Segment(e, {"FIN", "ACK"}, 0)
  BY DEF EstablishedFin, Outcome, conn
<1>4. CASE k.len > 0
  <2>1. k = conn BY <1>2, <1>4
  <2> HIDE DEF k
  <2> QED BY <1>1, <1>3, <1>4, <2>1, SameIn DEF Says
<1>5. CASE ~(k.len > 0)
  <2>1. /\ d \in ConnRecs /\ d.peer = conn.peer /\ d.lport = conn.lport
        /\ Acks(conn, seg) => d.snd_nxt = seg.ack
        /\ ~Acks(conn, seg) => d.len = conn.len /\ d.snd_nxt = conn.snd_nxt
        /\ d.len = 0
    <3>1. 1 + seg.len \in Nat BY <1>1
    <3>2. k.len \in Nat BY <1>2 DEF ConnRecs
    <3>3. k.len = 0 BY <1>5, <3>2
    <3>4. ~Acks(conn, seg) => conn.len = 0 BY <1>2, <3>3
    <3> HIDE DEF k
    <3> QED BY <1>1, <3>1, <3>4, Received, Here DEF k
  <2> HIDE DEF d
  <2>2. /\ e.st = "LAST_ACK" /\ e.peer = d.peer /\ e.lport = d.lport /\ e.snd_nxt = d.snd_nxt
    BY <2>1 DEF Enter, ConnRecs
  <2>3. /\ "ACKDATA" \in f <=> Acks(conn, seg)
        /\ "NEWDATA" \in f <=> seg.len > 0
    BY DEF AckEvent, DataEvent
  <2> HIDE DEF e, f, k
  <2>4. /\ uip_conns' = [uip_conns EXCEPT ![0] = e] /\ ev'.flags = f
        /\ out' = Segment(e, {"FIN", "ACK"}, 0)
    BY <1>3, <1>5, SilentFlags
  <2>5. uip_conns'[0] = e /\ e \in ConnRecs BY <2>4, ZeroConn DEF LinkInv, IInv
  <2>6. Brought(seg) \in Seq(Nat) /\ Application(Brought(seg)) BY <1>1, BroughtIs DEF Around
  <2>7. /\ app' \in AppRecs /\ app'.started /\ app'.high = app.high
        /\ app.left => app'.left
        /\ ~Acks(conn, seg) => app'.base = app.base
        /\ Acks(conn, seg) => app'.base = app.base + conn.len
        /\ app'.in = app.in \o Brought(seg)
    BY <2>2, <2>3, <2>4, <2>5, <2>6, AppIs
  <2>8. /\ Len(app.in) <= Len(app'.in) /\ StreamIn'
        /\ peer.fin /\ peer.written <= Len(app'.in)
    BY <1>1, <2>3, <2>4, <2>7, Delivered
  <2>9. /\ conn.snd_nxt = Sq(1 + app.base) /\ app.high = app.base + conn.len
        /\ app.high \in Nat /\ conn.len \in Nat /\ app.base \in Nat
        /\ conn.peer = ThePeer /\ conn.lport = ThePort
    BY <1>1, Here DEF StackOK, ConnRecs
  <2>10. app'.base = app.high BY <2>1, <2>7, <2>9
  <2>11. d.snd_nxt = Sq(1 + app'.base) /\ app'.base <= Len(peer.got)
    <3>1. CASE Acks(conn, seg) BY <1>1, <2>1, <2>10, <3>1, Acking
    <3>2. CASE ~Acks(conn, seg) BY <2>1, <2>7, <2>9, <3>2, Here
    <3> QED BY <3>1, <3>2
  <2>12. Grown(conn, app, e, app')
    <3>1. ~Finned(conn, app) BY <1>1 DEF Finned
    <3>2. app.base <= app'.base BY <2>9, <2>10
    <3> QED BY <2>7, <2>8, <2>9, <3>1, <3>2 DEF Grown
  <2>13. StackOK(e, app', peer)
    BY <2>1, <2>2, <2>7, <2>8, <2>9, <2>10, <2>11 DEF StackOK
  <2>14. out' # NoSeg => BackOK([seg |-> out', first |-> app'.base + 1], e, app', peer)
    BY <2>2, <2>4, <2>5, <2>7, <2>13, SaysTrue, Here DEF Says
  <2> QED BY <2>4, <2>5, <2>7, <2>8, <2>11, <2>12, <2>13, <2>14, StackStep DEF Around
<1> QED BY <1>4, <1>5

LEMMA FinWait1InLink ==
  ASSUME LinkInv, ~CloseAnyTime, IInv', NEW seg \in InSegs, Around(Brought(seg)),
         NEW rto \in RTOS, FinWait1In(0, seg, rto)
  PROVE  LinkInv'
<1> DEFINE k    == Receive(AfterAck(conn, seg, rto), seg.len)
           kf   == Receive(k, 1)
           fin  == "FIN" \in seg.flags
           ackd == Acks(conn, seg)
           t    == Enter(kf, "TIME_WAIT")
           e    == CASE fin /\ ackd  -> [t EXCEPT !.timer = 0]
                     [] fin /\ ~ackd -> Enter(kf, "CLOSING")
                     [] ~fin /\ ackd -> Enter(k, "FIN_WAIT_2")
                     [] OTHER        -> k
<1>1. conn.st = "FIN_WAIT_1" /\ seg.len \in Nat BY DEF FinWait1In, InState, conn, InSegs
<1>2. /\ uip_conns' = [uip_conns EXCEPT ![0] = e]
      /\ out' = IF fin \/ (seg.len > 0 /\ ~ackd) THEN PureAck(e) ELSE NoSeg
      /\ ev' = IF fin THEN Call(0, {"CLOSE"}, Silent) ELSE NoEvent
  BY DEF FinWait1In, Outcome, conn
<1>3. /\ k \in ConnRecs /\ k.st = "FIN_WAIT_1" /\ k.peer = conn.peer /\ k.lport = conn.lport
      /\ ~ackd => k.snd_nxt = conn.snd_nxt
  BY <1>1, Received, Here
<1> HIDE DEF k, ackd, fin
<1>4. kf \in ConnRecs /\ kf.peer = k.peer /\ kf.lport = k.lport /\ kf.snd_nxt = k.snd_nxt
  <2>1. kf \in ConnRecs /\ kf = [k EXCEPT !.rcv_nxt = kf.rcv_nxt] BY <1>3, ReceiveType
  <2> HIDE DEF kf
  <2> QED BY <1>3, <2>1 DEF ConnRecs
<1> HIDE DEF kf
<1>5. /\ t \in ConnRecs /\ t.st = "TIME_WAIT" /\ t.peer = kf.peer /\ t.lport = kf.lport
      /\ Enter(kf, "CLOSING").st = "CLOSING" /\ Enter(kf, "CLOSING").peer = kf.peer
      /\ Enter(kf, "CLOSING").lport = kf.lport /\ Enter(kf, "CLOSING").snd_nxt = kf.snd_nxt
      /\ Enter(k, "FIN_WAIT_2").st = "FIN_WAIT_2" /\ Enter(k, "FIN_WAIT_2").peer = k.peer
      /\ Enter(k, "FIN_WAIT_2").lport = k.lport
  BY <1>3, <1>4 DEF Enter, ConnRecs, States
<1> HIDE DEF t
<1>6. /\ [t EXCEPT !.timer = 0].st = "TIME_WAIT" /\ [t EXCEPT !.timer = 0].peer = t.peer
      /\ [t EXCEPT !.timer = 0].lport = t.lport
  BY <1>5 DEF ConnRecs
<1>7. /\ e.st \in {"FIN_WAIT_1", "FIN_WAIT_2", "CLOSING", "TIME_WAIT"}
      /\ e.peer = conn.peer /\ e.lport = conn.lport
      /\ e.st \in {"FIN_WAIT_1", "CLOSING"} => e.snd_nxt = conn.snd_nxt
  <2>1. CASE fin /\ ackd BY <1>3, <1>4, <1>5, <1>6, <2>1
  <2>2. CASE fin /\ ~ackd BY <1>3, <1>4, <1>5, <2>2
  <2>3. CASE ~fin /\ ackd BY <1>3, <1>5, <2>3
  <2>4. CASE ~fin /\ ~ackd BY <1>3, <2>4
  <2> QED BY <2>1, <2>2, <2>3, <2>4
<1> HIDE DEF e
<1>8. uip_conns'[0] = e /\ e \in ConnRecs BY <1>2, ZeroConn DEF LinkInv, IInv
<1>9. "ACKDATA" \notin ev'.flags /\ "NEWDATA" \notin ev'.flags BY <1>2, SilentFlags
<1>10. Says(e, out') BY <1>2 DEF Says, PureAck
<1>11. Around(<<>>) BY <1>9, NothingBrought
<1> QED BY <1>1, <1>2, <1>7, <1>8, <1>9, <1>10, <1>11, GoesOn

LEMMA FinWait2InLink ==
  ASSUME LinkInv, ~CloseAnyTime, IInv', NEW seg \in InSegs, Around(Brought(seg)),
         FinWait2In(0, seg)
  PROVE  LinkInv'
<1> DEFINE k    == Receive(conn, seg.len)
           kf   == Receive(k, 1)
           fin  == "FIN" \in seg.flags
           t    == Enter(kf, "TIME_WAIT")
           e    == IF fin THEN [t EXCEPT !.timer = 0] ELSE k
<1>1. conn.st = "FIN_WAIT_2" /\ seg.len \in Nat BY DEF FinWait2In, InState, conn, InSegs
<1>2. /\ uip_conns' = [uip_conns EXCEPT ![0] = e]
      /\ out' = IF fin \/ seg.len > 0 THEN PureAck(e) ELSE NoSeg
      /\ ev' = IF fin THEN Call(0, {"CLOSE"}, Silent) ELSE NoEvent
  BY DEF FinWait2In, Outcome, conn
<1>3. /\ k \in ConnRecs /\ k.st = "FIN_WAIT_2" /\ k.peer = conn.peer /\ k.lport = conn.lport
  <2>1. k \in ConnRecs /\ k = [conn EXCEPT !.rcv_nxt = k.rcv_nxt] BY <1>1, ReceiveType, Here
  <2> HIDE DEF k
  <2> QED BY <1>1, <2>1, Here DEF ConnRecs
<1> HIDE DEF k, fin
<1>4. kf \in ConnRecs /\ kf.peer = k.peer /\ kf.lport = k.lport
  <2>1. kf \in ConnRecs /\ kf = [k EXCEPT !.rcv_nxt = kf.rcv_nxt] BY <1>3, ReceiveType
  <2> HIDE DEF kf
  <2> QED BY <1>3, <2>1 DEF ConnRecs
<1> HIDE DEF kf
<1>5. t \in ConnRecs /\ t.st = "TIME_WAIT" /\ t.peer = kf.peer /\ t.lport = kf.lport
  BY <1>4 DEF Enter, ConnRecs, States
<1> HIDE DEF t
<1>6. /\ [t EXCEPT !.timer = 0].st = "TIME_WAIT" /\ [t EXCEPT !.timer = 0].peer = t.peer
      /\ [t EXCEPT !.timer = 0].lport = t.lport
  BY <1>5 DEF ConnRecs
<1>7. e.st \in {"FIN_WAIT_2", "TIME_WAIT"} /\ e.peer = conn.peer /\ e.lport = conn.lport
  BY <1>3, <1>4, <1>5, <1>6
<1> HIDE DEF e
<1>8. uip_conns'[0] = e /\ e \in ConnRecs BY <1>2, ZeroConn DEF LinkInv, IInv
<1>9. "ACKDATA" \notin ev'.flags /\ "NEWDATA" \notin ev'.flags BY <1>2, SilentFlags
<1>10. Says(e, out') BY <1>2 DEF Says, PureAck
<1>11. Around(<<>>) BY <1>9, NothingBrought
<1> QED BY <1>1, <1>2, <1>7, <1>8, <1>9, <1>10, <1>11, GoesOn

LEMMA ClosingInLink ==
  ASSUME LinkInv, ~CloseAnyTime, IInv', NEW seg \in InSegs, Around(Brought(seg)),
         NEW rto \in RTOS, ClosingIn(0, seg, rto)
  PROVE  LinkInv'
<1> DEFINE a == AfterAck(conn, seg, rto)
           t == Enter(a, "TIME_WAIT")
           e == IF Acks(conn, seg) THEN [t EXCEPT !.timer = 0] ELSE conn
<1>1. conn.st = "CLOSING" BY DEF ClosingIn, InState, conn
<1>2. uip_conns' = [uip_conns EXCEPT ![0] = e] /\ out' = NoSeg /\ ev' = NoEvent
  BY DEF ClosingIn, Outcome, conn
<1>3. a \in ConnRecs /\ a.peer = conn.peer /\ a.lport = conn.lport BY AfterAckType, Here
<1> HIDE DEF a
<1>4. t \in ConnRecs /\ t.st = "TIME_WAIT" /\ t.peer = a.peer /\ t.lport = a.lport
  BY <1>3 DEF Enter, ConnRecs, States
<1> HIDE DEF t
<1>5. /\ [t EXCEPT !.timer = 0].st = "TIME_WAIT" /\ [t EXCEPT !.timer = 0].peer = t.peer
      /\ [t EXCEPT !.timer = 0].lport = t.lport
  BY <1>4 DEF ConnRecs
<1>6. /\ e.st \in {"CLOSING", "TIME_WAIT"} /\ e.peer = conn.peer /\ e.lport = conn.lport
      /\ e.st = "CLOSING" => e.snd_nxt = conn.snd_nxt
  BY <1>1, <1>3, <1>4, <1>5
<1> HIDE DEF e
<1>7. uip_conns'[0] = e /\ e \in ConnRecs BY <1>2, ZeroConn DEF LinkInv, IInv
<1>8. "ACKDATA" \notin ev'.flags /\ "NEWDATA" \notin ev'.flags BY <1>2, SilentFlags
<1>9. Says(e, out') BY <1>2 DEF Says
<1>10. Around(<<>>) BY <1>8, NothingBrought
<1> QED BY <1>1, <1>2, <1>6, <1>7, <1>8, <1>9, <1>10, GoesOn

LEMMA ForConnectionLink ==
  ASSUME LinkInv, ~CloseAnyTime, IInv', NEW seg \in net, Around(Brought(seg)),
         conn.st # "CLOSED", ForConnection(0, seg)
  PROVE  LinkInv'
<1>1. seg \in InSegs BY DEF LinkInv, LinkTyped
<1>2. \A r \in Replies, rto \in RTOS : ~SynSentIn(0, seg, r, rto)
  BY Here DEF SynSentIn, InState, conn, StackOK
<1>3. CASE \/ ResetIn(0, seg) \/ OutOfOrder(0, seg) \/ LastAckIn(0, seg)
           \/ FinWait2In(0, seg) \/ TimeWaitIn(0, seg)
  BY <1>1, <1>3, ResetInLink, OutOfOrderLink, LastAckInLink, FinWait2InLink, TimeWaitInLink
<1>4. ASSUME NEW rto \in RTOS,
             EstablishedFin(0, seg, rto) \/ FinWait1In(0, seg, rto) \/ ClosingIn(0, seg, rto)
      PROVE  LinkInv'
  BY <1>1, <1>4, EstablishedFinLink, FinWait1InLink, ClosingInLink
<1>5. ASSUME NEW rto \in RTOS, NEW r \in Replies,
             SynRcvdIn(0, seg, r, rto) \/ EstablishedIn(0, seg, r, rto)
      PROVE  LinkInv'
  BY <1>5, SynRcvdInLink, EstablishedInLink
<1> QED BY <1>2, <1>3, <1>4, <1>5 DEF ForConnection

(* A segment for a closed port or a closed connection: nothing happens.    *)
LEMMA Nothing ==
  ASSUME LinkInv, ~CloseAnyTime, IInv', Around(<<>>), conn.st = "CLOSED",
         UNCHANGED <<uip_conns, iss>>, ev' = NoEvent, out' = NoSeg \/ "RST" \in out'.flags
  PROVE  LinkInv'
<1>1. conn \in ConnRecs /\ uip_conns \in [Conns -> ConnRecs] BY Here DEF LinkInv, IInv
<1>2. uip_conns' = [uip_conns EXCEPT ![0] = conn] /\ uip_conns'[0] = conn
  BY <1>1, ZeroConn DEF conn
<1>3. <<>> \in Seq(Nat) /\ Application(<<>>) BY DEF Around
<1>4. ev'.flags = {} /\ ev'.op = "none" BY DEF NoEvent
<1>5. /\ app' \in AppRecs /\ app'.base = app.base /\ app'.high = app.high
      /\ app'.started <=> app.started
      /\ app.left => app'.left
      /\ app'.in = app.in
  BY <1>1, <1>2, <1>3, <1>4, AppIs, Here
<1>6. Grown(conn, app, conn, app') BY <1>5, Here DEF Grown, Finned
<1>7. StackOK(conn, app', peer) BY <1>5, Here DEF StackOK
<1>8. StreamIn' BY <1>5, Here DEF StreamIn
<1>9. out' # NoSeg => BackOK([seg |-> out', first |-> app'.base + 1], conn, app', peer)
  BY ResetTrue
<1>10. ~app'.started => /\ conn.st = "CLOSED" /\ iss' = FirstIss
                        /\ app'.base = 0 /\ app'.high = 0 /\ app'.in = <<>>
  BY <1>5 DEF LinkInv
<1>11. app'.base <= Len(peer.got) BY <1>5, Here
<1> QED BY <1>1, <1>2, <1>5, <1>6, <1>7, <1>8, <1>9, <1>10, <1>11, StackStep DEF Around

LEMMA AcceptLink ==
  ASSUME LinkInv, ~CloseAnyTime, IInv', NEW seg \in net, Around(Brought(seg)),
         conn.st = "CLOSED", ~app.started, NEW c \in Conns, Accept(c, seg)
  PROVE  LinkInv'
<1> DEFINE k == [conn EXCEPT
                  !.st = "SYN_RCVD", !.stopped = FALSE, !.lport = seg.lport,
                  !.peer = seg.peer, !.snd_nxt = iss, !.len = 1,
                  !.rcv_nxt = Plus(seg.seq, 1), !.rto = UIP_RTO,
                  !.timer = UIP_RTO, !.nrtx = 0]
           e == MssOption(k, seg)
<1>1. c = 0 BY ZeroConn DEF Accept, Available, conn, Conns
<1>2. /\ uip_conns' = [uip_conns EXCEPT ![0] = e] /\ ev' = NoEvent
      /\ out' = Segment(e, {"SYN", "ACK"}, 0)
  BY <1>1 DEF Accept, Outcome, conn
<1>3. /\ seg \in InSegs /\ seg.peer = ThePeer /\ seg.lport = ThePort /\ seg.seq = 0
      /\ iss = FirstIss /\ app.base = 0 /\ app.high = 0 /\ app.in = <<>>
  BY DEF LinkInv, LinkTyped, NetOK, Accept, IsConnect
<1>4. Plus(0, 1) = 1 /\ Sq(0) = FirstIss
  <2>1. SeqMod \in Nat /\ SeqMod > 2 /\ FirstIss \in 0..(SeqMod - 1)
    BY StreamsAssumption, SizesAssumption DEF SeqNos
  <2>2. Plus(0, 1) = 1 BY <2>1, PlusIs
  <2>3. Plus(FirstIss, 0) = FirstIss BY <2>1, PlusIs
  <2> QED BY <2>2, <2>3 DEF Sq
<1>5. /\ k.st = "SYN_RCVD" /\ k.peer = seg.peer /\ k.lport = seg.lport /\ k.snd_nxt = iss
      /\ k.rcv_nxt = Plus(seg.seq, 1)
  BY Here DEF ConnRecs
<1>6. DOMAIN k = {"st", "stopped", "lport", "peer", "snd_nxt", "rcv_nxt", "len", "mss",
                  "initialmss", "rto", "timer", "nrtx"}
  BY Here DEF ConnRecs
<1> HIDE DEF k
<1>7. /\ e.st = k.st /\ e.peer = k.peer /\ e.lport = k.lport /\ e.snd_nxt = k.snd_nxt
      /\ e.rcv_nxt = k.rcv_nxt
  BY <1>6 DEF MssOption
<1> HIDE DEF e
<1>8. /\ e.st = "SYN_RCVD" /\ e.peer = ThePeer /\ e.lport = ThePort /\ e.snd_nxt = Sq(0)
      /\ e.rcv_nxt = 1
  BY <1>3, <1>4, <1>5, <1>7
<1>9. uip_conns'[0] = e /\ e \in ConnRecs BY <1>2, ZeroConn DEF LinkInv, IInv
<1>10. "ACKDATA" \notin ev'.flags /\ "NEWDATA" \notin ev'.flags BY <1>2, SilentFlags
<1>11. Around(<<>>) BY <1>3, <1>10, NothingBrought
<1>12. <<>> \in Seq(Nat) /\ Application(<<>>) BY <1>11 DEF Around
<1>13. /\ app' \in AppRecs /\ app'.base = 0 /\ app'.high = 0 /\ app'.started
       /\ app.left => app'.left
       /\ app'.in = app.in
  BY <1>3, <1>8, <1>9, <1>10, <1>12, AppIs, Here
<1>14. Grown(conn, app, e, app') BY <1>3, <1>13, Here DEF Grown, Finned
<1>15. StackOK(e, app', peer)
  <2>1. Len(app'.in) = 0 BY <1>3, <1>13
  <2> QED BY <1>8, <1>13, <2>1 DEF StackOK
<1>16. StreamIn' BY <1>13, Here DEF StreamIn
<1>17. out' # NoSeg => BackOK([seg |-> out', first |-> app'.base + 1], e, app', peer)
  BY <1>2, <1>8, <1>9, <1>13, <1>15, SaysTrue, Here DEF Says
<1>18. app'.base <= Len(peer.got) BY <1>13, Here
<1> QED BY <1>2, <1>9, <1>11, <1>13, <1>14, <1>15, <1>16, <1>17, <1>18, StackStep DEF Around

LEMMA DeliverLink ==
  ASSUME LinkInv, ~CloseAnyTime, NEW seg \in net, Deliver(seg)
  PROVE  LinkInv'
<1>1. /\ seg \in InSegs /\ Input(seg) /\ Around(Brought(seg))
      /\ conn.st = "CLOSED" => ~app.started \/ seg.flags # {"SYN"}
  BY DEF Deliver, LinkInv, LinkTyped, Around
<1>2. IInv' BY <1>1, InputInv DEF LinkInv
<1>3. NetOK(seg, peer) BY DEF LinkInv
<1>4. conn.st = "CLOSED" \/ Matches(0, seg) BY <1>3, Here DEF NetOK, StackOK, Matches, conn
<1>5. ASSUME NEW c \in Conns, Matches(c, seg) PROVE c = 0 /\ conn.st # "CLOSED"
  BY <1>5 DEF Matches, LinkInv, conn
<1>6. NoMatch(seg) => conn.st = "CLOSED" BY <1>4, ZeroConn DEF NoMatch
<1>7. CASE Refuse(seg)
  <2>1. /\ UNCHANGED <<uip_conns, iss>> /\ ev' = NoEvent
        /\ out' = NoSeg \/ "RST" \in out'.flags
    BY <1>7 DEF Refuse, ResetReply
  <2>2. Around(<<>>) BY <1>1, <2>1, NothingBrought, SilentFlags
  <2> QED BY <1>2, <1>6, <1>7, <2>1, <2>2, Nothing DEF Refuse
<1>8. CASE NoneAvailable(seg)
  <2>1. UNCHANGED <<uip_conns, iss>> /\ ev' = NoEvent /\ out' = NoSeg
    BY <1>8 DEF NoneAvailable, Dropped
  <2>2. Around(<<>>) BY <1>1, <2>1, NothingBrought, SilentFlags
  <2> QED BY <1>2, <1>6, <1>8, <2>1, <2>2, Nothing DEF NoneAvailable
<1>9. ASSUME NEW c \in Conns, Accept(c, seg) PROVE LinkInv'
  <2>1. conn.st = "CLOSED" /\ ~app.started BY <1>1, <1>6, <1>9 DEF Accept, IsConnect
  <2> QED BY <1>1, <1>2, <1>9, <2>1, AcceptLink
<1>10. ASSUME NEW c \in Conns, Found(c, seg), ForConnection(c, seg) PROVE LinkInv'
  <2>1. c = 0 /\ conn.st # "CLOSED" BY <1>5, <1>10 DEF Found
  <2> QED BY <1>1, <1>2, <1>10, <2>1, ForConnectionLink
<1> QED BY <1>1, <1>7, <1>8, <1>9, <1>10 DEF Input

LEMMA TimerStepLink ==
  ASSUME LinkInv, ~CloseAnyTime, TimerStep
  PROVE  LinkInv'
<1>1. conn.st # "CLOSED" /\ Periodic(0) /\ Around(<<>>) BY DEF TimerStep, Around
<1>2. IInv' BY <1>1, PeriodicInv, ZeroConn DEF LinkInv
<1> QED
  BY <1>1, <1>2, LingerLink, CountDownLink, TimeOutLink, PeriodicIdleLink, RetransmitLink, PollLink
     DEF Periodic, PeriodicPoll

(***************************************************************************)
(* The network and the peer.                                               *)
(***************************************************************************)

(* What the peer has got and written stays, and so does its end.           *)
PeerGrown(p, q) ==
  /\ p.written <= q.written /\ Len(p.got) <= Len(q.got)
  /\ p.fin => q.fin /\ q.written = p.written
  /\ p.finGot => q.finGot /\ Len(q.got) = Len(p.got)

LEMMA NetKept ==
  ASSUME NEW s \in InSegs, NEW p \in PeerRecs, NEW q \in PeerRecs, PeerGrown(p, q), NetOK(s, p)
  PROVE  NetOK(s, q)
<1>1. /\ s.seq \in Nat /\ s.len \in Nat /\ p.written \in Nat /\ q.written \in Nat
      /\ Len(p.got) \in Nat /\ Len(q.got) \in Nat
  <2>1. s.seq \in Nat /\ s.len \in Nat BY DEF InSegs, SeqNos
  <2>2. p.written \in Nat /\ q.written \in Nat BY StreamsAssumption DEF PeerRecs
  <2>3. Len(p.got) \in Nat /\ Len(q.got) \in Nat BY DEF PeerRecs
  <2> QED BY <2>1, <2>2, <2>3
<1>2. ASSUME "ACK" \in s.flags
      PROVE  \E n \in 0..(AppOctets + 1) :
               s.ack = Sq(1 + n) /\ (n <= Len(q.got) \/ (q.finGot /\ n = Len(q.got) + 1))
  <2>1. PICK n \in 0..(AppOctets + 1) :
          s.ack = Sq(1 + n) /\ (n <= Len(p.got) \/ (p.finGot /\ n = Len(p.got) + 1))
    BY <1>2 DEF NetOK
  <2>2. n <= Len(q.got) \/ (q.finGot /\ n = Len(q.got) + 1) BY <1>1, <2>1 DEF PeerGrown
  <2> QED BY <2>1, <2>2
<1>3. s.len > 0 => s.seq >= 1 /\ s.seq + s.len <= q.written + 1
  BY <1>1 DEF NetOK, PeerGrown
<1>4. "FIN" \in s.flags => q.fin /\ s.seq >= 1 /\ s.seq + s.len = q.written + 1
  BY DEF NetOK, PeerGrown
<1> QED BY <1>2, <1>3, <1>4 DEF NetOK

LEMMA AckKept ==
  ASSUME NEW n, NEW a, NEW p, NEW q, PeerGrown(p, q), AckTrue(n, a, p)
  PROVE  AckTrue(n, a, q)
BY DEF AckTrue, PeerGrown

(* A step that leaves the stack and the application alone.                 *)
LEMMA PeerStep ==
  ASSUME LinkInv, UNCHANGED <<vars, app>>, peer' \in PeerRecs, PeerGrown(peer, peer'),
         net' \subseteq InSegs, \A s \in net' : s \in net \/ NetOK(s, peer'),
         back' \subseteq back, PeerOK(peer', conn, app), StreamOut'
  PROVE  LinkInv'
<1>1. IInv' BY NextInv DEF LinkInv
<1>2. conn' = conn /\ app' = app /\ iss' = iss /\ uip_conns' = uip_conns BY DEF conn, vars
<1>3. /\ net \subseteq InSegs /\ back \subseteq BackRecs /\ app \in AppRecs
      /\ peer \in PeerRecs
      /\ \A s \in net : NetOK(s, peer)
      /\ \A m \in back : BackOK(m, conn, app, peer)
      /\ \A c \in Conns \ {0} : uip_conns[c].st = "CLOSED"
      /\ ~app.started => /\ conn.st = "CLOSED" /\ iss = FirstIss
                         /\ app.base = 0 /\ app.high = 0 /\ app.in = <<>>
      /\ StackOK(conn, app, peer) /\ StreamIn
  BY DEF LinkInv, LinkTyped
<1>4. LinkTyped' BY <1>2, <1>3 DEF LinkTyped
<1>5. \A s \in net' : NetOK(s, peer') BY <1>3, NetKept
<1>6. \A m \in back' : BackOK(m, conn, app, peer')
  <2>1. SUFFICES ASSUME NEW m \in back PROVE BackOK(m, conn, app, peer') OBVIOUS
  <2>2. BackOK(m, conn, app, peer) BY <1>3
  <2>3. AckTrue(m.seg.ack, app, peer) => AckTrue(m.seg.ack, app, peer') BY AckKept
  <2> QED BY <2>2, <2>3 DEF BackOK
<1>7. StackOK(conn, app, peer') BY <1>3 DEF StackOK, PeerGrown
<1>8. StreamIn' BY <1>2, <1>3 DEF StreamIn
<1> QED BY <1>1, <1>2, <1>3, <1>4, <1>5, <1>6, <1>7, <1>8 DEF LinkInv

LEMMA LoseLink ==
  ASSUME LinkInv, Lose
  PROVE  LinkInv'
<1>1. /\ net' \subseteq net /\ back' \subseteq back /\ peer' = peer /\ UNCHANGED <<vars, app>>
  BY DEF Lose
<1>2. /\ peer \in PeerRecs /\ net \subseteq InSegs /\ PeerOK(peer, conn, app) /\ StreamOut
  BY DEF LinkInv, LinkTyped
<1>3. peer.written \in Nat BY <1>2, StreamsAssumption DEF PeerRecs
<1>4. PeerGrown(peer, peer') BY <1>1, <1>2, <1>3, Here DEF PeerGrown
<1>5. StreamOut' BY <1>1, <1>2 DEF StreamOut
<1>6. net' \subseteq InSegs /\ (\A s \in net' : s \in net) /\ peer' \in PeerRecs
      /\ PeerOK(peer', conn, app)
  BY <1>1, <1>2
<1> QED BY <1>1, <1>4, <1>5, <1>6, PeerStep

LEMMA HeldIs ==
  ASSUME NEW p \in PeerRecs
  PROVE  /\ Held(p) \in Nat /\ Len(p.got) \in Nat
         /\ ~p.finGot => Held(p) = Len(p.got)
         /\ p.finGot => Held(p) = Len(p.got) + 1
<1>1. Len(p.got) \in Nat BY DEF PeerRecs
<1>2. CASE p.finGot BY <1>1, <1>2 DEF Held
<1>3. CASE ~p.finGot BY <1>1, <1>3 DEF Held
<1> QED BY <1>2, <1>3

(* A segment of an open peer acknowledges what the peer has.               *)
LEMMA PeerSays ==
  ASSUME LinkInv, peer.st = "open", NEW flags \in SUBSET {"ACK", "FIN", "RST"},
         NEW seq \in SeqNos, NEW n \in Nat, NEW wnd \in Nat, NEW q \in PeerRecs,
         PeerGrown(peer, q),
         n > 0 => seq >= 1 /\ seq + n <= q.written + 1,
         "FIN" \in flags => q.fin /\ seq >= 1 /\ seq + n = q.written + 1
  PROVE  /\ PeerSegment(flags, seq, n, wnd) \in InSegs
         /\ NetOK(PeerSegment(flags, seq, n, wnd), q)
<1> DEFINE s == PeerSegment(flags, seq, n, wnd)
<1>1. /\ s.peer = ThePeer /\ s.lport = ThePort /\ s.flags = flags /\ s.seq = seq /\ s.len = n
      /\ "ACK" \in flags => s.ack = peer.rcv
  BY DEF PeerSegment
<1>2. s \in InSegs
  <2>1. ThePeer \in Peers /\ ThePort \in Ports /\ flags \in SUBSET Flags BY TheEnds DEF Flags
  <2>2. peer.rcv \in SeqNos /\ 0 \in SeqNos BY Here, SizesAssumption DEF PeerRecs, SeqNos
  <2>3. UIP_TCP_MSS \in Nat /\ 0 \in Nat BY SizesAssumption
  <2> DEFINE ack == IF "ACK" \in flags THEN peer.rcv ELSE 0
             mss == IF "SYN" \in flags THEN UIP_TCP_MSS ELSE 0
  <2>4. ack \in SeqNos /\ mss \in Nat BY <2>2, <2>3
  <2>5. s = [peer |-> ThePeer, lport |-> ThePort, flags |-> flags, seq |-> seq,
             ack |-> ack, len |-> n, urg |-> 0, wnd |-> wnd, mss |-> mss]
    BY DEF PeerSegment
  <2> HIDE DEF ack, mss, s
  <2> QED BY <2>1, <2>3, <2>4, <2>5 DEF InSegs
<1> DEFINE l == Held(peer)
<1>3. peer.rcv = Sq(1 + l) BY Here DEF PeerOK
<1>4. /\ l \in Nat /\ Len(peer.got) \in Nat /\ Len(q.got) \in Nat
      /\ l <= Len(peer.got) \/ (peer.finGot /\ l = Len(peer.got) + 1)
      /\ l <= Len(peer.got) + 1
  BY HeldIs, Here
<1>5. Len(peer.got) <= app.high /\ app.high \in Nat /\ app.high <= AppOctets /\ AppOctets \in Nat
  BY Here, StreamsAssumption DEF PeerOK, AppRecs
<1> HIDE DEF l
<1>6. l \in 0..(AppOctets + 1) BY <1>4, <1>5
<1>8. l <= Len(q.got) \/ (q.finGot /\ l = Len(q.got) + 1) BY <1>4 DEF PeerGrown
<1> HIDE DEF s
<1>9. "ACK" \in flags =>
        \E i \in 0..(AppOctets + 1) :
          s.ack = Sq(1 + i) /\ (i <= Len(q.got) \/ (q.finGot /\ i = Len(q.got) + 1))
  BY <1>1, <1>3, <1>6, <1>8
<1>10. NetOK(s, q) BY <1>1, <1>9 DEF NetOK
<1> QED BY <1>2, <1>10 DEF s

(* A step of the peer that transmits: what it has got stays as it is.      *)
LEMMA Transmitted ==
  ASSUME LinkInv, NEW q \in PeerRecs, peer' = q, PeerGrown(peer, q),
         q.rcv = peer.rcv, q.got = peer.got, q.finGot = peer.finGot, q.acked = peer.acked,
         \/ q.st = peer.st
         \/ q.st = "dead"
         \/ q.st = "opening" /\ peer.st = "closed",
         NEW s \in InSegs, NetOK(s, q), Transmit(s)
  PROVE  LinkInv'
<1>1. /\ net' = net \cup {s} /\ UNCHANGED <<vars, back, app>> BY DEF Transmit
<1>2. net' \subseteq InSegs /\ \A r \in net' : r \in net \/ NetOK(r, peer')
  BY <1>1 DEF LinkInv, LinkTyped
<1>3. Held(q) = Held(peer) BY DEF Held
<1>4. AckTrue(q.acked, app, q)
  <2>1. AckTrue(peer.acked, app, peer) BY Here DEF PeerOK
  <2> QED BY <2>1, AckKept
<1>5. PeerOK(q, conn, app) BY <1>3, <1>4, Here DEF PeerOK
<1>6. StreamOut' BY DEF StreamOut, LinkInv
<1> QED BY <1>1, <1>2, <1>5, <1>6, PeerStep

LEMMA PeerConnectsLink ==
  ASSUME LinkInv, PeerConnects
  PROVE  LinkInv'
<1> DEFINE q == [peer EXCEPT !.st = "opening"]
           s == PeerSegment({"SYN"}, 0, 0, 1)
<1>1. peer' = q /\ Transmit(s) /\ peer.st \in {"closed", "opening"} BY DEF PeerConnects
<1>2. /\ q \in PeerRecs /\ q.st = "opening" /\ q.rcv = peer.rcv /\ q.got = peer.got
      /\ q.written = peer.written /\ q.fin = peer.fin /\ q.finGot = peer.finGot
      /\ q.acked = peer.acked
  BY Here DEF PeerRecs
<1> HIDE DEF q
<1>3. PeerGrown(peer, q)
  <2>1. peer.written \in Nat BY Here, StreamsAssumption DEF PeerRecs
  <2> QED BY <1>2, <2>1, Here DEF PeerGrown
<1>4. s = [peer |-> ThePeer, lport |-> ThePort, flags |-> {"SYN"}, seq |-> 0,
           ack |-> 0, len |-> 0, urg |-> 0, wnd |-> 1, mss |-> UIP_TCP_MSS]
  BY DEF PeerSegment
<1> HIDE DEF s
<1>5. s \in InSegs
  <2>1. ThePeer \in Peers /\ ThePort \in Ports /\ {"SYN"} \in SUBSET Flags BY TheEnds DEF Flags
  <2>2. 0 \in SeqNos /\ UIP_TCP_MSS \in Nat BY SizesAssumption DEF SeqNos
  <2> QED BY <1>4, <2>1, <2>2 DEF InSegs
<1>6. NetOK(s, q) BY <1>4 DEF NetOK
<1> QED BY <1>1, <1>2, <1>3, <1>5, <1>6, Transmitted

(* The octets of the peer have sequence numbers of their own.              *)
LEMMA PeerRoom ==
  ASSUME LinkInv
  PROVE  /\ PeerOctets \in Nat /\ peer.written \in Nat /\ peer.written <= PeerOctets
         /\ \A n \in 0..(PeerOctets + 1) : n \in SeqNos
BY Here, StreamsAssumption, SizesAssumption DEF PeerRecs, SeqNos

LEMMA PeerSendsLink ==
  ASSUME LinkInv, NEW n \in 1..PeerOctets, NEW wnd \in Windows, PeerSends(n, wnd)
  PROVE  LinkInv'
<1> DEFINE w == Most(peer.written, n)
           q == [peer EXCEPT !.written = w]
           s == PeerSegment({"ACK"}, n, 1, wnd)
<1>1. /\ peer' = q /\ Transmit(s) /\ peer.st = "open"
      /\ n <= IF peer.fin THEN peer.written ELSE Least(peer.written + 1, PeerOctets)
  BY DEF PeerSends
<1>2. /\ w \in 0..PeerOctets /\ peer.written <= w /\ n <= w
      /\ peer.fin => w = peer.written
  <2>1. peer.fin => n <= peer.written BY <1>1
  <2> QED BY <2>1, PeerRoom DEF Most
<1> HIDE DEF w
<1>3. /\ q \in PeerRecs /\ q.st = peer.st /\ q.rcv = peer.rcv /\ q.got = peer.got
      /\ q.written = w /\ q.fin = peer.fin /\ q.finGot = peer.finGot /\ q.acked = peer.acked
  BY <1>2, Here DEF PeerRecs
<1> HIDE DEF q
<1>4. PeerGrown(peer, q) BY <1>2, <1>3, Here DEF PeerGrown
<1>5. n \in SeqNos /\ n >= 1 /\ n + 1 <= q.written + 1 BY <1>2, <1>3, PeerRoom
<1>6. wnd \in Nat BY StreamsAssumption
<1>7. s \in InSegs /\ NetOK(s, q)
  <2>1. {"ACK"} \in SUBSET {"ACK", "FIN", "RST"} /\ "FIN" \notin {"ACK"} /\ 1 \in Nat OBVIOUS
  <2> QED BY <1>1, <1>3, <1>4, <1>5, <1>6, <2>1, PeerSays
<1> HIDE DEF s
<1> QED BY <1>1, <1>3, <1>4, <1>7, Transmitted

LEMMA PeerAcksLink ==
  ASSUME LinkInv, NEW wnd \in Windows, PeerAcks(wnd)
  PROVE  LinkInv'
<1> DEFINE s == PeerSegment({"ACK"}, peer.written + 1, 0, wnd)
<1>1. peer' = peer /\ Transmit(s) /\ peer.st = "open" BY DEF PeerAcks
<1>2. peer \in PeerRecs /\ PeerGrown(peer, peer) BY PeerRoom, Here DEF PeerGrown
<1>3. peer.written + 1 \in SeqNos BY PeerRoom
<1>4. wnd \in Nat BY StreamsAssumption
<1>5. s \in InSegs /\ NetOK(s, peer)
  <2>1. {"ACK"} \in SUBSET {"ACK", "FIN", "RST"} /\ "FIN" \notin {"ACK"} /\ 0 \in Nat /\ ~(0 > 0)
    OBVIOUS
  <2> QED BY <1>1, <1>2, <1>3, <1>4, <2>1, PeerSays
<1> HIDE DEF s
<1> QED BY <1>1, <1>2, <1>5, Transmitted

LEMMA PeerClosesLink ==
  ASSUME LinkInv, NEW n \in {0, 1}, PeerCloses(n)
  PROVE  LinkInv'
<1> DEFINE q == [peer EXCEPT !.fin = TRUE]
           seq == peer.written + 1 - n
           s == PeerSegment({"FIN", "ACK"}, seq, n, 1)
<1>1. peer' = q /\ Transmit(s) /\ peer.st = "open" /\ n <= peer.written BY DEF PeerCloses
<1>2. /\ q \in PeerRecs /\ q.st = peer.st /\ q.rcv = peer.rcv /\ q.got = peer.got
      /\ q.written = peer.written /\ q.fin /\ q.finGot = peer.finGot /\ q.acked = peer.acked
  BY Here DEF PeerRecs
<1> HIDE DEF q
<1>3. PeerGrown(peer, q) BY <1>2, PeerRoom, Here DEF PeerGrown
<1>4. seq \in SeqNos /\ seq >= 1 /\ seq + n = q.written + 1
  <2>1. seq \in 0..(PeerOctets + 1) /\ seq >= 1 /\ seq + n = peer.written + 1 BY <1>1, PeerRoom
  <2> HIDE DEF seq
  <2> QED BY <1>2, <2>1, PeerRoom
<1> HIDE DEF seq
<1>5. s \in InSegs /\ NetOK(s, q)
  <2>1. {"FIN", "ACK"} \in SUBSET {"ACK", "FIN", "RST"} /\ n \in Nat /\ 1 \in Nat OBVIOUS
  <2>2. seq + n <= q.written + 1 BY <1>2, <1>4, PeerRoom
  <2> QED BY <1>1, <1>2, <1>3, <1>4, <2>1, <2>2, PeerSays
<1> HIDE DEF s
<1> QED BY <1>1, <1>2, <1>3, <1>5, Transmitted

LEMMA PeerResetsLink ==
  ASSUME LinkInv, PeerResets
  PROVE  LinkInv'
<1> DEFINE q == [peer EXCEPT !.st = "dead"]
           s == PeerSegment({"RST"}, peer.written + 1, 0, 1)
<1>1. peer' = q /\ Transmit(s) /\ peer.st = "open" BY DEF PeerResets
<1>2. /\ q \in PeerRecs /\ q.st = "dead" /\ q.rcv = peer.rcv /\ q.got = peer.got
      /\ q.written = peer.written /\ q.fin = peer.fin /\ q.finGot = peer.finGot
      /\ q.acked = peer.acked
  BY Here DEF PeerRecs
<1> HIDE DEF q
<1>3. PeerGrown(peer, q) BY <1>2, PeerRoom, Here DEF PeerGrown
<1>4. peer.written + 1 \in SeqNos BY PeerRoom
<1>5. s \in InSegs /\ NetOK(s, q)
  <2>1. {"RST"} \in SUBSET {"ACK", "FIN", "RST"} /\ "FIN" \notin {"RST"} /\ 0 \in Nat /\ 1 \in Nat
        /\ ~(0 > 0)
    OBVIOUS
  <2> QED BY <1>1, <1>2, <1>3, <1>4, <2>1, PeerSays
<1> HIDE DEF s
<1> QED BY <1>1, <1>2, <1>3, <1>5, Transmitted

(* What the peer takes of a segment comes next in the stream, and nothing  *)
(* comes after its end.                                                    *)
LEMMA NextInStream ==
  ASSUME LinkInv, NEW m \in back, peer.st = "open", m.seg.flags \cap {"SYN", "RST"} = {},
         m.seg.seq = peer.rcv, m.seg.len > 0 \/ "FIN" \in m.seg.flags
  PROVE  /\ ~peer.finGot /\ m.first = Len(peer.got) + 1
         /\ Len(peer.got) + m.seg.len <= app.high
         /\ "FIN" \in m.seg.flags =>
              m.seg.len = 0 /\ Len(peer.got) = app.high /\ Finned(conn, app)
<1> DEFINE g == Len(peer.got)  h == Held(peer)  high == app.high
<1>1. /\ m.seg.seq = Sq(m.first) /\ m.first + m.seg.len <= high + 1
      /\ "FIN" \in m.seg.flags => m.seg.len = 0 /\ m.first = high + 1 /\ Finned(conn, app)
  BY DEF LinkInv, BackOK
<1>2. /\ m.first \in Nat \ {0} /\ m.seg.len \in Nat
  BY DEF LinkInv, LinkTyped, BackRecs, OutSegs
<1>3. /\ high \in Nat /\ high <= AppOctets /\ AppOctets + 2 < SeqMod /\ AppOctets \in Nat
      /\ SeqMod \in Nat
  BY Here, StreamsAssumption, SizesAssumption DEF AppRecs
<1>4. /\ g \in Nat /\ h \in Nat /\ g <= high
      /\ ~peer.finGot => h = g
      /\ peer.finGot => h = g + 1 /\ g = high
  BY Here, HeldIs DEF PeerOK
<1>5. peer.rcv = Sq(1 + h) BY Here DEF PeerOK
<1> HIDE DEF g, h, high
<1>6. m.first \in 0..(SeqMod - 1) /\ 1 + h \in 0..(SeqMod - 1) BY <1>1, <1>2, <1>3, <1>4
<1>7. m.first = 1 + h BY <1>1, <1>5, <1>6, SqInjective
<1>8. ~peer.finGot BY <1>1, <1>2, <1>3, <1>4, <1>7
<1>9. m.first = g + 1 /\ g + m.seg.len <= high /\ ("FIN" \in m.seg.flags => g = high)
  BY <1>1, <1>2, <1>3, <1>4, <1>7, <1>8
<1> QED BY <1>1, <1>8, <1>9 DEF g, high

LEMMA PeerTakesLink ==
  ASSUME LinkInv, NEW m \in back, peer.st = "open", m.seg.flags \cap {"SYN", "RST"} = {},
         peer' = Taken(m), back' \subseteq back, UNCHANGED <<vars, net, app>>
  PROVE  LinkInv'
<1> DEFINE fresh == m.seg.seq = peer.rcv
           fin == fresh /\ "FIN" \in m.seg.flags
           n == IF fresh THEN m.seg.len ELSE 0
           b == IF fin THEN 1 ELSE 0
           g == Len(peer.got)
           h == Held(peer)
           got == IF peer.finGot THEN peer.got ELSE peer.got \o Octets(m.first, n)
           rcv == Plus(peer.rcv, n + b)
           finGot == (peer.finGot \/ fin)
           acked == Most(peer.acked, m.seg.ack)
           q == [peer EXCEPT !.rcv = rcv, !.got = got, !.finGot = finGot, !.acked = acked]
<1>1. peer' = q BY DEF Taken
<1>2. /\ m \in BackRecs /\ m.first \in Nat /\ m.seg.len \in Nat /\ m.seg.ack \in Nat
  BY DEF LinkInv, LinkTyped, BackRecs, OutSegs, SeqNos
<1>3. /\ n \in Nat /\ b \in Nat /\ b <= 1
      /\ fin => b = 1
      /\ ~fin => b = 0
  BY <1>2
<1>4. /\ n > 0 \/ fin => ~peer.finGot /\ m.first = g + 1 /\ g + n <= app.high
      /\ fin => n = 0 /\ g = app.high /\ Finned(conn, app)
  BY <1>2, NextInStream
<1>5. /\ app.high \in Nat /\ app.high <= AppOctets /\ AppOctets + 2 < SeqMod /\ AppOctets \in Nat
      /\ SeqMod \in Nat /\ peer.got \in Seq(Nat) /\ g <= app.high
      /\ peer.acked \in Nat /\ peer.rcv = Sq(1 + h)
      /\ peer.finGot => g = app.high /\ Finned(conn, app)
      /\ AckTrue(peer.acked, app, peer)
  BY Here, StreamsAssumption, SizesAssumption DEF AppRecs, PeerRecs, PeerOK
<1>6. /\ h \in Nat /\ g \in Nat
      /\ ~peer.finGot => h = g
      /\ peer.finGot => h = g + 1
  BY Here, HeldIs
<1>7. fin \in BOOLEAN /\ finGot \in BOOLEAN /\ (finGot <=> peer.finGot \/ fin)
  BY Here, Zenon DEF PeerRecs
<1> HIDE DEF fresh, fin, n, b, g, h
<1>8. /\ got \in Seq(Nat) /\ Len(got) = g + n
      /\ \A i \in DOMAIN got : got[i] = i
  <2>1. peer.got \in Seq(Nat) /\ Len(peer.got) = g /\ \A i \in DOMAIN peer.got : peer.got[i] = i
    BY <1>5 DEF LinkInv, StreamOut, g
  <2>2. CASE peer.finGot
    <3>1. n = 0 /\ got = peer.got BY <1>3, <1>4, <2>2
    <3>2. g + n = g BY <1>6, <3>1
    <3> HIDE DEF got
    <3> QED BY <2>1, <3>1, <3>2
  <2>3. CASE ~peer.finGot
    <3>1. got = peer.got \o Octets(m.first, n) BY <2>3
    <3>2. n > 0 => m.first = Len(peer.got) + 1 BY <1>4, <2>1
    <3> HIDE DEF got
    <3> QED BY <1>2, <1>3, <2>1, <3>1, <3>2, StreamGrows
  <2> QED BY <2>2, <2>3
<1>9. rcv = Sq(1 + (h + n + b)) /\ 1 + (h + n + b) \in Nat
  <2>1. (1 + h) + (n + b) < SeqMod BY <1>3, <1>4, <1>5, <1>6
  <2>2. 1 + h \in Nat /\ n + b \in Nat /\ (1 + h) + (n + b) = 1 + (h + n + b) BY <1>3, <1>6
  <2> QED BY <1>5, <2>1, <2>2, SqPlus
<1>10. acked \in Nat /\ AckTrue(acked, app, peer)
  <2>1. AckTrue(m.seg.ack, app, peer) BY DEF LinkInv, BackOK
  <2> QED BY <1>2, <1>5, <2>1 DEF Most
<1>11. rcv \in SeqNos BY <1>9, SqType
<1> HIDE DEF got, rcv, finGot, acked
<1>12. /\ q \in PeerRecs /\ q.rcv = rcv /\ q.got = got /\ q.finGot = finGot /\ q.acked = acked
       /\ q.st = peer.st /\ q.written = peer.written /\ q.fin = peer.fin
  BY <1>7, <1>8, <1>10, <1>11, Here DEF PeerRecs
<1> HIDE DEF q
<1>13. Held(q) = h + n + b
  <2>1. CASE fin
    <3>1. q.finGot /\ ~peer.finGot BY <1>4, <1>7, <1>12, <2>1
    <3> QED BY <1>3, <1>6, <1>8, <1>12, <2>1, <3>1, HeldIs
  <2>2. CASE ~fin
    <3>1. q.finGot <=> peer.finGot BY <1>7, <1>12, <2>2
    <3> QED BY <1>3, <1>6, <1>8, <1>12, <2>2, <3>1, HeldIs
  <2> QED BY <2>1, <2>2
<1>14. PeerGrown(peer, q)
  <2>1. peer.finGot => n = 0 BY <1>3, <1>4
  <2>2. Len(peer.got) = g BY DEF g
  <2> QED BY <1>3, <1>6, <1>7, <1>8, <1>12, <2>1, <2>2, PeerRoom DEF PeerGrown
<1>15. PeerOK(q, conn, app)
  <2>1. app.base <= Len(q.got) /\ Len(q.got) <= app.high
    <3>1. app.base <= g /\ app.base \in Nat BY Here DEF g
    <3>2. g + n <= app.high BY <1>3, <1>4, <1>5, <1>6
    <3>3. app.base <= g + n BY <1>3, <1>6, <3>1
    <3>4. Len(q.got) = g + n BY <1>8, <1>12
    <3> QED BY <3>2, <3>3, <3>4
  <2>2. q.finGot => Len(q.got) = app.high /\ Finned(conn, app)
    <3>1. CASE fin BY <1>4, <1>6, <1>8, <1>12, <3>1
    <3>2. CASE ~fin /\ peer.finGot
      <4>1. n = 0 BY <1>3, <1>4, <3>2
      <4> QED BY <1>5, <1>6, <1>8, <1>12, <3>2, <4>1
    <3> QED BY <1>7, <1>12, <3>1, <3>2
  <2>3. AckTrue(q.acked, app, q) BY <1>10, <1>12, <1>14, AckKept
  <2>4. q.st = "open" BY <1>12
  <2>5. q.rcv = Sq(1 + Held(q)) BY <1>9, <1>12, <1>13
  <2> QED BY <2>1, <2>2, <2>3, <2>4, <2>5 DEF PeerOK
<1>16. StreamOut' BY <1>1, <1>8, <1>12 DEF StreamOut
<1>17. net' \subseteq InSegs /\ \A s \in net' : s \in net BY DEF LinkInv, LinkTyped
<1> QED BY <1>1, <1>12, <1>14, <1>15, <1>16, <1>17, PeerStep

LEMMA PeerOpensLink ==
  ASSUME LinkInv, NEW m \in back, peer.st = "opening",
         m.seg.flags \cap {"SYN", "RST"} = {"SYN"},
         peer' = [peer EXCEPT !.st = "open", !.rcv = Plus(m.seg.seq, 1)],
         back' \subseteq back, UNCHANGED <<vars, net, app>>
  PROVE  LinkInv'
<1> DEFINE rcv == Plus(m.seg.seq, 1)
           q == [peer EXCEPT !.st = "open", !.rcv = rcv]
<1>1. m.seg.seq = Sq(0)
  <2>1. BackOK(m, conn, app, peer) /\ "RST" \notin m.seg.flags BY DEF LinkInv
  <2> QED BY <2>1 DEF BackOK
<1>2. rcv = Sq(1) /\ rcv \in SeqNos
  <2>1. 0 + 1 < SeqMod /\ 0 + 1 = 1 /\ 0 \in Nat /\ 1 \in Nat
    BY StreamsAssumption, SizesAssumption
  <2>2. Plus(Sq(0), 1) = Sq(1) BY <2>1, SqPlus
  <2> QED BY <1>1, <2>1, <2>2, SqType
<1> HIDE DEF rcv
<1>3. /\ q \in PeerRecs /\ q.st = "open" /\ q.rcv = rcv /\ q.got = peer.got
      /\ q.written = peer.written /\ q.fin = peer.fin /\ q.finGot = peer.finGot
      /\ q.acked = peer.acked
  BY <1>2, Here DEF PeerRecs
<1>4. peer' = q BY DEF rcv
<1> HIDE DEF q
<1>5. PeerGrown(peer, q) BY <1>3, PeerRoom, Here DEF PeerGrown
<1>6. PeerOK(q, conn, app)
  <2>1. peer.got = <<>> /\ ~peer.finGot BY Here DEF PeerOK
  <2>2. Held(q) = 0 BY <1>3, <2>1, HeldIs
  <2>3. q.rcv = Sq(1 + Held(q)) BY <1>2, <1>3, <2>2
  <2>4. AckTrue(q.acked, app, q)
    <3>1. AckTrue(peer.acked, app, peer) BY Here DEF PeerOK
    <3> QED BY <1>3, <1>5, <3>1, AckKept
  <2>5. app.base <= Len(q.got) /\ Len(q.got) <= app.high BY <1>3, Here DEF PeerOK
  <2> QED BY <1>3, <2>1, <2>3, <2>4, <2>5 DEF PeerOK
<1>7. StreamOut' BY <1>3, <1>4 DEF StreamOut, LinkInv
<1>8. net' \subseteq InSegs /\ \A s \in net' : s \in net BY DEF LinkInv, LinkTyped
<1> QED BY <1>3, <1>4, <1>5, <1>6, <1>7, <1>8, PeerStep

LEMMA PeerIgnoresLink ==
  ASSUME LinkInv, peer' = peer \/ peer' = [peer EXCEPT !.st = "dead"],
         back' \subseteq back, UNCHANGED <<vars, net, app>>
  PROVE  LinkInv'
<1> DEFINE q == peer'
<1>1. /\ q \in PeerRecs /\ q.rcv = peer.rcv /\ q.got = peer.got
      /\ q.written = peer.written /\ q.fin = peer.fin /\ q.finGot = peer.finGot
      /\ q.acked = peer.acked
      /\ q.st \in {peer.st, "dead"}
  BY Here DEF PeerRecs
<1> HIDE DEF q
<1>2. PeerGrown(peer, q) BY <1>1, PeerRoom, Here DEF PeerGrown
<1>3. PeerOK(q, conn, app)
  <2>1. Held(q) = Held(peer) BY <1>1 DEF Held
  <2>2. AckTrue(q.acked, app, q)
    <3>1. AckTrue(peer.acked, app, peer) BY Here DEF PeerOK
    <3> QED BY <1>1, <1>2, <3>1, AckKept
  <2> QED BY <1>1, <2>1, <2>2, Here DEF PeerOK
<1>4. StreamOut' BY <1>1 DEF StreamOut, LinkInv, q
<1>5. net' \subseteq InSegs /\ \A s \in net' : s \in net BY DEF LinkInv, LinkTyped
<1> QED BY <1>1, <1>2, <1>3, <1>4, <1>5, PeerStep DEF q

LEMMA PeerReceivesLink ==
  ASSUME LinkInv, NEW m \in back, PeerReceives(m)
  PROVE  LinkInv'
<1>1. back' \subseteq back /\ UNCHANGED <<vars, net, app>> BY DEF PeerReceives
<1>2. \/ "RST" \in m.seg.flags /\ peer' = [peer EXCEPT !.st = "dead"]
      \/ /\ peer.st = "opening" /\ m.seg.flags \cap {"SYN", "RST"} = {"SYN"}
         /\ peer' = [peer EXCEPT !.st = "open", !.rcv = Plus(m.seg.seq, 1)]
      \/ peer.st = "open" /\ m.seg.flags \cap {"SYN", "RST"} = {} /\ peer' = Taken(m)
      \/ peer' = peer
  BY DEF PeerReceives
<1> QED BY <1>1, <1>2, PeerIgnoresLink, PeerOpensLink, PeerTakesLink

LEMMA PeerLink ==
  ASSUME LinkInv, Peer
  PROVE  LinkInv'
BY PeerConnectsLink, PeerSendsLink, PeerAcksLink, PeerClosesLink, PeerResetsLink,
   PeerReceivesLink
   DEF Peer

(***************************************************************************)
(* The invariant of both streams.                                          *)
(***************************************************************************)
LEMMA LinkInitInv == LinkInit => LinkInv
<1> SUFFICES ASSUME LinkInit PROVE LinkInv OBVIOUS
<1>1. 0 \in SeqNos /\ FirstIss \in SeqNos /\ ThePort \in Ports
  BY SizesAssumption, StreamsAssumption, TheEnds DEF SeqNos
<1>2. Unused \in ConnRecs
  BY <1>1, SizesAssumption DEF Unused, ConnRecs, States, U8
<1>3. Unused.st = "CLOSED" /\ Unused.stopped = FALSE BY DEF Unused
<1>4. Sound(Unused)
  BY <1>2, <1>3 DEF Sound, Named, ConnOK, DrivenConn, BudgetConn, PrimedConn,
                    StoppedConn, Owing
<1>5. RestTyped BY <1>1 DEF LinkInit, RestTyped, NoEvent, EventRecs, Ops
<1>6. IInv BY <1>2, <1>3, <1>4, <1>5 DEF LinkInit, IInv, UniqueEndpoints
<1>7. conn = Unused BY ZeroConn DEF LinkInit, conn
<1>8. PeerOctets \in Nat /\ AppOctets \in Nat BY StreamsAssumption
<1>9. /\ peer.got = <<>> /\ peer.st = "closed" /\ peer.finGot = FALSE /\ peer.acked = 0
      /\ app.in = <<>> /\ app.base = 0 /\ app.high = 0 /\ app.started = FALSE
      /\ net = {} /\ back = {} /\ iss = FirstIss
  BY DEF LinkInit
<1>10. LinkTyped
  <2>1. peer \in PeerRecs BY <1>1, <1>8 DEF LinkInit, PeerRecs
  <2>2. app \in AppRecs BY <1>8 DEF LinkInit, AppRecs
  <2> QED BY <1>9, <2>1, <2>2 DEF LinkTyped
<1>11. StackOK(conn, app, peer) BY <1>3, <1>7, <1>9 DEF StackOK
<1>12. Len(peer.got) = 0 /\ Len(app.in) = 0 BY <1>9
<1>13. PeerOK(peer, conn, app) BY <1>9, <1>12 DEF PeerOK, AckTrue
<1>14. StreamOut /\ StreamIn BY <1>9 DEF StreamOut, StreamIn
<1>15. \A c \in Conns : uip_conns[c].st = "CLOSED" BY <1>3 DEF LinkInit
<1> QED BY <1>3, <1>6, <1>7, <1>9, <1>10, <1>11, <1>13, <1>14, <1>15 DEF LinkInv

LEMMA LinkStays ==
  ASSUME LinkInv, UNCHANGED linkVars
  PROVE  LinkInv'
<1>1. UNCHANGED <<vars, net, app>> /\ peer' = peer /\ back' \subseteq back BY DEF linkVars
<1> QED BY <1>1, PeerIgnoresLink

LEMMA LinkNextInv ==
  ASSUME ~CloseAnyTime, LinkInv, [LinkNext]_linkVars
  PROVE  LinkInv'
BY DeliverLink, TimerStepLink, LoseLink, PeerLink, LinkStays DEF LinkNext

(* The invariant of both streams: every segment under way, the connection  *)
(* of uip_conns[], the application and the peer agree on which octets were *)
(* sent, taken and acknowledged.                                           *)
THEOREM LinkInvariance ==
  ASSUME ~CloseAnyTime
  PROVE  LinkSpec => []LinkInv
<1>1. LinkInv /\ [LinkNext]_linkVars => LinkInv' BY LinkNextInv
<1> QED BY <1>1, LinkInitInv, PTL DEF LinkSpec

(* However segments are lost, repeated and reordered, the peer takes the   *)
(* octets the application wrote, each once and in order: with one segment  *)
(* outstanding, uip_process() keeps snd_nxt in step with what the          *)
(* application regenerates.                                                *)
THEOREM OutgoingInOrder ==
  ASSUME ~CloseAnyTime
  PROVE  LinkSpec => []StreamOut
<1>1. LinkInv => StreamOut BY DEF LinkInv
<1> QED BY <1>1, LinkInvariance, PTL

(* The application is given the octets the peer wrote, each once, in order *)
(* and without gaps, for only a segment at rcv_nxt is delivered.           *)
THEOREM IncomingInOrder ==
  ASSUME ~CloseAnyTime
  PROVE  LinkSpec => []StreamIn
<1>1. LinkInv => StreamIn BY DEF LinkInv
<1> QED BY <1>1, LinkInvariance, PTL

(* What the stack acknowledges to the peer it has given to the             *)
(* application, unless the application closed the connection before.       *)
THEOREM AcknowledgedDelivered ==
  ASSUME ~CloseAnyTime
  PROVE  LinkSpec => []AcknowledgedIsDelivered
<1>1. LinkInv => AcknowledgedIsDelivered
  <2> SUFFICES ASSUME LinkInv, ~app.left PROVE AcknowledgedIsDelivered
    BY DEF AcknowledgedIsDelivered
  <2>1. /\ peer.acked \in Nat /\ peer.written \in Nat /\ Len(app.in) \in Nat
        /\ AckTrue(peer.acked, app, peer)
    BY Here, PeerRoom DEF PeerRecs, PeerOK
  <2> QED BY <2>1 DEF AcknowledgedIsDelivered, AckTrue, Least
<1> QED BY <1>1, LinkInvariance, PTL

(* An octet reported to the application as acknowledged (uip_acked()) has  *)
(* reached the peer, so the application may forget it.                     *)
THEOREM AckedReceived ==
  ASSUME ~CloseAnyTime
  PROVE  LinkSpec => []AckedIsReceived
<1>1. LinkInv => AckedIsReceived BY DEF LinkInv, PeerOK, AckedIsReceived
<1> QED BY <1>1, LinkInvariance, PTL

(* A peer that has seen the FIN of uip_close() has the whole stream, when  *)
(* the application closes with nothing outstanding.                        *)
THEOREM ClosedCleanly ==
  ASSUME ~CloseAnyTime
  PROVE  LinkSpec => []CleanClose
<1>1. LinkInv => CleanClose BY DEF LinkInv, PeerOK, CleanClose
<1> QED BY <1>1, LinkInvariance, PTL
=============================================================================
