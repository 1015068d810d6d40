----------------------------- MODULE UipTcpLink -----------------------------
(***************************************************************************)
(* One connection of UipTcp, end to end: the stack with an application     *)
(* that writes a numbered stream of octets, a network that loses,          *)
(* duplicates and reorders segments, and a peer that follows TCP.          *)
(*                                                                         *)
(* The application keeps its side of the contract of doc/uip-doc.txt: it   *)
(* moves on when it is told uip_acked() and until then offers the same     *)
(* octets again.  The peer and the network are not part of the source:     *)
(* they are what TCP lets the other end and the wire do.                   *)
(*                                                                         *)
(* Sequence numbers do not wrap within a connection (SeqMod exceeds the    *)
(* octets of both streams), and a SYN does not outlive its connection.     *)
(***************************************************************************)
EXTENDS UipTcp, Sequences

CONSTANTS
  AppOctets,      \* octets the application writes
  PeerOctets,     \* octets the peer writes
  FirstIss,       \* the value of iss when the peer connects
  ToStack,        \* bound: segments in flight to the stack
  ToPeer,         \* bound: segments in flight to the peer
  Windows,        \* windows the peer advertises
  CloseAnyTime    \* may the application close with octets unacknowledged?

ASSUME StreamsAssumption ==
  /\ AppOctets \in Nat /\ AppOctets + 2 < SeqMod
  /\ PeerOctets \in Nat /\ PeerOctets + 2 < SeqMod
  /\ FirstIss \in SeqNos /\ Windows \subseteq Nat /\ ToStack \in Nat /\ ToPeer \in Nat
  /\ Peers # {} /\ Ports # {} /\ CloseAnyTime \in BOOLEAN

VARIABLES
  net,   \* segments in flight to the stack
  back,  \* segments in flight to the peer, with the number of their octets
  peer,  \* the other end
  app    \* the application

linkVars == <<vars, net, back, peer, app>>

ThePeer == CHOOSE p \in Peers : TRUE
ThePort == CHOOSE p \in Ports : TRUE
conn    == uip_conns[0]

LinkInit ==
  /\ uip_conns = [c \in Conns |-> Unused]
  /\ uip_listenports = [i \in 0..(UIP_LISTENPORTS - 1) |-> ThePort]
  /\ iss = FirstIss
  /\ out = NoSeg
  /\ ev = NoEvent
  /\ resent = [c \in Conns |-> FALSE]
  /\ net = {}
  /\ back = {}
  /\ peer = [st |-> "closed", rcv |-> 0, got |-> <<>>, written |-> 0,
             fin |-> FALSE, finGot |-> FALSE, acked |-> 0]
  /\ app = [started |-> FALSE, left |-> FALSE, base |-> 0, high |-> 0,
            in |-> <<>>]

(***************************************************************************)
(* The application.                                                        *)
(***************************************************************************)
Most(a, b) == IF a > b THEN a ELSE b
Octets(first, n) == [i \in 1..n |-> first + i - 1]

(* The octets a segment brings to the application, by their place in the   *)
(* stream of the peer (its first octet has sequence number 1).             *)
Brought(seg) ==
  IF "NEWDATA" \in ev'.flags THEN Octets(seg.seq, seg.len) ELSE <<>>

(* Octets still unacknowledged when the call of this step was made.        *)
OutstandingInCall ==
  IF ev'.flags \cap {"ACKDATA", "CONNECTED"} # {} THEN 0 ELSE conn.len

Application(octets) ==
  LET base == app.base + IF "ACKDATA" \in ev'.flags THEN conn.len ELSE 0
      e    == uip_conns'[0]
  IN /\ e.st = "ESTABLISHED" => base + e.len <= AppOctets
     /\ ev'.op = "close" => CloseAnyTime \/ OutstandingInCall = 0
     /\ app' = [started |-> app.started \/ e.st # "CLOSED",
                left |-> app.left \/ ev'.op \in {"close", "abort"},
                base |-> base,
                high |-> IF e.st = "ESTABLISHED"
                         THEN Most(app.high, base + e.len) ELSE app.high,
                in   |-> app.in \o octets]

(***************************************************************************)
(* The stack: a segment is delivered (and may be delivered again), or the  *)
(* periodic timer runs.                                                    *)
(***************************************************************************)
Emit == IF out' = NoSeg THEN UNCHANGED back
        ELSE /\ Cardinality(back) < ToPeer
             /\ back' = back \cup {[seg |-> out', first |-> app'.base + 1]}

Deliver(seg) ==
  /\ conn.st = "CLOSED" => ~app.started \/ seg.flags # {"SYN"}
  /\ Input(seg)
  /\ Application(Brought(seg))
  /\ Emit
  /\ net' \in {net, net \ {seg}}
  /\ UNCHANGED peer

TimerStep ==
  /\ conn.st # "CLOSED"
  /\ Periodic(0)
  /\ Application(<<>>)
  /\ Emit
  /\ UNCHANGED <<net, peer>>

Lose ==
  /\ \/ \E seg \in net : net' = net \ {seg} /\ UNCHANGED back
     \/ \E m \in back : back' = back \ {m} /\ UNCHANGED net
  /\ UNCHANGED <<vars, peer, app>>

(***************************************************************************)
(* The peer.                                                               *)
(***************************************************************************)
PeerSegment(flags, seq, n, wnd) ==
  [peer |-> ThePeer, lport |-> ThePort, flags |-> flags, seq |-> seq,
   ack |-> IF "ACK" \in flags THEN peer.rcv ELSE 0,
   len |-> n, urg |-> 0, wnd |-> wnd,
   mss |-> IF "SYN" \in flags THEN UIP_TCP_MSS ELSE 0]

Transmit(seg) ==
  /\ Cardinality(net) < ToStack
  /\ net' = net \cup {seg}
  /\ UNCHANGED <<vars, back, app>>

PeerConnects ==
  /\ peer.st \in {"closed", "opening"}
  /\ peer' = [peer EXCEPT !.st = "opening"]
  /\ Transmit(PeerSegment({"SYN"}, 0, 0, 1))

(* The peer writes its next octet, or sends one again.                     *)
PeerSends(n, wnd) ==
  /\ peer.st = "open"
  /\ n <= IF peer.fin THEN peer.written ELSE Least(peer.written + 1, PeerOctets)
  /\ peer' = [peer EXCEPT !.written = Most(@, n)]
  /\ Transmit(PeerSegment({"ACK"}, n, 1, wnd))

PeerAcks(wnd) ==
  /\ peer.st = "open"
  /\ Transmit(PeerSegment({"ACK"}, peer.written + 1, 0, wnd))
  /\ UNCHANGED peer

(* A FIN, alone or on the last octet of the stream.                        *)
PeerCloses(n) ==
  /\ peer.st = "open"
  /\ n <= peer.written
  /\ peer' = [peer EXCEPT !.fin = TRUE]
  /\ Transmit(PeerSegment({"FIN", "ACK"}, peer.written + 1 - n, n, 1))

PeerResets ==
  /\ peer.st = "open"
  /\ peer' = [peer EXCEPT !.st = "dead"]
  /\ Transmit(PeerSegment({"RST"}, peer.written + 1, 0, 1))

(* In-order data and the FIN behind it are taken, the rest is ignored.     *)
Taken(m) ==
  LET fresh == m.seg.seq = peer.rcv
      fin   == fresh /\ "FIN" \in m.seg.flags
      n     == IF fresh THEN m.seg.len ELSE 0
  IN [peer EXCEPT
        !.rcv    = Plus(@, n + IF fin THEN 1 ELSE 0),
        !.got    = IF peer.finGot THEN @ ELSE @ \o Octets(m.first, n),
        !.finGot = @ \/ fin,
        !.acked  = Most(@, m.seg.ack)]

PeerReceives(m) ==
  /\ peer' = CASE "RST" \in m.seg.flags -> [peer EXCEPT !.st = "dead"]
               [] peer.st = "opening" /\ m.seg.flags \cap {"SYN", "RST"} = {"SYN"} ->
                    [peer EXCEPT !.st = "open", !.rcv = Plus(m.seg.seq, 1)]
               [] peer.st = "open" /\ m.seg.flags \cap {"SYN", "RST"} = {} -> Taken(m)
               [] OTHER -> peer
  /\ back' \in {back, back \ {m}}
  /\ UNCHANGED <<vars, net, app>>

Peer ==
  \/ PeerConnects
  \/ \E n \in 1..PeerOctets, wnd \in Windows : PeerSends(n, wnd)
  \/ \E wnd \in Windows : PeerAcks(wnd)
  \/ \E n \in {0, 1} : PeerCloses(n)
  \/ PeerResets
  \/ \E m \in back : PeerReceives(m)

LinkNext ==
  \/ \E seg \in net : Deliver(seg)
  \/ TimerStep
  \/ Lose
  \/ Peer

LinkSpec == LinkInit /\ [][LinkNext]_linkVars

(***************************************************************************)
(* Properties                                                              *)
(***************************************************************************)

(* The peer takes the octets the application wrote, each once, in order:   *)
(* the stop-and-wait sender keeps snd_nxt in step with the octets the      *)
(* application regenerates.                                                *)
StreamOut == \A i \in DOMAIN peer.got : peer.got[i] = i

(* The application is given the octets the peer wrote, each once, in order *)
(* and without gaps.                                                       *)
StreamIn == \A i \in DOMAIN app.in : app.in[i] = i

(* An octet the peer has seen acknowledged was given to the application,   *)
(* unless the application had closed the connection by then.               *)
AcknowledgedIsDelivered ==
  app.left \/ Least(peer.acked - 1, peer.written) <= Len(app.in)

(* An octet reported acknowledged to the application is at the peer.       *)
AckedIsReceived == app.base <= Len(peer.got)

(* "This will cause the connection to be cleanly closed" (uip-doc.txt):    *)
(* a peer that has seen the end of the stream has all of it.               *)
CleanClose == peer.finGot => Len(peer.got) = app.high
=============================================================================
