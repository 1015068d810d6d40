---------------------------- MODULE UipTcp_proofs ----------------------------
(***************************************************************************)
(* Proofs about UipTcp, for every size of the tables and every value of    *)
(* the time-outs, sequence-number modulus, arriving segments and replies   *)
(* that the assumptions of UipTcp admit.                                   *)
(*                                                                         *)
(* The invariants the runs check are facts about one record of uip_conns[] *)
(* (ConnOK) and one fact about two of them (UniqueEndpoints).  Together    *)
(* with TypeOK they are inductive.  The lemmas follow a record through the *)
(* building blocks of UipTcp; the theorem then has one step per action.    *)
(***************************************************************************)
EXTENDS UipTcp, TLAPS

EventRecs == [conn : Conns \cup {-1}, flags : SUBSET Events, op : Ops]

(***************************************************************************)
(* Arithmetic.                                                             *)
(***************************************************************************)

(* Sequence numbers stay in their range.                                   *)
LEMMA PlusType ==
  ASSUME NEW s \in Nat, NEW n \in Nat
  PROVE  Plus(s, n) \in SeqNos
BY SizesAssumption DEF Plus, SeqNos

(* The exponential backoff never leaves the u8_t it is kept in.            *)
LEMMA BackoffType ==
  ASSUME NEW n \in Nat
  PROVE  Backoff(n) \in 0..(U8 - 1)
<1>1. Least(n, 4) \in 0..4
  BY DEF Least
<1>2. CASE Least(n, 4) = 0
  BY <1>2, SizesAssumption DEF Backoff, U8
<1>3. CASE Least(n, 4) = 1
  BY <1>3, SizesAssumption DEF Backoff, U8
<1>4. CASE Least(n, 4) = 2
  BY <1>4, SizesAssumption DEF Backoff, U8
<1>5. CASE Least(n, 4) = 3
  BY <1>5, SizesAssumption DEF Backoff, U8
<1>6. CASE Least(n, 4) = 4
  BY <1>6, SizesAssumption DEF Backoff, U8
<1> QED
  BY <1>1, <1>2, <1>3, <1>4, <1>5, <1>6

(* The urgent bytes that are cut off leave a length, whatever the urgent   *)
(* pointer says.                                                           *)
LEMMA DataLenType ==
  ASSUME NEW k \in ConnRecs, NEW seg \in InSegs
  PROVE  DataLen(k, seg) \in Nat
BY DEF DataLen, InSegs, U16

(***************************************************************************)
(* What the building blocks do to a record.                                *)
(***************************************************************************)

(* A record in use knows its two ends; a step keeps them or closes it.     *)
Named(k) == k.st # "CLOSED" => k.peer \in Peers /\ k.lport \in Ports
Sound(k) == k \in ConnRecs /\ ConnOK(k) /\ Named(k)
SameEnds(k, e) ==
  e.st = "CLOSED" \/ (k.st # "CLOSED" /\ e.peer = k.peer /\ e.lport = k.lport)

LEMMA SegmentType ==
  ASSUME NEW k \in ConnRecs, k.peer \in Peers, k.lport \in Ports,
         NEW flags \in SUBSET Flags, NEW n \in Nat
  PROVE  Segment(k, flags, n) \in OutSegs
BY DEF Segment, OutSegs, ConnRecs

LEMMA ClosedSound ==
  ASSUME NEW k \in ConnRecs
  PROVE  Sound(Closed(k)) /\ SameEnds(k, Closed(k))
<1>1. 0 \in SeqNos
  BY SizesAssumption DEF SeqNos
<1>2. Closed(k) \in ConnRecs
  <2>1. Unused \in ConnRecs
    BY <1>1, SizesAssumption DEF Unused, ConnRecs, States, U8
  <2>2. /\ k.rcv_nxt \in SeqNos
        /\ k.mss \in 0..UIP_TCP_MSS
        /\ k.initialmss \in 0..UIP_TCP_MSS
    BY DEF ConnRecs
  <2> QED
    BY <2>1, <2>2, Zenon DEF Closed, ConnRecs
<1>3. Closed(k).st = "CLOSED" /\ Closed(k).stopped = FALSE
  BY DEF Closed, Unused
<1> QED
  BY <1>2, <1>3 DEF Sound, SameEnds, Named, ConnOK, DrivenConn, BudgetConn,
                    PrimedConn, StoppedConn, Owing

(* The application's answer leaves an open connection sound: still open    *)
(* with the timer primed if nothing is outstanding, closing with its FIN   *)
(* outstanding, or closed.                                                 *)
LEMMA AppSendSound ==
  ASSUME NEW k \in ConnRecs, k.st = "ESTABLISHED",
         k.peer \in Peers, k.lport \in Ports, PrimedConn(k),
         NEW flags \in SUBSET Events, "ACKDATA" \in flags => k.len = 0,
         NEW r \in ReplyRecs
  PROVE  /\ Sound(AppSend(k, flags, r).conn)
         /\ SameEnds(k, AppSend(k, flags, r).conn)
         /\ AppSend(k, flags, r).out \in OutSegs \cup {NoSeg}
<1> DEFINE n  == SendLen(k, flags, r)
           kk == [Flow(k, r) EXCEPT !.len  = IF r.slen = 0 THEN @ ELSE n,
                                    !.nrtx = 0]
           ab == Enter(k, "CLOSED")
           fn == [Enter(k, "FIN_WAIT_1") EXCEPT !.len = 1, !.nrtx = 0]
<1>1. n \in Nat
  BY DEF SendLen, Least, ConnRecs, ReplyRecs
<1>2. CASE r.op = "abort"
  <2>1. AppSend(k, flags, r) = [conn |-> Closed(k),
                                out  |-> Segment(ab, {"RST", "ACK"}, 0)]
    BY <1>2 DEF AppSend
  <2>2. ab \in ConnRecs /\ ab.peer \in Peers /\ ab.lport \in Ports
    BY DEF Enter, ConnRecs, States
  <2>3. Segment(ab, {"RST", "ACK"}, 0) \in OutSegs
    BY <2>2, SegmentType DEF Flags
  <2> QED
    BY <2>1, <2>3, ClosedSound
<1>3. CASE r.op = "close"
  <2>1. AppSend(k, flags, r) = [conn |-> fn,
                                out  |-> Segment(fn, {"FIN", "ACK"}, 0)]
    BY <1>3 DEF AppSend
  <2>2. fn \in ConnRecs /\ fn.st = "FIN_WAIT_1" /\ fn.len = 1 /\ fn.nrtx = 0
        /\ fn.stopped = FALSE /\ fn.peer = k.peer /\ fn.lport = k.lport
    BY DEF Enter, ConnRecs, States
  <2>3. Segment(fn, {"FIN", "ACK"}, 0) \in OutSegs
    BY <2>2, SegmentType DEF Flags
  <2>4. Sound(fn) /\ SameEnds(k, fn)
    BY <2>2, SizesAssumption DEF Sound, SameEnds, Named, ConnOK, DrivenConn, BudgetConn,
                PrimedConn, StoppedConn, Owing
  <2> QED
    BY <2>1, <2>3, <2>4
<1>4. CASE r.op \notin {"abort", "close"}
  <2>1. AppSend(k, flags, r) = [conn |-> kk, out |-> Answer(kk, n, flags, r)]
    BY <1>4 DEF AppSend
  <2>2. /\ kk \in ConnRecs /\ kk.st = "ESTABLISHED" /\ kk.nrtx = 0
        /\ kk.peer = k.peer /\ kk.lport = k.lport
        /\ kk.timer = k.timer /\ kk.rto = k.rto
        /\ kk.len = IF r.slen = 0 THEN k.len ELSE n
    <3> DEFINE f == Flow(k, r)
               len == IF r.slen = 0 THEN k.len ELSE n
    <3>1. f \in ConnRecs /\ f = [k EXCEPT !.stopped = f.stopped]
      BY DEF Flow, ConnRecs
    <3>2. len \in Nat
      BY <1>1 DEF ConnRecs
    <3>3. kk = [f EXCEPT !.len = len, !.nrtx = 0]
      BY <3>1 DEF ConnRecs
    <3> HIDE DEF f, kk, len
    <3>4. kk \in ConnRecs
      BY <3>1, <3>2, <3>3 DEF ConnRecs
    <3>5. /\ kk.st = f.st /\ kk.peer = f.peer /\ kk.lport = f.lport
          /\ kk.timer = f.timer /\ kk.rto = f.rto
          /\ kk.len = len /\ kk.nrtx = 0
      BY <3>1, <3>3 DEF ConnRecs
    <3>6. /\ f.st = k.st /\ f.peer = k.peer /\ f.lport = k.lport
          /\ f.timer = k.timer /\ f.rto = k.rto
      BY <3>1 DEF ConnRecs
    <3> QED
      BY <3>4, <3>5, <3>6 DEF len
  <2>3. kk.len = 0 => k.len = 0
    BY <2>2 DEF SendLen, ConnRecs
  <2>4. Answer(kk, n, flags, r) \in OutSegs \cup {NoSeg}
    <3>1. kk.len \in Nat
      BY <2>2 DEF ConnRecs
    <3>2. Segment(kk, {"ACK"}, kk.len) \in OutSegs
      BY <2>2, <3>1, SegmentType DEF Flags
    <3>3. Segment(kk, {"ACK"}, 0) \in OutSegs
      BY <2>2, SegmentType DEF Flags
    <3> QED
      BY <3>2, <3>3 DEF Answer
  <2>5. Sound(kk) /\ SameEnds(k, kk)
    BY <2>2, <2>3, SizesAssumption DEF Sound, SameEnds, Named, ConnOK, DrivenConn, BudgetConn,
                      PrimedConn, StoppedConn, Owing
  <2> QED
    BY <2>1, <2>4, <2>5
<1> QED
  BY <1>2, <1>3, <1>4

(* An acknowledgment clears what is outstanding and primes the timer; it   *)
(* touches nothing else of the record.                                     *)
LEMMA AfterAckType ==
  ASSUME NEW k \in ConnRecs, NEW seg \in InSegs, NEW rto \in RTOS
  PROVE  /\ AfterAck(k, seg, rto) \in ConnRecs
         /\ AfterAck(k, seg, rto).st = k.st
         /\ AfterAck(k, seg, rto).stopped = k.stopped
         /\ AfterAck(k, seg, rto).peer = k.peer
         /\ AfterAck(k, seg, rto).lport = k.lport
         /\ AfterAck(k, seg, rto).nrtx = k.nrtx
         /\ Acks(k, seg) =>
              /\ AfterAck(k, seg, rto).len = 0
              /\ AfterAck(k, seg, rto).timer = AfterAck(k, seg, rto).rto
         /\ ~Acks(k, seg) => AfterAck(k, seg, rto) = k
<1>1. CASE Acks(k, seg)
  <2> DEFINE t == IF k.nrtx = 0 THEN rto ELSE k.rto
  <2>1. t \in 0..(U8 - 1)
    BY SizesAssumption DEF ConnRecs
  <2>2. AfterAck(k, seg, rto) =
          [k EXCEPT !.snd_nxt = seg.ack, !.len = 0, !.rto = t, !.timer = t]
    BY <1>1 DEF AfterAck
  <2> HIDE DEF t
  <2>3. seg.ack \in SeqNos
    BY DEF InSegs
  <2>4. AfterAck(k, seg, rto) \in ConnRecs
    <3>1. [k EXCEPT !.snd_nxt = seg.ack, !.len = 0, !.rto = t, !.timer = t]
            \in ConnRecs
      BY <2>1, <2>3, 0 \in Nat, Zenon DEF ConnRecs
    <3> QED
      BY <2>2, <3>1
  <2>5. /\ AfterAck(k, seg, rto).st = k.st
        /\ AfterAck(k, seg, rto).stopped = k.stopped
        /\ AfterAck(k, seg, rto).peer = k.peer
        /\ AfterAck(k, seg, rto).lport = k.lport
        /\ AfterAck(k, seg, rto).nrtx = k.nrtx
        /\ AfterAck(k, seg, rto).len = 0
        /\ AfterAck(k, seg, rto).timer = AfterAck(k, seg, rto).rto
    BY <2>2 DEF ConnRecs
  <2> QED
    BY <1>1, <2>4, <2>5
<1>2. CASE ~Acks(k, seg)
  BY <1>2 DEF AfterAck
<1> QED
  BY <1>1, <1>2

LEMMA ReceiveType ==
  ASSUME NEW k \in ConnRecs, NEW n \in Nat
  PROVE  /\ Receive(k, n) \in ConnRecs
         /\ Receive(k, n) = [k EXCEPT !.rcv_nxt = Receive(k, n).rcv_nxt]
<1>1. k.rcv_nxt \in Nat
  BY DEF ConnRecs, SeqNos
<1>2. Plus(k.rcv_nxt, n) \in SeqNos
  BY <1>1, PlusType
<1> QED
  BY <1>2 DEF Receive, ConnRecs

LEMMA MssOptionType ==
  ASSUME NEW k \in ConnRecs, NEW seg \in InSegs
  PROVE  /\ MssOption(k, seg) \in ConnRecs
         /\ \E m, i \in 0..UIP_TCP_MSS :
              MssOption(k, seg) = [k EXCEPT !.mss = m, !.initialmss = i]
<1>1. Least(seg.mss, UIP_TCP_MSS) \in 0..UIP_TCP_MSS
  BY SizesAssumption DEF Least, InSegs
<1>2. k = [k EXCEPT !.mss = k.mss, !.initialmss = k.initialmss]
  BY DEF ConnRecs
<1>3. k.mss \in 0..UIP_TCP_MSS /\ k.initialmss \in 0..UIP_TCP_MSS
  BY DEF ConnRecs
<1>4. CASE seg.mss = 0
  <2>1. MssOption(k, seg) = k
    BY <1>4 DEF MssOption
  <2> QED
    BY <2>1, <1>2, <1>3
<1>5. CASE seg.mss # 0
  <2> DEFINE m == Least(seg.mss, UIP_TCP_MSS)
  <2>1. MssOption(k, seg) = [k EXCEPT !.mss = m, !.initialmss = m]
    BY <1>5 DEF MssOption
  <2> HIDE DEF m
  <2>2. MssOption(k, seg) \in ConnRecs
    BY <1>1, <2>1, Zenon DEF ConnRecs, m
  <2> QED
    BY <1>1, <2>1, <2>2 DEF m
<1> QED
  BY <1>4, <1>5

(***************************************************************************)
(* The inductive invariant.                                                *)
(***************************************************************************)
RestTyped ==
  /\ uip_listenports \in [0..(UIP_LISTENPORTS - 1) -> Ports \cup {NoPort}]
  /\ iss \in SeqNos
  /\ out \in OutSegs \cup {NoSeg}
  /\ ev \in EventRecs
  /\ resent \in [Conns -> BOOLEAN]

IInv ==
  /\ uip_conns \in [Conns -> ConnRecs]
  /\ RestTyped
  /\ \A c \in Conns : Sound(uip_conns[c])
  /\ UniqueEndpoints

(* No other record in use has the ends of e.                               *)
Distinct(c, e) ==
  \A d \in Conns \ {c} :
    \/ e.st = "CLOSED" \/ uip_conns[d].st = "CLOSED"
    \/ e.peer # uip_conns[d].peer \/ e.lport # uip_conns[d].lport

LEMMA SameEndsDistinct ==
  ASSUME IInv, NEW c \in Conns, NEW e, SameEnds(uip_conns[c], e)
  PROVE  Distinct(c, e)
BY DEF IInv, UniqueEndpoints, SameEnds, Distinct

(* A step that gives record c a sound successor with ends of its own keeps *)
(* the invariant.                                                          *)
LEMMA TableInv ==
  ASSUME IInv, NEW c \in Conns, NEW e, Sound(e), Distinct(c, e),
         uip_conns' = [uip_conns EXCEPT ![c] = e], RestTyped'
  PROVE  IInv'
<1>1. uip_conns \in [Conns -> ConnRecs] /\ e \in ConnRecs
  BY DEF IInv, Sound
<1>2. uip_conns' \in [Conns -> ConnRecs]
  BY <1>1
<1>3. uip_conns'[c] = e /\ \A d \in Conns \ {c} : uip_conns'[d] = uip_conns[d]
  BY <1>1
<1>4. \A d \in Conns : Sound(uip_conns'[d])
  BY <1>3 DEF IInv
<1>5. UniqueEndpoints'
  BY <1>3 DEF IInv, UniqueEndpoints, Distinct
<1> QED
  BY <1>2, <1>4, <1>5 DEF IInv

LEMMA OutcomeInv ==
  ASSUME IInv, NEW c \in Conns, NEW e, Sound(e), Distinct(c, e),
         NEW seg \in OutSegs \cup {NoSeg}, NEW event \in EventRecs,
         Outcome(c, e, seg, event), iss' \in SeqNos
  PROVE  IInv'
<1>1. uip_conns' = [uip_conns EXCEPT ![c] = e] /\ out' = seg /\ ev' = event
      /\ uip_listenports' = uip_listenports
  BY DEF Outcome
<1>2. resent' \in [Conns -> BOOLEAN]
  <2> DEFINE b == resent[c] /\ e.len > 0 /\ e.snd_nxt = uip_conns[c].snd_nxt
                    /\ e.st \in {uip_conns[c].st, "CLOSING"}
  <2>1. resent' = [resent EXCEPT ![c] = b]
    BY Zenon DEF Outcome
  <2>2. b \in BOOLEAN
    BY Zenon
  <2> HIDE DEF b
  <2> QED
    BY <2>1, <2>2 DEF IInv, RestTyped
<1>3. RestTyped'
  BY <1>1, <1>2 DEF IInv, RestTyped
<1> QED
  BY <1>1, <1>3, TableInv

(* The usual case: the record keeps its ends or is closed.                 *)
LEMMA StepInv ==
  ASSUME IInv, NEW c \in Conns, NEW e, Sound(e), SameEnds(uip_conns[c], e),
         NEW seg \in OutSegs \cup {NoSeg}, NEW event \in EventRecs,
         Outcome(c, e, seg, event), iss' \in SeqNos
  PROVE  IInv'
BY SameEndsDistinct, OutcomeInv

(* A step that leaves the table alone.                                     *)
LEMMA UntouchedInv ==
  ASSUME IInv, UNCHANGED uip_conns, RestTyped'
  PROVE  IInv'
BY DEF IInv, UniqueEndpoints

LEMMA InitInv == Init => IInv
<1> SUFFICES ASSUME Init PROVE IInv
  OBVIOUS
<1>1. 0 \in SeqNos
  BY SizesAssumption DEF SeqNos
<1>2. Unused \in ConnRecs
  BY <1>1, SizesAssumption DEF Unused, ConnRecs, States, U8
<1>3. Unused.st = "CLOSED" /\ Unused.stopped = FALSE
  BY DEF Unused
<1>4. Sound(Unused)
  BY <1>2, <1>3 DEF Sound, Named, ConnOK, DrivenConn, BudgetConn, PrimedConn,
                    StoppedConn, Owing
<1>5. RestTyped
  BY <1>1 DEF Init, RestTyped, NoEvent, EventRecs, Ops
<1> QED
  BY <1>2, <1>3, <1>4, <1>5 DEF Init, IInv, UniqueEndpoints

(***************************************************************************)
(* The calls made to the application.                                      *)
(***************************************************************************)
LEMMA EventTypes ==
  /\ NoEvent \in EventRecs
  /\ Silent \in ReplyRecs
  /\ \A c \in Conns, flags \in SUBSET Events, r \in ReplyRecs :
       Call(c, flags, r) \in EventRecs
BY DEF NoEvent, EventRecs, Call, ReplyRecs, Silent, Ops

LEMMA TickType == ASSUME IInv, Tick PROVE iss' \in SeqNos
BY PlusType DEF Tick, IInv, RestTyped, SeqNos

LEMMA EnterType ==
  ASSUME NEW k \in ConnRecs, NEW st \in States
  PROVE  /\ Enter(k, st) \in ConnRecs
         /\ Enter(k, st).st = st
         /\ Enter(k, st).stopped = FALSE
         /\ Enter(k, st).peer = k.peer
         /\ Enter(k, st).lport = k.lport
         /\ Enter(k, st).len = k.len
         /\ Enter(k, st).nrtx = k.nrtx
BY DEF Enter, ConnRecs

(***************************************************************************)
(* The periodic timer.                                                     *)
(***************************************************************************)
LEMMA LingerInv ==
  ASSUME IInv, NEW c \in Conns, Linger(c)
  PROVE  IInv'
<1> DEFINE k == uip_conns[c]
           t == (k.timer + 1) % U8
           e == IF t = UIP_TIME_WAIT_TIMEOUT THEN Closed(k)
                ELSE [k EXCEPT !.timer = t]
<1>1. Sound(k) /\ k \in ConnRecs /\ k.st \in {"TIME_WAIT", "FIN_WAIT_2"}
  BY DEF IInv, Linger, Sound
<1>2. Outcome(c, e, NoSeg, NoEvent) /\ iss' \in SeqNos
  BY TickType DEF Linger
<1>3. t \in 0..(U8 - 1)
  BY <1>1 DEF ConnRecs, U8
<1>4. Sound(e) /\ SameEnds(k, e)
  <2>1. CASE t = UIP_TIME_WAIT_TIMEOUT
    BY <2>1, <1>1, ClosedSound
  <2>2. CASE t # UIP_TIME_WAIT_TIMEOUT
    <3> HIDE DEF k, t
    <3>1. /\ e \in ConnRecs /\ e.st = k.st /\ e.stopped = k.stopped
          /\ e.len = k.len /\ e.peer = k.peer /\ e.lport = k.lport
          /\ e.nrtx = k.nrtx
      BY <2>2, <1>1, <1>3 DEF ConnRecs
    <3> QED
      BY <3>1, <1>1 DEF Sound, SameEnds, Named, ConnOK, DrivenConn, BudgetConn,
                        PrimedConn, StoppedConn, Owing
  <2> QED
    BY <2>1, <2>2
<1> HIDE DEF e
<1> QED
  BY <1>2, <1>4, StepInv, EventTypes

LEMMA CountDownInv ==
  ASSUME IInv, NEW c \in Conns, CountDown(c)
  PROVE  IInv'
<1> DEFINE k == uip_conns[c]
           e == [k EXCEPT !.timer = @ - 1]
<1>1. Sound(k) /\ k \in ConnRecs /\ k.st # "CLOSED" /\ k.len > 0 /\ k.timer > 0
  BY DEF IInv, CountDown, Waiting, Sound
<1>2. Outcome(c, e, NoSeg, NoEvent) /\ iss' \in SeqNos
  BY TickType DEF CountDown
<1>3. k.timer - 1 \in 0..(U8 - 1)
  BY <1>1 DEF ConnRecs, U8
<1>4. /\ e \in ConnRecs /\ e.st = k.st /\ e.stopped = k.stopped
      /\ e.len = k.len /\ e.peer = k.peer /\ e.lport = k.lport
      /\ e.nrtx = k.nrtx
  BY <1>1, <1>3 DEF ConnRecs
<1>5. Sound(e) /\ SameEnds(k, e)
  BY <1>1, <1>4 DEF Sound, SameEnds, Named, ConnOK, DrivenConn, BudgetConn,
                    PrimedConn, StoppedConn, Owing
<1> HIDE DEF e
<1> QED
  BY <1>2, <1>5, StepInv, EventTypes

LEMMA TimeOutInv ==
  ASSUME IInv, NEW c \in Conns, TimeOut(c)
  PROVE  IInv'
<1> DEFINE k == uip_conns[c]
           seg == Segment(Enter(k, "CLOSED"), {"RST", "ACK"}, 0)
           event == Call(c, {"TIMEDOUT"}, Silent)
<1>1. k \in ConnRecs /\ k.peer \in Peers /\ k.lport \in Ports
  BY DEF IInv, TimeOut, Waiting, Sound, Named
<1>2. Outcome(c, Closed(k), seg, event) /\ iss' \in SeqNos
  BY TickType DEF TimeOut
<1>3. seg \in OutSegs
  BY <1>1, EnterType, SegmentType DEF Flags, States
<1>4. event \in EventRecs
  BY EventTypes DEF Events
<1> HIDE DEF seg, event
<1> QED
  BY <1>1, <1>2, <1>3, <1>4, StepInv, ClosedSound

LEMMA PeriodicIdleInv ==
  ASSUME IInv, NEW c \in Conns, PeriodicIdle(c)
  PROVE  IInv'
<1>1. Sound(uip_conns[c]) /\ SameEnds(uip_conns[c], uip_conns[c])
  BY DEF IInv, SameEnds
<1>2. Outcome(c, uip_conns[c], NoSeg, NoEvent) /\ iss' \in SeqNos
  BY TickType DEF PeriodicIdle
<1> QED
  BY <1>1, <1>2, StepInv, EventTypes

LEMMA RetransmitInv ==
  ASSUME IInv, NEW c \in Conns, NEW r \in Replies, Retransmit(c, r)
  PROVE  IInv'
<1> DEFINE k == uip_conns[c]
           b == [k EXCEPT !.timer = Backoff(k.nrtx), !.nrtx = @ + 1]
           e == IF k.st = "ESTABLISHED" THEN Flow(b, r) ELSE b
<1>1. /\ Sound(k) /\ k \in ConnRecs /\ k.peer \in Peers /\ k.lport \in Ports
      /\ k.st # "CLOSED" /\ k.len > 0 /\ ~GaveUp(k)
      /\ k.st \notin {"TIME_WAIT", "FIN_WAIT_2"}
  BY DEF IInv, Retransmit, Waiting, Sound, Named
<1>2. r \in ReplyRecs
  BY RepliesAssumption
<1>3. k.nrtx \in Nat /\ k.nrtx + 1 \in Nat /\ Backoff(k.nrtx) \in 0..(U8 - 1)
  BY <1>1, BackoffType DEF ConnRecs
<1>4. /\ b \in ConnRecs /\ b.st = k.st /\ b.stopped = k.stopped
      /\ b.len = k.len /\ b.peer = k.peer /\ b.lport = k.lport
      /\ b.nrtx = k.nrtx + 1
  <2>1. b \in ConnRecs
    BY <1>1, <1>3, Zenon DEF ConnRecs
  <2> QED
    BY <2>1, <1>1 DEF ConnRecs
<1>5. /\ e \in ConnRecs /\ e.st = k.st
      /\ (e.st # "ESTABLISHED" => e.stopped = k.stopped)
      /\ e.len = k.len /\ e.peer = k.peer /\ e.lport = k.lport
      /\ e.nrtx = k.nrtx + 1
  <2> HIDE DEF b
  <2> QED
    BY <1>4, <1>2 DEF Flow, ConnRecs, ReplyRecs
<1>6. Sound(e) /\ SameEnds(k, e)
  BY <1>1, <1>3, <1>5, SizesAssumption
     DEF Sound, SameEnds, Named, ConnOK, DrivenConn, BudgetConn,
         PrimedConn, StoppedConn, Owing, GaveUp
<1>7. Resend(e, r) \in OutSegs \cup {NoSeg}
  <2> HIDE DEF e
  <2>1. r.slen \in Nat /\ e.len \in Nat
    BY <1>2, <1>5 DEF ReplyRecs, ConnRecs
  <2>2. \A flags \in SUBSET Flags : Segment(e, flags, 0) \in OutSegs
    BY <1>1, <1>5, SegmentType
  <2>3. Segment(e, {"ACK"}, e.len) \in OutSegs
    BY <1>1, <1>5, <2>1, SegmentType DEF Flags
  <2>4. Answer(e, r.slen, {}, r) \in OutSegs \cup {NoSeg}
    BY <2>2, <2>3 DEF Answer, Flags
  <2> QED
    BY <2>2, <2>4 DEF Resend, Flags
<1>8. /\ uip_conns' = [uip_conns EXCEPT ![c] = e]
      /\ out' = Resend(e, r)
      /\ ev' = IF k.st = "ESTABLISHED" THEN Call(c, {"REXMIT"}, r) ELSE NoEvent
      /\ uip_listenports' = uip_listenports
      /\ iss' \in SeqNos
  BY TickType DEF Retransmit
<1>9. resent' \in [Conns -> BOOLEAN]
  <2> DEFINE m == resent[c] \/ out' # NoSeg
  <2>1. resent' = [resent EXCEPT ![c] = m]
    BY Zenon DEF Retransmit
  <2>2. m \in BOOLEAN
    BY Zenon
  <2> HIDE DEF m
  <2> QED
    BY <2>1, <2>2 DEF IInv, RestTyped
<1>10. ev' \in EventRecs
  BY <1>8, <1>2, EventTypes DEF Events
<1>11. RestTyped'
  BY <1>7, <1>8, <1>9, <1>10 DEF IInv, RestTyped
<1> HIDE DEF e
<1> QED
  BY <1>6, <1>8, <1>11, SameEndsDistinct, TableInv

LEMMA PollAppInv ==
  ASSUME IInv, NEW c \in Conns, NEW r \in Replies, PollApp(c, r), iss' \in SeqNos
  PROVE  IInv'
<1> DEFINE k == uip_conns[c]
           s == AppSend(k, {"POLL"}, r)
           event == Call(c, {"POLL"}, r)
<1>1. /\ k \in ConnRecs /\ k.st = "ESTABLISHED" /\ PrimedConn(k)
      /\ k.peer \in Peers /\ k.lport \in Ports
  BY DEF IInv, PollApp, Pollable, Sound, Named, ConnOK
<1>2. r \in ReplyRecs
  BY RepliesAssumption
<1>3. Sound(s.conn) /\ SameEnds(k, s.conn) /\ s.out \in OutSegs \cup {NoSeg}
  BY <1>1, <1>2, AppSendSound DEF Events
<1>4. event \in EventRecs
  BY <1>2, EventTypes DEF Events
<1>5. Outcome(c, s.conn, s.out, event)
  BY DEF PollApp
<1> HIDE DEF s, event
<1> QED
  BY <1>3, <1>4, <1>5, StepInv

(***************************************************************************)
(* Segments that come in.                                                  *)
(***************************************************************************)
LEMMA RefuseInv ==
  ASSUME IInv, NEW seg \in InSegs, Refuse(seg)
  PROVE  IInv'
<1>1. Plus(seg.seq, 1) \in SeqNos
  BY PlusType DEF InSegs, SeqNos
<1>2. ResetReply(seg) \in OutSegs \cup {NoSeg}
  BY <1>1 DEF ResetReply, OutSegs, InSegs, Flags
<1>3. RestTyped' /\ UNCHANGED uip_conns
  BY <1>2, EventTypes DEF Refuse, IInv, RestTyped
<1> QED
  BY <1>3, UntouchedInv

LEMMA DroppedInv ==
  ASSUME IInv, Dropped
  PROVE  IInv'
<1>1. RestTyped' /\ UNCHANGED uip_conns
  BY EventTypes DEF Dropped, IInv, RestTyped
<1> QED
  BY <1>1, UntouchedInv

LEMMA AcceptInv ==
  ASSUME IInv, NEW c \in Conns, NEW seg \in InSegs, Accept(c, seg)
  PROVE  IInv'
<1> DEFINE k == [uip_conns[c] EXCEPT
                  !.st = "SYN_RCVD", !.stopped = FALSE, !.lport = seg.lport,
                  !.peer = seg.peer, !.snd_nxt = iss, !.len = 1,
                  !.rcv_nxt = Plus(seg.seq, 1), !.rto = UIP_RTO,
                  !.timer = UIP_RTO, !.nrtx = 0]
           e == MssOption(k, seg)
<1>1. /\ uip_conns[c] \in ConnRecs /\ iss \in SeqNos
      /\ Plus(seg.seq, 1) \in SeqNos
      /\ seg.lport \in Ports /\ seg.peer \in Peers
  BY PlusType DEF IInv, RestTyped, InSegs, SeqNos
<1>2. UIP_RTO \in 0..(U8 - 1) /\ "SYN_RCVD" \in States
      /\ 1 \in Nat /\ 0 \in Nat /\ FALSE \in BOOLEAN
  BY SizesAssumption DEF U8, States
<1>3. k \in ConnRecs
  BY <1>1, <1>2, Zenon DEF ConnRecs
<1>4. /\ k.st = "SYN_RCVD" /\ k.stopped = FALSE /\ k.len = 1 /\ k.nrtx = 0
      /\ k.lport = seg.lport /\ k.peer = seg.peer
  BY <1>1 DEF ConnRecs
<1>5. /\ e \in ConnRecs
      /\ e.st = "SYN_RCVD" /\ e.stopped = FALSE /\ e.len = 1 /\ e.nrtx = 0
      /\ e.lport = seg.lport /\ e.peer = seg.peer
  <2> HIDE DEF k
  <2>1. PICK m, i \in 0..UIP_TCP_MSS : e = [k EXCEPT !.mss = m, !.initialmss = i]
    BY <1>3, MssOptionType
  <2>2. e \in ConnRecs
    BY <1>3, MssOptionType
  <2> QED
    BY <1>3, <1>4, <2>1, <2>2 DEF ConnRecs
<1>6. Sound(e)
  BY <1>1, <1>5, SizesAssumption DEF Sound, Named, ConnOK, DrivenConn,
     BudgetConn, PrimedConn, StoppedConn, Owing
<1>7. Distinct(c, e)
  BY <1>5 DEF Accept, NoMatch, Matches, Distinct
<1>8. Segment(e, {"SYN", "ACK"}, 0) \in OutSegs
  BY <1>1, <1>5, SegmentType DEF Flags
<1>9. Outcome(c, e, Segment(e, {"SYN", "ACK"}, 0), NoEvent) /\ iss' \in SeqNos
  BY <1>1 DEF Accept
<1> HIDE DEF e
<1> QED
  BY <1>6, <1>7, <1>8, <1>9, OutcomeInv, EventTypes

LEMMA ResetInInv ==
  ASSUME IInv, NEW c \in Conns, NEW seg \in InSegs, ResetIn(c, seg)
  PROVE  IInv'
<1>1. Outcome(c, Closed(uip_conns[c]), NoSeg, Call(c, {"ABORT"}, Silent))
      /\ iss' \in SeqNos
  BY DEF ResetIn, IInv, RestTyped
<1>2. Call(c, {"ABORT"}, Silent) \in EventRecs
  BY EventTypes DEF Events
<1>3. uip_conns[c] \in ConnRecs
  BY DEF IInv
<1> QED
  BY <1>1, <1>2, <1>3, ClosedSound, StepInv

(* What the handlers of a segment have in common: the record in use, the   *)
(* acknowledgment processed, the segment's octets counted.                 *)
LEMMA InUse ==
  ASSUME IInv, NEW c \in Conns, uip_conns[c].st # "CLOSED"
  PROVE  /\ uip_conns[c] \in ConnRecs /\ ConnOK(uip_conns[c])
         /\ uip_conns[c].peer \in Peers /\ uip_conns[c].lport \in Ports
BY DEF IInv, Sound, Named

LEMMA OutOfOrderInv ==
  ASSUME IInv, NEW c \in Conns, uip_conns[c].st # "CLOSED",
         NEW seg \in InSegs, OutOfOrder(c, seg)
  PROVE  IInv'
<1> DEFINE k == uip_conns[c]
<1>1. Sound(k) /\ SameEnds(k, k)
  BY DEF IInv, SameEnds
<1>2. Segment(k, {"ACK"}, 0) \in OutSegs
  BY InUse, SegmentType DEF Flags
<1>3. Outcome(c, k, Segment(k, {"ACK"}, 0), NoEvent) /\ iss' \in SeqNos
  BY DEF OutOfOrder, IInv, RestTyped
<1> HIDE DEF k
<1> QED
  BY <1>1, <1>2, <1>3, StepInv, EventTypes DEF k

LEMMA SynRcvdInInv ==
  ASSUME IInv, NEW c \in Conns, NEW seg \in InSegs, NEW r \in Replies,
         NEW rto \in RTOS, SynRcvdIn(c, seg, r, rto)
  PROVE  IInv'
<1> DEFINE k == uip_conns[c]
           a == AfterAck(k, seg, rto)
           d == Receive(a, seg.len)
           e == [d EXCEPT !.st = "ESTABLISHED"]
           f == {"CONNECTED"} \cup DataEvent(seg.len)
           s == AppSend(e, f, r)
<1>1. k.st = "SYN_RCVD" /\ iss' \in SeqNos
  BY DEF SynRcvdIn, InState, IInv, RestTyped
<1>2. /\ k \in ConnRecs /\ ConnOK(k) /\ k.peer \in Peers /\ k.lport \in Ports
      /\ seg.len \in Nat /\ r \in ReplyRecs
  BY <1>1, InUse, RepliesAssumption DEF InSegs
<1>3. CASE ~Acks(k, seg)
  <2>1. Outcome(c, k, NoSeg, NoEvent)
    BY <1>3 DEF SynRcvdIn
  <2>2. Sound(k) /\ SameEnds(k, k)
    BY DEF IInv, SameEnds
  <2> HIDE DEF k
  <2> QED
    BY <1>1, <2>1, <2>2, StepInv, EventTypes DEF k
<1>4. CASE Acks(k, seg)
  <2>1. /\ a \in ConnRecs /\ a.peer = k.peer /\ a.lport = k.lport
        /\ a.timer = a.rto /\ a.len = 0
    BY <1>2, <1>4, AfterAckType
  <2>2. d \in ConnRecs /\ d = [a EXCEPT !.rcv_nxt = d.rcv_nxt]
    <3> HIDE DEF a
    <3> QED
      BY <1>2, <2>1, ReceiveType
  <2>3. /\ e \in ConnRecs /\ e.st = "ESTABLISHED" /\ e.len = 0
        /\ e.timer = e.rto /\ e.peer = k.peer /\ e.lport = k.lport
    <3> HIDE DEF d, a
    <3> QED
      BY <2>1, <2>2 DEF ConnRecs, States
  <2>4. f \in SUBSET Events
    BY DEF DataEvent, Events
  <2>5. Sound(s.conn) /\ SameEnds(e, s.conn) /\ s.out \in OutSegs \cup {NoSeg}
    <3> HIDE DEF e, f
    <3>1. PrimedConn(e) /\ e.peer \in Peers /\ e.lport \in Ports
      BY <1>2, <2>3 DEF PrimedConn
    <3> QED
      BY <1>2, <2>3, <2>4, <3>1, AppSendSound
  <2>6. SameEnds(k, s.conn)
    BY <1>1, <2>3, <2>5 DEF SameEnds
  <2>7. Outcome(c, s.conn, s.out, Call(c, f, r))
    BY <1>4 DEF SynRcvdIn
  <2>8. Call(c, f, r) \in EventRecs
    BY <1>2, <2>4, EventTypes
  <2> HIDE DEF s, f, k
  <2> QED
    BY <1>1, <2>5, <2>6, <2>7, <2>8, StepInv DEF k
<1> QED
  BY <1>3, <1>4

LEMMA SynSentInInv ==
  ASSUME IInv, NEW c \in Conns, NEW seg \in InSegs, NEW r \in Replies,
         NEW rto \in RTOS, SynSentIn(c, seg, r, rto)
  PROVE  IInv'
<1> DEFINE k == uip_conns[c]
           a == AfterAck(k, seg, rto)
           d == MssOption(a, seg)
           e == [d EXCEPT !.st = "ESTABLISHED", !.rcv_nxt = Plus(seg.seq, 1)]
           f == {"CONNECTED", "NEWDATA"}
           s == AppSend(e, f, r)
           ok == Acks(k, seg) /\ IsSynAck(seg)
           abort == Call(c, {"ABORT"}, Silent)
<1>1. k.st = "SYN_SENT" /\ iss' \in SeqNos
  BY DEF SynSentIn, InState, IInv, RestTyped
<1>2. /\ k \in ConnRecs /\ ConnOK(k) /\ k.peer \in Peers /\ k.lport \in Ports
      /\ Plus(seg.seq, 1) \in SeqNos /\ r \in ReplyRecs
  <2>1. Plus(seg.seq, 1) \in SeqNos
    BY PlusType DEF InSegs, SeqNos
  <2> QED
    BY <1>1, <2>1, InUse, RepliesAssumption
<1>3. CASE ~ok
  <2>1. Outcome(c, Closed(k), ResetReply(seg), abort)
    BY <1>3 DEF SynSentIn
  <2>2. ResetReply(seg) \in OutSegs \cup {NoSeg}
    BY <1>2 DEF ResetReply, OutSegs, InSegs, Flags
  <2>3. abort \in EventRecs
    BY EventTypes DEF Events
  <2> HIDE DEF abort
  <2> QED
    BY <1>1, <1>2, <2>1, <2>2, <2>3, StepInv, ClosedSound
<1>4. CASE ok
  <2>1. /\ a \in ConnRecs /\ a.peer = k.peer /\ a.lport = k.lport
        /\ a.timer = a.rto /\ a.len = 0 /\ a.stopped = k.stopped
    BY <1>2, <1>4, AfterAckType
  <2>2. /\ d \in ConnRecs /\ d.peer = k.peer /\ d.lport = k.lport
        /\ d.timer = d.rto /\ d.len = 0
    <3> HIDE DEF a
    <3>1. d \in ConnRecs
      BY <2>1, MssOptionType
    <3>2. PICK m, i \in 0..UIP_TCP_MSS :
            d = [a EXCEPT !.mss = m, !.initialmss = i]
      BY <2>1, MssOptionType
    <3> QED
      BY <2>1, <3>1, <3>2 DEF ConnRecs
  <2>3. /\ e \in ConnRecs /\ e.st = "ESTABLISHED" /\ e.len = 0
        /\ e.timer = e.rto /\ e.peer = k.peer /\ e.lport = k.lport
    <3> HIDE DEF d
    <3>1. e \in ConnRecs
      BY <1>2, <2>2, "ESTABLISHED" \in States, Zenon DEF ConnRecs, States
    <3> QED
      BY <2>2, <3>1 DEF ConnRecs
  <2>4. f \in SUBSET Events
    BY DEF Events
  <2>5. Sound(s.conn) /\ SameEnds(e, s.conn) /\ s.out \in OutSegs \cup {NoSeg}
    <3>1. PrimedConn(e) /\ "ACKDATA" \notin f
      BY <2>3 DEF PrimedConn
    <3> HIDE DEF e, f
    <3> QED
      BY <1>2, <2>3, <2>4, <3>1, AppSendSound
  <2>6. SameEnds(k, s.conn)
    BY <1>1, <2>3, <2>5 DEF SameEnds
  <2>7. Outcome(c, s.conn, s.out, Call(c, f, r))
    BY <1>4 DEF SynSentIn
  <2>8. Call(c, f, r) \in EventRecs
    BY <1>2, <2>4, EventTypes
  <2> HIDE DEF s, f, k
  <2> QED
    BY <1>1, <2>5, <2>6, <2>7, <2>8, StepInv DEF k
<1> QED
  BY <1>3, <1>4

LEMMA EstablishedFinInv ==
  ASSUME IInv, NEW c \in Conns, NEW seg \in InSegs,
         NEW rto \in RTOS, EstablishedFin(c, seg, rto)
  PROVE  IInv'
<1> DEFINE o == uip_conns[c]
           k == AfterAck(o, seg, rto)
           d == Receive(k, 1 + seg.len)
           g == Enter(d, "LAST_ACK")
           e == [g EXCEPT !.len = 1, !.nrtx = 0]
           f == {"CLOSE"} \cup AckEvent(o, seg) \cup DataEvent(seg.len)
           event == Call(c, f, Silent)
<1>1. o.st = "ESTABLISHED" /\ iss' \in SeqNos
  BY DEF EstablishedFin, InState, IInv, RestTyped
<1>2. /\ o \in ConnRecs /\ ConnOK(o) /\ o.peer \in Peers /\ o.lport \in Ports
      /\ 1 + seg.len \in Nat
  BY <1>1, InUse DEF InSegs
<1>3. /\ k \in ConnRecs /\ k.st = "ESTABLISHED" /\ k.stopped = o.stopped
      /\ k.peer = o.peer /\ k.lport = o.lport /\ k.nrtx = o.nrtx
      /\ ConnOK(k)
  BY <1>1, <1>2, AfterAckType DEF ConnOK, DrivenConn, BudgetConn, PrimedConn,
                                  StoppedConn, Owing
<1>4. CASE k.len > 0
  <2>1. Outcome(c, k, NoSeg, NoEvent)
    BY <1>4 DEF EstablishedFin
  <2>2. Sound(k) /\ SameEnds(o, k)
    BY <1>1, <1>2, <1>3 DEF Sound, Named, SameEnds
  <2> HIDE DEF k
  <2> QED
    BY <1>1, <2>1, <2>2, StepInv, EventTypes
<1>5. CASE ~(k.len > 0)
  <2>1. Outcome(c, e, Segment(e, {"FIN", "ACK"}, 0), event)
    BY <1>5 DEF EstablishedFin
  <2>2. /\ d \in ConnRecs /\ d.peer = o.peer /\ d.lport = o.lport
    <3> HIDE DEF k
    <3>1. d \in ConnRecs /\ d = [k EXCEPT !.rcv_nxt = d.rcv_nxt]
      BY <1>2, <1>3, ReceiveType
    <3> QED
      BY <1>3, <3>1 DEF ConnRecs
  <2>3. /\ g \in ConnRecs /\ g.st = "LAST_ACK" /\ g.stopped = FALSE
        /\ g.peer = o.peer /\ g.lport = o.lport
    <3> HIDE DEF d
    <3> QED
      BY <2>2, EnterType DEF States
  <2>4. /\ e \in ConnRecs /\ e.st = "LAST_ACK" /\ e.stopped = FALSE
        /\ e.peer = o.peer /\ e.lport = o.lport /\ e.len = 1 /\ e.nrtx = 0
    <3> HIDE DEF g
    <3> QED
      BY <2>3 DEF ConnRecs
  <2> HIDE DEF e
  <2>5. Sound(e) /\ SameEnds(o, e)
    BY <1>1, <1>2, <2>4, SizesAssumption DEF Sound, SameEnds, Named, ConnOK,
       DrivenConn, BudgetConn, PrimedConn, StoppedConn, Owing
  <2>6. Segment(e, {"FIN", "ACK"}, 0) \in OutSegs
    BY <1>2, <2>4, SegmentType DEF Flags
  <2>7. f \in SUBSET Events
    BY DEF AckEvent, DataEvent, Events
  <2>8. event \in EventRecs
    BY <2>7, EventTypes
  <2> HIDE DEF event
  <2> QED
    BY <1>1, <2>1, <2>5, <2>6, <2>8, StepInv
<1> QED
  BY <1>4, <1>5

LEMMA EstablishedInInv ==
  ASSUME IInv, NEW c \in Conns, NEW seg \in InSegs, NEW r \in Replies,
         NEW rto \in RTOS, EstablishedIn(c, seg, r, rto)
  PROVE  IInv'
<1> DEFINE k == uip_conns[c]
           n == DataLen(k, seg)
           a == AfterAck(k, seg, rto)
           d == Receive(a, n)
           e == [d EXCEPT !.mss = Window(k, seg)]
           f == AckEvent(k, seg) \cup DataEvent(n)
           s == AppSend(e, f, r)
           event == Call(c, f, r)
<1>1. k.st = "ESTABLISHED" /\ iss' \in SeqNos
  BY DEF EstablishedIn, InState, IInv, RestTyped
<1>2. /\ k \in ConnRecs /\ ConnOK(k) /\ k.peer \in Peers /\ k.lport \in Ports
      /\ r \in ReplyRecs /\ n \in Nat
  BY <1>1, InUse, RepliesAssumption, DataLenType
<1>3. Window(k, seg) \in 0..UIP_TCP_MSS
  BY <1>2, SizesAssumption DEF Window, ConnRecs, InSegs
<1>4. /\ a \in ConnRecs /\ a.st = "ESTABLISHED" /\ a.stopped = k.stopped
      /\ a.peer = k.peer /\ a.lport = k.lport /\ a.nrtx = k.nrtx
      /\ ConnOK(a)
      /\ (Acks(k, seg) => a.len = 0)
  BY <1>1, <1>2, AfterAckType DEF ConnOK, DrivenConn, BudgetConn, PrimedConn,
                                  StoppedConn, Owing
<1>5. d \in ConnRecs /\ d = [a EXCEPT !.rcv_nxt = d.rcv_nxt]
  <2> HIDE DEF a, n
  <2> QED
    BY <1>2, <1>4, ReceiveType
<1>6. /\ e \in ConnRecs /\ e.st = "ESTABLISHED" /\ e.stopped = k.stopped
      /\ e.peer = k.peer /\ e.lport = k.lport /\ e.nrtx = a.nrtx
      /\ e.len = a.len /\ e.timer = a.timer /\ e.rto = a.rto
  <2> HIDE DEF d, a
  <2> QED
    BY <1>3, <1>4, <1>5 DEF ConnRecs
<1>7. ConnOK(e)
  BY <1>4, <1>6 DEF ConnOK, DrivenConn, BudgetConn, PrimedConn, StoppedConn,
                    Owing
<1>8. SameEnds(k, e) /\ Sound(e)
  BY <1>1, <1>2, <1>6, <1>7 DEF SameEnds, Sound, Named
<1>9. CASE f = {}
  <2>1. Outcome(c, e, NoSeg, NoEvent)
    BY <1>9 DEF EstablishedIn
  <2> HIDE DEF e
  <2> QED
    BY <1>1, <1>8, <2>1, StepInv, EventTypes
<1>10. CASE f # {}
  <2>1. Outcome(c, s.conn, s.out, event)
    BY <1>10 DEF EstablishedIn
  <2>2. f \in SUBSET Events
    BY DEF AckEvent, DataEvent, Events
  <2>3. "ACKDATA" \in f => e.len = 0
    BY <1>4, <1>6 DEF AckEvent, DataEvent
  <2>4. event \in EventRecs
    BY <1>2, <2>2, EventTypes
  <2>5. Sound(s.conn) /\ SameEnds(e, s.conn) /\ s.out \in OutSegs \cup {NoSeg}
    <3> HIDE DEF e, f
    <3>1. PrimedConn(e) /\ e.peer \in Peers /\ e.lport \in Ports
      BY <1>2, <1>6, <1>7 DEF ConnOK
    <3> QED
      BY <1>2, <1>6, <2>2, <2>3, <3>1, AppSendSound
  <2>6. SameEnds(k, s.conn)
    BY <1>1, <1>6, <2>5 DEF SameEnds
  <2> HIDE DEF s, event, k
  <2> QED
    BY <1>1, <2>1, <2>4, <2>5, <2>6, StepInv DEF k
<1> QED
  BY <1>9, <1>10

LEMMA LastAckInInv ==
  ASSUME IInv, NEW c \in Conns, NEW seg \in InSegs, LastAckIn(c, seg)
  PROVE  IInv'
<1> DEFINE k == uip_conns[c]
           event == Call(c, {"CLOSE"}, Silent)
<1>1. Sound(k) /\ SameEnds(k, k) /\ k \in ConnRecs /\ iss' \in SeqNos
  BY DEF LastAckIn, InState, IInv, RestTyped, SameEnds, Sound
<1>2. event \in EventRecs
  BY EventTypes DEF Events
<1>3. CASE Acks(k, seg)
  <2>1. Outcome(c, Closed(k), NoSeg, event)
    BY <1>3 DEF LastAckIn
  <2> HIDE DEF event
  <2> QED
    BY <1>1, <1>2, <2>1, ClosedSound, StepInv
<1>4. CASE ~Acks(k, seg)
  <2>1. Outcome(c, k, NoSeg, NoEvent)
    BY <1>4 DEF LastAckIn
  <2> QED
    BY <1>1, <2>1, StepInv, EventTypes
<1> QED
  BY <1>3, <1>4

LEMMA FinWait1InInv ==
  ASSUME IInv, NEW c \in Conns, NEW seg \in InSegs,
         NEW rto \in RTOS, FinWait1In(c, seg, rto)
  PROVE  IInv'
<1> DEFINE o    == uip_conns[c]
           a    == AfterAck(o, seg, rto)
           k    == Receive(a, seg.len)
           kf   == Receive(k, 1)
           fin  == "FIN" \in seg.flags
           ackd == Acks(o, seg)
           e    == CASE fin /\ ackd  -> [Enter(kf, "TIME_WAIT") EXCEPT
                                           !.timer = 0]
                     [] fin /\ ~ackd -> Enter(kf, "CLOSING")
                     [] ~fin /\ ackd -> Enter(k, "FIN_WAIT_2")
                     [] OTHER        -> k
           reply == IF fin \/ (seg.len > 0 /\ ~ackd) THEN PureAck(e) ELSE NoSeg
           event == IF fin THEN Call(c, {"CLOSE"}, Silent) ELSE NoEvent
<1>1. o.st = "FIN_WAIT_1" /\ iss' \in SeqNos
  BY DEF FinWait1In, InState, IInv, RestTyped
<1>2. /\ o \in ConnRecs /\ ConnOK(o) /\ o.peer \in Peers /\ o.lport \in Ports
      /\ seg.len \in Nat
  BY <1>1, InUse DEF InSegs
<1>3. Outcome(c, e, reply, event)
  BY DEF FinWait1In
<1>4. /\ a \in ConnRecs /\ a.st = "FIN_WAIT_1" /\ a.stopped = FALSE
      /\ a.peer = o.peer /\ a.lport = o.lport /\ a.nrtx = o.nrtx
      /\ (ackd => a.len = 0) /\ (~ackd => a.len = 1)
  BY <1>1, <1>2, AfterAckType DEF ConnOK, DrivenConn, StoppedConn, Owing,
                                  ConnRecs
<1>5. /\ k \in ConnRecs /\ k.st = "FIN_WAIT_1" /\ k.stopped = FALSE
      /\ k.peer = o.peer /\ k.lport = o.lport /\ k.nrtx = o.nrtx
      /\ k.len = a.len
  <2> HIDE DEF a
  <2>1. k \in ConnRecs /\ k = [a EXCEPT !.rcv_nxt = k.rcv_nxt]
    BY <1>2, <1>4, ReceiveType
  <2> QED
    BY <1>4, <2>1 DEF ConnRecs
<1>6. /\ kf \in ConnRecs /\ kf.st = "FIN_WAIT_1" /\ kf.stopped = FALSE
      /\ kf.peer = o.peer /\ kf.lport = o.lport /\ kf.nrtx = o.nrtx
      /\ kf.len = a.len
  <2> HIDE DEF k
  <2>1. kf \in ConnRecs /\ kf = [k EXCEPT !.rcv_nxt = kf.rcv_nxt]
    BY <1>5, ReceiveType
  <2> QED
    BY <1>5, <2>1 DEF ConnRecs
<1>7. /\ e \in ConnRecs /\ e.stopped = FALSE
      /\ e.peer = o.peer /\ e.lport = o.lport /\ e.nrtx = o.nrtx
      /\ \/ e.st \in {"TIME_WAIT", "FIN_WAIT_2"} /\ e.len = 0
         \/ e.st \in {"CLOSING", "FIN_WAIT_1"} /\ e.len = 1
  <2> HIDE DEF a, k, kf
  <2>1. CASE fin /\ ackd
    <3> DEFINE t == Enter(kf, "TIME_WAIT")
    <3>0. a.len = 0
      BY <1>4, <2>1
    <3>1. /\ t \in ConnRecs /\ t.st = "TIME_WAIT" /\ t.stopped = FALSE
          /\ t.peer = o.peer /\ t.lport = o.lport /\ t.nrtx = o.nrtx
          /\ t.len = 0
      BY <1>6, <3>0, EnterType DEF States
    <3>2. e = [t EXCEPT !.timer = 0]
      BY <2>1 DEF e
    <3> HIDE DEF t, e
    <3> QED
      BY <3>1, <3>2 DEF ConnRecs, U8
  <2>2. CASE fin /\ ~ackd
    <3>1. e = Enter(kf, "CLOSING")
      BY <2>2
    <3>2. a.len = 1
      BY <1>4, <2>2
    <3> HIDE DEF e
    <3> QED
      BY <1>6, <3>1, <3>2, EnterType DEF States
  <2>3. CASE ~fin /\ ackd
    <3>1. e = Enter(k, "FIN_WAIT_2")
      BY <2>3
    <3>2. a.len = 0
      BY <1>4, <2>3
    <3> HIDE DEF e
    <3> QED
      BY <1>5, <3>1, <3>2, EnterType DEF States
  <2>4. CASE ~fin /\ ~ackd
    <3>1. e = k
      BY <2>4
    <3> HIDE DEF e
    <3> QED
      BY <1>4, <1>5, <2>4, <3>1
  <2> QED
    BY <2>1, <2>2, <2>3, <2>4
<1>8. Sound(e) /\ SameEnds(o, e)
  <2> HIDE DEF e
  <2> QED
    BY <1>1, <1>2, <1>7 DEF Sound, SameEnds, Named, ConnOK, DrivenConn,
                            BudgetConn, PrimedConn, StoppedConn, Owing
<1>9. reply \in OutSegs \cup {NoSeg}
  <2> HIDE DEF e
  <2> QED
    BY <1>2, <1>7, SegmentType DEF PureAck, Flags
<1>10. event \in EventRecs
  BY EventTypes DEF Events
<1> HIDE DEF e, reply, event
<1> QED
  BY <1>1, <1>3, <1>8, <1>9, <1>10, StepInv

LEMMA FinWait2InInv ==
  ASSUME IInv, NEW c \in Conns, NEW seg \in InSegs, FinWait2In(c, seg)
  PROVE  IInv'
<1> DEFINE o    == uip_conns[c]
           k    == Receive(o, seg.len)
           kf   == Receive(k, 1)
           t    == Enter(kf, "TIME_WAIT")
           fin  == "FIN" \in seg.flags
           e    == IF fin THEN [t EXCEPT !.timer = 0] ELSE k
           reply == IF fin \/ seg.len > 0 THEN PureAck(e) ELSE NoSeg
           event == IF fin THEN Call(c, {"CLOSE"}, Silent) ELSE NoEvent
<1>1. o.st = "FIN_WAIT_2" /\ iss' \in SeqNos
  BY DEF FinWait2In, InState, IInv, RestTyped
<1>2. /\ o \in ConnRecs /\ ConnOK(o) /\ o.peer \in Peers /\ o.lport \in Ports
      /\ seg.len \in Nat
  BY <1>1, InUse DEF InSegs
<1>3. Outcome(c, e, reply, event)
  BY DEF FinWait2In
<1>4. /\ k \in ConnRecs /\ k.st = "FIN_WAIT_2" /\ k.stopped = FALSE
      /\ k.peer = o.peer /\ k.lport = o.lport /\ k.nrtx = o.nrtx
      /\ k.len = 0
  <2>1. k \in ConnRecs /\ k = [o EXCEPT !.rcv_nxt = k.rcv_nxt]
    BY <1>2, ReceiveType
  <2>2. o.stopped = FALSE /\ o.len = 0
    BY <1>1, <1>2 DEF ConnOK, DrivenConn, StoppedConn, ConnRecs
  <2> HIDE DEF k, o
  <2> QED
    BY <1>1, <1>2, <2>1, <2>2 DEF ConnRecs
<1>5. /\ kf \in ConnRecs
      /\ kf.peer = o.peer /\ kf.lport = o.lport /\ kf.nrtx = o.nrtx
      /\ kf.len = 0
  <2> HIDE DEF k
  <2>1. kf \in ConnRecs /\ kf = [k EXCEPT !.rcv_nxt = kf.rcv_nxt]
    BY <1>4, ReceiveType
  <2> QED
    BY <1>4, <2>1 DEF ConnRecs
<1>6. /\ t \in ConnRecs /\ t.st = "TIME_WAIT" /\ t.stopped = FALSE
      /\ t.peer = o.peer /\ t.lport = o.lport /\ t.nrtx = o.nrtx
      /\ t.len = 0
  <2> HIDE DEF kf
  <2> QED
    BY <1>5, EnterType DEF States
<1>7. /\ e \in ConnRecs /\ e.stopped = FALSE
      /\ e.peer = o.peer /\ e.lport = o.lport /\ e.nrtx = o.nrtx
      /\ e.st \in {"TIME_WAIT", "FIN_WAIT_2"} /\ e.len = 0
  <2> HIDE DEF t, k
  <2> QED
    BY <1>4, <1>6 DEF ConnRecs, U8
<1>8. Sound(e) /\ SameEnds(o, e)
  <2> HIDE DEF e
  <2> QED
    BY <1>1, <1>2, <1>7 DEF Sound, SameEnds, Named, ConnOK, DrivenConn,
                            BudgetConn, PrimedConn, StoppedConn, Owing
<1>9. reply \in OutSegs \cup {NoSeg}
  <2> HIDE DEF e
  <2> QED
    BY <1>2, <1>7, SegmentType DEF PureAck, Flags
<1>10. event \in EventRecs
  BY EventTypes DEF Events
<1> HIDE DEF e, reply, event
<1> QED
  BY <1>1, <1>3, <1>8, <1>9, <1>10, StepInv

LEMMA TimeWaitInInv ==
  ASSUME IInv, NEW c \in Conns, NEW seg \in InSegs, TimeWaitIn(c, seg)
  PROVE  IInv'
<1> DEFINE k == uip_conns[c]
<1>1. /\ Sound(k) /\ SameEnds(k, k) /\ k.st # "CLOSED" /\ iss' \in SeqNos
  BY DEF TimeWaitIn, InState, IInv, RestTyped, SameEnds
<1>2. PureAck(k) \in OutSegs
  BY <1>1, SegmentType DEF PureAck, Flags, Sound, Named
<1>3. Outcome(c, k, PureAck(k), NoEvent)
  BY DEF TimeWaitIn
<1> QED
  BY <1>1, <1>2, <1>3, StepInv, EventTypes

LEMMA ClosingInInv ==
  ASSUME IInv, NEW c \in Conns, NEW seg \in InSegs,
         NEW rto \in RTOS, ClosingIn(c, seg, rto)
  PROVE  IInv'
<1> DEFINE k == uip_conns[c]
           a == AfterAck(k, seg, rto)
           t == Enter(a, "TIME_WAIT")
           e == IF Acks(k, seg) THEN [t EXCEPT !.timer = 0] ELSE k
<1>1. k.st = "CLOSING" /\ iss' \in SeqNos /\ Outcome(c, e, NoSeg, NoEvent)
  BY DEF ClosingIn, InState, IInv, RestTyped
<1>2. /\ Sound(k) /\ k \in ConnRecs /\ ConnOK(k)
  BY DEF IInv, Sound
<1>3. CASE Acks(k, seg)
  <2>1. /\ a \in ConnRecs /\ a.peer = k.peer /\ a.lport = k.lport
        /\ a.nrtx = k.nrtx /\ a.len = 0
    BY <1>2, <1>3, AfterAckType
  <2>2. /\ t \in ConnRecs /\ t.st = "TIME_WAIT" /\ t.stopped = FALSE
        /\ t.peer = k.peer /\ t.lport = k.lport /\ t.nrtx = k.nrtx
        /\ t.len = 0
    <3> HIDE DEF a
    <3> QED
      BY <2>1, EnterType DEF States
  <2>3. /\ e \in ConnRecs /\ e.st = "TIME_WAIT" /\ e.stopped = FALSE
        /\ e.peer = k.peer /\ e.lport = k.lport /\ e.nrtx = k.nrtx
        /\ e.len = 0
    <3> HIDE DEF t
    <3> QED
      BY <1>3, <2>2 DEF ConnRecs, U8
  <2> HIDE DEF e
  <2>4. Sound(e) /\ SameEnds(k, e)
    BY <1>1, <1>2, <2>3 DEF Sound, SameEnds, Named, ConnOK, DrivenConn,
                            BudgetConn, PrimedConn, StoppedConn, Owing
  <2> QED
    BY <1>1, <2>4, StepInv, EventTypes
<1>4. CASE ~Acks(k, seg)
  BY <1>1, <1>2, <1>4, StepInv, EventTypes DEF SameEnds
<1> QED
  BY <1>3, <1>4

(***************************************************************************)
(* Calls from outside uip_process().                                       *)
(***************************************************************************)
LEMMA SetPortInv ==
  ASSUME IInv, NEW from, NEW to \in Ports \cup {NoPort}, SetPort(from, to)
  PROVE  IInv'
<1>1. uip_listenports' \in [0..(UIP_LISTENPORTS - 1) -> Ports \cup {NoPort}]
  BY DEF SetPort, IInv, RestTyped
<1>2. RestTyped' /\ UNCHANGED uip_conns
  BY <1>1, EventTypes DEF SetPort, IInv, RestTyped
<1> QED
  BY <1>2, UntouchedInv

LEMMA ConnectInv ==
  ASSUME IInv, NEW c \in Conns, NEW peer \in Peers, NEW port \in Ports,
         uip_connect(c, peer, port)
  PROVE  IInv'
<1> DEFINE e == [uip_conns[c] EXCEPT
                   !.st = "SYN_SENT", !.stopped = FALSE, !.snd_nxt = iss,
                   !.initialmss = UIP_TCP_MSS, !.mss = UIP_TCP_MSS,
                   !.len = 1, !.nrtx = 0, !.timer = 1, !.rto = UIP_RTO,
                   !.lport = port, !.peer = peer]
<1>1. uip_conns[c] \in ConnRecs /\ iss \in SeqNos /\ iss' \in SeqNos
  BY DEF IInv, RestTyped, uip_connect
<1>2. /\ UIP_RTO \in 0..(U8 - 1) /\ 1 \in 0..(U8 - 1) /\ "SYN_SENT" \in States
      /\ 1 \in Nat /\ 0 \in Nat /\ FALSE \in BOOLEAN
      /\ UIP_TCP_MSS \in 0..UIP_TCP_MSS
  BY SizesAssumption DEF U8, States
<1>3. e \in ConnRecs
  BY <1>1, <1>2, Zenon DEF ConnRecs
<1>4. /\ e.st = "SYN_SENT" /\ e.stopped = FALSE /\ e.len = 1 /\ e.nrtx = 0
      /\ e.lport = port /\ e.peer = peer
  BY <1>1 DEF ConnRecs
<1>5. Outcome(c, e, NoSeg, NoEvent)
  BY DEF uip_connect
<1>6. \A d \in Conns : uip_conns[d].st = "CLOSED" \/ uip_conns[d].lport # port
  BY DEF uip_connect
<1> HIDE DEF e
<1>7. Sound(e)
  BY <1>3, <1>4, SizesAssumption DEF Sound, Named, ConnOK, DrivenConn,
     BudgetConn, PrimedConn, StoppedConn, Owing
<1>8. Distinct(c, e)
  BY <1>4, <1>6 DEF Distinct
<1> QED
  BY <1>1, <1>5, <1>7, <1>8, OutcomeInv, EventTypes

(***************************************************************************)
(* The invariant holds.                                                    *)
(***************************************************************************)
LEMMA PeriodicInv ==
  ASSUME IInv, NEW c \in Conns, Periodic(c)
  PROVE  IInv'
<1>1. CASE Linger(c)
  BY <1>1, LingerInv
<1>2. CASE CountDown(c)
  BY <1>2, CountDownInv
<1>3. CASE TimeOut(c)
  BY <1>3, TimeOutInv
<1>4. CASE PeriodicIdle(c)
  BY <1>4, PeriodicIdleInv
<1>5. ASSUME NEW r \in Replies, Retransmit(c, r) PROVE IInv'
  BY <1>5, RetransmitInv
<1>6. ASSUME NEW r \in Replies, PeriodicPoll(c, r) PROVE IInv'
  <2>1. PollApp(c, r) /\ iss' \in SeqNos
    BY <1>6, TickType DEF PeriodicPoll
  <2> QED
    BY <2>1, PollAppInv
<1> QED
  BY <1>1, <1>2, <1>3, <1>4, <1>5, <1>6 DEF Periodic

LEMMA ForConnectionInv ==
  ASSUME IInv, NEW c \in Conns, NEW seg \in InSegs,
         uip_conns[c].st # "CLOSED", ForConnection(c, seg)
  PROVE  IInv'
<1>1. CASE ResetIn(c, seg)
  BY <1>1, ResetInInv
<1>2. CASE OutOfOrder(c, seg)
  BY <1>2, OutOfOrderInv
<1>3. CASE LastAckIn(c, seg)
  BY <1>3, LastAckInInv
<1>4. CASE FinWait2In(c, seg)
  BY <1>4, FinWait2InInv
<1>5. CASE TimeWaitIn(c, seg)
  BY <1>5, TimeWaitInInv
<1>6. ASSUME NEW rto \in RTOS, EstablishedFin(c, seg, rto) PROVE IInv'
  BY <1>6, EstablishedFinInv
<1>7. ASSUME NEW rto \in RTOS, FinWait1In(c, seg, rto) PROVE IInv'
  BY <1>7, FinWait1InInv
<1>8. ASSUME NEW rto \in RTOS, ClosingIn(c, seg, rto) PROVE IInv'
  BY <1>8, ClosingInInv
<1>9. ASSUME NEW rto \in RTOS, NEW r \in Replies, SynRcvdIn(c, seg, r, rto)
      PROVE IInv'
  BY <1>9, SynRcvdInInv
<1>10. ASSUME NEW rto \in RTOS, NEW r \in Replies, SynSentIn(c, seg, r, rto)
       PROVE IInv'
  BY <1>10, SynSentInInv
<1>11. ASSUME NEW rto \in RTOS, NEW r \in Replies,
              EstablishedIn(c, seg, r, rto)
       PROVE IInv'
  BY <1>11, EstablishedInInv
<1> QED
  BY <1>1, <1>2, <1>3, <1>4, <1>5, <1>6, <1>7, <1>8, <1>9, <1>10, <1>11
     DEF ForConnection

LEMMA InputInv ==
  ASSUME IInv, NEW seg \in InSegs, Input(seg)
  PROVE  IInv'
<1>1. CASE Refuse(seg)
  BY <1>1, RefuseInv
<1>2. CASE NoneAvailable(seg)
  BY <1>2, DroppedInv DEF NoneAvailable
<1>3. ASSUME NEW c \in Conns, Accept(c, seg) PROVE IInv'
  BY <1>3, AcceptInv
<1>4. ASSUME NEW c \in Conns, Found(c, seg), ForConnection(c, seg) PROVE IInv'
  BY <1>4, ForConnectionInv DEF Found, Matches
<1> QED
  BY <1>1, <1>2, <1>3, <1>4 DEF Input

LEMMA NextInv == IInv /\ [Next]_vars => IInv'
<1> SUFFICES ASSUME IInv, [Next]_vars PROVE IInv'
  OBVIOUS
<1>1. ASSUME NEW c \in Conns, Periodic(c) PROVE IInv'
  BY <1>1, PeriodicInv
<1>2. ASSUME NEW c \in Conns, PollRequest(c) PROVE IInv'
  <2>1. iss' \in SeqNos
    BY <1>2 DEF PollRequest, IInv, RestTyped
  <2> QED
    BY <1>2, <2>1, PollAppInv DEF PollRequest
<1>3. ASSUME NEW seg \in Arriving, Input(seg) PROVE IInv'
  <2>1. seg \in InSegs
    BY ArrivingAssumption
  <2> QED
    BY <1>3, <2>1, InputInv
<1>4. ASSUME NEW port \in Ports, uip_listen(port) PROVE IInv'
  BY <1>4, SetPortInv DEF uip_listen
<1>5. ASSUME NEW port \in Ports, uip_unlisten(port) PROVE IInv'
  BY <1>5, SetPortInv DEF uip_unlisten
<1>6. ASSUME NEW c \in Conns, NEW peer \in Peers, NEW port \in Ports,
             uip_connect(c, peer, port)
      PROVE IInv'
  BY <1>6, ConnectInv
<1>7. CASE UNCHANGED vars
  <2>1. RestTyped' /\ UNCHANGED uip_conns
    BY <1>7 DEF vars, IInv, RestTyped
  <2> QED
    BY <2>1, UntouchedInv
<1> QED
  BY <1>1, <1>2, <1>3, <1>4, <1>5, <1>6, <1>7 DEF Next

(* The inductive invariant holds in every state uip_process(), uip_listen, *)
(* uip_unlisten and uip_connect can reach.                                 *)
THEOREM Invariance == Spec => []IInv
BY InitInv, NextInv, PTL DEF Spec

(* Every field of every entry of uip_conns[], every segment sent and every *)
(* call to the application is of its type; in particular the u8_t timer    *)
(* never under- or overflows.                                              *)
THEOREM TypeCorrect == Spec => []TypeOK
<1>1. IInv => TypeOK
  BY DEF IInv, RestTyped, TypeOK, EventRecs
<1> QED
  BY <1>1, Invariance, PTL

(* Demultiplexing is unambiguous: no two entries in use have the same peer *)
(* and local port, whatever the order of connects, SYNs and time-outs.     *)
THEOREM EndpointsUnique == Spec => []UniqueEndpoints
<1>1. IInv => UniqueEndpoints
  BY DEF IInv
<1> QED
  BY <1>1, Invariance, PTL

(* Every entry in a state that waits for the peer has exactly the octet to *)
(* retransmit that will end the wait.                                      *)
THEOREM ConnectionsDriven == Spec => []Driven
<1>1. IInv => Driven
  BY DEF IInv, Sound, ConnOK, Driven
<1> QED
  BY <1>1, Invariance, PTL

(* The retransmission counters never pass the limits they are compared     *)
(* with by ==.                                                             *)
THEOREM RetriesBounded == Spec => []RetryBudget
<1>1. IInv => RetryBudget
  BY DEF IInv, Sound, ConnOK, RetryBudget
<1> QED
  BY <1>1, Invariance, PTL

(* An idle connection always has its timer at the current rto, the value   *)
(* the next data sent will be timed with.                                  *)
THEOREM IdleTimerPrimed == Spec => []TimerPrimed
<1>1. IInv => TimerPrimed
  BY DEF IInv, Sound, ConnOK, TimerPrimed
<1> QED
  BY <1>1, Invariance, PTL

(* UIP_STOPPED is only ever set beside UIP_ESTABLISHED.                    *)
THEOREM OnlyOpenStopped == Spec => []StoppedOnlyOpen
<1>1. IInv => StoppedOnlyOpen
  BY DEF IInv, Sound, ConnOK, StoppedOnlyOpen
<1> QED
  BY <1>1, Invariance, PTL

(***************************************************************************)
(* UipTcp implements UipApp: what uip_process() tells the application of a *)
(* connection is what UipApp promises, for every size and every input that *)
(* UipTcp admits.  And what a step takes from the peer it acknowledges.    *)
(*                                                                         *)
(* Both are facts about a step from a state of the invariant.  There is    *)
(* one lemma per action: it names the action of UipApp that the step is,   *)
(* and follows rcv_nxt into the reply.                                     *)
(***************************************************************************)

(* A reply tells the peer of k that everything up to e.rcv_nxt is here.    *)
TellsPeer(seg, k, e) ==
  /\ seg # NoSeg /\ "ACK" \in seg.flags /\ seg.ack = e.rcv_nxt
  /\ <<seg.peer, seg.lport>> = <<k.peer, k.lport>>

(* The action of AcceptedIsAcked, for one record and for all.              *)
Acked(k, e, seg) ==
  e.rcv_nxt # k.rcv_nxt /\ k.st \notin {"CLOSED", "TIME_WAIT"}
    => \/ TellsPeer(seg, k, e)
       \/ k.st = "FIN_WAIT_1" /\ e.st = "FIN_WAIT_2"
AckedStep == \A c \in Conns : Acked(uip_conns[c], uip_conns'[c], out')

(***************************************************************************)
(* One record moves.                                                       *)
(***************************************************************************)
LEMMA Moved ==
  ASSUME IInv, NEW c \in Conns, NEW e, uip_conns' = [uip_conns EXCEPT ![c] = e]
  PROVE  App!Move(c, AppPhase(uip_conns[c]), AppPhase(e))
<1>1. uip_conns \in [Conns -> ConnRecs] BY DEF IInv
<1>2. uip_conns'[c] = e /\ \A b \in Conns \ {c} : uip_conns'[b] = uip_conns[b] BY <1>1
<1>3. \A b \in Conns : AppPhase(uip_conns'[b]) = IF b = c THEN AppPhase(e) ELSE AppPhase(uip_conns[b])
  BY <1>2
<1> QED BY <1>3 DEF App!Move

LEMMA AppStays ==
  ASSUME IInv, NEW c \in Conns, NEW e, uip_conns' = [uip_conns EXCEPT ![c] = e],
         AppPhase(e) = AppPhase(uip_conns[c]), ev' = NoEvent
  PROVE  App!Next
<1>1. uip_conns \in [Conns -> ConnRecs] BY DEF IInv
<1>2. uip_conns'[c] = e /\ \A b \in Conns \ {c} : uip_conns'[b] = uip_conns[b] BY <1>1
<1>3. \A b \in Conns : AppPhase(uip_conns'[b]) = AppPhase(uip_conns[b]) BY <1>2
<1> QED BY <1>3 DEF App!Next, App!Unobserved, App!NoEvent, NoEvent

LEMMA AckedMoved ==
  ASSUME IInv, NEW c \in Conns, NEW e, uip_conns' = [uip_conns EXCEPT ![c] = e],
         Acked(uip_conns[c], e, out')
  PROVE  AckedStep
<1>1. uip_conns \in [Conns -> ConnRecs] BY DEF IInv
<1>2. uip_conns'[c] = e /\ \A b \in Conns \ {c} : uip_conns'[b] = uip_conns[b] BY <1>1
<1>3. \A b \in Conns \ {c} : Acked(uip_conns[b], uip_conns'[b], out') BY <1>2 DEF Acked
<1> QED BY <1>2, <1>3 DEF AckedStep

(* The table is left alone and nothing is reported.                        *)
LEMMA Untouched ==
  ASSUME UNCHANGED uip_conns, ev' = NoEvent
  PROVE  App!Next /\ AckedStep
<1>1. App!Next BY DEF App!Next, App!Unobserved, App!NoEvent, NoEvent
<1>2. AckedStep BY DEF AckedStep, Acked
<1> QED BY <1>1, <1>2

LEMMA ClosedIs ==
  ASSUME NEW k \in ConnRecs
  PROVE  Closed(k).st = "CLOSED" /\ Closed(k).rcv_nxt = k.rcv_nxt
BY DEF Closed, Unused

(* What the application does moves its connection as UipApp says, and new  *)
(* data is acknowledged whatever it does.                                  *)
LEMMA AppSendIs ==
  ASSUME NEW k \in ConnRecs, k.st = "ESTABLISHED", NEW flags, NEW r \in ReplyRecs
  PROVE  /\ AppPhase(AppSend(k, flags, r).conn) = App!After(r.op)
         /\ AppSend(k, flags, r).conn.rcv_nxt = k.rcv_nxt
         /\ "NEWDATA" \in flags => TellsPeer(AppSend(k, flags, r).out, k, k)
<1> DEFINE n  == SendLen(k, flags, r)
           kk == [Flow(k, r) EXCEPT !.len  = IF r.slen = 0 THEN @ ELSE n,
                                    !.nrtx = 0]
           ab == Enter(k, "CLOSED")
           fn == [Enter(k, "FIN_WAIT_1") EXCEPT !.len = 1, !.nrtx = 0]
<1>1. CASE r.op = "abort"
  <2>1. AppSend(k, flags, r) = [conn |-> Closed(k), out |-> Segment(ab, {"RST", "ACK"}, 0)]
    BY <1>1 DEF AppSend
  <2>2. ab.rcv_nxt = k.rcv_nxt /\ ab.peer = k.peer /\ ab.lport = k.lport BY DEF Enter, ConnRecs
  <2> HIDE DEF ab
  <2>3. TellsPeer(Segment(ab, {"RST", "ACK"}, 0), k, k) BY <2>2 DEF TellsPeer, Segment, NoSeg
  <2> QED BY <1>1, <2>1, <2>3, ClosedIs DEF AppPhase, App!After
<1>2. CASE r.op = "close"
  <2>1. AppSend(k, flags, r) = [conn |-> fn, out |-> Segment(fn, {"FIN", "ACK"}, 0)]
    BY <1>2 DEF AppSend
  <2>2. fn.rcv_nxt = k.rcv_nxt /\ fn.peer = k.peer /\ fn.lport = k.lport /\ fn.st = "FIN_WAIT_1"
    BY DEF Enter, ConnRecs
  <2> HIDE DEF fn
  <2>3. TellsPeer(Segment(fn, {"FIN", "ACK"}, 0), k, k) BY <2>2 DEF TellsPeer, Segment, NoSeg
  <2> QED BY <1>2, <2>1, <2>2, <2>3 DEF AppPhase, App!After
<1>3. CASE r.op \notin {"abort", "close"}
  <2>1. AppSend(k, flags, r) = [conn |-> kk, out |-> Answer(kk, n, flags, r)]
    BY <1>3 DEF AppSend
  <2>2. kk.rcv_nxt = k.rcv_nxt /\ kk.peer = k.peer /\ kk.lport = k.lport /\ kk.st = k.st
    BY DEF Flow, ConnRecs
  <2> HIDE DEF kk, n
  <2>3. "NEWDATA" \in flags => TellsPeer(Answer(kk, n, flags, r), k, k)
    BY <2>2 DEF TellsPeer, Answer, Segment, NoSeg
  <2> QED BY <1>3, <2>1, <2>2, <2>3 DEF AppPhase, App!After
<1> QED BY <1>1, <1>2, <1>3

(* Processing an acknowledgment leaves the phase and rcv_nxt alone, and so *)
(* does receiving nothing.                                                 *)
LEMMA AfterAckIs ==
  ASSUME NEW k \in ConnRecs, NEW seg \in InSegs, NEW rto \in RTOS
  PROVE  /\ AfterAck(k, seg, rto) \in ConnRecs
         /\ AfterAck(k, seg, rto).rcv_nxt = k.rcv_nxt
         /\ AfterAck(k, seg, rto).st = k.st
         /\ AfterAck(k, seg, rto).peer = k.peer /\ AfterAck(k, seg, rto).lport = k.lport
<1>1. AfterAck(k, seg, rto).rcv_nxt = k.rcv_nxt
  <2>1. CASE Acks(k, seg)
    <3> DEFINE t == IF k.nrtx = 0 THEN rto ELSE k.rto
    <3>1. AfterAck(k, seg, rto) =
            [k EXCEPT !.snd_nxt = seg.ack, !.len = 0, !.rto = t, !.timer = t]
      BY <2>1 DEF AfterAck
    <3> HIDE DEF t
    <3> QED BY <3>1 DEF ConnRecs
  <2>2. CASE ~Acks(k, seg) BY <2>2 DEF AfterAck
  <2> QED BY <2>1, <2>2
<1> QED BY <1>1, AfterAckType

LEMMA ReceiveIs ==
  ASSUME NEW k \in ConnRecs, NEW n \in Nat
  PROVE  /\ Receive(k, n) \in ConnRecs /\ Receive(k, n).st = k.st
         /\ Receive(k, n).peer = k.peer /\ Receive(k, n).lport = k.lport
         /\ n = 0 => Receive(k, n).rcv_nxt = k.rcv_nxt
<1>1. Receive(k, n) \in ConnRecs /\ Receive(k, n) = [k EXCEPT !.rcv_nxt = Receive(k, n).rcv_nxt]
  BY ReceiveType
<1>2. k.rcv_nxt \in 0..(SeqMod - 1) BY DEF ConnRecs, SeqNos
<1>3. Plus(k.rcv_nxt, 0) = k.rcv_nxt BY <1>2, SizesAssumption DEF Plus
<1>4. n = 0 => Receive(k, n).rcv_nxt = k.rcv_nxt BY <1>3 DEF Receive, ConnRecs
<1>5. Receive(k, n).st = k.st /\ Receive(k, n).peer = k.peer /\ Receive(k, n).lport = k.lport
  BY <1>1 DEF ConnRecs
<1> QED BY <1>1, <1>4, <1>5

LEMMA EnterIs ==
  ASSUME NEW k \in ConnRecs, NEW st \in States
  PROVE  Enter(k, st).st = st /\ Enter(k, st).rcv_nxt = k.rcv_nxt
BY DEF Enter, ConnRecs

LEMMA PureAckTells ==
  ASSUME NEW k \in ConnRecs, NEW flags \in SUBSET Flags, "ACK" \in flags, NEW n
  PROVE  TellsPeer(Segment(k, flags, n), k, k)
BY DEF TellsPeer, Segment, NoSeg

LEMMA CallIs ==
  ASSUME NEW c, NEW flags, NEW r
  PROVE  Call(c, flags, r) = App!Call(c, flags, r.op)
BY DEF Call, App!Call

(***************************************************************************)
(* The periodic timer.                                                     *)
(***************************************************************************)
LEMMA LingerStep ==
  ASSUME IInv, NEW c \in Conns, Linger(c)
  PROVE  App!Next /\ AckedStep
<1> DEFINE k == uip_conns[c]
           t == (k.timer + 1) % U8
           e == IF t = UIP_TIME_WAIT_TIMEOUT THEN Closed(k) ELSE [k EXCEPT !.timer = t]
<1>1. k \in ConnRecs /\ k.st \in {"TIME_WAIT", "FIN_WAIT_2"} BY DEF IInv, Linger
<1>2. uip_conns' = [uip_conns EXCEPT ![c] = e] /\ ev' = NoEvent BY DEF Linger, Outcome
<1>3. e.rcv_nxt = k.rcv_nxt /\ (e.st = "CLOSED" \/ e.st = k.st)
  BY <1>1, ClosedIs DEF ConnRecs
<1> HIDE DEF e
<1>4. AckedStep BY <1>2, <1>3, AckedMoved DEF Acked
<1>5. CASE e.st = k.st BY <1>2, <1>4, <1>5, AppStays DEF AppPhase
<1>6. CASE e.st = "CLOSED"
  <2>1. App!Move(c, AppPhase(k), AppPhase(e)) BY <1>2, Moved
  <2>2. AppPhase(k) \in {"left", "over"} /\ AppPhase(e) = "absent" BY <1>1, <1>6 DEF AppPhase
  <2>3. App!Forgotten(c) BY <1>2, <2>1, <2>2 DEF App!Forgotten, NoEvent, App!NoEvent
  <2> QED BY <1>4, <2>3 DEF App!Next
<1> QED BY <1>3, <1>5, <1>6

LEMMA CountDownStep ==
  ASSUME IInv, NEW c \in Conns, CountDown(c)
  PROVE  App!Next /\ AckedStep
<1> DEFINE e == [uip_conns[c] EXCEPT !.timer = @ - 1]
<1>1. uip_conns' = [uip_conns EXCEPT ![c] = e] /\ ev' = NoEvent BY DEF CountDown, Outcome
<1>2. e.rcv_nxt = uip_conns[c].rcv_nxt /\ e.st = uip_conns[c].st BY DEF IInv, ConnRecs
<1> HIDE DEF e
<1> QED BY <1>1, <1>2, AppStays, AckedMoved DEF AppPhase, Acked

LEMMA TimeOutStep ==
  ASSUME IInv, NEW c \in Conns, TimeOut(c)
  PROVE  App!Next /\ AckedStep
<1> DEFINE e == Closed(uip_conns[c])
<1>1. uip_conns' = [uip_conns EXCEPT ![c] = e] /\ ev' = Call(c, {"TIMEDOUT"}, Silent)
  BY DEF TimeOut, Outcome
<1>2. e.rcv_nxt = uip_conns[c].rcv_nxt /\ e.st = "CLOSED" BY ClosedIs DEF IInv
<1> HIDE DEF e
<1>3. App!Move(c, AppPhase(uip_conns[c]), "absent") BY <1>1, <1>2, Moved DEF AppPhase
<1>4. App!Broken(c, "TIMEDOUT") BY <1>1, <1>3, CallIs DEF App!Broken, App!Move, Silent
<1> QED BY <1>1, <1>2, <1>4, AckedMoved DEF App!Next, Acked

LEMMA PeriodicIdleStep ==
  ASSUME IInv, NEW c \in Conns, PeriodicIdle(c)
  PROVE  App!Next /\ AckedStep
<1>1. uip_conns' = [uip_conns EXCEPT ![c] = uip_conns[c]] /\ ev' = NoEvent
  BY DEF PeriodicIdle, Outcome
<1> QED BY <1>1, AppStays, AckedMoved DEF Acked

LEMMA RetransmitStep ==
  ASSUME IInv, NEW c \in Conns, NEW r \in Replies, Retransmit(c, r)
  PROVE  App!Next /\ AckedStep
<1> DEFINE k == uip_conns[c]
           b == [k EXCEPT !.timer = Backoff(k.nrtx), !.nrtx = @ + 1]
           e == IF k.st = "ESTABLISHED" THEN Flow(b, r) ELSE b
<1>1. r.op \in App!Ops BY RepliesAssumption DEF ReplyRecs, Ops, App!Ops
<1>2. /\ uip_conns' = [uip_conns EXCEPT ![c] = e]
      /\ ev' = IF k.st = "ESTABLISHED" THEN Call(c, {"REXMIT"}, r) ELSE NoEvent
  BY DEF Retransmit
<1>3. b.rcv_nxt = k.rcv_nxt /\ b.st = k.st BY DEF IInv, ConnRecs
<1>4. e.rcv_nxt = k.rcv_nxt /\ e.st = k.st
  <2>1. k \in ConnRecs BY DEF IInv
  <2>2. Flow(b, r).rcv_nxt = b.rcv_nxt /\ Flow(b, r).st = b.st BY <2>1 DEF Flow, ConnRecs
  <2> QED BY <1>3, <2>2
<1> HIDE DEF e
<1>5. AckedStep BY <1>2, <1>4, AckedMoved DEF Acked
<1>6. CASE k.st = "ESTABLISHED"
  <2>1. App!Move(c, "open", "open") BY <1>2, <1>4, <1>6, Moved DEF AppPhase
  <2>2. App!Rexmit(c, r.op) BY <1>2, <1>6, <2>1, CallIs DEF App!Rexmit
  <2> QED BY <1>1, <1>5, <2>2 DEF App!Next
<1>7. CASE k.st # "ESTABLISHED" BY <1>2, <1>4, <1>5, <1>7, AppStays DEF AppPhase
<1> QED BY <1>6, <1>7

LEMMA PollAppStep ==
  ASSUME IInv, NEW c \in Conns, NEW r \in Replies, PollApp(c, r)
  PROVE  App!Next /\ AckedStep
<1> DEFINE k == uip_conns[c]
           s == AppSend(k, {"POLL"}, r)
<1>1. r \in ReplyRecs /\ r.op \in App!Ops BY RepliesAssumption DEF ReplyRecs, Ops, App!Ops
<1>2. k \in ConnRecs /\ k.st = "ESTABLISHED" BY DEF IInv, PollApp, Pollable
<1>3. uip_conns' = [uip_conns EXCEPT ![c] = s.conn] /\ ev' = Call(c, {"POLL"}, r)
  BY DEF PollApp, Outcome
<1>4. AppPhase(s.conn) = App!After(r.op) /\ s.conn.rcv_nxt = k.rcv_nxt BY <1>1, <1>2, AppSendIs
<1> HIDE DEF s
<1>5. App!Move(c, "open", App!After(r.op)) BY <1>2, <1>3, <1>4, Moved DEF AppPhase
<1>6. App!Served(c, r.op, {"POLL"}) BY <1>3, <1>5, CallIs DEF App!Served
<1> QED BY <1>1, <1>3, <1>4, <1>6, AckedMoved DEF App!Next, Acked

(***************************************************************************)
(* An entry that is taken for a new connection was absent or over.         *)
(***************************************************************************)
LEMMA AppTaken ==
  ASSUME IInv, NEW c \in Conns, Available(c), NEW e, AppPhase(e) = "absent",
         uip_conns' = [uip_conns EXCEPT ![c] = e], ev' = NoEvent
  PROVE  App!Next /\ AckedStep
<1> DEFINE k == uip_conns[c]
<1>1. k.st \in {"CLOSED", "TIME_WAIT"} BY DEF Available
<1>2. AckedStep BY <1>1, AckedMoved DEF Acked
<1>3. CASE k.st = "CLOSED" BY <1>2, <1>3, AppStays DEF AppPhase
<1>4. CASE k.st = "TIME_WAIT"
  <2>1. App!Move(c, "over", "absent") BY <1>4, Moved DEF AppPhase
  <2>2. App!Forgotten(c) BY <2>1 DEF App!Forgotten, NoEvent, App!NoEvent
  <2> QED BY <1>2, <2>2 DEF App!Next
<1> QED BY <1>1, <1>3, <1>4

LEMMA AcceptStep ==
  ASSUME IInv, NEW c \in Conns, NEW seg \in InSegs, Accept(c, seg)
  PROVE  App!Next /\ AckedStep
<1> DEFINE k == [uip_conns[c] EXCEPT
                  !.st = "SYN_RCVD", !.stopped = FALSE, !.lport = seg.lport,
                  !.peer = seg.peer, !.snd_nxt = iss, !.len = 1,
                  !.rcv_nxt = Plus(seg.seq, 1), !.rto = UIP_RTO,
                  !.timer = UIP_RTO, !.nrtx = 0]
           e == MssOption(k, seg)
<1>1. Available(c) /\ uip_conns' = [uip_conns EXCEPT ![c] = e] /\ ev' = NoEvent
  BY DEF Accept, Outcome
<1>2. /\ uip_conns[c] \in ConnRecs /\ iss \in SeqNos /\ Plus(seg.seq, 1) \in SeqNos
      /\ seg.lport \in Ports /\ seg.peer \in Peers
  BY PlusType DEF IInv, RestTyped, InSegs, SeqNos
<1>3. UIP_RTO \in 0..(U8 - 1) /\ "SYN_RCVD" \in States
      /\ 1 \in Nat /\ 0 \in Nat /\ FALSE \in BOOLEAN
  BY SizesAssumption DEF U8, States
<1>4. k \in ConnRecs BY <1>2, <1>3, Zenon DEF ConnRecs
<1>5. k.st = "SYN_RCVD" BY <1>2 DEF ConnRecs
<1> HIDE DEF k
<1>6. e.st = "SYN_RCVD"
  <2>1. PICK m, i \in 0..UIP_TCP_MSS : e = [k EXCEPT !.mss = m, !.initialmss = i]
    BY <1>4, MssOptionType
  <2> QED BY <1>4, <1>5, <2>1 DEF ConnRecs
<1> HIDE DEF e
<1>7. AppPhase(e) = "absent" BY <1>6 DEF AppPhase
<1> QED BY <1>1, <1>7, AppTaken

LEMMA ConnectStep ==
  ASSUME IInv, NEW c \in Conns, NEW peer, NEW port, uip_connect(c, peer, port)
  PROVE  App!Next /\ AckedStep
<1> DEFINE e == [uip_conns[c] EXCEPT
                   !.st = "SYN_SENT", !.stopped = FALSE, !.snd_nxt = iss,
                   !.initialmss = UIP_TCP_MSS, !.mss = UIP_TCP_MSS,
                   !.len = 1, !.nrtx = 0, !.timer = 1, !.rto = UIP_RTO,
                   !.lport = port, !.peer = peer]
<1>1. Available(c) /\ uip_conns' = [uip_conns EXCEPT ![c] = e] /\ ev' = NoEvent
  BY DEF uip_connect, Outcome
<1>2. e.st = "SYN_SENT" BY DEF IInv, ConnRecs
<1> HIDE DEF e
<1>3. AppPhase(e) = "absent" BY <1>2 DEF AppPhase
<1> QED BY <1>1, <1>3, AppTaken

(***************************************************************************)
(* Segments for a connection.                                              *)
(***************************************************************************)
LEMMA ResetInStep ==
  ASSUME IInv, NEW c \in Conns, NEW seg, ResetIn(c, seg)
  PROVE  App!Next /\ AckedStep
<1> DEFINE e == Closed(uip_conns[c])
<1>1. uip_conns' = [uip_conns EXCEPT ![c] = e] /\ ev' = Call(c, {"ABORT"}, Silent)
  BY DEF ResetIn, Outcome
<1>2. e.rcv_nxt = uip_conns[c].rcv_nxt /\ e.st = "CLOSED" BY ClosedIs DEF IInv
<1> HIDE DEF e
<1>3. App!Move(c, AppPhase(uip_conns[c]), "absent") BY <1>1, <1>2, Moved DEF AppPhase
<1>4. App!Broken(c, "ABORT") BY <1>1, <1>3, CallIs DEF App!Broken, App!Move, Silent
<1> QED BY <1>1, <1>2, <1>4, AckedMoved DEF App!Next, Acked

LEMMA OutOfOrderStep ==
  ASSUME IInv, NEW c \in Conns, NEW seg, OutOfOrder(c, seg)
  PROVE  App!Next /\ AckedStep
<1>1. uip_conns' = [uip_conns EXCEPT ![c] = uip_conns[c]] /\ ev' = NoEvent
  BY DEF OutOfOrder, Outcome
<1> QED BY <1>1, AppStays, AckedMoved DEF Acked

LEMMA SynRcvdInStep ==
  ASSUME IInv, NEW c \in Conns, NEW seg \in InSegs, NEW r \in Replies,
         NEW rto \in RTOS, SynRcvdIn(c, seg, r, rto)
  PROVE  App!Next /\ AckedStep
<1> DEFINE k == uip_conns[c]
           a == AfterAck(k, seg, rto)
           d == Receive(a, seg.len)
           e == [d EXCEPT !.st = "ESTABLISHED"]
           f == {"CONNECTED"} \cup DataEvent(seg.len)
           s == AppSend(e, f, r)
<1>1. k \in ConnRecs /\ k.st = "SYN_RCVD" /\ seg.len \in Nat
  BY DEF IInv, SynRcvdIn, InState, InSegs
<1>2. r \in ReplyRecs /\ r.op \in App!Ops BY RepliesAssumption DEF ReplyRecs, Ops, App!Ops
<1>3. CASE ~Acks(k, seg)
  <2>1. uip_conns' = [uip_conns EXCEPT ![c] = k] /\ ev' = NoEvent
    BY <1>3 DEF SynRcvdIn, Outcome
  <2> QED BY <2>1, AppStays, AckedMoved DEF Acked
<1>4. CASE Acks(k, seg)
  <2>1. /\ uip_conns' = [uip_conns EXCEPT ![c] = s.conn] /\ out' = s.out
        /\ ev' = Call(c, f, r)
    BY <1>4 DEF SynRcvdIn, Outcome
  <2>2. a \in ConnRecs /\ a.rcv_nxt = k.rcv_nxt /\ a.peer = k.peer /\ a.lport = k.lport
    BY <1>1, AfterAckIs
  <2> HIDE DEF a
  <2>3. d \in ConnRecs /\ d.peer = k.peer /\ d.lport = k.lport
        /\ (seg.len = 0 => d.rcv_nxt = k.rcv_nxt)
    BY <1>1, <2>2, ReceiveIs
  <2> HIDE DEF d
  <2>4. e \in ConnRecs /\ e.peer = k.peer /\ e.lport = k.lport /\ e.st = "ESTABLISHED"
        /\ e.rcv_nxt = d.rcv_nxt
    BY <2>3 DEF ConnRecs, States
  <2> HIDE DEF e
  <2>5. f = {"CONNECTED"} \cup DataEvent(seg.len) /\ DataEvent(seg.len) \subseteq {"NEWDATA"}
        /\ (seg.len # 0 => "NEWDATA" \in f)
    BY <1>1 DEF DataEvent
  <2> HIDE DEF f
  <2>6. /\ AppPhase(s.conn) = App!After(r.op) /\ s.conn.rcv_nxt = e.rcv_nxt
        /\ "NEWDATA" \in f => TellsPeer(s.out, e, e)
    BY <1>2, <2>4, AppSendIs
  <2> HIDE DEF s
  <2>7. Acked(k, s.conn, out')
    <3>1. seg.len # 0 => TellsPeer(out', k, s.conn) BY <2>1, <2>4, <2>5, <2>6 DEF TellsPeer
    <3>2. seg.len = 0 => s.conn.rcv_nxt = k.rcv_nxt BY <2>3, <2>4, <2>6
    <3> HIDE DEF k
    <3> QED BY <3>1, <3>2 DEF Acked
  <2>8. App!Move(c, "absent", App!After(r.op)) BY <1>1, <2>1, <2>6, Moved DEF AppPhase
  <2>9. App!Connected(c, r.op, DataEvent(seg.len))
    BY <2>1, <2>5, <2>8, CallIs DEF App!Connected
  <2> QED BY <1>2, <2>1, <2>5, <2>7, <2>9, AckedMoved DEF App!Next
<1> QED BY <1>3, <1>4

LEMMA SynSentInStep ==
  ASSUME IInv, NEW c \in Conns, NEW seg \in InSegs, NEW r \in Replies,
         NEW rto \in RTOS, SynSentIn(c, seg, r, rto)
  PROVE  App!Next /\ AckedStep
<1> DEFINE k == uip_conns[c]
           a == AfterAck(k, seg, rto)
           d == MssOption(a, seg)
           e == [d EXCEPT !.st = "ESTABLISHED", !.rcv_nxt = Plus(seg.seq, 1)]
           f == {"CONNECTED", "NEWDATA"}
           s == AppSend(e, f, r)
           x == Closed(k)
           ok == Acks(k, seg) /\ IsSynAck(seg)
<1>1. k \in ConnRecs /\ k.st = "SYN_SENT" /\ Plus(seg.seq, 1) \in SeqNos
  BY PlusType DEF IInv, SynSentIn, InState, InSegs, SeqNos
<1>2. r \in ReplyRecs /\ r.op \in App!Ops BY RepliesAssumption DEF ReplyRecs, Ops, App!Ops
<1>3. CASE ~ok
  <2>1. uip_conns' = [uip_conns EXCEPT ![c] = x] /\ ev' = Call(c, {"ABORT"}, Silent)
    BY <1>3 DEF SynSentIn, Outcome
  <2>2. x.rcv_nxt = k.rcv_nxt /\ x.st = "CLOSED" BY <1>1, ClosedIs
  <2> HIDE DEF x
  <2>3. App!Move(c, AppPhase(k), "absent") BY <2>1, <2>2, Moved DEF AppPhase
  <2>4. App!Broken(c, "ABORT") BY <2>1, <2>3, CallIs DEF App!Broken, App!Move, Silent
  <2> QED BY <2>1, <2>2, <2>4, AckedMoved DEF App!Next, Acked
<1>4. CASE ok
  <2>1. /\ uip_conns' = [uip_conns EXCEPT ![c] = s.conn] /\ out' = s.out
        /\ ev' = Call(c, f, r)
    BY <1>4 DEF SynSentIn, Outcome
  <2>2. a \in ConnRecs /\ a.peer = k.peer /\ a.lport = k.lport BY <1>1, AfterAckIs
  <2> HIDE DEF a
  <2>3. d \in ConnRecs /\ d.peer = k.peer /\ d.lport = k.lport
    <3>1. PICK m, i \in 0..UIP_TCP_MSS : d = [a EXCEPT !.mss = m, !.initialmss = i]
      BY <2>2, MssOptionType
    <3>2. d \in ConnRecs BY <2>2, MssOptionType
    <3> QED BY <2>2, <3>1, <3>2 DEF ConnRecs
  <2> HIDE DEF d
  <2>4. e \in ConnRecs /\ e.peer = k.peer /\ e.lport = k.lport /\ e.st = "ESTABLISHED"
    <3>1. e \in ConnRecs BY <1>1, <2>3, "ESTABLISHED" \in States, Zenon DEF ConnRecs, States
    <3> QED BY <2>3, <3>1 DEF ConnRecs
  <2> HIDE DEF e
  <2>5. /\ AppPhase(s.conn) = App!After(r.op) /\ s.conn.rcv_nxt = e.rcv_nxt
        /\ TellsPeer(s.out, e, e)
    BY <1>2, <2>4, AppSendIs
  <2> HIDE DEF s
  <2>6. Acked(k, s.conn, out')
    <3>1. TellsPeer(out', k, s.conn) BY <2>1, <2>4, <2>5 DEF TellsPeer
    <3> HIDE DEF k
    <3> QED BY <3>1 DEF Acked
  <2>7. App!Move(c, "absent", App!After(r.op)) BY <1>1, <2>1, <2>5, Moved DEF AppPhase
  <2>8. f = {"CONNECTED"} \cup {"NEWDATA"} OBVIOUS
  <2>9. App!Connected(c, r.op, {"NEWDATA"}) BY <2>1, <2>7, <2>8, CallIs DEF App!Connected
  <2> QED BY <1>2, <2>1, <2>6, <2>9, AckedMoved DEF App!Next
<1> QED BY <1>3, <1>4

LEMMA EstablishedFinStep ==
  ASSUME IInv, NEW c \in Conns, NEW seg \in InSegs, NEW rto \in RTOS,
         EstablishedFin(c, seg, rto)
  PROVE  App!Next /\ AckedStep
<1> DEFINE o == uip_conns[c]
           k == AfterAck(o, seg, rto)
           d == Receive(k, 1 + seg.len)
           g == Enter(d, "LAST_ACK")
           e == [g EXCEPT !.len = 1, !.nrtx = 0]
           f == {"CLOSE"} \cup AckEvent(o, seg) \cup DataEvent(seg.len)
           reply == Segment(e, {"FIN", "ACK"}, 0)
<1>1. o \in ConnRecs /\ o.st = "ESTABLISHED" /\ 1 + seg.len \in Nat
  BY DEF IInv, EstablishedFin, InState, InSegs
<1>2. k \in ConnRecs /\ k.rcv_nxt = o.rcv_nxt /\ k.st = o.st /\ k.peer = o.peer /\ k.lport = o.lport
  BY <1>1, AfterAckIs
<1>3. CASE k.len > 0
  <2>1. uip_conns' = [uip_conns EXCEPT ![c] = k] /\ ev' = NoEvent
    BY <1>3 DEF EstablishedFin, Outcome
  <2> HIDE DEF k
  <2> QED BY <1>2, <2>1, AppStays, AckedMoved DEF AppPhase, Acked
<1>4. CASE ~(k.len > 0)
  <2>1. uip_conns' = [uip_conns EXCEPT ![c] = e] /\ out' = reply /\ ev' = Call(c, f, Silent)
    BY <1>4 DEF EstablishedFin, Outcome
  <2> HIDE DEF k
  <2>2. d \in ConnRecs /\ d.peer = o.peer /\ d.lport = o.lport BY <1>1, <1>2, ReceiveIs
  <2> HIDE DEF d
  <2>3. g \in ConnRecs /\ g.st = "LAST_ACK" /\ g.peer = o.peer /\ g.lport = o.lport
    BY <2>2, EnterType DEF States
  <2> HIDE DEF g
  <2>4. e \in ConnRecs /\ e.st = "LAST_ACK" /\ e.peer = o.peer /\ e.lport = o.lport
    BY <2>3 DEF ConnRecs
  <2> HIDE DEF e
  <2>5. TellsPeer(reply, e, e) BY <2>4, PureAckTells DEF Flags
  <2> HIDE DEF reply
  <2>6. Acked(o, e, out') BY <2>1, <2>4, <2>5 DEF Acked, TellsPeer
  <2>7. f = {"CLOSE"} \cup (AckEvent(o, seg) \cup DataEvent(seg.len))
        /\ AckEvent(o, seg) \cup DataEvent(seg.len) \subseteq {"ACKDATA", "NEWDATA"}
    BY DEF AckEvent, DataEvent
  <2> HIDE DEF f
  <2>8. App!Move(c, "open", "closed") BY <1>1, <2>1, <2>4, Moved DEF AppPhase
  <2>9. App!PeerCloses(c, AckEvent(o, seg) \cup DataEvent(seg.len))
    BY <2>1, <2>7, <2>8, CallIs DEF App!PeerCloses, Silent
  <2> QED BY <2>1, <2>6, <2>7, <2>9, AckedMoved DEF App!Next
<1> QED BY <1>3, <1>4

LEMMA EstablishedInStep ==
  ASSUME IInv, NEW c \in Conns, NEW seg \in InSegs, NEW r \in Replies,
         NEW rto \in RTOS, EstablishedIn(c, seg, r, rto)
  PROVE  App!Next /\ AckedStep
<1> DEFINE k == uip_conns[c]
           n == DataLen(k, seg)
           a == AfterAck(k, seg, rto)
           d == Receive(a, n)
           w == Window(k, seg)
           e == [d EXCEPT !.mss = w]
           f == AckEvent(k, seg) \cup DataEvent(n)
           s == AppSend(e, f, r)
<1>1. k \in ConnRecs /\ k.st = "ESTABLISHED" BY DEF IInv, EstablishedIn, InState
<1>2. r \in ReplyRecs /\ r.op \in App!Ops BY RepliesAssumption DEF ReplyRecs, Ops, App!Ops
<1>3. n \in Nat BY <1>1, DataLenType
<1>4. w \in 0..UIP_TCP_MSS
  BY <1>1, SizesAssumption DEF Window, ConnRecs, InSegs
<1>5. f \subseteq {"ACKDATA", "NEWDATA"} /\ (n # 0 => "NEWDATA" \in f)
  <2> HIDE DEF n
  <2> QED BY <1>3 DEF AckEvent, DataEvent
<1>6. IF f = {} THEN /\ uip_conns' = [uip_conns EXCEPT ![c] = e] /\ ev' = NoEvent
      ELSE /\ uip_conns' = [uip_conns EXCEPT ![c] = s.conn] /\ out' = s.out
           /\ ev' = Call(c, f, r)
  BY DEF EstablishedIn, Outcome
<1>7. a \in ConnRecs /\ a.rcv_nxt = k.rcv_nxt /\ a.peer = k.peer /\ a.lport = k.lport
      /\ a.st = k.st
  BY <1>1, AfterAckIs
<1> HIDE DEF a, n, w
<1>8. d \in ConnRecs /\ d.peer = k.peer /\ d.lport = k.lport /\ d.st = k.st
      /\ (n = 0 => d.rcv_nxt = k.rcv_nxt)
  BY <1>3, <1>7, ReceiveIs
<1> HIDE DEF d
<1>9. e \in ConnRecs /\ e.peer = k.peer /\ e.lport = k.lport /\ e.st = "ESTABLISHED"
      /\ e.rcv_nxt = d.rcv_nxt
  BY <1>1, <1>4, <1>8 DEF ConnRecs
<1> HIDE DEF e, f
<1>10. CASE f = {}
  <2>1. uip_conns' = [uip_conns EXCEPT ![c] = e] /\ ev' = NoEvent BY <1>6, <1>10
  <2>2. e.rcv_nxt = k.rcv_nxt BY <1>5, <1>8, <1>9, <1>10
  <2> QED BY <1>1, <1>9, <2>1, <2>2, AppStays, AckedMoved DEF AppPhase, Acked
<1>11. CASE f # {}
  <2>1. /\ uip_conns' = [uip_conns EXCEPT ![c] = s.conn] /\ out' = s.out
        /\ ev' = Call(c, f, r)
    BY <1>6, <1>11
  <2>2. /\ AppPhase(s.conn) = App!After(r.op) /\ s.conn.rcv_nxt = e.rcv_nxt
        /\ "NEWDATA" \in f => TellsPeer(s.out, e, e)
    BY <1>2, <1>9, AppSendIs
  <2> HIDE DEF s
  <2>3. Acked(k, s.conn, out')
    <3>1. n # 0 => TellsPeer(out', k, s.conn) BY <1>5, <1>9, <2>1, <2>2 DEF TellsPeer
    <3>2. n = 0 => s.conn.rcv_nxt = k.rcv_nxt BY <1>8, <1>9, <2>2
    <3> HIDE DEF k
    <3> QED BY <3>1, <3>2 DEF Acked
  <2>4. App!Move(c, "open", App!After(r.op)) BY <1>1, <2>1, <2>2, Moved DEF AppPhase
  <2>5. App!Served(c, r.op, f) BY <1>5, <1>11, <2>1, <2>4, CallIs DEF App!Served
  <2> QED BY <1>2, <1>5, <2>1, <2>3, <2>5, AckedMoved DEF App!Next
<1> QED BY <1>10, <1>11

LEMMA LastAckInStep ==
  ASSUME IInv, NEW c \in Conns, NEW seg \in InSegs, LastAckIn(c, seg)
  PROVE  App!Next /\ AckedStep
<1> DEFINE k == uip_conns[c]
           e == Closed(k)
<1>1. k \in ConnRecs /\ k.st = "LAST_ACK" BY DEF IInv, LastAckIn, InState
<1>2. CASE Acks(k, seg)
  <2>1. uip_conns' = [uip_conns EXCEPT ![c] = e] /\ ev' = Call(c, {"CLOSE"}, Silent)
    BY <1>2 DEF LastAckIn, Outcome
  <2>2. e.rcv_nxt = k.rcv_nxt /\ e.st = "CLOSED" BY <1>1, ClosedIs
  <2> HIDE DEF e
  <2>3. App!Move(c, "closed", "absent") BY <1>1, <2>1, <2>2, Moved DEF AppPhase
  <2>4. App!ClosedAgain(c) BY <2>1, <2>3, CallIs DEF App!ClosedAgain, Silent
  <2> QED BY <2>1, <2>2, <2>4, AckedMoved DEF App!Next, Acked
<1>3. CASE ~Acks(k, seg)
  <2>1. uip_conns' = [uip_conns EXCEPT ![c] = k] /\ ev' = NoEvent
    BY <1>3 DEF LastAckIn, Outcome
  <2> QED BY <2>1, AppStays, AckedMoved DEF Acked
<1> QED BY <1>2, <1>3

LEMMA FinWait1InStep ==
  ASSUME IInv, NEW c \in Conns, NEW seg \in InSegs, NEW rto \in RTOS,
         FinWait1In(c, seg, rto)
  PROVE  App!Next /\ AckedStep
<1> DEFINE o    == uip_conns[c]
           a    == AfterAck(o, seg, rto)
           k    == Receive(a, seg.len)
           kf   == Receive(k, 1)
           fin  == "FIN" \in seg.flags
           ackd == Acks(o, seg)
           t    == Enter(kf, "TIME_WAIT")
           e == CASE fin /\ ackd  -> [t EXCEPT !.timer = 0]
                  [] fin /\ ~ackd -> Enter(kf, "CLOSING")
                  [] ~fin /\ ackd -> Enter(k, "FIN_WAIT_2")
                  [] OTHER        -> k
           reply == IF fin \/ (seg.len > 0 /\ ~ackd) THEN PureAck(e) ELSE NoSeg
<1>1. o \in ConnRecs /\ o.st = "FIN_WAIT_1" /\ seg.len \in Nat
  BY DEF IInv, FinWait1In, InState, InSegs
<1>2. /\ uip_conns' = [uip_conns EXCEPT ![c] = e] /\ out' = reply
      /\ ev' = IF fin THEN Call(c, {"CLOSE"}, Silent) ELSE NoEvent
  BY DEF FinWait1In, Outcome
<1>3. a \in ConnRecs /\ a.rcv_nxt = o.rcv_nxt /\ a.st = o.st /\ a.peer = o.peer /\ a.lport = o.lport
  BY <1>1, AfterAckIs
<1> HIDE DEF a
<1>4. k \in ConnRecs /\ k.st = o.st /\ k.peer = o.peer /\ k.lport = o.lport
      /\ (seg.len = 0 => k.rcv_nxt = o.rcv_nxt)
  BY <1>1, <1>3, ReceiveIs
<1> HIDE DEF k
<1>5. kf \in ConnRecs /\ kf.peer = o.peer /\ kf.lport = o.lport BY <1>4, ReceiveIs
<1> HIDE DEF kf
<1>6. t \in ConnRecs /\ t.st = "TIME_WAIT" /\ t.peer = o.peer /\ t.lport = o.lport
  BY <1>5, EnterType DEF States
<1> HIDE DEF t
<1>7. CASE fin
  <2>1. e \in ConnRecs /\ e.st \in {"TIME_WAIT", "CLOSING"} /\ e.peer = o.peer /\ e.lport = o.lport
    <3>1. CASE ackd
      <4>1. e = [t EXCEPT !.timer = 0] BY <1>7, <3>1
      <4> HIDE DEF e
      <4> QED BY <1>6, <4>1 DEF ConnRecs, U8
    <3>2. CASE ~ackd
      <4>1. e = Enter(kf, "CLOSING") BY <1>7, <3>2
      <4> HIDE DEF e
      <4> QED BY <1>5, <4>1, EnterType DEF States
    <3> QED BY <3>1, <3>2
  <2>2. out' = PureAck(e) /\ ev' = Call(c, {"CLOSE"}, Silent) BY <1>2, <1>7
  <2> HIDE DEF e
  <2>3. TellsPeer(PureAck(e), e, e)
    <3>1. {"ACK"} \in SUBSET Flags /\ "ACK" \in {"ACK"} BY DEF Flags
    <3> QED BY <2>1, <3>1, PureAckTells DEF PureAck
  <2>4. Acked(o, e, out') BY <2>1, <2>2, <2>3 DEF Acked, TellsPeer
  <2>5. App!Move(c, "left", "over") BY <1>1, <1>2, <2>1, Moved DEF AppPhase
  <2>6. App!PeerFollows(c) BY <2>2, <2>5, CallIs DEF App!PeerFollows, Silent
  <2> QED BY <1>2, <2>4, <2>6, AckedMoved DEF App!Next
<1>8. CASE ~fin /\ ackd
  <2>1. e = Enter(k, "FIN_WAIT_2") /\ ev' = NoEvent BY <1>2, <1>8
  <2>2. e.st = "FIN_WAIT_2"
    <3>1. "FIN_WAIT_2" \in States BY DEF States
    <3> QED BY <1>4, <2>1, <3>1, EnterIs
  <2> HIDE DEF e
  <2>3. Acked(o, e, out') BY <1>1, <2>2 DEF Acked
  <2> QED BY <1>1, <1>2, <2>1, <2>2, <2>3, AppStays, AckedMoved DEF AppPhase
<1>9. CASE ~fin /\ ~ackd
  <2>1. e = k /\ ev' = NoEvent BY <1>2, <1>9
  <2>2. seg.len > 0 => out' = PureAck(k) BY <1>2, <1>9, <2>1
  <2> HIDE DEF e
  <2>3. TellsPeer(PureAck(k), k, k) BY <1>4, PureAckTells DEF PureAck, Flags
  <2>4. Acked(o, k, out') BY <1>1, <1>4, <2>2, <2>3 DEF Acked, TellsPeer
  <2> QED BY <1>2, <1>4, <2>1, <2>4, AppStays, AckedMoved DEF AppPhase
<1> QED BY <1>7, <1>8, <1>9

LEMMA FinWait2InStep ==
  ASSUME IInv, NEW c \in Conns, NEW seg \in InSegs, FinWait2In(c, seg)
  PROVE  App!Next /\ AckedStep
<1> DEFINE o    == uip_conns[c]
           k    == Receive(o, seg.len)
           kf   == Receive(k, 1)
           t    == Enter(kf, "TIME_WAIT")
           fin  == "FIN" \in seg.flags
           e    == IF fin THEN [t EXCEPT !.timer = 0] ELSE k
<1>1. o \in ConnRecs /\ o.st = "FIN_WAIT_2" /\ seg.len \in Nat
  BY DEF IInv, FinWait2In, InState, InSegs
<1>2. /\ uip_conns' = [uip_conns EXCEPT ![c] = e]
      /\ out' = IF fin \/ seg.len > 0 THEN PureAck(e) ELSE NoSeg
      /\ ev' = IF fin THEN Call(c, {"CLOSE"}, Silent) ELSE NoEvent
  BY DEF FinWait2In, Outcome
<1>3. k \in ConnRecs /\ k.st = o.st /\ k.peer = o.peer /\ k.lport = o.lport
      /\ (seg.len = 0 => k.rcv_nxt = o.rcv_nxt)
  BY <1>1, ReceiveIs
<1> HIDE DEF k
<1>4. kf \in ConnRecs /\ kf.peer = o.peer /\ kf.lport = o.lport BY <1>3, ReceiveIs
<1> HIDE DEF kf
<1>5. t \in ConnRecs /\ t.st = "TIME_WAIT" /\ t.peer = o.peer /\ t.lport = o.lport
  BY <1>4, EnterType DEF States
<1> HIDE DEF t
<1>6. CASE fin
  <2>1. e = [t EXCEPT !.timer = 0] /\ out' = PureAck(e) /\ ev' = Call(c, {"CLOSE"}, Silent)
    BY <1>2, <1>6
  <2> HIDE DEF e
  <2>2. e \in ConnRecs /\ e.st = "TIME_WAIT" /\ e.peer = o.peer /\ e.lport = o.lport
    BY <1>5, <2>1 DEF ConnRecs, U8
  <2>3. TellsPeer(PureAck(e), e, e) BY <2>2, PureAckTells DEF PureAck, Flags
  <2>4. Acked(o, e, out') BY <2>1, <2>2, <2>3 DEF Acked, TellsPeer
  <2>5. App!Move(c, "left", "over") BY <1>1, <1>2, <2>2, Moved DEF AppPhase
  <2>6. App!PeerFollows(c) BY <2>1, <2>5, CallIs DEF App!PeerFollows, Silent
  <2> QED BY <1>2, <2>4, <2>6, AckedMoved DEF App!Next
<1>7. CASE ~fin
  <2>1. e = k /\ ev' = NoEvent /\ (seg.len > 0 => out' = PureAck(e)) BY <1>2, <1>7
  <2> HIDE DEF e
  <2>2. TellsPeer(PureAck(k), k, k) BY <1>3, PureAckTells DEF PureAck, Flags
  <2>3. Acked(o, k, out') BY <1>1, <1>3, <2>1, <2>2 DEF Acked, TellsPeer
  <2> QED BY <1>2, <1>3, <2>1, <2>3, AppStays, AckedMoved DEF AppPhase
<1> QED BY <1>6, <1>7

LEMMA TimeWaitInStep ==
  ASSUME IInv, NEW c \in Conns, NEW seg, TimeWaitIn(c, seg)
  PROVE  App!Next /\ AckedStep
<1>1. uip_conns' = [uip_conns EXCEPT ![c] = uip_conns[c]] /\ ev' = NoEvent
  BY DEF TimeWaitIn, Outcome
<1> QED BY <1>1, AppStays, AckedMoved DEF Acked

LEMMA ClosingInStep ==
  ASSUME IInv, NEW c \in Conns, NEW seg \in InSegs, NEW rto \in RTOS,
         ClosingIn(c, seg, rto)
  PROVE  App!Next /\ AckedStep
<1> DEFINE k == uip_conns[c]
           a == AfterAck(k, seg, rto)
           t == Enter(a, "TIME_WAIT")
           e == IF Acks(k, seg) THEN [t EXCEPT !.timer = 0] ELSE k
<1>1. k \in ConnRecs /\ k.st = "CLOSING" BY DEF IInv, ClosingIn, InState
<1>2. uip_conns' = [uip_conns EXCEPT ![c] = e] /\ ev' = NoEvent BY DEF ClosingIn, Outcome
<1>3. a \in ConnRecs /\ a.rcv_nxt = k.rcv_nxt BY <1>1, AfterAckIs
<1> HIDE DEF a
<1>4. t \in ConnRecs /\ t.st = "TIME_WAIT" /\ t.rcv_nxt = k.rcv_nxt
  BY <1>3, EnterType, EnterIs DEF States
<1> HIDE DEF t
<1>5. e.rcv_nxt = k.rcv_nxt /\ e.st \in {"CLOSING", "TIME_WAIT"}
  BY <1>1, <1>4 DEF ConnRecs
<1> HIDE DEF e
<1> QED BY <1>1, <1>2, <1>5, AppStays, AckedMoved DEF AppPhase, Acked

(***************************************************************************)
(* Every step.                                                             *)
(***************************************************************************)
LEMMA PeriodicStep ==
  ASSUME IInv, NEW c \in Conns, Periodic(c)
  PROVE  App!Next /\ AckedStep
BY LingerStep, CountDownStep, TimeOutStep, PeriodicIdleStep, RetransmitStep, PollAppStep
   DEF Periodic, PeriodicPoll

LEMMA ForConnectionStep ==
  ASSUME IInv, NEW c \in Conns, NEW seg \in InSegs, ForConnection(c, seg)
  PROVE  App!Next /\ AckedStep
BY ResetInStep, OutOfOrderStep, LastAckInStep, FinWait2InStep, TimeWaitInStep,
   EstablishedFinStep, FinWait1InStep, ClosingInStep, SynRcvdInStep, SynSentInStep,
   EstablishedInStep
   DEF ForConnection

LEMMA InputStep ==
  ASSUME IInv, NEW seg \in InSegs, Input(seg)
  PROVE  App!Next /\ AckedStep
<1>1. CASE Refuse(seg) BY <1>1, Untouched DEF Refuse
<1>2. CASE NoneAvailable(seg) BY <1>2, Untouched DEF NoneAvailable, Dropped
<1> QED BY <1>1, <1>2, AcceptStep, ForConnectionStep DEF Input

LEMMA NextStep ==
  ASSUME IInv, Next
  PROVE  App!Next /\ AckedStep
<1>1. ASSUME NEW c \in Conns, Periodic(c) PROVE App!Next /\ AckedStep BY <1>1, PeriodicStep
<1>2. ASSUME NEW c \in Conns, PollRequest(c) PROVE App!Next /\ AckedStep
  BY <1>2, PollAppStep DEF PollRequest
<1>3. ASSUME NEW seg \in Arriving, Input(seg) PROVE App!Next /\ AckedStep
  <2>1. seg \in InSegs BY ArrivingAssumption
  <2> QED BY <1>3, <2>1, InputStep
<1>4. ASSUME NEW port \in Ports, uip_listen(port) \/ uip_unlisten(port)
      PROVE  App!Next /\ AckedStep
  BY <1>4, Untouched DEF uip_listen, uip_unlisten, SetPort
<1>5. ASSUME NEW c \in Conns, NEW peer \in Peers, NEW port \in Ports, uip_connect(c, peer, port)
      PROVE  App!Next /\ AckedStep
  BY <1>5, ConnectStep
<1> QED BY <1>1, <1>2, <1>3, <1>4, <1>5 DEF Next

(* UipTcp implements UipApp: the application is told that a connection is  *)
(* there before anything else of it, of data and polls only while it is    *)
(* open, of the peer's close once the peer has closed, and of an abort or  *)
(* a time-out as the last of it.                                           *)
THEOREM ImplementsUipApp == Spec => AppContract
<1>1. Init => App!Init
  BY DEF Init, App!Init, Unused, AppPhase, NoEvent, App!NoEvent
<1>2. IInv /\ [Next]_vars => [App!Next]_<<[c \in Conns |-> AppPhase(uip_conns[c])], ev>>
  <2>1. IInv /\ Next => App!Next BY NextStep
  <2>2. UNCHANGED vars => UNCHANGED <<[c \in Conns |-> AppPhase(uip_conns[c])], ev>> BY DEF vars
  <2> QED BY <2>1, <2>2
<1> QED BY <1>1, <1>2, Invariance, PTL DEF Spec, AppContract, App!Spec

(* What a step takes from the peer it acknowledges in the same step.       *)
THEOREM StepsAcknowledge == Spec => AcceptedIsAcked
<1>1. IInv /\ [Next]_vars =>
        [\A c \in Conns :
           LET k == uip_conns[c]
               e == uip_conns'[c]
           IN e.rcv_nxt # k.rcv_nxt /\ k.st \notin {"CLOSED", "TIME_WAIT"}
                => \/ /\ out' # NoSeg
                      /\ "ACK" \in out'.flags
                      /\ out'.ack = e.rcv_nxt
                      /\ <<out'.peer, out'.lport>> = <<k.peer, k.lport>>
                   \/ k.st = "FIN_WAIT_1" /\ e.st = "FIN_WAIT_2"]_vars
  BY NextStep DEF AckedStep, Acked, TellsPeer
<1> QED BY <1>1, Invariance, PTL DEF Spec, AcceptedIsAcked
=============================================================================
