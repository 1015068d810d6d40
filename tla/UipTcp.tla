------------------------------- MODULE UipTcp -------------------------------
(***************************************************************************)
(* The TCP half of uip_process() (src/plc-sw/uip/uip.c): the table         *)
(* uip_conns[], the listening ports, the retransmission machinery and the  *)
(* calls to the application, for any number of peers that send any         *)
(* segments.                                                               *)
(*                                                                         *)
(* One invocation of uip_process() is one step: the firmware is a single   *)
(* loop and nothing interrupts the stack.  A step leaves in `out' the      *)
(* segment the caller will hand to the driver and in `ev' the call made to *)
(* the application (UIP_APPCALL) with what the application did in it.      *)
(* The application is arbitrary: each call may send, close, abort, stop or *)
(* restart the flow of data.                                               *)
(*                                                                         *)
(* Abstractions: a byte is counted, never looked at; sequence numbers are  *)
(* taken modulo SeqMod (2^32); a remote address and port are one Peer; the *)
(* value the RTT estimator gives to rto is any member of RTOS.             *)
(*                                                                         *)
(* A definition whose name ends in an underscore and a word (Enter_sticky) *)
(* is a slip that the definition after it could have been: the properties  *)
(* are shown to notice it.                                                 *)
(***************************************************************************)
EXTENDS Integers, FiniteSets

CONSTANTS
  UIP_CONNS,              \* size of the connection table
  UIP_LISTENPORTS,        \* size of the table of listening ports
  UIP_RTO,                \* initial retransmission time-out, in ticks
  UIP_MAXRTX,             \* retransmissions before a connection is dropped
  UIP_MAXSYNRTX,          \* the same for a SYN or a SYNACK
  UIP_TIME_WAIT_TIMEOUT,  \* ticks spent in TIME_WAIT
  UIP_TCP_MSS,            \* the largest segment the packet buffer holds
  SeqMod,                 \* sequence numbers are counted modulo SeqMod
  RTOS,                   \* values the RTT estimator may produce
  Peers,                  \* remote <<address, port>> pairs
  Ports,                  \* local ports
  NoPort,                 \* the 0 of an unused entry of uip_listenports
  Arriving,               \* segments that may arrive from the network
  Replies                 \* what the application may do in a call

(* The ranges of u8_t and u16_t.                                           *)
U8 == 256
U16 == 65536

ASSUME SizesAssumption ==
  /\ UIP_CONNS \in Nat \ {0}
  /\ UIP_LISTENPORTS \in Nat \ {0}
  /\ UIP_RTO \in 1..(U8 - 1)
  /\ 16 * UIP_RTO < U8
  /\ UIP_MAXRTX \in Nat \ {0}
  /\ UIP_MAXSYNRTX \in 0..UIP_MAXRTX
  /\ UIP_TIME_WAIT_TIMEOUT \in 1..(U8 - 1)
  /\ UIP_TCP_MSS \in Nat \ {0}
  /\ SeqMod \in Nat \ {0}
  /\ RTOS \subseteq 0..(U8 - 1)
  /\ NoPort \notin Ports

Conns == 0..(UIP_CONNS - 1)
SeqNos == 0..(SeqMod - 1)
Flags == {"SYN", "ACK", "FIN", "RST", "URG"}
States == {"CLOSED", "SYN_RCVD", "SYN_SENT", "ESTABLISHED", "FIN_WAIT_1",
            "FIN_WAIT_2", "CLOSING", "TIME_WAIT", "LAST_ACK"}
Events == {"ACKDATA", "NEWDATA", "REXMIT", "POLL", "CLOSE", "ABORT",
            "CONNECTED", "TIMEDOUT"}

(* A segment that arrives.  wnd is the advertised window, mss the MSS      *)
(* option (0: the option is absent), urg the urgent pointer.               *)
InSegs ==
  [peer : Peers, lport : Ports, flags : SUBSET Flags, seq : SeqNos,
   ack : SeqNos, len : Nat, urg : Nat, wnd : Nat, mss : Nat]

ASSUME ArrivingAssumption == Arriving \subseteq InSegs

(* A segment that leaves; open tells whether it advertises a window.       *)
OutSegs ==
  [peer : Peers, lport : Ports, flags : SUBSET Flags, seq : SeqNos,
   ack : SeqNos, len : Nat, open : BOOLEAN]

NoSeg == [flags |-> {}]

(* What the application does when it is called: an operation and the       *)
(* length it passes to uip_send (0: it sends nothing).                     *)
Ops == {"none", "close", "abort", "stop", "restart"}
ReplyRecs == [op : Ops, slen : Nat]
Silent == [op |-> "none", slen |-> 0]

ASSUME RepliesAssumption == Replies \subseteq ReplyRecs /\ Silent \in Replies

NoEvent == [conn |-> -1, flags |-> {}, op |-> "none"]
Call(c, flags, r) == [conn |-> c, flags |-> flags, op |-> r.op]

VARIABLES
  uip_conns,    \* the connection table
  uip_listenports,
  iss,          \* the initial sequence number of the next connection
  out,          \* the segment the last step produced
  ev,           \* the application call the last step made
  resent        \* history: the outstanding segment was sent more than once

vars == <<uip_conns, uip_listenports, iss, out, ev, resent>>

ConnRecs ==
  [st : States, stopped : BOOLEAN, lport : Ports \cup {NoPort},
   peer : Peers \cup {NoPort}, snd_nxt : SeqNos, rcv_nxt : SeqNos,
   len : Nat, mss : 0..UIP_TCP_MSS, initialmss : 0..UIP_TCP_MSS,
   rto : 0..(U8 - 1), timer : 0..(U8 - 1), nrtx : Nat]

Unused ==
  [st |-> "CLOSED", stopped |-> FALSE, lport |-> NoPort, peer |-> NoPort,
   snd_nxt |-> 0, rcv_nxt |-> 0, len |-> 0, mss |-> 0, initialmss |-> 0,
   rto |-> 0, timer |-> 0, nrtx |-> 0]

TypeOK ==
  /\ uip_conns \in [Conns -> ConnRecs]
  /\ uip_listenports \in [0..(UIP_LISTENPORTS - 1) -> Ports \cup {NoPort}]
  /\ iss \in SeqNos
  /\ out \in OutSegs \cup {NoSeg}
  /\ ev \in [conn : Conns \cup {-1}, flags : SUBSET Events,
             op : Ops]
  /\ resent \in [Conns -> BOOLEAN]

Init ==
  /\ uip_conns = [c \in Conns |-> Unused]
  /\ uip_listenports = [i \in 0..(UIP_LISTENPORTS - 1) |-> NoPort]
  /\ iss = 0
  /\ out = NoSeg
  /\ ev = NoEvent
  /\ resent = [c \in Conns |-> FALSE]

(***************************************************************************)
(* Building blocks                                                         *)
(***************************************************************************)
Least(a, b) == IF a < b THEN a ELSE b
Plus(s, n) == (s + n) % SeqMod

(* tcp_send: a segment of connection k; ack and seq come from the record.  *)
Segment(k, flags, n) ==
  [peer |-> k.peer, lport |-> k.lport, flags |-> flags, seq |-> k.snd_nxt,
   ack |-> k.rcv_nxt, len |-> n, open |-> ~k.stopped]

Enter_sticky(k, st) == [k EXCEPT !.st = st]

(* Assigning tcpstateflags drops the UIP_STOPPED bit with the old state.   *)
Enter(k, st) == [k EXCEPT !.st = st, !.stopped = FALSE]

(* Of a CLOSED entry only these fields are read again: found_listen keeps  *)
(* mss and initialmss, uip_connect keeps rcv_nxt.  The rest is forgotten.  *)
Closed(k) == [Unused EXCEPT !.rcv_nxt = k.rcv_nxt, !.mss = k.mss,
                            !.initialmss = k.initialmss]

(* UIP_RTO << (nrtx > 4 ? 4 : nrtx), kept in a u8_t.                       *)
Backoff(nrtx) == UIP_RTO * <<1, 2, 4, 8, 16>>[1 + Least(nrtx, 4)]

(* appsend: what uip_process does with the answer r of an application that *)
(* was called with `flags' (uip_close and uip_abort overwrite uip_flags,   *)
(* uip_restart adds UIP_NEWDATA to it).                                    *)
Flow(k, r) ==
  [k EXCEPT !.stopped = (@ \/ r.op = "stop") /\ r.op # "restart"]

SendLen(k, flags, r) ==
  IF r.slen = 0 THEN 0
  ELSE IF "ACKDATA" \in flags \/ k.len = 0 THEN Least(r.slen, k.mss)
  ELSE k.len

Answer_silent(k, n, flags, r) ==
  IF n > 0 /\ k.len > 0 THEN Segment(k, {"ACK"}, k.len) ELSE NoSeg

(* apprexmit: data if there is some to send, else an ACK for new data.     *)
Answer(k, n, flags, r) ==
  IF n > 0 /\ k.len > 0 THEN Segment(k, {"ACK"}, k.len)
  ELSE IF "NEWDATA" \in flags \/ r.op = "restart" THEN Segment(k, {"ACK"}, 0)
  ELSE NoSeg

AppSend(k, flags, r) ==
  LET n  == SendLen(k, flags, r)
      kk == [Flow(k, r) EXCEPT
               !.len  = IF r.slen = 0 THEN @ ELSE n,
               !.nrtx = 0]
      ab == Enter(k, "CLOSED")
      fn == [Enter(k, "FIN_WAIT_1") EXCEPT !.len = 1, !.nrtx = 0]
  IN CASE r.op = "abort" -> [conn |-> Closed(k),
                             out  |-> Segment(ab, {"RST", "ACK"}, 0)]
       [] r.op = "close" -> [conn |-> fn,
                             out  |-> Segment(fn, {"FIN", "ACK"}, 0)]
       [] OTHER          -> [conn |-> kk, out |-> Answer(kk, n, flags, r)]

(* The outcome of a step on connection c: the record, the reply segment,   *)
(* the application call.  A segment stays marked as resent until another   *)
(* one takes its place.                                                    *)
Outcome(c, k, seg, event) ==
  /\ uip_conns' = [uip_conns EXCEPT ![c] = k]
  /\ out' = seg
  /\ ev' = event
  /\ resent' = [resent EXCEPT
        ![c] = @ /\ k.len > 0 /\ k.snd_nxt = uip_conns[c].snd_nxt
                 /\ k.st \in {uip_conns[c].st, "CLOSING"}]
  /\ UNCHANGED uip_listenports

(* A packet is dropped: nothing changes but the output of the last step.   *)
Dropped ==
  /\ out' = NoSeg
  /\ ev' = NoEvent
  /\ UNCHANGED <<uip_conns, uip_listenports, iss, resent>>

(***************************************************************************)
(* The periodic timer: uip_periodic(c), that is uip_process(UIP_TIMER).    *)
(***************************************************************************)
Tick == iss' = Plus(iss, 1)

(* TIME_WAIT and FIN_WAIT_2 only wait; the application is not told.        *)
Linger(c) ==
  LET k == uip_conns[c]
      t == (k.timer + 1) % U8
  IN /\ k.st \in {"TIME_WAIT", "FIN_WAIT_2"}
     /\ Tick
     /\ Outcome(c, IF t = UIP_TIME_WAIT_TIMEOUT
                   THEN Closed(k)
                   ELSE [k EXCEPT !.timer = t],
                NoSeg, NoEvent)

Waiting(k) == /\ k.st \notin {"CLOSED", "TIME_WAIT", "FIN_WAIT_2"}
              /\ k.len > 0

CountDown_first(c) ==
  LET k == uip_conns[c]
  IN /\ Waiting(k)
     /\ Tick
     /\ Outcome(c, [k EXCEPT !.timer = @ - 1], NoSeg, NoEvent)

CountDown(c) ==
  LET k == uip_conns[c]
  IN /\ Waiting(k) /\ k.timer > 0
     /\ Tick
     /\ Outcome(c, [k EXCEPT !.timer = @ - 1], NoSeg, NoEvent)

GaveUp_data(k) == k.nrtx = UIP_MAXRTX

GaveUp(k) ==
  \/ k.nrtx = UIP_MAXRTX
  \/ k.st \in {"SYN_SENT", "SYN_RCVD"} /\ k.nrtx = UIP_MAXSYNRTX

TimeOut(c) ==
  LET k == uip_conns[c]
  IN /\ Waiting(k) /\ k.timer = 0 /\ GaveUp(k)
     /\ Tick
     /\ Outcome(c, Closed(k), Segment(Enter(k, "CLOSED"), {"RST", "ACK"}, 0),
                Call(c, {"TIMEDOUT"}, Silent))

(* The reply to a UIP_REXMIT call goes to apprexmit, past the tests for    *)
(* uip_close and uip_abort: only the data and uip_restart count.           *)
Resend(k, r) ==
  CASE k.st = "SYN_RCVD"    -> Segment(k, {"SYN", "ACK"}, 0)
    [] k.st = "SYN_SENT"    -> Segment(k, {"SYN"}, 0)
    [] k.st = "ESTABLISHED" -> Answer(k, r.slen, {}, r)
    [] OTHER                -> Segment(k, {"FIN", "ACK"}, 0)

Retransmit_uncounted(c, r) ==
  LET k == uip_conns[c]
      b == [k EXCEPT !.timer = Backoff(k.nrtx)]
      e == IF k.st = "ESTABLISHED" THEN Flow(b, r) ELSE b
  IN /\ Waiting(k) /\ k.timer = 0 /\ ~GaveUp(k)
     /\ Tick
     /\ Outcome(c, e, Resend(e, r),
                IF k.st = "ESTABLISHED" THEN Call(c, {"REXMIT"}, r) ELSE NoEvent)

Retransmit(c, r) ==
  LET k == uip_conns[c]
      b == [k EXCEPT !.timer = Backoff(k.nrtx), !.nrtx = @ + 1]
      e == IF k.st = "ESTABLISHED" THEN Flow(b, r) ELSE b
  IN /\ Waiting(k) /\ k.timer = 0 /\ ~GaveUp(k)
     /\ Tick
     /\ uip_conns' = [uip_conns EXCEPT ![c] = e]
     /\ out' = Resend(e, r)
     /\ ev' = IF k.st = "ESTABLISHED" THEN Call(c, {"REXMIT"}, r) ELSE NoEvent
     /\ resent' = [resent EXCEPT ![c] = @ \/ out' # NoSeg]
     /\ UNCHANGED uip_listenports

Pollable(k) == k.st = "ESTABLISHED" /\ k.len = 0

PollApp(c, r) ==
  LET s == AppSend(uip_conns[c], {"POLL"}, r)
  IN /\ Pollable(uip_conns[c])
     /\ Outcome(c, s.conn, s.out, Call(c, {"POLL"}, r))

PeriodicPoll(c, r) == Tick /\ PollApp(c, r)

PeriodicIdle(c) ==
  LET k == uip_conns[c]
  IN /\ k.st \notin {"ESTABLISHED", "TIME_WAIT", "FIN_WAIT_2"}
     /\ ~Waiting(k)
     /\ Tick
     /\ Outcome(c, k, NoSeg, NoEvent)

Periodic(c) ==
  \/ Linger(c)
  \/ CountDown(c)
  \/ TimeOut(c)
  \/ PeriodicIdle(c)
  \/ \E r \in Replies : Retransmit(c, r) \/ PeriodicPoll(c, r)

(* uip_poll_conn(c): uip_process(UIP_POLL_REQUEST).                        *)
PollRequest(c) == (\E r \in Replies : PollApp(c, r)) /\ UNCHANGED iss

(***************************************************************************)
(* Input: demultiplexing, listening, and segments for no connection.       *)
(***************************************************************************)
Matches_live(c, seg) ==
  /\ uip_conns[c].st \notin {"CLOSED", "TIME_WAIT"}
  /\ uip_conns[c].peer = seg.peer
  /\ uip_conns[c].lport = seg.lport

Matches(c, seg) ==
  /\ uip_conns[c].st # "CLOSED"
  /\ uip_conns[c].peer = seg.peer
  /\ uip_conns[c].lport = seg.lport

NoMatch(seg) == \A c \in Conns : ~Matches(c, seg)

(* The scan of uip_conns[] stops at the first match.                       *)
Found(c, seg) ==
  Matches(c, seg) /\ \A d \in Conns : Matches(d, seg) => c <= d

Listening(port) ==
  \E i \in DOMAIN uip_listenports : uip_listenports[i] = port

IsConnect(seg) == seg.flags = {"SYN"} /\ Listening(seg.lport)

(* The first CLOSED entry, else the TIME_WAIT entry with the largest timer *)
(* (the first of them).                                                    *)
Available(c) ==
  LET closed == {d \in Conns : uip_conns[d].st = "CLOSED"}
      timeWait == {d \in Conns : uip_conns[d].st = "TIME_WAIT"}
  IN \/ c \in closed /\ \A d \in closed : c <= d
     \/ /\ closed = {}
        /\ c \in timeWait
        /\ \A d \in timeWait :
             \/ uip_conns[d].timer < uip_conns[c].timer
             \/ uip_conns[d].timer = uip_conns[c].timer /\ c <= d

(* The reset label: a RST for anything but a RST.  Its window field is not *)
(* written; nobody reads the window of a RST.                              *)
ResetReply(seg) ==
  IF "RST" \in seg.flags THEN NoSeg
  ELSE [peer |-> seg.peer, lport |-> seg.lport, flags |-> {"RST", "ACK"},
        seq |-> seg.ack, ack |-> Plus(seg.seq, 1), len |-> 0, open |-> TRUE]

Refuse(seg) ==
  /\ NoMatch(seg)
  /\ ~IsConnect(seg)
  /\ out' = ResetReply(seg)
  /\ ev' = NoEvent
  /\ UNCHANGED <<uip_conns, uip_listenports, iss, resent>>

MssOption(k, seg) ==
  IF seg.mss = 0 THEN k
  ELSE [k EXCEPT !.mss        = Least(seg.mss, UIP_TCP_MSS),
                 !.initialmss = Least(seg.mss, UIP_TCP_MSS)]

(* found_listen: the entry keeps the mss of its last user when the SYN     *)
(* carries no MSS option.                                                  *)
Accept(c, seg) ==
  LET k == MssOption(
             [uip_conns[c] EXCEPT
                !.st = "SYN_RCVD", !.stopped = FALSE, !.lport = seg.lport,
                !.peer = seg.peer, !.snd_nxt = iss, !.len = 1,
                !.rcv_nxt = Plus(seg.seq, 1), !.rto = UIP_RTO,
                !.timer = UIP_RTO, !.nrtx = 0],
             seg)
  IN /\ NoMatch(seg)
     /\ IsConnect(seg)
     /\ Available(c)
     /\ Outcome(c, k, Segment(k, {"SYN", "ACK"}, 0), NoEvent)
     /\ UNCHANGED iss

NoneAvailable(seg) ==
  /\ NoMatch(seg)
  /\ IsConnect(seg)
  /\ \A c \in Conns : ~Available(c)
  /\ Dropped

(***************************************************************************)
(* Input: segments for a connection (the found label).                     *)
(***************************************************************************)

ResetIn_untold(c, seg) ==
  /\ "RST" \in seg.flags
  /\ Outcome(c, Closed(uip_conns[c]), NoSeg, NoEvent)
  /\ UNCHANGED iss

(* Any RST kills the connection, whatever its sequence number.             *)
ResetIn(c, seg) ==
  /\ "RST" \in seg.flags
  /\ Outcome(c, Closed(uip_conns[c]), NoSeg, Call(c, {"ABORT"}, Silent))
  /\ UNCHANGED iss

IsSynAck(seg) == seg.flags = {"SYN", "ACK"}

InOrder_any(k, seg) == TRUE

InOrder(k, seg) ==
  \/ k.st = "SYN_SENT" /\ IsSynAck(seg)
  \/ seg.len = 0 /\ seg.flags \cap {"SYN", "FIN"} = {}
  \/ seg.seq = k.rcv_nxt

OutOfOrder_sender(c, seg) ==
  LET k == uip_conns[c]
  IN /\ "RST" \notin seg.flags
     /\ ~InOrder(k, seg)
     /\ Outcome(c, k, [Segment(k, {"ACK"}, 0) EXCEPT
                         !.ack = Plus(seg.seq, seg.len)], NoEvent)
     /\ UNCHANGED iss

OutOfOrder(c, seg) ==
  LET k == uip_conns[c]
  IN /\ "RST" \notin seg.flags
     /\ ~InOrder(k, seg)
     /\ Outcome(c, k, Segment(k, {"ACK"}, 0), NoEvent)
     /\ UNCHANGED iss

Acks_any(k, seg) == "ACK" \in seg.flags /\ k.len > 0

(* Only an ACK of everything outstanding counts.                           *)
Acks(k, seg) ==
  "ACK" \in seg.flags /\ k.len > 0 /\ seg.ack = Plus(k.snd_nxt, k.len)

AfterAck_keeps_len(k, seg, r) ==
  IF ~Acks(k, seg) THEN k
  ELSE LET rto == IF k.nrtx = 0 THEN r ELSE k.rto
       IN [k EXCEPT !.snd_nxt = seg.ack, !.rto = rto, !.timer = rto]

AfterAck_keeps_timer(k, seg, r) ==
  IF ~Acks(k, seg) THEN k
  ELSE LET rto == IF k.nrtx = 0 THEN r ELSE k.rto
       IN [k EXCEPT !.snd_nxt = seg.ack, !.len = 0, !.rto = rto]

(* The RTT is estimated (rto becomes some r of RTOS) unless nrtx says the  *)
(* segment was retransmitted; the timer is primed for the next segment.    *)
AfterAck(k, seg, r) ==
  IF ~Acks(k, seg) THEN k
  ELSE LET rto == IF k.nrtx = 0 THEN r ELSE k.rto
       IN [k EXCEPT !.snd_nxt = seg.ack, !.len = 0, !.rto = rto, !.timer = rto]

Receive(k, n) == [k EXCEPT !.rcv_nxt = Plus(@, n)]

(* Connection c, in state st, gets as far as the switch on its state.      *)
InState(c, seg, st) ==
  /\ uip_conns[c].st = st
  /\ "RST" \notin seg.flags
  /\ InOrder(uip_conns[c], seg)
  /\ UNCHANGED iss

AckEvent(k, seg) == IF Acks(k, seg) THEN {"ACKDATA"} ELSE {}
DataEvent(n) == IF n > 0 THEN {"NEWDATA"} ELSE {}

SynRcvdIn_acked(c, seg, r, rto) ==
  LET k == uip_conns[c]
      e == [Receive(AfterAck(k, seg, rto), seg.len) EXCEPT
              !.st = "ESTABLISHED"]
      f == {"ACKDATA", "CONNECTED"} \cup DataEvent(seg.len)
      s == AppSend(e, f, r)
  IN /\ InState(c, seg, "SYN_RCVD")
     /\ IF Acks(k, seg) THEN Outcome(c, s.conn, s.out, Call(c, f, r))
        ELSE Outcome(c, k, NoSeg, NoEvent)

SynRcvdIn(c, seg, r, rto) ==
  LET k == uip_conns[c]
      e == [Receive(AfterAck(k, seg, rto), seg.len) EXCEPT
              !.st = "ESTABLISHED"]
      f == {"CONNECTED"} \cup DataEvent(seg.len)
      s == AppSend(e, f, r)
  IN /\ InState(c, seg, "SYN_RCVD")
     /\ IF Acks(k, seg) THEN Outcome(c, s.conn, s.out, Call(c, f, r))
        ELSE Outcome(c, k, NoSeg, NoEvent)

SynSentIn(c, seg, r, rto) ==
  LET k == uip_conns[c]
      e == [MssOption(AfterAck(k, seg, rto), seg) EXCEPT
              !.st = "ESTABLISHED", !.rcv_nxt = Plus(seg.seq, 1)]
      f == {"CONNECTED", "NEWDATA"}
      s == AppSend(e, f, r)
  IN /\ InState(c, seg, "SYN_SENT")
     /\ IF Acks(k, seg) /\ IsSynAck(seg)
        THEN Outcome(c, s.conn, s.out, Call(c, f, r))
        ELSE Outcome(c, Closed(k), ResetReply(seg),
                     Call(c, {"ABORT"}, Silent))

EstablishedFin_hasty(c, seg, rto) ==
  LET k == AfterAck(uip_conns[c], seg, rto)
      e == [Enter(Receive(k, 1 + seg.len), "LAST_ACK") EXCEPT
              !.len = 1, !.nrtx = 0]
      f == {"CLOSE"} \cup AckEvent(uip_conns[c], seg) \cup DataEvent(seg.len)
  IN /\ InState(c, seg, "ESTABLISHED")
     /\ "FIN" \in seg.flags /\ ~uip_conns[c].stopped
     /\ Outcome(c, e, Segment(e, {"FIN", "ACK"}, 0), Call(c, f, Silent))

(* The peer closes.  A FIN that finds data outstanding is dropped.         *)
EstablishedFin(c, seg, rto) ==
  LET k == AfterAck(uip_conns[c], seg, rto)
      e == [Enter(Receive(k, 1 + seg.len), "LAST_ACK") EXCEPT
              !.len = 1, !.nrtx = 0]
      f == {"CLOSE"} \cup AckEvent(uip_conns[c], seg) \cup DataEvent(seg.len)
  IN /\ InState(c, seg, "ESTABLISHED")
     /\ "FIN" \in seg.flags /\ ~uip_conns[c].stopped
     /\ IF k.len > 0 THEN Outcome(c, k, NoSeg, NoEvent)
        ELSE Outcome(c, e, Segment(e, {"FIN", "ACK"}, 0), Call(c, f, Silent))

(* The usable window of the peer; a closed window counts as a full one so  *)
(* that the application keeps probing.                                     *)
Window(k, seg) ==
  IF seg.wnd > k.initialmss \/ seg.wnd = 0 THEN k.initialmss ELSE seg.wnd

(* Urgent bytes are cut off the segment and are not acknowledged; uip_len  *)
(* is a u16_t and wraps when the urgent pointer lies beyond the segment.   *)
DataLen(k, seg) ==
  IF k.stopped THEN 0
  ELSE IF "URG" \in seg.flags THEN (seg.len - seg.urg) % U16 ELSE seg.len

EstablishedIn(c, seg, r, rto) ==
  LET k == uip_conns[c]
      n == DataLen(k, seg)
      e == [Receive(AfterAck(k, seg, rto), n) EXCEPT !.mss = Window(k, seg)]
      f == AckEvent(k, seg) \cup DataEvent(n)
      s == AppSend(e, f, r)
  IN /\ InState(c, seg, "ESTABLISHED")
     /\ "FIN" \notin seg.flags \/ k.stopped
     /\ IF f = {} THEN Outcome(c, e, NoSeg, NoEvent)
        ELSE Outcome(c, s.conn, s.out, Call(c, f, r))

LastAckIn(c, seg) ==
  LET k == uip_conns[c]
  IN /\ InState(c, seg, "LAST_ACK")
     /\ IF Acks(k, seg)
        THEN Outcome(c, Closed(k), NoSeg,
                     Call(c, {"CLOSE"}, Silent))
        ELSE Outcome(c, k, NoSeg, NoEvent)

(* In both FIN_WAIT states data is acknowledged and thrown away.           *)
PureAck(k) == Segment(k, {"ACK"}, 0)

FinWait1In(c, seg, rto) ==
  LET k == Receive(AfterAck(uip_conns[c], seg, rto), seg.len)
      fin == "FIN" \in seg.flags
      ackd == Acks(uip_conns[c], seg)
      e == CASE fin /\ ackd  -> [Enter(Receive(k, 1), "TIME_WAIT") EXCEPT
                                   !.timer = 0]
             [] fin /\ ~ackd -> Enter(Receive(k, 1), "CLOSING")
             [] ~fin /\ ackd -> Enter(k, "FIN_WAIT_2")
             [] OTHER        -> k
  IN /\ InState(c, seg, "FIN_WAIT_1")
     /\ Outcome(c, e,
                IF fin \/ (seg.len > 0 /\ ~ackd) THEN PureAck(e) ELSE NoSeg,
                IF fin THEN Call(c, {"CLOSE"}, Silent) ELSE NoEvent)

FinWait2In(c, seg) ==
  LET k == Receive(uip_conns[c], seg.len)
      fin == "FIN" \in seg.flags
      e == IF fin THEN [Enter(Receive(k, 1), "TIME_WAIT") EXCEPT !.timer = 0]
           ELSE k
  IN /\ InState(c, seg, "FIN_WAIT_2")
     /\ Outcome(c, e, IF fin \/ seg.len > 0 THEN PureAck(e) ELSE NoSeg,
                IF fin THEN Call(c, {"CLOSE"}, Silent) ELSE NoEvent)

TimeWaitIn_again(c, seg) ==
  LET k == [uip_conns[c] EXCEPT !.timer = 0]
  IN /\ InState(c, seg, "TIME_WAIT")
     /\ Outcome(c, k, PureAck(k), NoEvent)

TimeWaitIn(c, seg) ==
  LET k == uip_conns[c]
  IN /\ InState(c, seg, "TIME_WAIT")
     /\ Outcome(c, k, PureAck(k), NoEvent)

ClosingIn(c, seg, rto) ==
  LET k == uip_conns[c]
      e == IF Acks(k, seg)
           THEN [Enter(AfterAck(k, seg, rto), "TIME_WAIT") EXCEPT !.timer = 0]
           ELSE k
  IN InState(c, seg, "CLOSING") /\ Outcome(c, e, NoSeg, NoEvent)

ForConnection(c, seg) ==
  \/ ResetIn(c, seg)
  \/ OutOfOrder(c, seg)
  \/ LastAckIn(c, seg)
  \/ FinWait2In(c, seg)
  \/ TimeWaitIn(c, seg)
  \/ \E rto \in RTOS :
       \/ EstablishedFin(c, seg, rto)
       \/ FinWait1In(c, seg, rto)
       \/ ClosingIn(c, seg, rto)
       \/ \E r \in Replies :
            \/ SynRcvdIn(c, seg, r, rto)
            \/ SynSentIn(c, seg, r, rto)
            \/ EstablishedIn(c, seg, r, rto)

Input(seg) ==
  \/ Refuse(seg)
  \/ NoneAvailable(seg)
  \/ \E c \in Conns : Accept(c, seg)
  \/ \E c \in Conns : Found(c, seg) /\ ForConnection(c, seg)

(***************************************************************************)
(* Calls from outside uip_process().                                       *)
(***************************************************************************)
SetPort(from, to) ==
  \E i \in DOMAIN uip_listenports :
    /\ uip_listenports[i] = from
    /\ \A j \in DOMAIN uip_listenports : uip_listenports[j] = from => i <= j
    /\ uip_listenports' = [uip_listenports EXCEPT ![i] = to]
    /\ out' = NoSeg
    /\ ev' = NoEvent
    /\ UNCHANGED <<uip_conns, iss, resent>>

uip_listen(port) == SetPort(NoPort, port)
uip_unlisten(port) == SetPort(port, NoPort)

(* The local port is one that no entry in use has; the SYN is left to the  *)
(* retransmission code of the periodic timer.                              *)
uip_connect(c, peer, port) ==
  /\ \A d \in Conns : uip_conns[d].st = "CLOSED" \/ uip_conns[d].lport # port
  /\ Available(c)
  /\ Outcome(c, [uip_conns[c] EXCEPT
                   !.st = "SYN_SENT", !.stopped = FALSE, !.snd_nxt = iss,
                   !.initialmss = UIP_TCP_MSS, !.mss = UIP_TCP_MSS,
                   !.len = 1, !.nrtx = 0, !.timer = 1, !.rto = UIP_RTO,
                   !.lport = port, !.peer = peer],
             NoSeg, NoEvent)
  /\ UNCHANGED iss

Next ==
  \/ \E c \in Conns : Periodic(c) \/ PollRequest(c)
  \/ \E seg \in Arriving : Input(seg)
  \/ \E port \in Ports : uip_listen(port) \/ uip_unlisten(port)
  \/ \E c \in Conns, peer \in Peers, port \in Ports : uip_connect(c, peer, port)

Spec == Init /\ [][Next]_vars

(* The main loop runs uip_periodic(c) for every c each time the periodic   *)
(* timer expires; the network and the application owe the stack nothing.   *)
PeriodicFairness ==
  \A c \in Conns : WF_vars(Periodic(c))

FairSpec == Spec /\ PeriodicFairness

(***************************************************************************)
(* Properties                                                              *)
(***************************************************************************)

(* A peer and a local port belong to one connection: the first match in    *)
(* uip_conns[] is the only one (demultiplexing, found_listen and           *)
(* uip_connect).                                                           *)
UniqueEndpoints ==
  \A c, d \in Conns :
    /\ uip_conns[c].st # "CLOSED" /\ uip_conns[d].st # "CLOSED"
    /\ uip_conns[c].peer = uip_conns[d].peer
    /\ uip_conns[c].lport = uip_conns[d].lport
    => c = d

(* Every connection has something that drives it: in a state that waits    *)
(* for an acknowledgment there is one octet (SYN or FIN) to retransmit, in *)
(* a state that only lingers there is nothing outstanding.  A connection   *)
(* for which this failed would keep its entry of uip_conns[] for ever.     *)
Owing == {"SYN_RCVD", "SYN_SENT", "FIN_WAIT_1", "CLOSING", "LAST_ACK"}
DrivenConn(k) ==
  /\ k.st \in Owing => k.len = 1
  /\ k.st \in {"FIN_WAIT_2", "TIME_WAIT"} => k.len = 0
Driven == \A c \in Conns : DrivenConn(uip_conns[c])

(* The retransmission counters, which the code tests with ==, never jump   *)
(* over the limits UIP_MAXRTX and UIP_MAXSYNRTX.                           *)
BudgetConn(k) ==
  k.st # "CLOSED" =>
    k.nrtx <= IF k.st \in {"SYN_RCVD", "SYN_SENT"} THEN UIP_MAXSYNRTX
              ELSE UIP_MAXRTX
RetryBudget == \A c \in Conns : BudgetConn(uip_conns[c])

(* No code sets the timer when it sends new data: it relies on the timer   *)
(* of an idle connection being the current rto.                            *)
PrimedConn(k) == k.st = "ESTABLISHED" /\ k.len = 0 => k.timer = k.rto
TimerPrimed == \A c \in Conns : PrimedConn(uip_conns[c])

(* Only an ESTABLISHED connection is ever stopped, so the tests of the     *)
(* whole of tcpstateflags against a state (in the timer, in found_listen   *)
(* and in uip_connect) see the bare state.                                 *)
StoppedConn(k) == k.stopped => k.st = "ESTABLISHED"
StoppedOnlyOpen == \A c \in Conns : StoppedConn(uip_conns[c])

(* The same facts of one record; the inductive invariant of the proofs.    *)
ConnOK(k) ==
  DrivenConn(k) /\ BudgetConn(k) /\ PrimedConn(k) /\ StoppedConn(k)

(* Whatever a step takes from the peer into its stream it acknowledges in  *)
(* the same step (or tells the peer the connection is gone).  The one      *)
(* exception is in FIN_WAIT_1: data on the segment that acknowledges our   *)
(* FIN is taken and the step sends nothing.                                *)
AcceptedIsAcked ==
  [][\A c \in Conns :
       LET k == uip_conns[c]
           e == uip_conns'[c]
       IN e.rcv_nxt # k.rcv_nxt /\ k.st \notin {"CLOSED", "TIME_WAIT"}
            => \/ /\ out' # NoSeg
                  /\ "ACK" \in out'.flags
                  /\ out'.ack = e.rcv_nxt
                  /\ <<out'.peer, out'.lport>> = <<k.peer, k.lport>>
               \/ k.st = "FIN_WAIT_1" /\ e.st = "FIN_WAIT_2"
    ]_vars

(* "Do RTT estimation, unless we have done retransmissions" (uip.c): a     *)
(* segment that was sent more than once is remembered in nrtx for as long  *)
(* as it is outstanding.                                                   *)
RetransmissionRemembered ==
  \A c \in Conns :
    uip_conns[c].st # "CLOSED" /\ resent[c] => uip_conns[c].nrtx > 0

(* An entry of the table that is opening or closing is given back (closed, *)
(* or reused for another connection): no half-open and no half-closed      *)
(* connection stays for ever, whatever the peer does or does not send.     *)
Opening == {"SYN_RCVD", "SYN_SENT"}
Closing == {"FIN_WAIT_1", "FIN_WAIT_2", "CLOSING", "TIME_WAIT", "LAST_ACK"}

OpeningEnds ==
  \A c \in Conns :
    uip_conns[c].st \in Opening ~> uip_conns[c].st \notin Opening

ClosingEnds ==
  \A c \in Conns :
    uip_conns[c].st \in Closing ~> uip_conns[c].st \notin Closing

(* What the application is told of its connections keeps the order that    *)
(* UipApp promises: connected first, data only while open, and so on.      *)
AppPhase(k) ==
  CASE k.st \in {"CLOSED", "SYN_RCVD", "SYN_SENT"} -> "absent"
    [] k.st = "ESTABLISHED"                        -> "open"
    [] k.st \in {"FIN_WAIT_1", "FIN_WAIT_2"}       -> "left"
    [] k.st = "LAST_ACK"                           -> "closed"
    [] k.st \in {"CLOSING", "TIME_WAIT"}           -> "over"

App == INSTANCE UipApp WITH
         phase <- [c \in Conns |-> AppPhase(uip_conns[c])]

AppContract == App!Spec
=============================================================================
