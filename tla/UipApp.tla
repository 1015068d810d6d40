------------------------------- MODULE UipApp -------------------------------
(***************************************************************************)
(* What uIP promises an application: in which order UIP_APPCALL reports    *)
(* the life of a connection.  UipTcp implements this specification (its    *)
(* property AppContract); the application modules take it as their         *)
(* environment.                                                            *)
(*                                                                         *)
(* A connection is, for the application,                                   *)
(*   absent  not there: unused, or still being opened;                     *)
(*   open    reported as connected and neither side has closed;            *)
(*   left    closed by the application, the peer has not closed yet;       *)
(*   closed  closed by the peer, our FIN is not acknowledged;              *)
(*   over    closed by both sides.                                         *)
(***************************************************************************)
EXTENDS Integers

CONSTANT Conns

Phases == {"absent", "open", "left", "closed", "over"}
Ops    == {"none", "close", "abort", "stop", "restart"}
Events == {"ACKDATA", "NEWDATA", "REXMIT", "POLL", "CLOSE", "ABORT",
           "CONNECTED", "TIMEDOUT"}

VARIABLES
  phase,  \* of every connection
  ev      \* the last call: the connection, uip_flags, what the callee did

NoEvent == [conn |-> -1, flags |-> {}, op |-> "none"]
Call(c, flags, op) == [conn |-> c, flags |-> flags, op |-> op]

TypeOK ==
  /\ phase \in [Conns -> Phases]
  /\ ev \in [conn : Conns \cup {-1}, flags : SUBSET Events, op : Ops]

Init == phase = [c \in Conns |-> "absent"] /\ ev = NoEvent

Move(c, from, to) == phase[c] = from /\ phase' = [phase EXCEPT ![c] = to]

(* Where a call that may be answered leaves an open connection.            *)
After(op) == CASE op = "close" -> "left"
               [] op = "abort" -> "absent"
               [] OTHER        -> "open"

(* The first call of a connection is the one that reports it connected.    *)
Connected(c, op, flags) ==
  /\ Move(c, "absent", After(op))
  /\ flags \subseteq {"NEWDATA"}
  /\ ev' = Call(c, {"CONNECTED"} \cup flags, op)

(* Data, acknowledgments and polls come only while the connection is open. *)
Served(c, op, flags) ==
  /\ Move(c, "open", After(op))
  /\ flags = {"POLL"} \/ (flags # {} /\ flags \subseteq {"ACKDATA", "NEWDATA"})
  /\ ev' = Call(c, flags, op)

(* In a call for a retransmission uip_close and uip_abort have no effect.  *)
Rexmit(c, op) ==
  /\ Move(c, "open", "open")
  /\ ev' = Call(c, {"REXMIT"}, op)

(* The peer closes an open connection; the last data may come with it.     *)
PeerCloses(c, flags) ==
  /\ Move(c, "open", "closed")
  /\ flags \subseteq {"ACKDATA", "NEWDATA"}
  /\ ev' = Call(c, {"CLOSE"} \cup flags, "none")

(* The peer closes a connection that the application has left.             *)
PeerFollows(c) == Move(c, "left", "over") /\ ev' = Call(c, {"CLOSE"}, "none")

(* A connection that the peer closed is reported closed a second time.     *)
ClosedAgain(c) == Move(c, "closed", "absent") /\ ev' = Call(c, {"CLOSE"}, "none")

(* Reset by the peer, or too many retransmissions, in any phase: also      *)
(* before the connection was reported, and after it was reported closed.   *)
Broken(c, how) ==
  /\ phase' = [phase EXCEPT ![c] = "absent"]
  /\ ev' = Call(c, {how}, "none")

(* A connection the application has left, or that is over, may disappear   *)
(* without a call.                                                         *)
Forgotten(c) ==
  /\ Move(c, "left", "absent") \/ Move(c, "over", "absent")
  /\ ev' = NoEvent

Unobserved == UNCHANGED phase /\ ev' = NoEvent

Next ==
  \/ Unobserved
  \/ \E c \in Conns :
       \/ \E op \in Ops :
            \/ \E flags \in SUBSET {"NEWDATA"} : Connected(c, op, flags)
            \/ \E flags \in SUBSET {"ACKDATA", "NEWDATA", "POLL"} :
                 Served(c, op, flags)
            \/ Rexmit(c, op)
       \/ \E flags \in SUBSET {"ACKDATA", "NEWDATA"} : PeerCloses(c, flags)
       \/ PeerFollows(c)
       \/ ClosedAgain(c)
       \/ \E how \in {"ABORT", "TIMEDOUT"} : Broken(c, how)
       \/ Forgotten(c)

Spec == Init /\ [][Next]_<<phase, ev>>
=============================================================================
