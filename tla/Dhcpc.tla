------------------------------- MODULE Dhcpc --------------------------------
(***************************************************************************)
(* The DHCP client (src/plc-sw/apps/dhcpc/dhcpc.c): a protothread (pt.h)   *)
(* over one UDP connection.  Its functions are operators on its state d,   *)
(* struct dhcpc_state with the local continuation lc of the thread; d.out  *)
(* is what uip_send was given in the call.                                 *)
(*                                                                         *)
(* All messages of the client have one transaction id, so nothing tells    *)
(* an answer from an answer to an earlier question.  A message is its      *)
(* type, the server it is from or for, and the address it gives or asks    *)
(* for; the options of a message all stand for the server that set them.   *)
(* A datagram that is no answer to us only makes the thread ask again: it  *)
(* is left out.                                                            *)
(***************************************************************************)
EXTENDS UipTimer

CONSTANTS
  Servers,             \* the DHCP servers
  NoServer, NoAddr,
  DISCOVER_FIRST, DISCOVER_LIMIT,  \* 5 s, and 60 s after which ticks stay
  REQUEST_FIRST, REQUEST_LIMIT,    \* 3 s, and 10 s after which it restarts
  SECOND                           \* CLOCK_SECOND

NoMessage == [type |-> "none"]
Message(type, server, ip) == [type |-> type, server |-> server, ip |-> ip]

-----------------------------------------------------------------------------

send_discover(d) == [d EXCEPT !.out = Message("DISCOVER", NoServer, NoAddr)]
send_request(d)  == [d EXCEPT !.out = Message("REQUEST", d.server, d.ip)]

(* An offer and an acknowledgment carry the netmask, a refusal does not.   *)
parse_options_late(d, m) ==
  IF d.lc = "request" THEN d ELSE [d EXCEPT !.server = m.server, !.netmask = m.server]
parse_options(d, m) ==
  [d EXCEPT !.server = m.server, !.netmask = IF m.type = "NAK" THEN @ ELSE m.server]

(* Whatever its type, a message overwrites the address and the options.    *)
parse_msg(d, m) == parse_options([d EXCEPT !.ip = m.ip], m)

(* Two loops: send, set the timer, and yield until a message or the timer. *)
AskOffer_timeless(d) == [send_discover(d) EXCEPT !.lc = "discover"]
AskOffer(d) ==
  [send_discover(d) EXCEPT !.lc = "discover", !.timer = timer_set(d.ticks)]
AskAck(d) ==
  [send_request(d) EXCEPT !.lc = "request", !.timer = timer_set(d.ticks)]

Begin(d)   == AskOffer([d EXCEPT !.state = "SENDING", !.ticks = DISCOVER_FIRST])
Restart(d) == [d EXCEPT !.lc = "begin"]

(* A timeout: in the first loop the wait doubles, in the second it grows   *)
(* by a second until the thread starts again (PT_RESTART).                 *)
SlowDown(d) == [d EXCEPT !.ticks = IF @ < DISCOVER_LIMIT THEN @ * 2 ELSE @]
Lost_stays(d) == AskAck(d)
Lost(d) ==
  IF d.ticks <= REQUEST_LIMIT THEN AskAck([d EXCEPT !.ticks = @ + SECOND])
  ELSE Restart(d)

IsAck_any(m) == m.type \in {"OFFER", "ACK"}
IsAck(m)     == m.type = "ACK"

WaitOffer(d, m) ==
  IF m = NoMessage THEN AskOffer(SlowDown(d))
  ELSE IF m.type = "OFFER"
  THEN AskAck([parse_msg(d, m) EXCEPT !.state = "OFFER_RECEIVED", !.ticks = REQUEST_FIRST])
  ELSE AskOffer(parse_msg(d, m))
WaitAck(d, m) ==
  IF m = NoMessage THEN Lost(d)
  ELSE IF IsAck(m) THEN Restart([parse_msg(d, m) EXCEPT !.state = "CONFIG_RECEIVED"])
  ELSE AskAck(parse_msg(d, m))

(* One call of the thread; m is what uip_newdata reports, if anything.     *)
handle_dhcp(d, m) ==
  LET e == [d EXCEPT !.out = NoMessage]
  IN  CASE d.lc = "begin" -> Begin(e)
        [] d.lc # "begin" /\ m = NoMessage /\ ~timer_expired(d.timer) -> e
        [] d.lc = "discover" /\ (m # NoMessage \/ timer_expired(d.timer)) -> WaitOffer(e, m)
        [] d.lc = "request"  /\ (m # NoMessage \/ timer_expired(d.timer)) -> WaitAck(e, m)

(* Did the call end with dhcpc_configured?                                 *)
Configures(d, e) == d.lc = "request" /\ e.state = "CONFIG_RECEIVED"

dhcpc_appcall(d, m) ==
  IF d.state # "CONFIG_RECEIVED" THEN handle_dhcp(d, m) ELSE [d EXCEPT !.out = NoMessage]

dhcpc_init ==
  [lc |-> "begin", out |-> NoMessage, state |-> "INITIAL", ticks |-> 0,
   timer |-> timer_set(0),
   ip |-> NoAddr, server |-> NoServer, netmask |-> NoServer]
=============================================================================
