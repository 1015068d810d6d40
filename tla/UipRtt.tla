------------------------------- MODULE UipRtt -------------------------------
(***************************************************************************)
(* The round-trip time estimator of a connection (uip_process of           *)
(* src/plc-sw/uip/uip.c): Van Jacobson's, in octets, sa being eight times  *)
(* the average and sv four times the deviation.  Time is in periods of the *)
(* TCP timer; the timer counts down from rto while a segment is            *)
(* outstanding.  What happens after a retransmission is in UipTcp.         *)
(*                                                                         *)
(* Bound: Trips, the round trips of the network.                           *)
(***************************************************************************)
EXTENDS Integers

CONSTANTS UIP_RTO, SvActive, SvPassive, Trips

(* Sixteen and four in the code; a trip of 32 periods is too long for sa.  *)
ASSUME RttAssumption ==
  /\ UIP_RTO \in 3..255
  /\ {SvActive, SvPassive} \subseteq 3..127
  /\ Trips \subseteq 0..31

VARIABLE rtt

u8(n)   == n % 256
char(n) == ((n + 128) % 256) - 128

(* sv is 16 after uip_connect, and 4 when the peer connects.               *)
RttInit == \E sv \in {SvActive, SvPassive} :
  rtt = [sa |-> 0, sv |-> sv, rto |-> UIP_RTO, took |-> 0, exact |-> TRUE]

Deviation_signed(e) == e
Deviation(e) == IF e < 0 THEN char(-e) ELSE e

(* An acknowledgment of a segment that was sent once, when the timer has   *)
(* counted took periods.  exact tells whether the width of the variables   *)
(* was enough.                                                             *)
Acknowledged(took) ==
  LET e == char(char(took) - (rtt.sa \div 8))
      f == char(Deviation(e) - (rtt.sv \div 4))
      rto == (u8(rtt.sa + e) \div 8) + u8(rtt.sv + f)
  IN  rtt' = [sa |-> u8(rtt.sa + e), sv |-> u8(rtt.sv + f), rto |-> u8(rto), took |-> took,
              exact |-> took < 128 /\ {rtt.sa + e, rtt.sv + f, rto} \subseteq 0..255]

RttNext == \E took \in Trips : took <= rtt.rto /\ Acknowledged(took)
RttSpec == RttInit /\ [][RttNext]_rtt

(* On a network whose round trips stay below 32 periods no octet           *)
(* overflows, and a round trip as long as the last never times out: uIP    *)
(* does not send a segment again that is only as slow as the one before    *)
(* (uip.c, the estimator of uip_process).                                  *)
RttCovered == rtt.exact /\ rtt.rto >= rtt.took /\ rtt.rto >= 3
=============================================================================
