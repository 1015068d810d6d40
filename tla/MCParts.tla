------------------------------ MODULE MCParts -------------------------------
(***************************************************************************)
(* The parts of the system that keep to themselves, each with a small      *)
(* instance of its own, side by side: a behaviour is one of the part that  *)
(* unit names.  A part has a variable of its own, or s; the applications   *)
(* of TCP have the variables of UipApp besides.                            *)
(***************************************************************************)
EXTENDS UipRtt, UipReass, UipFw, UipIp, UipChksum, Enc28j60, OneWire, Ds18x20, Usart

CONSTANTS m, n

VARIABLES unit, s, phase, ev, wire, typed, seen, crowded, quitter

env   == <<phase, ev, wire, typed, seen, crowded, quitter>>
own   == <<rtt, reass, fw, udp, ck, eth, bus, ds, ser>>
parts == <<unit, s, own, env>>

-----------------------------------------------------------------------------
(* The constants of the parts.                                             *)

(* Two datagrams, whose fragments may end beyond the bitmap, which has     *)
(* bits for four blocks, or beyond the buffer, or be shorter than a header.*)
ReassFrags == [at : 0..4, len : {-1, 1, 2}, more : BOOLEAN]

(* Two networks, and a cache of two packets.                               *)
FwNetifs == <<2, 1>>
FwNet == [netif \in {1, 2} |-> IF netif = 1 THEN {"x", "h"} ELSE {"y"}]
FwPackets ==
  [id : {1, 2}, src : {"x"}, dest : {"y", "all"}, proto : {"udp"}, ttl : {1, 3}]
  \cup [id : {1}, src : {"h", "y"}, dest : {"h", "x"}, proto : {"udp", "icmp"}, ttl : {1, 3}]
\* Packets with the id 1 are as long as a time-exceeded message.
FwExceeded == <<1, 3>>

(* Frames of one to three cells in a ring of seven.                        *)
EthFrames == {<<"a1">>, <<"b1", "b2">>, <<"c1", "c2", "c3">>}

(* One sensor of each family and a coarse one, above and below zero.       *)
DsFamily == <<"18S20", "18B20", "18B20_9">>
DsTemps  == {-24, 409}

(* One client of the JSON server, which asks twice.                        *)
JsonSegments == {<<"getvalues", "nl">>, <<"setvalues">>, <<"junk">>, <<"cr", "nl">>}
Json == INSTANCE Jsoncmd WITH Conns <- {1}, MSS <- 10, num <- 20, NUMLINES <- 20, LINELEN <- 5,
                              MaxInput <- 4, Segments <- JsonSegments

(* Hello-world, whose first text fills two thirds of a segment, and a line *)
(* that comes in pieces; and simple-httpd, which does not read at all.     *)
HelloWorld ==
  << [do |-> "send", text |-> <<"hello", "name?">>], [do |-> "readto"],
     [do |-> "send", text |-> <<"hello">>], [do |-> "sendto"], [do |-> "close"] >>
SimpleHttpd ==
  << [do |-> "send", text |-> <<"200", "OK">>], [do |-> "send", text |-> <<"type">>],
     [do |-> "send", text |-> <<"empty">>], [do |-> "send", text |-> <<"hello", "world", "!">>],
     [do |-> "close"] >>
Lines == {<<"A">>, <<"nl">>, <<"B", "nl">>, <<"C", "nl", "A">>}
Hello == INSTANCE Psock WITH Conns <- {1}, MSS <- 3, BUFSIZE <- 4, MaxInput <- 3,
                             Script <- HelloWorld, Segments <- Lines
Httpd == INSTANCE Psock WITH Conns <- {1}, MSS <- 3, BUFSIZE <- 4, MaxInput <- 2,
                             Script <- SimpleHttpd, Segments <- {<<"A">>}

(* The words at which the number of digits changes, or the sign.           *)
EdgeWords == {0, 9, 10, 99, 100, 101, 999, 1000, 1010, 9999, 10000, 10001, 32767, 32768, 60507, 65535}

-----------------------------------------------------------------------------
NoEnv == /\ phase = <<>> /\ ev = <<>> /\ wire = <<>> /\ typed = <<>> /\ seen = <<>>
         /\ crowded = FALSE /\ quitter = <<>>
NoState == s = <<>> /\ NoEnv

(* A part of which the behaviour is not one has no choice where to start.  *)
RttStart == RttInit /\ (unit # "rtt" => rtt.sv = SvActive)
BusStart ==
  IF unit = "bus" THEN BusInit ELSE bus = Search({}, [i \in 1..BITS |-> 0])

PartsInit ==
  /\ \/ unit \in {"rtt", "reass", "fw", "udp", "sum", "eth", "bus", "ds", "usart"} /\ NoState
     \/ unit = "json"  /\ Json!Init
     \/ unit = "hello" /\ Hello!Init /\ quitter = <<>>
     \/ unit = "httpd" /\ Httpd!Init /\ quitter = <<>>
  /\ RttStart /\ ReassInit /\ FwInit /\ UdpInit /\ SumInit /\ EthInit /\ BusStart /\ DsInit
  /\ SerialInit

PartsNext ==
  \/ unit = "rtt"   /\ RttNext   /\ UNCHANGED <<unit, s, env, reass, fw, udp, ck, eth, bus, ds, ser>>
  \/ unit = "reass" /\ ReassNext /\ UNCHANGED <<unit, s, env, rtt, fw, udp, ck, eth, bus, ds, ser>>
  \/ unit = "fw"    /\ FwNext    /\ UNCHANGED <<unit, s, env, rtt, reass, udp, ck, eth, bus, ds, ser>>
  \/ unit = "udp"   /\ UdpNext   /\ UNCHANGED <<unit, s, env, rtt, reass, fw, ck, eth, bus, ds, ser>>
  \/ unit = "sum"   /\ SumNext   /\ UNCHANGED <<unit, s, env, rtt, reass, fw, udp, eth, bus, ds, ser>>
  \/ unit = "eth"   /\ EthNext   /\ UNCHANGED <<unit, s, env, rtt, reass, fw, udp, ck, bus, ds, ser>>
  \/ unit = "bus"   /\ BusNext   /\ UNCHANGED <<unit, s, env, rtt, reass, fw, udp, ck, eth, ds, ser>>
  \/ unit = "ds"    /\ DsNext    /\ UNCHANGED <<unit, s, env, rtt, reass, fw, udp, ck, eth, bus, ser>>
  \/ unit = "usart" /\ SerialNext /\ UNCHANGED <<unit, s, env, rtt, reass, fw, udp, ck, eth, bus, ds>>
  \/ unit = "json"  /\ Json!Next /\ UNCHANGED <<unit, own>>
  \/ unit = "hello" /\ Hello!Next /\ UNCHANGED <<unit, own, quitter>>
  \/ unit = "httpd" /\ Httpd!Next /\ UNCHANGED <<unit, own, quitter>>
Parts == PartsInit /\ [][PartsNext]_parts

-----------------------------------------------------------------------------
(* The properties of the parts that share s.  Those of the others are the  *)
(* ones of their modules.                                                  *)

(* A client of jsoncmd.c that waits gets every line of every answer.       *)
AnswerWhole == unit = "json" => Json!AnswerWhole
(* The peer of hello-world or simple-httpd reads its script, whole and in  *)
(* order (psock.c).                                                        *)
Conversation == /\ unit = "hello" => Hello!Conversation
                /\ unit = "httpd" => Httpd!Conversation
=============================================================================
