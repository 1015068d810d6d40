------------------------------- MODULE UipIp --------------------------------
(***************************************************************************)
(* IP input and UDP of uip.c: which packets uip_process takes, for which   *)
(* protocol, the ICMP echo reply, and the table of UDP connections.        *)
(*                                                                         *)
(* A packet is a record; whether its header is well formed, whether it is  *)
(* as long as it says and whether its checksum is right are flags of it.   *)
(* Fragments are the business of UipReass.  The projects are built with    *)
(* UIP_BROADCAST, without UIP_PINGADDRCONF and without UDP checksums.      *)
(***************************************************************************)
EXTENDS Integers, FiniteSetsExt

CONSTANTS
  all_zeroes_addr, all_ones_addr,     \* 0.0.0.0 and 255.255.255.255
  UIP_UDP_CONNS,     \* entries of uip_udp_conns
  StartPort,         \* 1024, lastport after uip_init
  FirstPort,         \* 4096, where lastport begins again
  LastPort,          \* 32000, the first port that is not tried
  Peers, HostAddrs,  \* other hosts, addresses the host may be given
  Servers,           \* ports of other hosts, 0 for any
  BindPort           \* 68, the port the DHCP client binds to

Lap == LastPort - FirstPort

(* What the proofs assume of the constants: a lap of the ports is longer   *)
(* than the table.                                                         *)
UdpSizes ==
  /\ UIP_UDP_CONNS \in Nat \ {0}
  /\ {BindPort, StartPort, FirstPort, LastPort} \subseteq Nat
  /\ 0 < BindPort /\ BindPort <= StartPort /\ StartPort < FirstPort
  /\ UIP_UDP_CONNS < Lap
ASSUME UdpAssumption == UdpSizes

\* lastport is also that of uip_connect, which no project calls: none opens a
\* TCP connection of its own.
VARIABLE udp         \* the connections, lastport, the host's address, the
                     \* connection removed last, and how often uip_udp_new
                     \* was called since an entry, and that one, were made

(* Without an address every packet is taken, whoever it is for; with one,  *)
(* those for it, and UDP broadcasts, whose header checksum is not looked   *)
(* at then.                                                                *)
WellFormed(p) == p.vhl = "0x45" /\ p.whole /\ ~p.fragment
UdpBroadcast(p)  == p.proto = "udp" /\ p.dest = all_ones_addr
ForUs(p, hostaddr) == hostaddr = all_zeroes_addr \/ p.dest = hostaddr

Protocols == {"tcp", "udp", "icmp"}
IpInput(p, hostaddr) ==
  IF /\ WellFormed(p) /\ p.proto \in Protocols
     /\ \/ hostaddr # all_zeroes_addr /\ UdpBroadcast(p)
        \/ ForUs(p, hostaddr) /\ p.checked
  THEN p.proto ELSE "drop"

(* An echo request goes back as a reply, from our address, which may not   *)
(* be the one that was asked.                                              *)
Echo(p, hostaddr) ==
  IF IpInput(p, hostaddr) = "icmp" /\ p.type = "echo"
  THEN {[p EXCEPT !.type = "reply", !.dest = p.src, !.src = hostaddr]} ELSE {}

-----------------------------------------------------------------------------
(* UDP connections.  An entry with lport 0 is not in use.                  *)

Slots  == 0..(UIP_UDP_CONNS - 1)
Unbound == [lport |-> 0, rport |-> 0, ripaddr |-> all_zeroes_addr]
uip_udp_init == [i \in Slots |-> Unbound]

UdpPorts(conns) == {conns[i].lport : i \in Slots}

(* lastport counts up, wraps, and skips the ports in use.                  *)
Following(port)        == IF port + 1 >= LastPort THEN FirstPort ELSE port + 1
NextPort_first(conns, lastport) == Following(lastport)
Tried(lastport) ==
  LET tried[n \in 0..UIP_UDP_CONNS] == Following(IF n = 0 THEN lastport ELSE tried[n - 1])
  IN  tried
NextPort(conns, lastport) ==
  Tried(lastport)[Min({n \in 0..UIP_UDP_CONNS : Tried(lastport)[n] \notin UdpPorts(conns)})]

(* The first unused entry, or none (-1): the port is counted even then.    *)
FreeSlots(conns) == {i \in Slots : conns[i].lport = 0}
uip_udp_new(conns, lastport, ripaddr, rport) ==
  LET port == NextPort(conns, lastport)
      slot == IF FreeSlots(conns) = {} THEN -1 ELSE Min(FreeSlots(conns))
  IN  [slot |-> slot, lastport |-> port,
       conns |-> [i \in Slots |-> IF i = slot THEN [lport |-> port, rport |-> rport, ripaddr |-> ripaddr]
                                  ELSE conns[i]]]
uip_udp_bind(conns, slot, port) == [conns EXCEPT ![slot].lport = port]
uip_udp_remove(conns, slot)     == [conns EXCEPT ![slot].lport = 0]

(* The first entry that a packet matches.                                  *)
MatchesUdp(conn, p) ==
  /\ conn.lport # 0 /\ conn.lport = p.destport
  /\ conn.rport \in {0, p.srcport}
  /\ conn.ripaddr \in {all_zeroes_addr, all_ones_addr, p.src}
UdpFound(conns, p) ==
  LET found == {i \in Slots : MatchesUdp(conns[i], p)}
  IN  IF found = {} THEN -1 ELSE Min(found)

(* What the entry sends when its application has something to say.         *)
UdpSent(conns, slot, hostaddr) ==
  [src |-> hostaddr, dest |-> conns[slot].ripaddr,
   srcport |-> conns[slot].lport, destport |-> conns[slot].rport]

-----------------------------------------------------------------------------
UdpInit == udp = [conns |-> uip_udp_init, lastport |-> StartPort, hostaddr |-> all_zeroes_addr,
                  age |-> [i \in Slots |-> 0], late |-> Unbound, lateage |-> 0]

Older(age) == IF age < Lap THEN age + 1 ELSE age

New(ripaddr, rport) ==
  LET new == uip_udp_new(udp.conns, udp.lastport, ripaddr, rport)
  IN  udp' = [udp EXCEPT !.conns = new.conns, !.lastport = new.lastport, !.lateage = Older(@),
                         !.age = [i \in Slots |-> IF udp.conns[i].lport = 0 THEN 0 ELSE Older(@[i])]]
(* The DHCP client binds its connection as soon as it has it.              *)
Bind(slot) == /\ udp.conns[slot].lport # 0 /\ BindPort \notin UdpPorts(udp.conns)
              /\ udp' = [udp EXCEPT !.conns = uip_udp_bind(@, slot, BindPort)]
RemoveUdp(slot) ==
  LET conn == udp.conns[slot]
      kept == conn.lport = BindPort
  IN  /\ conn.lport # 0
      /\ udp' = [udp EXCEPT !.conns = uip_udp_remove(@, slot), !.age[slot] = 0,
                            !.late = IF kept THEN @ ELSE conn,
                            !.lateage = IF kept THEN @ ELSE udp.age[slot]]
Configured == \E addr \in HostAddrs : udp' = [udp EXCEPT !.hostaddr = addr]

UdpNext == \/ \E addr \in Peers \cup {all_ones_addr}, rport \in Servers : New(addr, rport)
           \/ \E slot \in Slots : Bind(slot) \/ RemoveUdp(slot)
           \/ Configured
UdpSpec == UdpInit /\ [][UdpNext]_udp

(* The answers to a packet: from the host it was sent to, or any host.     *)
Answers(p) ==
  {[src |-> src, dest |-> dest, srcport |-> p.destport, destport |-> p.srcport,
    vhl |-> "0x45", whole |-> TRUE, fragment |-> FALSE, checked |-> TRUE, proto |-> "udp"] :
     src \in IF p.dest = all_ones_addr THEN Peers ELSE {p.dest},
     dest \in {udp.hostaddr, all_ones_addr}}
(* What comes back to a connection that was removed.                       *)
LateAnswers == Answers(UdpSent([i \in Slots |-> udp.late], 0, udp.hostaddr))

(* The answer to what a UDP connection sends reaches that connection, with *)
(* an address and without one, sent to the host or to everybody; and one   *)
(* that comes after the connection was removed reaches no other, until     *)
(* uip_udp_new has gone round the ports.                                   *)
RepliesFound ==
  /\ \A i \in Slots : udp.conns[i].lport # 0 =>
       \A p \in Answers(UdpSent(udp.conns, i, udp.hostaddr)) :
         IpInput(p, udp.hostaddr) = "udp" /\ UdpFound(udp.conns, p) = i
  /\ udp.late # Unbound /\ udp.lateage + UIP_UDP_CONNS < Lap =>
       \A p \in LateAnswers : UdpFound(udp.conns, p) = -1
=============================================================================
