------------------------------ MODULE MainLoop ------------------------------
(***************************************************************************)
(* The main loop (src/plc-sw/projects/OpenPLC/main.c) and what it drives:  *)
(* the timers, the periodic processing of UDP and the DHCP client, with    *)
(* DHCP servers at the other end of a network that loses, delays,          *)
(* duplicates and reorders.                                                *)
(*                                                                         *)
(* One action is one turn of the loop, by the branch it takes; the clock   *)
(* ticks between turns.  TCP and ARP are modules of their own (UipTcp,     *)
(* UipArp): a frame for them, or no frame and no timer, is a stutter here. *)
(*                                                                         *)
(* Bounds: MaxLag, how long frames may keep the loop from its periodic     *)
(* branch; MaxUp and MaxDown messages under way; MaxNaks refusals.         *)
(***************************************************************************)
EXTENDS Dhcpc, FiniteSets

CONSTANTS
  Pool,         \* the addresses of each server
  PERIOD,       \* of periodic_timer, half a second
  RENEW_FIRST,  \* of dhcp_timer at the start, 600 s
  RENEW,        \* and once configured, 5 min
  MaxLag, MaxUp, MaxDown, MaxNaks

ASSUME TimesAssumption ==
  /\ ClockMod \in Nat /\ PERIOD \in Nat \ {0}
  /\ {RENEW, RENEW_FIRST, MaxLag, SECOND} \subseteq Nat
  /\ {DISCOVER_FIRST, DISCOVER_LIMIT, REQUEST_FIRST, REQUEST_LIMIT} \subseteq Nat
  /\ RENEW + PERIOD + MaxLag < ClockMod /\ RENEW_FIRST + PERIOD + MaxLag < ClockMod

(* No server gives away 0.0.0.0, and every server has an address.          *)
ASSUME PoolAssumption ==
  NoServer \notin Servers /\ \A v \in Servers : NoAddr \notin Pool[v]

VARIABLES
  periodic_timer,
  dhcp_timer,
  d,                \* the state s of the DHCP client
  host,             \* uip_hostaddr and uip_netmask
  up, down,         \* messages under way to the servers and to us
  granted,          \* the addresses each server has acknowledged
  offered,          \* and those it has offered
  naks

net  == <<up, down, granted, offered, naks>>
vars == <<periodic_timer, dhcp_timer, d, host, net>>

NoHost == [ip |-> NoAddr, netmask |-> NoServer]

Init ==
  /\ periodic_timer = timer_set(PERIOD)
  /\ dhcp_timer = timer_set(RENEW_FIRST)
  /\ d = dhcpc_init
  /\ host = NoHost
  /\ up = {} /\ down = {}
  /\ granted = [v \in Servers |-> {}] /\ offered = [v \in Servers |-> {}]
  /\ naks = 0

(* The interrupt.  The loop is never kept from the periodic branch, or an  *)
(* idle turn, longer than MaxLag.                                          *)
Tick ==
  /\ periodic_timer.passed < PERIOD + MaxLag
  /\ dhcp_timer.passed < dhcp_timer.interval + PERIOD + MaxLag
  /\ periodic_timer' = Ticked(periodic_timer)
  /\ dhcp_timer' = Ticked(dhcp_timer)
  /\ d' = [d EXCEPT !.timer = Ticked(@)]
  /\ UNCHANGED <<host, net>>

(* A message is put on its way; others may get lost.                       *)
Added(way, m, max) == {{m} \cup rest : rest \in {r \in SUBSET way : Cardinality(r) < max}}

(* The call of dhcpc_appcall left the client as e.  What it gave uip_send  *)
(* is sent in the same turn; dhcpc_configured sets the addresses of the    *)
(* stack and the renewal timer.                                            *)
Called(e) ==
  /\ d' = [e EXCEPT !.out = NoMessage]
  /\ up' \in IF e.out = NoMessage THEN {up} ELSE Added(up, e.out, MaxUp)
  /\ IF Configures(d, e)
     THEN /\ host' = [ip |-> e.ip, netmask |-> e.netmask]
          /\ dhcp_timer' = timer_set(RENEW)
     ELSE UNCHANGED <<host, dhcp_timer>>

(* A frame waits: network_read, uip_input, network_send.  It may have been *)
(* duplicated on the way, unless it is a refusal.  The answers of the      *)
(* servers are broadcast, which uip_process takes with and without an      *)
(* address of its own.                                                     *)
Frame(m) ==
  /\ m \in down
  /\ down' \in {down \ {m}} \cup {way \in {down} : m.type # "NAK"}
  /\ Called(dhcpc_appcall(d, m))
  /\ UNCHANGED <<periodic_timer, granted, offered, naks>>

(* No frame, and the periodic timer has expired: uip_udp_periodic.         *)
Periodic ==
  /\ timer_expired(periodic_timer)
  /\ periodic_timer' = timer_reset(periodic_timer)
  /\ Called(dhcpc_appcall(d, NoMessage))
  /\ UNCHANGED <<down, granted, offered, naks>>

(* Neither, and the renewal timer has expired.  The thread runs outside a  *)
(* call of uIP: what it sends is lost, and it reads no message, as every   *)
(* return of uip_process leaves uip_flags zero (uip.c:1881, 1885), so that *)
(* uip_newdata() is false.                                                 *)
Renew ==
  /\ ~timer_expired(periodic_timer)
  /\ timer_expired(dhcp_timer)
  /\ host' = [host EXCEPT !.ip = NoAddr]
  /\ d' = [handle_dhcp(d, NoMessage) EXCEPT !.out = NoMessage]
  /\ dhcp_timer' = timer_reset(dhcp_timer)
  /\ UNCHANGED <<periodic_timer, net>>

-----------------------------------------------------------------------------
(* The servers and the network.                                            *)

Replies(v, m) ==
  CASE m.type = "DISCOVER" -> {Message("OFFER", v, a) : a \in Pool[v]}
    [] m.type = "REQUEST" /\ m.server = v ->
         {Message("ACK", v, a) : a \in offered[v] \cap {m.ip}} \cup
         {Message("NAK", v, NoAddr) : n \in naks..(MaxNaks - 1)}
    [] OTHER -> {}

Noted(log, r, type) == IF r.type = type THEN [log EXCEPT ![r.server] = @ \cup {r.ip}] ELSE log

(* A server answers a message; the message may have been duplicated.       *)
Serve(m, r) ==
  /\ m \in up
  /\ up' \in {up, up \ {m}}
  /\ down' \in Added(down, r, MaxDown)
  /\ offered' = Noted(offered, r, "OFFER")
  /\ granted' = Noted(granted, r, "ACK")
  /\ naks' = IF r.type = "NAK" THEN naks + 1 ELSE naks
  /\ UNCHANGED <<periodic_timer, dhcp_timer, d, host>>

Offers(m) == \E v \in Servers : \E r \in Replies(v, m) : Serve(m, r)

Next ==
  \/ Tick \/ Periodic \/ Renew
  \/ \E m \in down : Frame(m)
  \/ \E m \in up : Offers(m)

(* The loop never stops, and the clock runs.  Of the network: while the    *)
(* client waits for an answer, it is in time infinitely often.             *)
Timely(type, lc) == d.lc = lc /\ \E m \in down : m.type = type /\ Frame(m)
TimelyServe(type, lc) ==
  /\ d.lc = lc
  /\ \E m \in up, v \in Servers : \E r \in Replies(v, m) : r.type = type /\ Serve(m, r)

Spec ==
  /\ Init /\ [][Next]_vars
  /\ WF_vars(Tick) /\ WF_vars(Periodic) /\ WF_vars(Renew)
  /\ SF_vars(TimelyServe("OFFER", "discover")) /\ SF_vars(Timely("OFFER", "discover"))
  /\ SF_vars(TimelyServe("ACK", "request")) /\ SF_vars(Timely("ACK", "request"))

-----------------------------------------------------------------------------
(* The stack has an address only while the client is done (dhcpc_renew     *)
(* takes it away), and then it is one that a server acknowledged, with the *)
(* netmask of that server: whatever other answers, to whatever question,   *)
(* came before or in between.                                              *)
ConfiguredIsGranted ==
  /\ host.ip # NoAddr <=> d.state = "CONFIG_RECEIVED"
  /\ host.ip # NoAddr => host.netmask # NoServer /\ host.ip \in granted[host.netmask]

(* A request asks a server for an address that this server has offered,    *)
(* or, after a refusal, for none: never one server for the address of      *)
(* another.                                                                *)
RequestsOffered ==
  \A m \in up : m.type = "REQUEST" =>
    IF m.ip = NoAddr THEN naks > 0 ELSE m.ip \in offered[m.server]

(* While the client asks, it asks again soon after its timer has expired.  *)
AsksAgain ==
  d.lc # "begin" => d.timer.passed <= d.timer.interval + PERIOD + MaxLag

(* The stack gets an address again and again: an exchange ends, and the    *)
(* lease is renewed.                                                       *)
Leases == []<>(host.ip # NoAddr) /\ []<>(host.ip = NoAddr)
=============================================================================
