--------------------------- MODULE MainLoop_proofs ---------------------------
(***************************************************************************)
(* Proofs about MainLoop and the DHCP client in it, for any number of      *)
(* servers and addresses, of messages under way, and any times that the    *)
(* assumptions of MainLoop admit.                                          *)
(*                                                                         *)
(* No property is inductive alone.  That what the client configures was    *)
(* granted needs that every message to it says the truth about the server  *)
(* it is from (Told), and that a client that is done is not asking (Done). *)
(* That it asks for what was offered needs that while it waits for an      *)
(* acknowledgment the server and the address it keeps belong together      *)
(* (Asked).  That it asks again needs that its timer is never further      *)
(* behind than the periodic timer (Paced).                                 *)
(***************************************************************************)
EXTENDS MainLoop, TLAPS

Addrs    == {NoAddr} \cup UNION {Pool[v] : v \in Servers}
Timers   == [passed : Nat, interval : Nat]
Answers  == [type : {"OFFER", "ACK", "NAK"}, server : Servers, ip : Addrs]
Requests == [type : {"DISCOVER", "REQUEST"}, server : Servers \cup {NoServer}, ip : Addrs]
Clients ==
  [lc : {"begin", "discover", "request"}, out : Requests \cup {NoMessage},
   state : {"INITIAL", "SENDING", "OFFER_RECEIVED", "CONFIG_RECEIVED"}, ticks : Nat,
   timer : Timers, ip : Addrs, server : Servers \cup {NoServer},
   netmask : Servers \cup {NoServer}]
Logs     == [Servers -> SUBSET Addrs]

TypeInv ==
  /\ periodic_timer \in Timers /\ dhcp_timer \in Timers
  /\ d \in Clients /\ host \in [ip : Addrs, netmask : Servers \cup {NoServer}]
  /\ up \subseteq Requests /\ down \subseteq Answers
  /\ granted \in Logs /\ offered \in Logs /\ naks \in Nat

(* A client that is done waits for nothing.                                *)
Done(e) == e.state = "CONFIG_RECEIVED" => e.lc = "begin"

(* A request for address a may go to server v.                             *)
Asked(v, a) == v \in Servers /\ IF a = NoAddr THEN naks > 0 ELSE a \in offered[v]

(* A message to the client is what its server says.                        *)
Told(m) ==
  /\ m.type = "OFFER" => m.ip \in offered[m.server]
  /\ m.type = "ACK"   => m.ip \in granted[m.server]
  /\ m.type = "NAK"   => m.ip = NoAddr /\ naks > 0

Paced(e, t) == e.lc # "begin" => e.timer.passed <= e.timer.interval + t.passed

IInv ==
  /\ TypeInv
  /\ Done(d) /\ d.out = NoMessage
  /\ d.lc = "request" => Asked(d.server, d.ip)
  /\ \A m \in down : Told(m)
  /\ \A m \in up : m.type = "REQUEST" => Asked(m.server, m.ip)
  /\ \A v \in Servers : NoAddr \notin granted[v] /\ NoAddr \notin offered[v]
  /\ ConfiguredIsGranted
  /\ periodic_timer.interval = PERIOD /\ periodic_timer.passed <= PERIOD + MaxLag
  /\ Paced(d, periodic_timer)

(***************************************************************************)
(* Timers.                                                                 *)
(***************************************************************************)

LEMMA TimerSet ==
  ASSUME NEW n \in Nat
  PROVE  timer_set(n) \in Timers /\ timer_set(n).passed = 0
BY TimesAssumption DEF timer_set, Timers

LEMMA TickedTimer ==
  ASSUME NEW t \in Timers
  PROVE  /\ Ticked(t) \in Timers /\ Ticked(t).interval = t.interval
         /\ Ticked(t).passed <= t.passed + 1
         /\ t.passed + 1 < ClockMod => Ticked(t).passed = t.passed + 1
<1> DEFINE n == (t.passed + 1) % ClockMod
<1>1. ClockMod \in Nat \ {0} BY TimesAssumption
<1>2. t.passed \in Nat /\ t.interval \in Nat BY DEF Timers
<1>3. n \in Nat /\ n <= t.passed + 1 /\ (t.passed + 1 < ClockMod => n = t.passed + 1)
  BY <1>1, <1>2
<1>4. Ticked(t) = [t EXCEPT !.passed = n] BY DEF Ticked
<1> HIDE DEF n
<1> QED BY <1>2, <1>3, <1>4 DEF Timers

(***************************************************************************)
(* What a call does to the client.                                         *)
(***************************************************************************)

LEMMA NoMessageTypes ==
  /\ NoMessage.type = "none" /\ NoMessage \notin Answers /\ NoMessage \notin Requests
BY DEF NoMessage, Answers, Requests

(* The message m has been put into the client, as parse_msg does.          *)
LEMMA Parsed ==
  ASSUME NEW e \in Clients, NEW m \in Answers
  PROVE  /\ parse_msg(e, m) \in Clients
         /\ parse_msg(e, m).ip = m.ip /\ parse_msg(e, m).server = m.server
         /\ m.type # "NAK" => parse_msg(e, m).netmask = m.server
         /\ parse_msg(e, m).lc = e.lc /\ parse_msg(e, m).state = e.state
         /\ parse_msg(e, m).timer = e.timer
BY DEF parse_msg, parse_options, Clients, Answers

LEMMA AsksOffer ==
  ASSUME NEW e \in Clients
  PROVE  /\ AskOffer(e) \in Clients
         /\ AskOffer(e).lc = "discover" /\ AskOffer(e).timer.passed = 0
         /\ AskOffer(e).out = Message("DISCOVER", NoServer, NoAddr)
         /\ AskOffer(e).state = e.state
<1>1. timer_set(e.ticks) \in Timers /\ timer_set(e.ticks).passed = 0
  BY TimerSet DEF Clients
<1>2. Message("DISCOVER", NoServer, NoAddr) \in Requests BY DEF Message, Requests, Addrs
<1>3. QED
  BY <1>1, <1>2 DEF AskOffer, send_discover, Clients

LEMMA AsksAck ==
  ASSUME NEW e \in Clients
  PROVE  /\ AskAck(e) \in Clients
         /\ AskAck(e).lc = "request" /\ AskAck(e).timer.passed = 0
         /\ AskAck(e).out = Message("REQUEST", e.server, e.ip)
         /\ AskAck(e).state = e.state /\ AskAck(e).server = e.server /\ AskAck(e).ip = e.ip
<1>1. timer_set(e.ticks) \in Timers /\ timer_set(e.ticks).passed = 0
  BY TimerSet DEF Clients
<1>2. Message("REQUEST", e.server, e.ip) \in Requests BY DEF Message, Requests, Clients
<1>3. QED
  BY <1>1, <1>2 DEF AskAck, send_request, Clients

(* What a call of the thread makes of the client e, with the message m.    *)
Handled(e, m, f) ==
  /\ f \in Clients /\ Done(f)
  /\ f.lc = "request" =>
       \/ m = NoMessage /\ e.lc = "request" /\ f.server = e.server /\ f.ip = e.ip
       \/ m \in Answers /\ m.type # "ACK" /\ f.server = m.server /\ f.ip = m.ip
  /\ \/ f.out = NoMessage
     \/ f.out = Message("DISCOVER", NoServer, NoAddr)
     \/ f.lc = "request" /\ f.out = Message("REQUEST", f.server, f.ip)
  /\ f.state = "CONFIG_RECEIVED" =>
       /\ e.lc = "request" /\ m \in Answers /\ m.type = "ACK"
       /\ f.ip = m.ip /\ f.netmask = m.server
  /\ f.lc # "begin" =>
       \/ f.timer.passed = 0
       \/ f.timer = e.timer /\ m = NoMessage /\ ~timer_expired(e.timer)

LEMMA WaitsOffer ==
  ASSUME NEW e \in Clients, e.lc = "discover", Done(e), NEW m \in Answers \cup {NoMessage}
  PROVE  Handled(e, m, WaitOffer(e, m))
<1>1. CASE m = NoMessage
  <2>1. SlowDown(e) \in Clients /\ SlowDown(e).state = e.state
    BY TimesAssumption DEF SlowDown, Clients
  <2>2. WaitOffer(e, m) = AskOffer(SlowDown(e)) BY <1>1 DEF WaitOffer
  <2>3. QED BY <2>1, <2>2, AsksOffer DEF Handled, Done
<1>2. CASE m \in Answers /\ m.type = "OFFER"
  <2> DEFINE p == parse_msg(e, m)
             f == [p EXCEPT !.state = "OFFER_RECEIVED", !.ticks = REQUEST_FIRST]
  <2>1. f \in Clients /\ f.server = m.server /\ f.ip = m.ip /\ f.state = "OFFER_RECEIVED"
    <3>1. p \in Clients /\ p.server = m.server /\ p.ip = m.ip BY <1>2, Parsed
    <3>2. REQUEST_FIRST \in Nat BY TimesAssumption
    <3> HIDE DEF p
    <3> QED BY <3>1, <3>2 DEF Clients
  <2>2. WaitOffer(e, m) = AskAck(f) BY <1>2, NoMessageTypes DEF WaitOffer
  <2> HIDE DEF f
  <2>3. QED BY <1>2, <2>1, <2>2, AsksAck DEF Handled, Done
<1>3. CASE m \in Answers /\ m.type # "OFFER"
  <2>1. WaitOffer(e, m) = AskOffer(parse_msg(e, m)) BY <1>3, NoMessageTypes DEF WaitOffer
  <2>2. parse_msg(e, m) \in Clients /\ parse_msg(e, m).state = e.state BY <1>3, Parsed
  <2>3. QED BY <2>1, <2>2, AsksOffer DEF Handled, Done
<1>4. QED BY <1>1, <1>2, <1>3

LEMMA WaitsAck ==
  ASSUME NEW e \in Clients, e.lc = "request", Done(e), e.out = NoMessage,
         NEW m \in Answers \cup {NoMessage}
  PROVE  Handled(e, m, WaitAck(e, m))
<1>1. CASE m = NoMessage /\ e.ticks <= REQUEST_LIMIT
  <2> DEFINE f == [e EXCEPT !.ticks = @ + SECOND]
  <2>1. f \in Clients /\ f.server = e.server /\ f.ip = e.ip /\ f.state = e.state
    BY TimesAssumption DEF Clients
  <2>2. WaitAck(e, m) = AskAck(f) BY <1>1 DEF WaitAck, Lost
  <2> HIDE DEF f
  <2>3. QED BY <1>1, <2>1, <2>2, AsksAck DEF Handled, Done
<1>2. CASE m = NoMessage /\ ~(e.ticks <= REQUEST_LIMIT)
  <2>1. WaitAck(e, m) = [e EXCEPT !.lc = "begin"] BY <1>2 DEF WaitAck, Lost, Restart
  <2>2. QED BY <1>2, <2>1 DEF Handled, Done, Clients
<1>3. CASE m \in Answers /\ m.type = "ACK"
  <2> DEFINE p == parse_msg(e, m)
             f == [p EXCEPT !.state = "CONFIG_RECEIVED", !.lc = "begin"]
  <2>1. /\ p \in Clients /\ p.ip = m.ip /\ p.netmask = m.server /\ p.out = NoMessage
    <3>1. p \in Clients /\ p.ip = m.ip /\ p.netmask = m.server BY <1>3, Parsed
    <3>2. p.out = NoMessage BY DEF parse_msg, parse_options, Clients
    <3> QED BY <3>1, <3>2
  <2>2. WaitAck(e, m) = f BY <1>3, NoMessageTypes DEF WaitAck, IsAck, Restart
  <2> HIDE DEF p
  <2>3. f \in Clients /\ f.lc = "begin" /\ f.ip = m.ip /\ f.netmask = m.server /\ f.out = NoMessage
    BY <2>1 DEF Clients
  <2> HIDE DEF f
  <2>4. QED BY <1>3, <2>2, <2>3 DEF Handled, Done
<1>4. CASE m \in Answers /\ m.type # "ACK"
  <2>1. WaitAck(e, m) = AskAck(parse_msg(e, m)) BY <1>4, NoMessageTypes DEF WaitAck, IsAck
  <2>2. QED BY <1>4, <2>1, Parsed, AsksAck DEF Handled, Done
<1>5. QED BY <1>1, <1>2, <1>3, <1>4

LEMMA ThreadCalled ==
  ASSUME NEW e \in Clients, Done(e), NEW m \in Answers \cup {NoMessage}
  PROVE  Handled(e, m, handle_dhcp(e, m))
<1> DEFINE q == [e EXCEPT !.out = NoMessage]
<1>1. /\ q \in Clients /\ Done(q) /\ q.lc = e.lc /\ q.timer = e.timer /\ q.server = e.server
      /\ q.ip = e.ip /\ q.state = e.state /\ q.out = NoMessage
  BY DEF Clients, Done
<1>2. CASE e.lc = "begin"
  <2> DEFINE f == [q EXCEPT !.state = "SENDING", !.ticks = DISCOVER_FIRST]
  <2>1. f \in Clients /\ f.state = "SENDING" BY <1>1, TimesAssumption DEF Clients
  <2>2. handle_dhcp(e, m) = AskOffer(f) BY <1>2 DEF handle_dhcp, Begin
  <2> HIDE DEF f
  <2>3. QED BY <2>1, <2>2, AsksOffer DEF Handled, Done
<1>3. CASE e.lc # "begin" /\ m = NoMessage /\ ~timer_expired(e.timer)
  <2>1. handle_dhcp(e, m) = q BY <1>3 DEF handle_dhcp
  <2> HIDE DEF q
  <2>2. QED BY <1>1, <1>3, <2>1 DEF Handled, Done
<1>4. CASE e.lc = "discover" /\ (m # NoMessage \/ timer_expired(e.timer))
  <2>1. handle_dhcp(e, m) = WaitOffer(q, m) BY <1>4 DEF handle_dhcp
  <2> HIDE DEF q
  <2>2. Handled(q, m, WaitOffer(q, m)) BY <1>1, <1>4, WaitsOffer
  <2>3. QED BY <1>1, <2>1, <2>2 DEF Handled
<1>5. CASE e.lc = "request" /\ (m # NoMessage \/ timer_expired(e.timer))
  <2>1. handle_dhcp(e, m) = WaitAck(q, m) BY <1>5 DEF handle_dhcp
  <2> HIDE DEF q
  <2>2. Handled(q, m, WaitAck(q, m)) BY <1>1, <1>5, WaitsAck
  <2>3. QED BY <1>1, <2>1, <2>2 DEF Handled
<1>6. e.lc \in {"begin", "discover", "request"} BY DEF Clients
<1>7. QED BY <1>2, <1>3, <1>4, <1>5, <1>6

(***************************************************************************)
(* The actions.                                                            *)
(***************************************************************************)

LEMMA InitInv == Init => IInv
<1> SUFFICES ASSUME Init PROVE IInv OBVIOUS
<1>1. timer_set(PERIOD) \in Timers /\ timer_set(RENEW_FIRST) \in Timers /\ timer_set(0) \in Timers
  BY TimerSet, TimesAssumption
<1>2. timer_set(PERIOD).passed = 0 /\ timer_set(PERIOD).interval = PERIOD
  BY TimesAssumption DEF timer_set
<1>3. dhcpc_init \in Clients BY <1>1 DEF dhcpc_init, Clients, Addrs
<1>4. host \in [ip : Addrs, netmask : Servers \cup {NoServer}] BY DEF Init, NoHost, Addrs
<1>5. granted \in Logs /\ offered \in Logs BY DEF Init, Logs
<1>6. TypeInv BY <1>1, <1>3, <1>4, <1>5 DEF Init, TypeInv
<1>7. d.lc = "begin" /\ d.out = NoMessage /\ d.state = "INITIAL" BY DEF Init, dhcpc_init
<1>8. ConfiguredIsGranted BY <1>7 DEF ConfiguredIsGranted, Init, NoHost
<1>9. QED
  BY <1>2, <1>6, <1>7, <1>8, TimesAssumption DEF IInv, Init, Done, Paced

LEMMA TickInv == IInv /\ Tick => IInv'
<1> SUFFICES ASSUME IInv, Tick PROVE IInv' OBVIOUS
<1> USE TimesAssumption
<1> DEFINE t == d.timer  p == periodic_timer
<1>1. p \in Timers /\ dhcp_timer \in Timers /\ t \in Timers /\ d \in Clients
  BY DEF IInv, TypeInv, Clients
<1>2. p' = Ticked(p) /\ dhcp_timer' = Ticked(dhcp_timer) /\ d' = [d EXCEPT !.timer = Ticked(t)]
  BY DEF Tick
<1>3. p' \in Timers /\ dhcp_timer' \in Timers /\ p'.interval = p.interval BY <1>1, <1>2, TickedTimer
<1>4. p.passed < PERIOD + MaxLag /\ p.passed \in Nat BY <1>1 DEF Tick, Timers
<1>5. p'.passed = p.passed + 1
  <2>1. p.passed + 1 < ClockMod BY <1>4
  <2>2. QED BY <1>1, <1>2, <2>1, TickedTimer
<1>6. Ticked(t) \in Timers /\ Ticked(t).interval = t.interval /\ Ticked(t).passed <= t.passed + 1
  BY <1>1, TickedTimer
<1>7. d' \in Clients /\ d'.lc = d.lc /\ d'.state = d.state /\ d'.out = d.out /\ d'.server = d.server
      /\ d'.ip = d.ip /\ d'.timer = Ticked(t)
  BY <1>1, <1>2, <1>6 DEF Clients
<1>8. UNCHANGED <<host, up, down, granted, offered, naks>> BY DEF Tick, net
<1>9. TypeInv' BY <1>3, <1>7, <1>8 DEF IInv, TypeInv
<1>10. Paced(d, p)'
  <2>1. t.passed \in Nat /\ t.interval \in Nat /\ Ticked(t).passed \in Nat BY <1>1, <1>6 DEF Timers
  <2>2. d.lc # "begin" => t.passed <= t.interval + p.passed BY DEF IInv, Paced
  <2>3. QED BY <1>4, <1>5, <1>6, <1>7, <2>1, <2>2 DEF Paced
<1>11. p'.interval = PERIOD /\ p'.passed <= PERIOD + MaxLag
  BY <1>3, <1>4, <1>5 DEF IInv
<1>12. Done(d)' /\ d'.out = NoMessage /\ (d'.lc = "request" => Asked(d.server, d.ip)')
  BY <1>7, <1>8 DEF IInv, Done, Asked
<1>13. ConfiguredIsGranted' BY <1>7, <1>8 DEF IInv, ConfiguredIsGranted
<1>14. (\A m \in down : Told(m))' /\ (\A m \in up : m.type = "REQUEST" => Asked(m.server, m.ip))'
  BY <1>8 DEF IInv, Told, Asked
<1>15. (\A v \in Servers : NoAddr \notin granted[v] /\ NoAddr \notin offered[v])'
  BY <1>8 DEF IInv
<1>16. QED BY <1>9, <1>10, <1>11, <1>12, <1>13, <1>14, <1>15 DEF IInv

(* A turn that calls the client with m, a message that was under way or    *)
(* none.                                                                   *)
LEMMA CalledInv ==
  ASSUME IInv, NEW m \in down \cup {NoMessage}, Called(dhcpc_appcall(d, m)),
         down' \subseteq down, UNCHANGED <<granted, offered, naks>>,
         periodic_timer' \in Timers,
         periodic_timer'.interval = PERIOD, periodic_timer'.passed <= PERIOD + MaxLag
  PROVE  IInv'
<1> DEFINE e == dhcpc_appcall(d, m)
<1>1. d \in Clients /\ Done(d) /\ d.out = NoMessage /\ m \in Answers \cup {NoMessage}
  BY DEF IInv, TypeInv
<1>2. d.state = "CONFIG_RECEIVED" => e = d
  BY <1>1 DEF dhcpc_appcall, Clients
<1>3. d.state # "CONFIG_RECEIVED" => Handled(d, m, e)
  BY <1>1, ThreadCalled DEF dhcpc_appcall
<1>4. d' = [e EXCEPT !.out = NoMessage]
      /\ up' \in (IF e.out = NoMessage THEN {up} ELSE Added(up, e.out, MaxUp))
      /\ IF Configures(d, e)
         THEN /\ host' = [ip |-> e.ip, netmask |-> e.netmask]
              /\ dhcp_timer' = timer_set(RENEW)
         ELSE UNCHANGED <<host, dhcp_timer>>
  BY DEF Called
<1> HIDE DEF e
<1>5. e \in Clients /\ Done(e) BY <1>1, <1>2, <1>3 DEF Handled
<1>6. /\ d' \in Clients /\ d'.lc = e.lc /\ d'.out = NoMessage /\ d'.state = e.state
      /\ d'.server = e.server /\ d'.ip = e.ip /\ d'.timer = e.timer
  BY <1>4, <1>5 DEF Clients
<1>7. m \in Answers => Told(m) BY NoMessageTypes DEF IInv
<1>8. \A v \in Servers : NoAddr \notin granted[v] /\ NoAddr \notin offered[v] BY DEF IInv
<1>9. e.lc = "request" => Asked(e.server, e.ip)
  <2> SUFFICES ASSUME e.lc = "request" PROVE Asked(e.server, e.ip) OBVIOUS
  <2>1. d.lc = "request" => Asked(d.server, d.ip) BY DEF IInv
  <2>2. d.state # "CONFIG_RECEIVED" BY <1>1, <1>2 DEF Done
  <2>3. CASE d.lc = "request" /\ e.server = d.server /\ e.ip = d.ip BY <2>1, <2>3
  <2>4. CASE m \in Answers /\ m.type # "ACK" /\ e.server = m.server /\ e.ip = m.ip
    BY <1>7, <1>8, <2>4 DEF Told, Asked, Answers
  <2>5. QED BY <1>3, <2>2, <2>3, <2>4 DEF Handled
<1>10. up' \subseteq Requests /\ \A r \in up' : r.type = "REQUEST" => Asked(r.server, r.ip)
  <2>1. \A r \in up : r \in Requests /\ (r.type = "REQUEST" => Asked(r.server, r.ip))
    BY DEF IInv, TypeInv
  <2>2. CASE e.out = NoMessage BY <1>4, <2>1, <2>2
  <2>3. CASE e.out # NoMessage
    <3>1. \A r \in up' : r \in up \/ r = e.out BY <1>4, <2>3 DEF Added
    <3>2. e.out \in Requests BY <1>5, <2>3 DEF Clients
    <3>3. d.state # "CONFIG_RECEIVED" BY <1>1, <1>2, <2>3
    <3>4. e.out.type = "REQUEST" => Asked(e.out.server, e.out.ip)
      BY <1>3, <1>9, <2>3, <3>3 DEF Handled, Message
    <3>5. QED BY <2>1, <3>1, <3>2, <3>4
  <2>4. QED BY <2>2, <2>3
<1>11. e.state = "CONFIG_RECEIVED" /\ d.state # "CONFIG_RECEIVED" =>
         d.lc = "request" /\ m \in Answers /\ m.type = "ACK" /\ e.ip = m.ip /\ e.netmask = m.server
  BY <1>3 DEF Handled
<1>12. Configures(d, e) => /\ e.ip \in granted[e.netmask] /\ e.netmask \in Servers
                          /\ e.ip \in Addrs /\ e.ip # NoAddr
  <2> SUFFICES ASSUME Configures(d, e)
               PROVE  /\ e.ip \in granted[e.netmask] /\ e.netmask \in Servers
                      /\ e.ip \in Addrs /\ e.ip # NoAddr
    OBVIOUS
  <2>1. d.lc = "request" /\ e.state = "CONFIG_RECEIVED" BY DEF Configures
  <2>2. d.state # "CONFIG_RECEIVED" BY <1>1, <2>1 DEF Done
  <2>3. QED BY <1>7, <1>8, <1>11, <2>1, <2>2 DEF Told, Answers
<1>13. ConfiguredIsGranted'
  <2>1. ConfiguredIsGranted BY DEF IInv
  <2>2. CASE Configures(d, e)
    <3>1. host' = [ip |-> e.ip, netmask |-> e.netmask] BY <1>4, <2>2
    <3>2. d'.state = "CONFIG_RECEIVED" BY <1>6, <2>2 DEF Configures
    <3>3. QED BY <1>12, <2>2, <3>1, <3>2, PoolAssumption DEF ConfiguredIsGranted
  <2>3. CASE ~Configures(d, e)
    <3>1. UNCHANGED host BY <1>4, <2>3
    <3>2. d'.state = "CONFIG_RECEIVED" <=> d.state = "CONFIG_RECEIVED"
      BY <1>2, <1>6, <1>11, <2>3 DEF Configures
    <3>3. QED BY <2>1, <3>1, <3>2 DEF ConfiguredIsGranted
  <2>4. QED BY <2>2, <2>3
<1>14. dhcp_timer' \in Timers /\ host' \in [ip : Addrs, netmask : Servers \cup {NoServer}]
  <2>1. RENEW \in Nat BY TimesAssumption
  <2>2. timer_set(RENEW) \in Timers BY <2>1, TimerSet
  <2>3. CASE Configures(d, e) BY <1>4, <1>12, <2>2, <2>3
  <2>4. CASE ~Configures(d, e) BY <1>4, <2>4 DEF IInv, TypeInv
  <2>5. QED BY <2>3, <2>4
<1>15. TypeInv' BY <1>6, <1>10, <1>14 DEF IInv, TypeInv
<1>16. Paced(d, periodic_timer)'
  <2> SUFFICES ASSUME e.lc # "begin"
               PROVE  e.timer.passed <= e.timer.interval + periodic_timer'.passed
    BY <1>6 DEF Paced
  <2>1. e.timer.passed \in Nat /\ e.timer.interval \in Nat /\ periodic_timer'.passed \in Nat
    BY <1>5 DEF Clients, Timers
  <2>2. d.state # "CONFIG_RECEIVED" BY <1>1, <1>2 DEF Done
  <2>3. e.timer.passed = 0 \/ e.timer.passed < e.timer.interval
    BY <1>3, <2>1, <2>2 DEF Handled, timer_expired
  <2>4. QED BY <2>1, <2>3
<1>17. Done(d)' /\ d'.out = NoMessage /\ (d'.lc = "request" => Asked(d.server, d.ip)')
  BY <1>5, <1>6, <1>9 DEF Done, Asked
<1>18. (\A r \in down : Told(r))' /\ (\A r \in up : r.type = "REQUEST" => Asked(r.server, r.ip))'
  BY <1>10 DEF IInv, Told, Asked
<1>19. QED BY <1>8, <1>13, <1>15, <1>16, <1>17, <1>18 DEF IInv

LEMMA FrameInv ==
  ASSUME IInv, NEW m \in down, Frame(m)
  PROVE  IInv'
<1>1. down' \subseteq down BY DEF Frame
<1>2. periodic_timer \in Timers /\ periodic_timer.interval = PERIOD
      /\ periodic_timer.passed <= PERIOD + MaxLag
  BY DEF IInv, TypeInv
<1>3. QED BY <1>1, <1>2, CalledInv DEF Frame

LEMMA PeriodicInv == IInv /\ Periodic => IInv'
<1> SUFFICES ASSUME IInv, Periodic PROVE IInv' OBVIOUS
<1> DEFINE t == periodic_timer  n == (t.passed - t.interval) % ClockMod
<1>1. t \in Timers /\ t.interval = PERIOD /\ t.passed <= PERIOD + MaxLag BY DEF IInv, TypeInv
<1>2. t.passed >= t.interval BY DEF Periodic, timer_expired
<1>3. n \in Nat /\ n <= PERIOD + MaxLag BY <1>1, <1>2, TimesAssumption DEF Timers
<1>4. t' = [t EXCEPT !.passed = n] BY DEF Periodic, timer_reset
<1> HIDE DEF n
<1>5. t' \in Timers /\ t'.interval = PERIOD /\ t'.passed <= PERIOD + MaxLag
  BY <1>1, <1>3, <1>4 DEF Timers
<1>6. Called(dhcpc_appcall(d, NoMessage)) /\ down' \subseteq down /\ UNCHANGED <<granted, offered, naks>>
  BY DEF Periodic
<1>7. NoMessage \in down \cup {NoMessage} OBVIOUS
<1>8. QED BY <1>5, <1>6, <1>7, CalledInv

LEMMA RenewInv == IInv /\ Renew => IInv'
<1> SUFFICES ASSUME IInv, Renew PROVE IInv' OBVIOUS
<1> DEFINE e == handle_dhcp(d, NoMessage)
           n == (dhcp_timer.passed - dhcp_timer.interval) % ClockMod
<1>1. d \in Clients /\ Done(d) /\ dhcp_timer \in Timers /\ periodic_timer \in Timers
  BY DEF IInv, TypeInv
<1>2. Handled(d, NoMessage, e) BY <1>1, ThreadCalled
<1>3. d' = [e EXCEPT !.out = NoMessage] BY DEF Renew
<1> HIDE DEF e
<1>4. e \in Clients /\ Done(e) /\ e.state # "CONFIG_RECEIVED" BY <1>2, NoMessageTypes DEF Handled
<1>5. /\ d' \in Clients /\ d'.lc = e.lc /\ d'.out = NoMessage /\ d'.state = e.state
      /\ d'.server = e.server /\ d'.ip = e.ip /\ d'.timer = e.timer
  BY <1>3, <1>4 DEF Clients
<1>6. dhcp_timer' \in Timers
  <2>1. n \in Nat BY <1>1, TimesAssumption DEF Timers
  <2>2. dhcp_timer' = [dhcp_timer EXCEPT !.passed = n] BY DEF Renew, timer_reset
  <2> HIDE DEF n
  <2>3. QED BY <1>1, <2>1, <2>2 DEF Timers
<1>7. host' \in [ip : Addrs, netmask : Servers \cup {NoServer}] /\ host'.ip = NoAddr
  <2>1. host \in [ip : Addrs, netmask : Servers \cup {NoServer}] BY DEF IInv, TypeInv
  <2>2. QED BY <2>1 DEF Renew, Addrs
<1>8. UNCHANGED <<periodic_timer, up, down, granted, offered, naks>> BY DEF Renew, net
<1>9. TypeInv' BY <1>5, <1>6, <1>7, <1>8 DEF IInv, TypeInv
<1>10. ConfiguredIsGranted' BY <1>4, <1>5, <1>7 DEF ConfiguredIsGranted
<1>11. d'.lc = "request" => Asked(d.server, d.ip)'
  <2>1. d.lc = "request" => Asked(d.server, d.ip) BY DEF IInv
  <2>2. QED BY <1>2, <1>5, <1>8, <2>1, NoMessageTypes DEF Handled, Asked
<1>12. Paced(d, periodic_timer)'
  <2> SUFFICES ASSUME e.lc # "begin"
               PROVE  e.timer.passed <= e.timer.interval + periodic_timer.passed
    BY <1>5, <1>8 DEF Paced
  <2>1. e.timer.passed \in Nat /\ e.timer.interval \in Nat /\ periodic_timer.passed \in Nat
    BY <1>1, <1>4 DEF Clients, Timers
  <2>2. e.timer.passed = 0 \/ e.timer.passed < e.timer.interval
    BY <1>2, <2>1 DEF Handled, timer_expired
  <2>3. QED BY <2>1, <2>2
<1>13. Done(d)' /\ d'.out = NoMessage BY <1>4, <1>5 DEF Done
<1>14. (\A m \in down : Told(m))' /\ (\A m \in up : m.type = "REQUEST" => Asked(m.server, m.ip))'
  BY <1>8 DEF IInv, Told, Asked
<1>15. QED BY <1>8, <1>9, <1>10, <1>11, <1>12, <1>13, <1>14 DEF IInv

(* A server answers with the truth about itself.                           *)
LEMMA Answered ==
  ASSUME IInv, NEW m \in up, NEW v \in Servers, NEW r \in Replies(v, m), Serve(m, r)
  PROVE  /\ r \in Answers /\ Told(r)'
         /\ r.type \in {"OFFER", "ACK"} => r.ip # NoAddr
<1>1. m \in Requests /\ offered \in Logs /\ granted \in Logs /\ naks \in Nat
  BY DEF IInv, TypeInv
<1>2. NoAddr \notin offered[v] BY DEF IInv
<1>3. CASE m.type = "DISCOVER"
  <2>1. PICK a \in Pool[v] : r = Message("OFFER", v, a) BY <1>3 DEF Replies
  <2>2. r \in Answers /\ r.type = "OFFER" /\ r.server = v /\ r.ip = a
    BY <2>1 DEF Message, Answers, Addrs
  <2>3. offered' = [offered EXCEPT ![v] = @ \cup {a}] BY <2>2 DEF Serve, Noted
  <2>4. QED BY <1>1, <2>2, <2>3, PoolAssumption DEF Told, Logs
<1>4. CASE m.type = "REQUEST" /\ m.server = v /\ r.type = "ACK"
  <2>1. r = Message("ACK", v, m.ip) /\ m.ip \in offered[v] BY <1>4 DEF Replies, Message
  <2>2. r \in Answers /\ r.server = v /\ r.ip = m.ip BY <1>1, <2>1 DEF Message, Answers, Requests
  <2>3. granted' = [granted EXCEPT ![v] = @ \cup {m.ip}] BY <1>4, <2>2 DEF Serve, Noted
  <2>4. QED BY <1>1, <1>2, <1>4, <2>1, <2>2, <2>3 DEF Told, Logs
<1>5. CASE m.type = "REQUEST" /\ m.server = v /\ r.type # "ACK"
  <2>1. r = Message("NAK", v, NoAddr) BY <1>5 DEF Replies, Message
  <2>2. r \in Answers /\ r.type = "NAK" /\ r.ip = NoAddr BY <2>1 DEF Message, Answers, Addrs
  <2>3. naks' = naks + 1 BY <2>2 DEF Serve
  <2>4. QED BY <1>1, <2>2, <2>3 DEF Told
<1>6. QED BY <1>1, <1>3, <1>4, <1>5 DEF Replies, Requests

(* What a server has said it does not take back.                           *)
LEMMA Grown ==
  ASSUME NEW log \in Logs, NEW r \in Answers, NEW type
  PROVE  /\ Noted(log, r, type) \in Logs
         /\ \A v \in Servers : log[v] \subseteq Noted(log, r, type)[v]
         /\ \A v \in Servers : Noted(log, r, type)[v] \subseteq
              log[v] \cup {a \in {r.ip} : r.type = type}
BY DEF Noted, Logs, Answers

LEMMA ServeInv ==
  ASSUME IInv, NEW m \in up, NEW v \in Servers, NEW r \in Replies(v, m), Serve(m, r)
  PROVE  IInv'
<1>1. r \in Answers /\ Told(r)' /\ (r.type \in {"OFFER", "ACK"} => r.ip # NoAddr) BY Answered
<1>2. offered \in Logs /\ granted \in Logs /\ naks \in Nat BY DEF IInv, TypeInv
<1>3. offered' = Noted(offered, r, "OFFER") /\ granted' = Noted(granted, r, "ACK") BY DEF Serve
<1>4. offered' \in Logs /\ granted' \in Logs BY <1>1, <1>2, <1>3, Grown
<1>5. naks' \in Nat /\ naks' >= naks BY <1>2 DEF Serve
<1>6. UNCHANGED <<periodic_timer, dhcp_timer, d, host>> BY DEF Serve
<1>7. up' \subseteq up /\ \A q \in down' : q \in down \/ q = r BY DEF Serve, Added
<1>8. TypeInv' BY <1>1, <1>4, <1>5, <1>6, <1>7 DEF IInv, TypeInv
<1>9. \A w \in Servers : offered[w] \subseteq offered'[w] /\ granted[w] \subseteq granted'[w]
  BY <1>1, <1>2, <1>3, Grown
<1>10. \A w, a : Asked(w, a) => Asked(w, a)'
  BY <1>2, <1>5, <1>9 DEF Asked
<1>11. (\A q \in down : Told(q))'
  <2>1. ASSUME NEW q \in down PROVE Told(q)'
    <3>1. q \in Answers /\ Told(q) BY DEF IInv, TypeInv
    <3>2. QED BY <1>2, <1>5, <1>9, <3>1 DEF Told, Answers
  <2>2. QED BY <1>1, <1>7, <2>1
<1>12. (\A w \in Servers : NoAddr \notin granted[w] /\ NoAddr \notin offered[w])'
  <2>1. \A w \in Servers : NoAddr \notin granted[w] /\ NoAddr \notin offered[w] BY DEF IInv
  <2>2. \A w \in Servers : offered'[w] \subseteq offered[w] \cup {a \in {r.ip} : r.type = "OFFER"}
    BY <1>1, <1>2, <1>3, Grown
  <2>3. \A w \in Servers : granted'[w] \subseteq granted[w] \cup {a \in {r.ip} : r.type = "ACK"}
    BY <1>1, <1>2, <1>3, Grown
  <2>4. QED BY <1>1, <2>1, <2>2, <2>3
<1>13. ConfiguredIsGranted'
  <2>1. host \in [ip : Addrs, netmask : Servers \cup {NoServer}] BY DEF IInv, TypeInv
  <2>2. QED BY <1>6, <1>9, <2>1 DEF IInv, ConfiguredIsGranted
<1>14. (d.lc = "request" => Asked(d.server, d.ip))' BY <1>6, <1>10 DEF IInv, Asked
<1>15. (\A q \in up : q.type = "REQUEST" => Asked(q.server, q.ip))' BY <1>7, <1>10 DEF IInv, Asked
<1>16. QED BY <1>6, <1>8, <1>11, <1>12, <1>13, <1>14, <1>15 DEF IInv, Done, Paced

LEMMA NextInv == IInv /\ [Next]_vars => IInv'
<1> SUFFICES ASSUME IInv, [Next]_vars PROVE IInv' OBVIOUS
<1>1. CASE Tick BY <1>1, TickInv
<1>2. CASE Periodic BY <1>2, PeriodicInv
<1>3. CASE Renew BY <1>3, RenewInv
<1>4. ASSUME NEW m \in down, Frame(m) PROVE IInv' BY <1>4, FrameInv
<1>5. ASSUME NEW m \in up, Offers(m) PROVE IInv' BY <1>5, ServeInv DEF Offers
<1>6. CASE UNCHANGED vars
  BY <1>6 DEF vars, net, IInv, TypeInv, Done, Asked, Told, Paced, ConfiguredIsGranted
<1>7. QED BY <1>1, <1>2, <1>3, <1>4, <1>5, <1>6 DEF Next

(* The invariant of the loop and its client: messages under way say what   *)
(* their server says, the client keeps what one server told it, and its    *)
(* timer and that of the loop keep their pace.                             *)
THEOREM Inductive == Spec => []IInv
<1>1. QED BY InitInv, NextInv, PTL DEF Spec

(* The address that the stack has while the client is done, and its        *)
(* netmask, were acknowledged by one server, whatever the network did with *)
(* the messages; and it has none otherwise.                                *)
THEOREM GrantedConfigured == Spec => []ConfiguredIsGranted
<1>1. IInv => ConfiguredIsGranted BY DEF IInv
<1>2. QED BY <1>1, Inductive, PTL

(* Every request under way asks a server for what this server has offered. *)
THEOREM OfferedRequested == Spec => []RequestsOffered
<1>1. IInv => RequestsOffered BY DEF IInv, RequestsOffered, Asked
<1>2. QED BY <1>1, Inductive, PTL

(* A client that waits asks again within a period, and the lag of the      *)
(* loop, of the expiry of its timer, wherever the clock wraps.             *)
THEOREM AskedAgain == Spec => []AsksAgain
<1>1. IInv => AsksAgain
  BY TimesAssumption DEF IInv, TypeInv, AsksAgain, Paced, Clients, Timers
<1>2. QED BY <1>1, Inductive, PTL
=============================================================================
