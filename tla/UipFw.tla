------------------------------- MODULE UipFw --------------------------------
(***************************************************************************)
(* Packet forwarding (src/plc-sw/uip/uip-fw.c): the interface a packet     *)
(* goes out on, and a small cache of the packets that went out lately,     *)
(* which keeps a packet from going in circles.                             *)
(*                                                                         *)
(* An address is on the network of an interface or not (ipaddr_maskcmp);   *)
(* id stands for the ipid, the length and the offset.  TTL is UIP_TTL.  A  *)
(* time-exceeded message keeps the ipid of the packet it is about, but has *)
(* a length of 56 and no offset.                                           *)
(***************************************************************************)
EXTENDS Integers, Sequences, FiniteSetsExt

CONSTANTS
  netifs,        \* interfaces as registered, the last one first
  defaultnetif,  \* or NoNetif
  NoNetif,
  Net,           \* of an interface, the addresses on its network
  Host, AllOnes, \* uip_hostaddr and 255.255.255.255
  Packets,       \* packets that arrive or that the stack sends
  Exceeded,      \* the id of the time-exceeded message about a packet of an id
  FWCACHE_SIZE, FW_TIME, TTL

(* What the proofs assume of the constants; in the code there are two      *)
(* entries, held for twenty periods.                                       *)
FwSizes ==
  /\ FWCACHE_SIZE \in Nat \ {0} /\ FW_TIME \in Nat
  /\ \A p \in Packets :
       /\ p = [id |-> p.id, src |-> p.src, dest |-> p.dest, proto |-> p.proto, ttl |-> p.ttl]
       /\ p.ttl \in Nat
ASSUME FwAssumption == FwSizes

VARIABLE fw      \* the cache, what the last call took and sent, and the
                 \* packet registered last, with its age

Entries == 1..FWCACHE_SIZE
Key(p)  == [id |-> p.id, src |-> p.src, dest |-> p.dest, proto |-> p.proto]
NoKey   == [id |-> NoNetif]
Quiet == NoKey
Broadcast(p) == p.dest = AllOnes

FwInit == fw = [cache |-> [i \in Entries |-> [timer |-> 0, key |-> NoKey]], in |-> Quiet,
                sent |-> {}, last |-> [key |-> NoKey, age |-> 0], result |-> "LOCAL"]

(* The first entry not in use, or else the oldest: of several of the same  *)
(* age the one behind the others.                                          *)
Oldest(cache) ==
  LET unused == {i \in Entries : cache[i].timer = 0}
      Older(i, j) == cache[i].timer < cache[j].timer \/ (cache[i].timer = cache[j].timer /\ i >= j)
  IN  IF unused # {} THEN Min(unused) ELSE CHOOSE i \in Entries : \A j \in Entries : Older(i, j)

fwcache_register_untimed(t, p) ==
  [t EXCEPT !.cache[Oldest(t.cache)].key = Key(p), !.last = [key |-> Key(p), age |-> 0]]
fwcache_register(t, p) ==
  [t EXCEPT !.cache[Oldest(t.cache)] = [timer |-> FW_TIME, key |-> Key(p)],
            !.last = [key |-> Key(p), age |-> 0]]

find_netif(p) ==
  LET found == SelectSeq(netifs, LAMBDA n : p.dest \in Net[n])
  IN  IF found = <<>> THEN defaultnetif ELSE Head(found)

(* A broadcast goes out on every interface, on the default one twice if it *)
(* is registered too.                                                      *)
Outputs(p) ==
  IF Broadcast(p) THEN {netifs[i] : i \in DOMAIN netifs} \cup ({defaultnetif} \ {NoNetif})
  ELSE {find_netif(p)} \ {NoNetif}

uip_fw_output(t, p) ==
  [fwcache_register(t, p) EXCEPT !.sent = {[netif |-> n, packet |-> p] : n \in Outputs(p)}]

(* Sent back with the addresses of the two of us; there is none about an   *)
(* ICMP packet.                                                            *)
time_exceeded(p) ==
  [p EXCEPT !.id = Exceeded[@], !.dest = p.src, !.src = Host, !.ttl = TTL, !.proto = "icmp"]

Cached(t, p) == \E i \in Entries : t.cache[i].timer > 0 /\ t.cache[i].key = Key(p)

Sent(t, p) ==
  CASE p.ttl > 1 -> uip_fw_output(t, [p EXCEPT !.ttl = @ - 1])
    [] p.ttl <= 1 /\ p.proto # "icmp" ->
         LET e == time_exceeded(p) IN uip_fw_output(t, [e EXCEPT !.ttl = @ - 1])
    [] p.ttl <= 1 /\ p.proto = "icmp" -> t

uip_fw_forward(t, p) ==
  CASE p.dest = Host -> [t EXCEPT !.result = "LOCAL"]
    [] p.dest # Host /\ Cached(t, p) -> [t EXCEPT !.result = "FORWARDED"]
    [] p.dest # Host /\ ~Cached(t, p) /\ Broadcast(p) /\ p.ttl <= 1 -> [t EXCEPT !.result = "LOCAL"]
    [] p.dest # Host /\ ~Cached(t, p) /\ ~(Broadcast(p) /\ p.ttl <= 1) ->
         [Sent(t, p) EXCEPT !.result = IF Broadcast(p) THEN "LOCAL" ELSE "FORWARDED"]

Forward(p) == fw' = uip_fw_forward([fw EXCEPT !.in = p, !.sent = {}], p)
Output(p)  == p.src = Host /\ fw' = uip_fw_output([fw EXCEPT !.in = Quiet, !.sent = {}], p)
Ticked(e) == [e EXCEPT !.timer = IF @ > 0 THEN @ - 1 ELSE 0]
uip_fw_periodic ==
  fw' = [fw EXCEPT !.cache = [i \in Entries |-> Ticked(fw.cache[i])],
                  !.in = Quiet, !.sent = {}, !.last.age = IF @ < FW_TIME THEN @ + 1 ELSE @]

FwNext == uip_fw_periodic \/ \E p \in Packets : Forward(p) \/ Output(p)
FwSpec == FwInit /\ [][FwNext]_fw

(* Nothing circles: a packet that went out last is not forwarded again     *)
(* when it comes back, for as long as the cache is meant to hold it.  What *)
(* is forwarded has lost one of its ttl, or is an answer to its sender.    *)
NoCircling ==
  fw'.in # Quiet =>
       /\ Key(fw'.in) = fw.last.key /\ fw.last.age < FW_TIME => fw'.sent = {}
       /\ \A o \in fw'.sent :
            \/ o.packet.ttl \in 1..(fw'.in.ttl - 1)
            \/ fw'.in.proto # "icmp" /\ o.packet.proto = "icmp" /\ o.packet.dest = fw'.in.src
NoCircle == [][NoCircling]_fw
=============================================================================
