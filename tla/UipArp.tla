------------------------------- MODULE UipArp -------------------------------
(***************************************************************************)
(* The ARP cache (src/plc-sw/uip/uip_arp.c) and the addresses that decide  *)
(* how it is used, which the DHCP client sets while the stack runs.        *)
(*                                                                         *)
(* An address is a model value; Zero is 0.0.0.0, which an unused entry of  *)
(* arp_table[] has.  The table tests "in use" in two ways: the periodic    *)
(* timer by either half of the address, the update by both.  HalfZero are  *)
(* the addresses on which they differ (10.1.0.0).                          *)
(*                                                                         *)
(* Bounds: none; arptime is counted modulo TimeMod (256 in the code).      *)
(* Definitions named with an underscore and a word after another's name    *)
(* (Chosen_unused) are slips the properties are shown to notice.           *)
(***************************************************************************)
EXTENDS Integers

CONSTANTS
  UIP_ARPTAB_SIZE,  \* entries of arp_table
  UIP_ARP_MAXAGE,   \* ticks after which an entry is old
  TimeMod,          \* arptime is counted modulo TimeMod
  Addrs,            \* IP addresses, without Zero
  HalfZero,         \* those of which one half is zero
  Zero,             \* 0.0.0.0
  HostAddr,         \* the address the DHCP server gives us
  OnLink,           \* the addresses on our network
  Routers,          \* what the server says of the default router
  Broadcast,        \* 255.255.255.255
  Eths,             \* Ethernet addresses of the other hosts
  NoEth             \* what a fresh entry holds

ASSUME SizesAssumption ==
  /\ UIP_ARPTAB_SIZE \in Nat \ {0}
  /\ UIP_ARP_MAXAGE \in Nat \ {0}
  /\ TimeMod \in Nat \ {0}
  /\ UIP_ARP_MAXAGE < TimeMod

ASSUME AddressesAssumption ==
  /\ Zero \notin Addrs
  /\ HostAddr \in Addrs /\ HostAddr # Broadcast /\ OnLink \subseteq Addrs /\ HalfZero \subseteq Addrs
  /\ Routers \subseteq Addrs \cup {Zero}
  /\ Broadcast \in Addrs /\ NoEth \notin Eths

Entries == 0..(UIP_ARPTAB_SIZE - 1)
AnyAddr == Addrs \cup {Zero}
Senders == AnyAddr \ {HostAddr, Broadcast}
EntryRecs == [ip : AnyAddr, eth : Eths \cup {NoEth}, time : 0..(TimeMod - 1)]

(* The frame the last call left in uip_buf for the driver.                 *)
Frames ==
  [kind : {"ip", "request", "reply"}, to : AnyAddr,
   eth : Eths \cup {NoEth, Broadcast}]
NoFrame == [kind |-> "none"]

VARIABLES
  arp_table,
  arptime,
  uip_hostaddr,
  masked,       \* has uip_netmask been set (it is 0.0.0.0 before)?
  uip_draddr,
  frame,
  age,          \* history: ticks since the entry was written, up to MAXAGE
  told          \* history: the Ethernet address last given for an IP address

addresses == <<uip_hostaddr, masked, uip_draddr>>
vars == <<arp_table, arptime, uip_hostaddr, masked, uip_draddr, frame, age, told>>

TypeOK ==
  /\ arp_table \in [Entries -> EntryRecs]
  /\ arptime \in 0..(TimeMod - 1)
  /\ uip_hostaddr \in {Zero, HostAddr}
  /\ masked \in BOOLEAN
  /\ uip_draddr \in Routers \cup {Zero}
  /\ frame \in Frames \cup {NoFrame}
  /\ age \in [Entries -> 0..UIP_ARP_MAXAGE]
  /\ told \in [Senders -> Eths \cup {NoEth}]

(* uip_arp_init, before the DHCP client has run.                           *)
Init ==
  /\ arp_table = [i \in Entries |-> [ip |-> Zero, eth |-> NoEth, time |-> 0]]
  /\ arptime = 0
  /\ uip_hostaddr = Zero
  /\ masked = FALSE
  /\ uip_draddr = Zero
  /\ frame = NoFrame
  /\ age = [i \in Entries |-> 0]
  /\ told = [a \in Senders |-> NoEth]

(***************************************************************************)
(* The table.                                                              *)
(***************************************************************************)
Occupied(i) == arp_table[i].ip # Zero
InUse(i) == Occupied(i) /\ arp_table[i].ip \notin HalfZero
First(S, i) == i \in S /\ \A j \in S : i <= j

uip_arp_timer_wide ==
  /\ arptime' = arptime + 1
  /\ frame' = NoFrame
  /\ UNCHANGED <<arp_table, addresses, age, told>>

uip_arp_timer_after ==
  LET now == (arptime + 1) % TimeMod
      old(i) == Occupied(i) /\ now - arp_table[i].time > UIP_ARP_MAXAGE
  IN /\ arptime' = now
     /\ arp_table' = [i \in Entries |->
          IF old(i) THEN [arp_table[i] EXCEPT !.ip = Zero] ELSE arp_table[i]]
     /\ age' = [i \in Entries |->
          IF old(i) \/ age[i] = UIP_ARP_MAXAGE THEN age[i] ELSE age[i] + 1]
     /\ frame' = NoFrame
     /\ UNCHANGED <<addresses, told>>

(* uip_arp_timer: every ten seconds.  arptime and time are bytes, their    *)
(* difference is an int and may be negative.                               *)
uip_arp_timer ==
  LET now == (arptime + 1) % TimeMod
      old(i) == Occupied(i) /\ now - arp_table[i].time >= UIP_ARP_MAXAGE
  IN /\ arptime' = now
     /\ arp_table' = [i \in Entries |->
          IF old(i) THEN [arp_table[i] EXCEPT !.ip = Zero] ELSE arp_table[i]]
     /\ age' = [i \in Entries |->
          IF old(i) \/ age[i] = UIP_ARP_MAXAGE THEN age[i] ELSE age[i] + 1]
     /\ frame' = NoFrame
     /\ UNCHANGED <<addresses, told>>

(* uip_arp_update: the entry of the address, else the first unused entry,  *)
(* else the one for which arptime - time is the largest positive number    *)
(* (the first entry when there is none).                                   *)
Holding(ip) == {i \in Entries : InUse(i) /\ arp_table[i].ip = ip}
Free == {i \in Entries : ~Occupied(i)}
Lead(i) == arptime - arp_table[i].time

Oldest ==
  {i \in Entries : Lead(i) > 0 /\ \A j \in Entries : Lead(j) <= Lead(i)}

Chosen_unused(ip, i) ==
  \/ First(Free, i)
  \/ Free = {} /\ First(Holding(ip), i)
  \/ Free = {} /\ Holding(ip) = {} /\ First(Oldest, i)
  \/ Free = {} /\ Holding(ip) = {} /\ Oldest = {} /\ i = 0

Chosen_early(ip, i) ==
  \/ First(Holding(ip), i)
  \/ Holding(ip) = {} /\ First(Oldest, i)
  \/ Holding(ip) = {} /\ Oldest = {} /\ First(Free, i)
  \/ Holding(ip) = {} /\ Oldest = {} /\ Free = {} /\ i = 0

Chosen(ip, i) ==
  \/ First(Holding(ip), i)
  \/ Holding(ip) = {} /\ First(Free, i)
  \/ Holding(ip) = {} /\ Free = {} /\ First(Oldest, i)
  \/ Holding(ip) = {} /\ Free = {} /\ Oldest = {} /\ i = 0

uip_arp_update_time(ip, eth) ==
  /\ \E i \in Entries :
       /\ Chosen(ip, i)
       /\ arp_table' = [arp_table EXCEPT
            ![i] = [ip |-> ip, eth |-> IF i \in Holding(ip) THEN @.eth ELSE eth,
                    time |-> arptime]]
       /\ age' = [age EXCEPT ![i] = 0]
  /\ told' = [told EXCEPT ![ip] = eth]

uip_arp_update(ip, eth) ==
  /\ \E i \in Entries :
       /\ Chosen(ip, i)
       /\ arp_table' = [arp_table EXCEPT
                          ![i] = [ip |-> ip, eth |-> eth, time |-> arptime]]
       /\ age' = [age EXCEPT ![i] = 0]
  /\ told' = [told EXCEPT ![ip] = eth]

Untouched == UNCHANGED <<arp_table, age, told>>

(***************************************************************************)
(* Packets.                                                                *)
(***************************************************************************)

(* Is the address on our network, as uip_netmask and uip_hostaddr have it? *)
(* With no mask everything is; with a mask but no address (while the DHCP  *)
(* client renews) nothing is but 0.0.0.0 itself.                           *)
Local(a) ==
  IF ~masked THEN TRUE
  ELSE IF uip_hostaddr = Zero THEN a = Zero
  ELSE a \in OnLink

(* uip_arp_ipin: an IP packet of a host on our network.                    *)
uip_arp_ipin(src, eth) ==
  /\ IF Local(src) THEN uip_arp_update(src, eth) ELSE Untouched
  /\ frame' = NoFrame
  /\ UNCHANGED <<addresses, arptime>>

(* uip_arp_arpin: a request for our address is recorded and answered, a    *)
(* reply to us is recorded.                                                *)
ArpRequestIn(sip, eth, dip) ==
  /\ IF dip = uip_hostaddr
     THEN /\ uip_arp_update(sip, eth)
          /\ frame' = [kind |-> "reply", to |-> sip, eth |-> eth]
     ELSE Untouched /\ frame' = NoFrame
  /\ UNCHANGED <<addresses, arptime>>

ArpReplyIn(sip, eth, dip) ==
  /\ IF dip = uip_hostaddr THEN uip_arp_update(sip, eth) ELSE Untouched
  /\ frame' = NoFrame
  /\ UNCHANGED <<addresses, arptime>>

(* uip_arp_out: an IP packet that leaves.  The scan compares the address   *)
(* with every entry, unused ones included; if it finds none the packet is  *)
(* replaced by a request.                                                  *)
Hop(dest) == IF Local(dest) THEN dest ELSE uip_draddr

uip_arp_out(dest) ==
  LET hop   == Hop(dest)
      match == {i \in Entries : arp_table[i].ip = hop}
  IN /\ \/ /\ dest = Broadcast
           /\ frame' = [kind |-> "ip", to |-> Broadcast, eth |-> Broadcast]
        \/ /\ dest # Broadcast /\ match = {}
           /\ frame' = [kind |-> "request", to |-> hop, eth |-> Broadcast]
        \/ /\ dest # Broadcast
           /\ \E i \in match :
                /\ First(match, i)
                /\ frame' = [kind |-> "ip", to |-> hop,
                             eth |-> arp_table[i].eth]
     /\ Untouched
     /\ UNCHANGED <<addresses, arptime>>

(***************************************************************************)
(* The addresses, as main.c and the DHCP client set them.                  *)
(***************************************************************************)
dhcpc_configured(router) ==
  /\ uip_hostaddr' = HostAddr
  /\ masked' = TRUE
  /\ uip_draddr' = router
  /\ frame' = NoFrame
  /\ Untouched
  /\ UNCHANGED arptime

dhcpc_renew ==
  /\ uip_hostaddr' = Zero
  /\ frame' = NoFrame
  /\ Untouched
  /\ UNCHANGED <<masked, uip_draddr, arptime>>

Next ==
  \/ uip_arp_timer
  \/ \E ip \in Senders, eth \in Eths :
       \/ uip_arp_ipin(ip, eth)
       \/ \E dip \in {Zero, HostAddr} :
            ArpRequestIn(ip, eth, dip) \/ ArpReplyIn(ip, eth, dip)
  \/ \E dest \in AnyAddr : uip_arp_out(dest)
  \/ \E router \in Routers : dhcpc_configured(router)
  \/ dhcpc_renew

Spec == Init /\ [][Next]_vars

(***************************************************************************)
(* Properties                                                              *)
(***************************************************************************)

(* An address has one entry, however updates, expiry and eviction          *)
(* interleave (uip_arp_update searches before it inserts).  An address     *)
(* with a zero half is never found and is inserted again and again.        *)
UniqueEntries ==
  \A i, j \in Entries :
    InUse(i) /\ InUse(j) /\ arp_table[i].ip = arp_table[j].ip => i = j

(* An IP packet goes to the Ethernet address its next hop gave last, never *)
(* to an earlier one.  Not so for the hop 0.0.0.0 (no default router),     *)
(* which matches an unused entry.                                          *)
FramesFollowLatest ==
  frame # NoFrame /\ frame.kind = "ip" /\ frame.to \in Senders \ (HalfZero \cup {Zero})
    => frame.eth = told[frame.to] /\ frame.eth \in Eths

(* "responsible for flushing old entries in the ARP table" (uip_arp.h): no *)
(* entry in use is UIP_ARP_MAXAGE ticks old.                               *)
Flushed == \A i \in Entries : Occupied(i) => age[i] < UIP_ARP_MAXAGE

(* What does hold: only an entry written so late in the cycle of arptime   *)
(* that time + UIP_ARP_MAXAGE does not fit a byte outlives its age.        *)
FlushedUnlessLate ==
  \A i \in Entries :
    Occupied(i) /\ age[i] = UIP_ARP_MAXAGE
      => arp_table[i].time + UIP_ARP_MAXAGE >= TimeMod

(* An address is only displaced from a full table; and it is the oldest    *)
(* one, unless an entry has outlived its age or arptime has wrapped since  *)
(* an entry was written.                                                   *)
OldestEvicted ==
  [][\A i \in Entries :
       /\ Occupied(i)
       /\ arp_table'[i] # arp_table[i] /\ arptime' = arptime
       /\ arp_table'[i].ip # arp_table[i].ip
       => /\ \A j \in Entries : Occupied(j)
          /\ (\A j \in Entries : /\ arp_table[j].time <= arptime
                                   /\ age[j] < UIP_ARP_MAXAGE)
               => \A j \in Entries : age[j] <= age[i]
    ]_vars
=============================================================================
