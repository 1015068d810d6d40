---------------------------- MODULE UipArp_proofs ----------------------------
(***************************************************************************)
(* Proofs about UipArp, for every size of the table, every age and every   *)
(* set of addresses that the assumptions of UipArp admit.                  *)
(*                                                                         *)
(* UniqueEntries is inductive with the types; that frames follow the last  *)
(* word needs the coherence of the table with what was told; the age of an *)
(* entry needs the equation that ties it to arptime and time (Dated).      *)
(***************************************************************************)
EXTENDS UipArp, FoldLemmas

(* An entry that is found holds what its host said last.                   *)
Coherent ==
  \A i \in Entries :
    InUse(i) => /\ arp_table[i].ip \in Senders
                /\ arp_table[i].eth = told[arp_table[i].ip]
                /\ arp_table[i].eth \in Eths

(* While an entry is young its age is the distance from time to arptime,   *)
(* counted round the clock; an entry that is old was written late.         *)
DatedEntry(e, a, now) ==
  IF a < UIP_ARP_MAXAGE THEN e.time + a \in {now, now + TimeMod}
  ELSE e.time + UIP_ARP_MAXAGE >= TimeMod

Dated == \A i \in Entries : Occupied(i) => DatedEntry(arp_table[i], age[i], arptime)

IInv == TypeOK /\ UniqueEntries /\ Coherent /\ FramesFollowLatest /\ Dated

(***************************************************************************)
(* Arithmetic and types.                                                   *)
(***************************************************************************)

(* The clock byte goes round.                                              *)
LEMMA ClockStep ==
  ASSUME NEW t \in 0..(TimeMod - 1)
  PROVE  (t + 1) % TimeMod = IF t + 1 = TimeMod THEN 0 ELSE t + 1
BY SizesAssumption

LEMMA InitInv == Init => IInv
<1> SUFFICES ASSUME Init PROVE IInv
  OBVIOUS
<1>1. TypeOK
  <2>1. arp_table \in [Entries -> EntryRecs]
    <3>1. 0 \in 0..(TimeMod - 1)
      BY SizesAssumption
    <3>2. [ip |-> Zero, eth |-> NoEth, time |-> 0] \in EntryRecs
      BY <3>1 DEF EntryRecs, AnyAddr
    <3> QED
      BY <3>2 DEF Init
  <2>2. arptime \in 0..(TimeMod - 1)
    BY SizesAssumption DEF Init
  <2>3. age \in [Entries -> 0..UIP_ARP_MAXAGE]
    BY SizesAssumption DEF Init
  <2>4. told \in [Senders -> Eths \cup {NoEth}]
    BY DEF Init
  <2> QED
    BY <2>1, <2>2, <2>3, <2>4 DEF Init, TypeOK
<1>2. \A i \in Entries : ~Occupied(i)
  BY DEF Init, Occupied
<1>3. UniqueEntries /\ Coherent /\ Dated
  BY <1>2 DEF UniqueEntries, Coherent, Dated, InUse
<1>4. FramesFollowLatest
  BY DEF Init, FramesFollowLatest
<1> QED
  BY <1>1, <1>3, <1>4 DEF IInv

(***************************************************************************)
(* uip_arp_timer.                                                          *)
(***************************************************************************)
LEMMA TimerInv ==
  ASSUME IInv, uip_arp_timer
  PROVE  IInv'
<1> DEFINE now == (arptime + 1) % TimeMod
           old(i) == Occupied(i) /\ now - arp_table[i].time >= UIP_ARP_MAXAGE
<1> USE DEF IInv
<1>1. now = IF arptime + 1 = TimeMod THEN 0 ELSE arptime + 1
  BY ClockStep DEF TypeOK
<1>2. /\ arptime' = now
      /\ arp_table' = [i \in Entries |->
           IF old(i) THEN [arp_table[i] EXCEPT !.ip = Zero] ELSE arp_table[i]]
      /\ age' = [i \in Entries |->
           IF old(i) \/ age[i] = UIP_ARP_MAXAGE THEN age[i] ELSE age[i] + 1]
      /\ frame' = NoFrame
      /\ UNCHANGED <<addresses, told>>
  BY DEF uip_arp_timer
<1> HIDE DEF now, old
<1>3. now \in 0..(TimeMod - 1)
  BY <1>1, SizesAssumption DEF TypeOK
<1>4. \A i \in Entries : Occupied(i)' => ~old(i) /\ arp_table'[i] = arp_table[i]
  BY <1>2 DEF Occupied, TypeOK, EntryRecs
<1>5. \A i \in Entries : InUse(i)' => InUse(i) /\ arp_table'[i] = arp_table[i]
  BY <1>4 DEF InUse, Occupied
<1>6. TypeOK'
  <2>1. arp_table' \in [Entries -> EntryRecs]
    <3> SUFFICES ASSUME NEW i \in Entries
                 PROVE  (IF old(i) THEN [arp_table[i] EXCEPT !.ip = Zero]
                         ELSE arp_table[i]) \in EntryRecs
      BY <1>2
    <3> QED
      BY DEF TypeOK, EntryRecs, AnyAddr
  <2>2. age' \in [Entries -> 0..UIP_ARP_MAXAGE]
    BY <1>2, SizesAssumption DEF TypeOK
  <2> QED
    BY <1>2, <1>3, <2>1, <2>2 DEF TypeOK, addresses
<1>7. UniqueEntries'
  BY <1>5 DEF UniqueEntries
<1>8. Coherent'
  BY <1>2, <1>5 DEF Coherent
<1>9. FramesFollowLatest'
  BY <1>2 DEF FramesFollowLatest
<1>10. Dated'
  <2> SUFFICES ASSUME NEW i \in Entries, Occupied(i)'
               PROVE  DatedEntry(arp_table'[i], age'[i], arptime')
    BY DEF Dated
  <2>1. /\ ~old(i) /\ arp_table'[i] = arp_table[i] /\ Occupied(i)
        /\ age'[i] = IF age[i] = UIP_ARP_MAXAGE THEN age[i] ELSE age[i] + 1
    BY <1>2, <1>4 DEF Occupied
  <2>2. /\ arp_table[i].time \in 0..(TimeMod - 1) /\ age[i] \in 0..UIP_ARP_MAXAGE
        /\ arptime \in 0..(TimeMod - 1)
    BY DEF TypeOK, EntryRecs
  <2>3. DatedEntry(arp_table[i], age[i], arptime)
    BY <2>1 DEF Dated
  <2>4. now - arp_table[i].time < UIP_ARP_MAXAGE
    <3>1. ~(now - arp_table[i].time >= UIP_ARP_MAXAGE)
      BY <2>1 DEF old
    <3> QED
      BY <3>1, <2>2, <1>3, SizesAssumption
  <2> QED
    BY <1>1, <1>2, <2>1, <2>2, <2>3, <2>4, SizesAssumption DEF DatedEntry
<1> QED
  BY <1>6, <1>7, <1>8, <1>9, <1>10

(***************************************************************************)
(* uip_arp_update.                                                         *)
(***************************************************************************)

(* An update chooses an entry of the table; another entry of the address   *)
(* is chosen if there is one.                                              *)
LEMMA ChosenHolds ==
  ASSUME IInv, NEW ip \in Senders, NEW i \in Entries, Chosen(ip, i),
         NEW j \in Entries, InUse(j), arp_table[j].ip = ip
  PROVE  j = i
<1>1. j \in Holding(ip)
  BY DEF Holding
<1>2. i \in Holding(ip)
  BY <1>1 DEF Chosen, First
<1> QED
  BY <1>1, <1>2 DEF IInv, UniqueEntries, Holding

(* The rest of what an action that updates does: the frame is the business *)
(* of the caller.                                                          *)
TableInv == UniqueEntries /\ Coherent /\ Dated
TableTyped ==
  /\ arp_table \in [Entries -> EntryRecs]
  /\ age \in [Entries -> 0..UIP_ARP_MAXAGE]
  /\ told \in [Senders -> Eths \cup {NoEth}]

LEMMA UpdateInv ==
  ASSUME IInv, NEW ip \in Senders, NEW eth \in Eths, uip_arp_update(ip, eth),
         UNCHANGED arptime
  PROVE  TableTyped' /\ TableInv'
<1> USE DEF IInv
<1>1. PICK n \in Entries :
        /\ Chosen(ip, n)
        /\ arp_table' = [arp_table EXCEPT
                           ![n] = [ip |-> ip, eth |-> eth, time |-> arptime]]
        /\ age' = [age EXCEPT ![n] = 0]
  BY DEF uip_arp_update
<1>2. told' = [told EXCEPT ![ip] = eth]
  BY DEF uip_arp_update
<1>3. arp_table'[n] = [ip |-> ip, eth |-> eth, time |-> arptime]
  BY <1>1 DEF TypeOK
<1>4. \A j \in Entries : j # n => arp_table'[j] = arp_table[j] /\ age'[j] = age[j]
  BY <1>1 DEF TypeOK
<1>5. \A j \in Entries : j # n /\ InUse(j)' => InUse(j) /\ arp_table[j].ip # ip
  BY <1>1, <1>4, ChosenHolds DEF InUse, Occupied
<1>6. TableTyped'
  <2>1. ip \in AnyAddr
    BY DEF Senders
  <2>2. [ip |-> ip, eth |-> eth, time |-> arptime] \in EntryRecs
    BY <2>1 DEF TypeOK, EntryRecs
  <2>3. arp_table' \in [Entries -> EntryRecs]
    BY <1>1, <2>2 DEF TypeOK
  <2>4. age' \in [Entries -> 0..UIP_ARP_MAXAGE]
    BY <1>1, SizesAssumption DEF TypeOK
  <2> QED
    BY <1>2, <2>3, <2>4 DEF TableTyped, TypeOK
<1>7. UniqueEntries'
  <2> SUFFICES ASSUME NEW i \in Entries, NEW j \in Entries,
                      InUse(i)', InUse(j)',
                      arp_table'[i].ip = arp_table'[j].ip
               PROVE  i = j
    BY DEF UniqueEntries
  <2>1. CASE i # n /\ j # n
    BY <2>1, <1>4, <1>5 DEF UniqueEntries
  <2>2. CASE i = n /\ j # n
    BY <2>2, <1>3, <1>4, <1>5
  <2>3. CASE i # n /\ j = n
    BY <2>3, <1>3, <1>4, <1>5
  <2> QED
    BY <2>1, <2>2, <2>3
<1>8. Coherent'
  <2> SUFFICES ASSUME NEW i \in Entries, InUse(i)'
               PROVE  /\ arp_table'[i].ip \in Senders
                      /\ arp_table'[i].eth = told'[arp_table'[i].ip]
                      /\ arp_table'[i].eth \in Eths
    BY DEF Coherent
  <2>1. CASE i = n
    BY <2>1, <1>2, <1>3 DEF TypeOK
  <2>2. CASE i # n
    <3>1. /\ InUse(i) /\ arp_table[i].ip # ip
          /\ arp_table'[i] = arp_table[i]
      BY <2>2, <1>4, <1>5
    <3>2. /\ arp_table[i].ip \in Senders
          /\ arp_table[i].eth = told[arp_table[i].ip]
          /\ arp_table[i].eth \in Eths
      BY <3>1 DEF Coherent
    <3>3. told'[arp_table[i].ip] = told[arp_table[i].ip]
      BY <3>1, <3>2, <1>2 DEF TypeOK
    <3> QED
      BY <3>1, <3>2, <3>3
  <2> QED
    BY <2>1, <2>2
<1>9. Dated'
  <2> SUFFICES ASSUME NEW i \in Entries, Occupied(i)'
               PROVE  DatedEntry(arp_table'[i], age'[i], arptime')
    BY DEF Dated
  <2>1. CASE i = n
    <3>1. age'[n] = 0 /\ arp_table'[n].time = arptime
      BY <1>1, <1>3 DEF TypeOK
    <3> QED
      BY <2>1, <3>1, SizesAssumption DEF DatedEntry, TypeOK
  <2>2. CASE i # n
    BY <2>2, <1>4 DEF Dated, Occupied
  <2> QED
    BY <2>1, <2>2
<1> QED
  BY <1>6, <1>7, <1>8, <1>9 DEF TableInv

(* An action that leaves the table alone leaves its invariants alone.      *)
LEMMA UntouchedInv ==
  ASSUME IInv, Untouched, UNCHANGED arptime
  PROVE  TableTyped' /\ TableInv'
<1>1. UNCHANGED <<arp_table, age, told, arptime>>
  BY DEF Untouched
<1>2. TableTyped /\ TableInv
  BY DEF IInv, TypeOK, TableTyped, TableInv
<1>3. TableTyped'
  BY <1>1, <1>2 DEF TableTyped
<1> QED
  BY <1>1, <1>2, <1>3
  DEF TableInv, UniqueEntries, Coherent, Dated, InUse, Occupied

(* The table, the frame and the addresses together.                        *)
RestTyped ==
  /\ arptime \in 0..(TimeMod - 1)
  /\ uip_hostaddr \in {Zero, HostAddr}
  /\ masked \in BOOLEAN
  /\ uip_draddr \in Routers \cup {Zero}
  /\ frame \in Frames \cup {NoFrame}

LEMMA StepInv ==
  ASSUME (TableTyped /\ TableInv /\ RestTyped /\ FramesFollowLatest)'
  PROVE  IInv'
BY DEF IInv, TypeOK, TableTyped, TableInv, RestTyped

LEMMA NotAnIpFrame ==
  ASSUME frame' = NoFrame \/ frame'.kind # "ip"
  PROVE  FramesFollowLatest'
BY DEF FramesFollowLatest

(***************************************************************************)
(* Packets and addresses.                                                  *)
(***************************************************************************)
LEMMA IpinInv ==
  ASSUME IInv, NEW src \in Senders, NEW eth \in Eths, uip_arp_ipin(src, eth)
  PROVE  IInv'
<1>1. TableTyped' /\ TableInv'
  BY UpdateInv, UntouchedInv DEF uip_arp_ipin
<1>2. RestTyped'
  BY DEF uip_arp_ipin, IInv, TypeOK, RestTyped, addresses
<1>3. FramesFollowLatest'
  BY NotAnIpFrame DEF uip_arp_ipin
<1> QED
  BY <1>1, <1>2, <1>3, StepInv

LEMMA ArpRequestInv ==
  ASSUME IInv, NEW sip \in Senders, NEW eth \in Eths, NEW dip,
         ArpRequestIn(sip, eth, dip)
  PROVE  IInv'
<1>1. TableTyped' /\ TableInv'
  BY UpdateInv, UntouchedInv DEF ArpRequestIn
<1>2. RestTyped'
  BY DEF ArpRequestIn, IInv, TypeOK, RestTyped, addresses, Frames, Senders
<1>3. FramesFollowLatest'
  BY NotAnIpFrame DEF ArpRequestIn
<1> QED
  BY <1>1, <1>2, <1>3, StepInv

LEMMA ArpReplyInv ==
  ASSUME IInv, NEW sip \in Senders, NEW eth \in Eths, NEW dip,
         ArpReplyIn(sip, eth, dip)
  PROVE  IInv'
<1>1. TableTyped' /\ TableInv'
  BY UpdateInv, UntouchedInv DEF ArpReplyIn
<1>2. RestTyped'
  BY DEF ArpReplyIn, IInv, TypeOK, RestTyped, addresses
<1>3. FramesFollowLatest'
  BY NotAnIpFrame DEF ArpReplyIn
<1> QED
  BY <1>1, <1>2, <1>3, StepInv

(* The frame goes to the address the entry holds, which by Coherent is the *)
(* last one told.                                                          *)
LEMMA OutInv ==
  ASSUME IInv, NEW dest \in AnyAddr, uip_arp_out(dest)
  PROVE  IInv'
<1> DEFINE hop == Hop(dest)
           match == {i \in Entries : arp_table[i].ip = hop}
<1>1. Untouched /\ UNCHANGED <<addresses, arptime>>
  BY DEF uip_arp_out
<1>2. TableTyped' /\ TableInv'
  BY <1>1, UntouchedInv
<1>3. hop \in AnyAddr
  BY AddressesAssumption DEF Hop, AnyAddr, IInv, TypeOK
<1>4. CASE frame' = [kind |-> "ip", to |-> Broadcast, eth |-> Broadcast]
  <2>1. frame' \in Frames
    BY <1>4, AddressesAssumption DEF Frames, AnyAddr
  <2>2. FramesFollowLatest'
    BY <1>4 DEF FramesFollowLatest, Senders
  <2> QED
    BY <1>1, <1>2, <2>1, <2>2, StepInv DEF RestTyped, addresses, IInv, TypeOK
<1>5. CASE frame' = [kind |-> "request", to |-> hop, eth |-> Broadcast]
  <2>1. frame' \in Frames
    BY <1>3, <1>5 DEF Frames
  <2>2. FramesFollowLatest'
    BY <1>5, NotAnIpFrame
  <2> QED
    BY <1>1, <1>2, <2>1, <2>2, StepInv DEF RestTyped, addresses, IInv, TypeOK
<1>6. ASSUME NEW i \in match,
             frame' = [kind |-> "ip", to |-> hop, eth |-> arp_table[i].eth]
      PROVE  IInv'
  <2>1. frame' \in Frames
    BY <1>3, <1>6 DEF Frames, IInv, TypeOK, EntryRecs
  <2>2. FramesFollowLatest'
    <3> SUFFICES ASSUME hop \in Senders \ (HalfZero \cup {Zero})
                 PROVE  arp_table[i].eth = told[hop] /\ arp_table[i].eth \in Eths
      BY <1>1, <1>6 DEF FramesFollowLatest, Untouched
    <3>1. InUse(i) /\ arp_table[i].ip = hop
      BY <1>6 DEF InUse, Occupied
    <3> QED
      BY <3>1 DEF IInv, Coherent
  <2> QED
    BY <1>1, <1>2, <2>1, <2>2, StepInv DEF RestTyped, addresses, IInv, TypeOK
<1> QED
  BY <1>4, <1>5, <1>6 DEF uip_arp_out

LEMMA ConfiguredInv ==
  ASSUME IInv, NEW router \in Routers, dhcpc_configured(router)
  PROVE  IInv'
<1>1. TableTyped' /\ TableInv'
  BY UntouchedInv DEF dhcpc_configured
<1>2. RestTyped'
  BY DEF dhcpc_configured, IInv, TypeOK, RestTyped
<1>3. FramesFollowLatest'
  BY NotAnIpFrame DEF dhcpc_configured
<1> QED
  BY <1>1, <1>2, <1>3, StepInv

LEMMA RenewInv ==
  ASSUME IInv, dhcpc_renew
  PROVE  IInv'
<1>1. TableTyped' /\ TableInv'
  BY UntouchedInv DEF dhcpc_renew
<1>2. RestTyped'
  BY DEF dhcpc_renew, IInv, TypeOK, RestTyped
<1>3. FramesFollowLatest'
  BY NotAnIpFrame DEF dhcpc_renew
<1> QED
  BY <1>1, <1>2, <1>3, StepInv

LEMMA NextInv == IInv /\ [Next]_vars => IInv'
<1> SUFFICES ASSUME IInv, [Next]_vars PROVE IInv'
  OBVIOUS
<1>1. CASE uip_arp_timer
  BY <1>1, TimerInv
<1>2. ASSUME NEW ip \in Senders, NEW eth \in Eths, uip_arp_ipin(ip, eth)
      PROVE  IInv'
  BY <1>2, IpinInv
<1>3. ASSUME NEW ip \in Senders, NEW eth \in Eths, NEW dip \in {Zero, HostAddr},
             ArpRequestIn(ip, eth, dip)
      PROVE  IInv'
  BY <1>3, ArpRequestInv
<1>4. ASSUME NEW ip \in Senders, NEW eth \in Eths, NEW dip \in {Zero, HostAddr},
             ArpReplyIn(ip, eth, dip)
      PROVE  IInv'
  BY <1>4, ArpReplyInv
<1>5. ASSUME NEW dest \in AnyAddr, uip_arp_out(dest) PROVE IInv'
  BY <1>5, OutInv
<1>6. ASSUME NEW router \in Routers, dhcpc_configured(router) PROVE IInv'
  BY <1>6, ConfiguredInv
<1>7. CASE dhcpc_renew
  BY <1>7, RenewInv
<1>8. CASE UNCHANGED vars
  <2>1. Untouched /\ UNCHANGED <<arptime, frame, addresses>>
    BY <1>8 DEF vars, Untouched, addresses
  <2>2. TableTyped' /\ TableInv'
    BY <2>1, UntouchedInv
  <2>3. RestTyped'
    BY <2>1 DEF RestTyped, addresses, IInv, TypeOK
  <2>4. FramesFollowLatest'
    BY <2>1 DEF FramesFollowLatest, Untouched, IInv
  <2> QED
    BY <2>2, <2>3, <2>4, StepInv
<1> QED
  BY <1>1, <1>2, <1>3, <1>4, <1>5, <1>6, <1>7, <1>8 DEF Next

(***************************************************************************)
(* Eviction.                                                               *)
(***************************************************************************)

(* If an entry leads the clock byte, one of them leads it most.            *)
LEMMA OldestExists ==
  ASSUME TypeOK, Oldest = {}
  PROVE  \A i \in Entries : Lead(i) <= 0
<1> SUFFICES ASSUME NEW i \in Entries, Lead(i) > 0 PROVE FALSE
  <2>1. \A i \in Entries : Lead(i) \in Int
    BY SizesAssumption DEF TypeOK, EntryRecs, Lead
  <2> QED
    BY <2>1
<1> DEFINE T == {TimeMod - Lead(j) : j \in Entries}
<1>1. \A j \in Entries : Lead(j) \in Int /\ Lead(j) < TimeMod
  BY SizesAssumption DEF TypeOK, EntryRecs, Lead
<1>2. T \in SUBSET Nat
  BY <1>1, SizesAssumption
<1>3. T # {}
  OBVIOUS
<1>4. PICK x \in T : \A y \in T : x <= y
  <2> HIDE DEF T
  <2> QED
    BY <1>2, <1>3, LeastNumber
<1>5. PICK j \in Entries : x = TimeMod - Lead(j)
  BY <1>4
<1>6. \A k \in Entries : Lead(k) <= Lead(j)
  <2> TAKE k \in Entries
  <2>1. TimeMod - Lead(j) <= TimeMod - Lead(k)
    BY <1>4, <1>5
  <2> QED
    BY <2>1, <1>1, SizesAssumption
<1>7. Lead(j) > 0
  BY <1>1, <1>6
<1> QED
  BY <1>6, <1>7 DEF Oldest

Displaced(i) ==
  /\ Occupied(i)
  /\ arp_table'[i] # arp_table[i] /\ arptime' = arptime
  /\ arp_table'[i].ip # arp_table[i].ip
Reliable == \A j \in Entries : arp_table[j].time <= arptime /\ age[j] < UIP_ARP_MAXAGE
DisplacesOldest(i) ==
  /\ \A j \in Entries : Occupied(j)
  /\ Reliable => \A j \in Entries : age[j] <= age[i]

(* While the clock byte has not wrapped, the lead of an entry is its age.  *)
LEMMA LeadIsAge ==
  ASSUME IInv, Reliable, NEW j \in Entries, Occupied(j)
  PROVE  Lead(j) = age[j]
<1>1. DatedEntry(arp_table[j], age[j], arptime)
  BY DEF IInv, Dated
<1>2. /\ arp_table[j].time \in 0..(TimeMod - 1) /\ age[j] \in 0..UIP_ARP_MAXAGE
      /\ arptime \in 0..(TimeMod - 1)
  BY DEF IInv, TypeOK, EntryRecs
<1>3. arp_table[j].time <= arptime /\ age[j] < UIP_ARP_MAXAGE
  BY DEF Reliable
<1> QED
  BY <1>1, <1>2, <1>3, SizesAssumption DEF DatedEntry, Lead

LEMMA UpdateDisplaces ==
  ASSUME IInv, NEW ip \in Senders, NEW eth \in Eths, uip_arp_update(ip, eth),
         NEW i \in Entries, Displaced(i)
  PROVE  DisplacesOldest(i)
<1>1. Chosen(ip, i) /\ arp_table'[i].ip = ip
  <2>1. PICK n \in Entries :
          /\ Chosen(ip, n)
          /\ arp_table' = [arp_table EXCEPT
                             ![n] = [ip |-> ip, eth |-> eth, time |-> arptime]]
    BY DEF uip_arp_update
  <2>2. i = n
    BY <2>1 DEF Displaced, IInv, TypeOK
  <2> QED
    BY <2>1, <2>2 DEF IInv, TypeOK
<1>2. i \notin Holding(ip) /\ i \notin Free
  BY <1>1 DEF Displaced, Holding, Free
<1>3. Free = {} /\ (First(Oldest, i) \/ Oldest = {})
  BY <1>1, <1>2 DEF Chosen, First
<1>4. \A j \in Entries : Occupied(j)
  BY <1>3 DEF Free
<1>5. ASSUME Reliable, NEW j \in Entries PROVE age[j] <= age[i]
  <2>1. Lead(j) = age[j] /\ Lead(i) = age[i]
    BY <1>4, <1>5, LeadIsAge
  <2>2. CASE First(Oldest, i)
    BY <2>1, <2>2 DEF First, Oldest
  <2>3. CASE Oldest = {}
    <3>1. Lead(j) <= 0
      BY <2>3, OldestExists DEF IInv
    <3>2. age[i] \in Nat /\ age[j] \in Nat
      BY SizesAssumption DEF IInv, TypeOK
    <3> QED
      BY <2>1, <3>1, <3>2
  <2> QED
    BY <1>3, <2>2, <2>3
<1> QED
  BY <1>4, <1>5 DEF DisplacesOldest

(* Only uip_arp_timer and an update write the table, and the timer moves   *)
(* the clock byte.                                                         *)
LEMMA StepDisplaces ==
  ASSUME IInv, [Next]_vars, NEW i \in Entries, Displaced(i)
  PROVE  DisplacesOldest(i)
<1>1. CASE uip_arp_timer
  <2>1. arptime' # arptime
    BY <1>1, ClockStep, SizesAssumption DEF uip_arp_timer, IInv, TypeOK
  <2> QED
    BY <2>1 DEF Displaced
<1>2. CASE \E ip \in Senders, eth \in Eths : uip_arp_update(ip, eth)
  BY <1>2, UpdateDisplaces
<1>3. CASE UNCHANGED arp_table
  BY <1>3 DEF Displaced
<1> QED
  BY <1>1, <1>2, <1>3
  DEF Next, uip_arp_ipin, ArpRequestIn, ArpReplyIn, uip_arp_out,
      dhcpc_configured, dhcpc_renew, Untouched, vars

(***************************************************************************)
(* The theorems.                                                           *)
(***************************************************************************)

(* The inductive invariant holds after any sequence of timer calls,        *)
(* packets and changes of address.                                         *)
THEOREM Invariance == Spec => []IInv
BY InitInv, NextInv, PTL DEF Spec

(* Every entry and every frame is of its type; arptime stays a byte.       *)
THEOREM TypeCorrect == Spec => []TypeOK
<1>1. IInv => TypeOK
  BY DEF IInv
<1> QED
  BY <1>1, Invariance, PTL

(* uip_arp_update never leaves two entries that are found for one address. *)
THEOREM EntriesUnique == Spec => []UniqueEntries
<1>1. IInv => UniqueEntries
  BY DEF IInv
<1> QED
  BY <1>1, Invariance, PTL

(* uip_arp_out sends to the Ethernet address that the next hop gave last.  *)
THEOREM LatestFollowed == Spec => []FramesFollowLatest
<1>1. IInv => FramesFollowLatest
  BY DEF IInv
<1> QED
  BY <1>1, Invariance, PTL

(* uip_arp_timer lets an entry outlive its age only if it was written when *)
(* time + UIP_ARP_MAXAGE did not fit the clock byte.                       *)
THEOREM OnlyLateOutlive == Spec => []FlushedUnlessLate
<1>1. IInv => FlushedUnlessLate
  BY SizesAssumption DEF IInv, Dated, DatedEntry, FlushedUnlessLate
<1> QED
  BY <1>1, Invariance, PTL

(* uip_arp_update takes the entry of another address only when the table   *)
(* is full, and takes the oldest one while the clock byte can tell.        *)
THEOREM EvictsOldest == Spec => OldestEvicted
<1>1. IInv /\ [Next]_vars => \A i \in Entries : Displaced(i) => DisplacesOldest(i)
  BY StepDisplaces
<1>2. IInv /\ [Next]_vars =>
        [\A i \in Entries :
           /\ Occupied(i)
           /\ arp_table'[i] # arp_table[i] /\ arptime' = arptime
           /\ arp_table'[i].ip # arp_table[i].ip
           => /\ \A j \in Entries : Occupied(j)
              /\ (\A j \in Entries : /\ arp_table[j].time <= arptime
                                       /\ age[j] < UIP_ARP_MAXAGE)
                   => \A j \in Entries : age[j] <= age[i]]_vars
  BY <1>1 DEF Displaced, DisplacesOldest, Reliable
<1> QED
  BY <1>2, Invariance, PTL DEF Spec, OldestEvicted
=============================================================================
