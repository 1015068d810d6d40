------------------------------ MODULE MCUipArp ------------------------------
(* Instances of UipArp for TLC.                                            *)
EXTENDS UipArp, TLC

CONSTANTS me, ann, router, far, all

ArpAddrs   == {me, ann, router, far, all}
ArpOnLink  == {me, ann, router}
ArpRouters == {router, Zero}

(* An unused entry is read for its ethaddr only, and what was told of an   *)
(* address that is not in the table matters to nobody.                     *)
ArpView ==
  <<arptime, addresses, frame,
    [i \in Entries |-> IF Occupied(i) THEN <<arp_table[i], age[i]>>
                       ELSE arp_table[i].eth],
    [a \in Senders |-> IF \E i \in Entries : arp_table[i].ip = a THEN told[a]
                       ELSE NoEth]>>

Symmetric == Permutations(Eths)
=============================================================================
