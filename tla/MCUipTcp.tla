------------------------------ MODULE MCUipTcp ------------------------------
(* Instances of UipTcp for TLC.                                            *)
EXTENDS UipTcp, TLC

(* Every segment of the flags peers use, with up to Len octets; fields the *)
(* flags make meaningless are fixed.                                       *)
SegmentsUpTo(Len, FinLen, Windows, Options) ==
  {seg \in [peer : Peers, lport : Ports,
            flags : {{"SYN"}, {"SYN", "ACK"}, {"ACK"}, {"FIN", "ACK"}, {"RST"}},
            seq : SeqNos, ack : SeqNos, len : 0..Len, urg : {0},
            wnd : Windows, mss : Options \cup {0}] :
     /\ "ACK" \notin seg.flags => seg.ack = 0
     /\ seg.len > 0 => seg.flags \in {{"ACK"}, {"FIN", "ACK"}}
     /\ seg.flags = {"FIN", "ACK"} => seg.len <= FinLen
     /\ seg.flags = {"ACK"} /\ seg.len = 0 => seg.seq = 0
     /\ seg.flags \in {{"RST"}, {"SYN", "ACK"}} => seg.seq = 0
     /\ seg.flags = {"FIN", "ACK"} /\ seg.len > 0 => seg.ack = 0
     /\ CASE seg.flags = {"SYN"}        -> seg.mss \in Options
          [] seg.flags = {"SYN", "ACK"} -> seg.mss # 0
          [] OTHER                      -> seg.mss = 0
     /\ seg.flags # {"ACK"} => seg.wnd = 1}

TableArriving == SegmentsUpTo(1, 0, {1}, {1})
(* One peer sends everything, the others only ask for a connection.        *)
Talker == CHOOSE p \in Peers : TRUE
RichArriving ==
  {seg \in SegmentsUpTo(1, 1, {1}, {2}) :
     seg.peer = Talker \/ seg.flags = {"SYN"}}

Rtos1 == {1}

(* Send an octet or nothing, or close.                                     *)
FewReplies == {Silent, [op |-> "none", slen |-> 1], [op |-> "close", slen |-> 0]}
AllReplies == [op : Ops \ {"restart"}, slen : {0}]
                \cup [op : {"none", "restart"}, slen : {2}]

Symmetric == Permutations(Peers)

(* What later steps depend on; out and ev only report the last step.       *)
TableView == <<uip_conns, uip_listenports, iss, resent>>
=============================================================================
