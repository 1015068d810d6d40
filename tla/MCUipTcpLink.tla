---------------------------- MODULE MCUipTcpLink ----------------------------
(* Instances of UipTcpLink for TLC.                                        *)
EXTENDS UipTcpLink

LinkRtos == {1}
LinkReplies ==
  {Silent, [op |-> "none", slen |-> 1], [op |-> "none", slen |-> 2],
   [op |-> "close", slen |-> 0]}

(* iss is read only when the connection is set up.                         *)
LinkView ==
  <<uip_conns, uip_listenports, IF app.started THEN 0 ELSE iss,
    net, back, peer, app>>
=============================================================================
