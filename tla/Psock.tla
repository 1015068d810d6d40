------------------------------- MODULE Psock --------------------------------
(***************************************************************************)
(* Protosockets (src/plc-sw/uip/psock.c) under hello-world or simple-httpd *)
(* (both in src/plc-sw/apps): two protothreads, one in the other, that     *)
(* send, read a line and close as if they could wait.                      *)
(*                                                                         *)
(* The application is its Script, a sequence of [do, text]; pc is the      *)
(* place of its thread, and inner that of the thread in psock_send or      *)
(* psock_readto.  Text is a sequence of tokens, one for some octets.  The  *)
(* call k says what uip_acked, uip_rexmit and uip_newdata report.  The     *)
(* environment is UipApp, as for Telnetd: wire is the segment in flight    *)
(* and seen what the other side has acknowledged.                          *)
(*                                                                         *)
(* Bounds: MaxInput tokens are typed on a connection; a line is shorter    *)
(* than the buffer (one that fills it leaves the name without an end).     *)
(***************************************************************************)
EXTENDS SequencesExt

CONSTANTS Conns, MSS, BUFSIZE, Script, Segments, MaxInput

VARIABLES phase, ev, s, wire, typed, seen,
  crowded   \* was something typed before the question was acknowledged?

App  == INSTANCE UipApp
vars == <<phase, ev, s, wire, typed, seen, crowded>>

Calls(flags, data) == [acked |-> "ACKDATA" \in flags, rexmit |-> "REXMIT" \in flags, data |-> data]
NUL == "NUL"
First(n, text) == SubSeq(text, 1, Min({n, Len(text)}))

(* PSOCK_INIT: the buffer and the name keep what they held.                *)
psock_init_again(t) == [t EXCEPT !.state = "NONE", !.unread = <<>>, !.buf = <<>>]
psock_init(t) ==
  [t EXCEPT !.state = "NONE", !.unread = <<>>, !.buf = <<>>, !.pc = 1, !.inner = "begin"]

-----------------------------------------------------------------------------
(* Sending.  What is left of the text is sent an mss at a time.            *)

Chunk(text) == First(MSS, text)
Rest(text)  == SubSeq(text, Len(Chunk(text)) + 1, Len(text))

Sends(t, k) == t.state # "SENT" \/ k.rexmit
send_data(t, k) ==
  IF Sends(t, k) THEN [t EXCEPT !.out = IF t.left = <<>> THEN @ ELSE Chunk(t.left), !.state = "SENT"]
  ELSE t

Acked(t, k)      == t.state = "SENT" /\ k.acked
data_acked(t, k) ==
  IF Acked(t, k) THEN [t EXCEPT !.left = Rest(@), !.state = "ACKED"] ELSE t

Blocked(t)  == [t EXCEPT !.blocked = TRUE]
Finished(t) == [t EXCEPT !.inner = "begin", !.pc = @ + 1]

(* The loop waits for both, acknowledged and sent again.  When text is     *)
(* left it waits again in the same call, where uip_acked still holds.      *)
RECURSIVE Sending(_, _)
Sending(t, k) ==
  LET u == data_acked(t, k)
      v == send_data(u, k)
  IN  CASE ~(Acked(t, k) /\ Sends(u, k)) -> Blocked(v)
        [] Acked(t, k) /\ Sends(u, k) /\ v.left # <<>> -> Sending(v, k)
        [] Acked(t, k) /\ Sends(u, k) /\ v.left = <<>> -> Finished([v EXCEPT !.state = "NONE"])

psock_send(t, k, text) ==
  CASE text = <<>> /\ t.inner = "begin" -> Finished(t)
    [] text # <<>> /\ t.inner = "begin" ->
         Sending([t EXCEPT !.left = text, !.state = "NONE", !.inner = "wait"], k)
    [] t.inner = "wait" -> Sending(t, k)

-----------------------------------------------------------------------------
(* Reading.                                                                *)

(* Once the data of a call is consumed, it is not new any more.            *)
psock_newdata(t, k) == t.unread # <<>> \/ (t.state # "READ" /\ k.data # <<>>)

(* What is read up to the end marker, as far as there is room for it.      *)
Line(data) == SubSeq(data, 1, SelectInSeq(data, LAMBDA c : c = "nl"))
Kept(buf, data) == First(BUFSIZE, buf \o data)
InBuffer(input, buf) == [i \in 1..BUFSIZE |-> IF i <= Len(buf) THEN buf[i] ELSE input[i]]

buf_bufto(t) ==
  LET line == Line(t.unread)
      read == IF line = <<>> THEN t.unread ELSE line
      buf  == Kept(t.buf, read)
      u    == [t EXCEPT !.buf = buf, !.input = InBuffer(@, buf),
                        !.unread = SubSeq(@, Len(read) + 1, Len(@))]
  IN  IF line = <<>> THEN Blocked([u EXCEPT !.state = "BLOCKED_NEWDATA"]) ELSE Finished(u)

psock_readto(t, k) ==
  LET u == IF t.inner = "begin" THEN [t EXCEPT !.buf = <<>>, !.inner = "wait"] ELSE t
  IN  IF u.unread # <<>> THEN buf_bufto(u)
      ELSE IF psock_newdata(u, k) THEN buf_bufto([u EXCEPT !.state = "READ", !.unread = k.data])
      ELSE Blocked([u EXCEPT !.state = IF @ = "READ" THEN "BLOCKED_NEWDATA" ELSE @])

-----------------------------------------------------------------------------
(* The application.                                                        *)

Copied(t) ==
  LET ends == {i \in 1..BUFSIZE : t.input[i] = NUL}
  IN  [t EXCEPT !.name = SubSeq(t.input, 1, IF ends = {} THEN BUFSIZE ELSE Min(ends) - 1)]

Step(t, k, step) ==
  CASE step.do = "send"   -> psock_send(t, k, step.text)
    [] step.do = "sendto" -> psock_send(t, k, t.name)
    [] step.do = "readto" -> LET u == psock_readto(t, k) IN IF u.blocked THEN u ELSE Copied(u)
    [] step.do = "close"  -> Finished([t EXCEPT !.op = "close"])

(* PSOCK_BEGIN to PSOCK_END: a thread that has ended begins again.         *)
handle_connection(t, k) ==
  LET Run(u, i) == IF u.blocked \/ u.pc # i THEN u ELSE Step(u, k, Script[i])
      u == FoldLeft(Run, t, [i \in DOMAIN Script |-> i])
  IN  [u EXCEPT !.pc = IF @ > Len(Script) THEN 1 ELSE @]

hello_world_appcall(t, k, connected) ==
  handle_connection([IF connected THEN psock_init(t) ELSE t
                       EXCEPT !.out = <<>>, !.op = "none", !.blocked = FALSE], k)

-----------------------------------------------------------------------------
Init ==
  /\ App!Init
  /\ s = psock_init([state |-> "NONE", unread |-> <<>>, buf |-> <<>>, pc |-> 1, inner |-> "begin",
                     left |-> <<>>, input |-> [i \in 1..BUFSIZE |-> NUL], name |-> <<>>,
                     out |-> <<>>, op |-> "none", blocked |-> FALSE])
  /\ wire = [c \in Conns |-> <<>>]
  /\ typed = [c \in Conns |-> <<>>]
  /\ seen = [c \in Conns |-> <<>>]
  /\ crowded = FALSE

(* uIP makes a call; what it is given is sent if nothing is in flight.     *)
Handle(c, flags, data) ==
  LET connected == "CONNECTED" \in flags
      left == IF "ACKDATA" \in flags THEN <<>> ELSE wire[c]
  IN  /\ "NEWDATA" \in flags <=> data # <<>>
      /\ flags \cap {"ACKDATA", "REXMIT"} # {} => wire[c] # <<>>
      /\ "POLL" \in flags => wire[c] = <<>>
      /\ "CLOSE" \in flags => left = <<>>
      /\ s' = hello_world_appcall(s, Calls(flags, data), connected)
      /\ wire' = [wire EXCEPT ![c] =
                    IF phase'[c] # "open" THEN <<>> ELSE IF left # <<>> THEN left ELSE s'.out]
      /\ seen' = [seen EXCEPT ![c] =
                    IF connected THEN <<>> ELSE IF "ACKDATA" \in flags THEN @ \o wire[c] ELSE @]
      /\ typed' = [typed EXCEPT ![c] = IF connected THEN data ELSE @ \o data]
      /\ Len(typed'[c]) <= MaxInput
      /\ crowded' = ((~connected /\ crowded) \/
                     (data # <<>> /\ (connected \/ ("ACKDATA" \notin flags /\ seen[c] = <<>>))))

Data(flags) == IF "NEWDATA" \in flags THEN Segments ELSE {<<>>}

Connected(c) == \E flags \in SUBSET {"NEWDATA"} : \E data \in Data(flags) :
  App!Connected(c, "none", flags) /\ Handle(c, {"CONNECTED"} \cup flags, data)
Served(c) == \E flags \in SUBSET {"ACKDATA", "NEWDATA", "POLL"} : \E data \in Data(flags) :
  /\ App!Served(c, hello_world_appcall(s, Calls(flags, data), FALSE).op, flags)
  /\ Handle(c, flags, data)
Rexmit(c) ==
  App!Rexmit(c, hello_world_appcall(s, Calls({"REXMIT"}, <<>>), FALSE).op) /\ Handle(c, {"REXMIT"}, <<>>)
PeerCloses(c) == \E flags \in SUBSET {"ACKDATA", "NEWDATA"} : \E data \in Data(flags) :
  App!PeerCloses(c, flags) /\ Handle(c, {"CLOSE"} \cup flags, data)
PeerFollows(c) == App!PeerFollows(c) /\ Handle(c, {"CLOSE"}, <<>>)
ClosedAgain(c) == App!ClosedAgain(c) /\ Handle(c, {"CLOSE"}, <<>>)
Broken(c) == \E how \in {"ABORT", "TIMEDOUT"} : App!Broken(c, how) /\ Handle(c, {how}, <<>>)
Forgotten(c) == App!Forgotten(c) /\ UNCHANGED <<s, wire, typed, seen, crowded>>

Next == \E c \in Conns :
  \/ Connected(c) \/ Served(c) \/ Rexmit(c) \/ PeerCloses(c)
  \/ PeerFollows(c) \/ ClosedAgain(c) \/ Broken(c) \/ Forgotten(c)

(* The other side reads the script, whole and in order, however often      *)
(* segments are sent again; and unless it typed before it was asked, the   *)
(* name it reads begins with the line it typed.  For texts within the mss: *)
(* of a longer one, only the first mss and the last piece are ever sent.   *)
Text(i) == CASE Script[i].do = "send" -> Script[i].text
             [] Script[i].do = "sendto" -> s.name
             [] OTHER -> <<>>
Answered == \E i \in DOMAIN Script : Script[i].do = "readto" /\ i < s.pc
Conversation ==
  \A c \in Conns : phase[c] = "open" =>
    /\ IsPrefix(seen[c] \o wire[c], FlattenSeq([i \in DOMAIN Script |-> Text(i)]))
    /\ Answered /\ ~crowded => IsPrefix(Line(typed[c]), s.name)
    /\ wire[c] # <<>> => wire[c] = Chunk(s.left)
=============================================================================
