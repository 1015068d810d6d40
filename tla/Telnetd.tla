------------------------------ MODULE Telnetd -------------------------------
(***************************************************************************)
(* The telnet server (src/plc-sw/apps/telnetd/telnetd.c) over the block    *)
(* pool, as an application of uIP: one state s for every connection, a     *)
(* queue of output lines, and a parser of what the other side types.       *)
(*                                                                         *)
(* The functions of the source are operators from the state before to the  *)
(* state after.  The calls come from UipApp, the application interface     *)
(* that UipTcp implements, refined by what is in flight: uIP keeps the     *)
(* number of octets of the segment in flight and takes that many from what *)
(* the application hands over again.  A line is its number in the session  *)
(* and its length, so that a line lost or sent twice is seen.              *)
(*                                                                         *)
(* Bounds: MaxInput tokens are typed on a connection; the mss is constant. *)
(***************************************************************************)
EXTENDS Memb, SequencesExt

CONSTANTS
  Conns,           \* connections
  NUMLINES,        \* TELNETD_CONF_NUMLINES, the lines of the queue
  LINELEN,         \* TELNETD_CONF_LINELEN, the tokens of the input buffer
  MSS,             \* what uip_mss() says
  Segments,        \* what may arrive in a segment: sequences of tokens
  MaxInput,
  Greeting,        \* shell_start of the shell behind the server
  Answer(_)        \* shell_input of the shell

NoConn == 0

(* What a shell does while it answers: shell_output, shell_prompt and      *)
(* shell_quit.                                                             *)
Calls == {"line", "prompt", "quit"}

(* The pool has the blocks of the queue (MEMB(linemem, ...)), and a command*)
(* has room for its end.                                                   *)
ASSUME QueueAssumption ==
  /\ num \in Nat /\ NUMLINES \in Nat /\ num <= NUMLINES
  /\ LINELEN \in Nat \ {0}
  /\ Segments \subseteq Seq(STRING) /\ Greeting \in Seq(Calls)
  /\ NoConn \notin Conns

VARIABLES
  phase, ev,  \* of UipApp
  s,          \* struct telnetd_state, with the pool of lines
  wire,       \* of each connection: the lines in flight
  typed,      \* what has arrived since it was connected
  seen,       \* the number of the last line acknowledged on it
  crowded,    \* was a command typed while lines were in flight?
  quitter     \* the connection on which exit was last typed

App  == INSTANCE UipApp
env  == <<phase, ev, wire, typed, seen, crowded, quitter>>
vars == <<s, env>>

Options == {"WILL", "WONT", "DO", "DONT"}
LineLen(call) == IF call = "line" THEN 2 ELSE 1

States == {"NORMAL", "IAC", "CLOSE"} \cup Options
Lines  == [no : Nat, len : 0..2]

-----------------------------------------------------------------------------
(* The functions of telnetd.c.                                             *)

alloc_line(t)      == memb_alloc(t.count)
dealloc_line(t, b) == [t EXCEPT !.count = memb_free(@, b)]
shell_quit(t)      == [t EXCEPT !.state = "CLOSE"]

(* A line is queued behind the others, or given back when there is no room.*)
sendline_front(t, b) == [t EXCEPT !.lines = <<b>> \o @]
sendline(t, b) ==
  IF Len(t.lines) < NUMLINES THEN [t EXCEPT !.lines = Append(@, b)]
  ELSE dealloc_line(t, b)

(* shell_prompt, shell_output and sendopt: without a block nothing is said.*)
Queue(t, len) ==
  LET b == alloc_line(t)
  IN  IF b = NULL THEN t
      ELSE sendline([t EXCEPT !.count = Taken(@, b), !.made = @ + 1,
                              !.text[b] = [no |-> t.made + 1, len |-> len]], b)

shell_prompt(t) == Queue(t, LineLen("prompt"))
shell_output(t) == Queue(t, LineLen("line"))
sendopt(t)      == Queue(t, LineLen("option"))

Run(t, script) ==
  FoldLeft(LAMBDA u, call : CASE call = "quit"   -> shell_quit(u)
                              [] call = "prompt" -> shell_prompt(u)
                              [] call = "line"   -> shell_output(u), t, script)

(* The lines of the last senddata are freed, whatever the segment held.    *)
acked_one(t) == [dealloc_line(t, t.lines[1]) EXCEPT !.lines = Tail(@), !.numsent = 0]
acked(t) ==
  [FoldLeft(dealloc_line, t, SubSeq(t.lines, 1, t.numsent))
     EXCEPT !.lines = SubSeq(@, t.numsent + 1, Len(@)), !.numsent = 0]

(* As many whole lines as stay below the mss.                              *)
Octets(t, n) == FoldLeft(LAMBDA sum, b : sum + t.text[b].len, 0, SubSeq(t.lines, 1, n))
senddata(t) ==
  [t EXCEPT !.numsent = Max({n \in 0..Len(t.lines) : n = 0 \/ Octets(t, n) < MSS})]

(* What uip_send was given: a history of it is not needed.                 *)
Handed(t) == [i \in 1..t.numsent |-> t.text[t.lines[i]]]

closed_first(t) == IF t.lines = <<>> THEN t ELSE dealloc_line(t, t.lines[1])
closed(t) == FoldLeft(dealloc_line, t, t.lines)

(* A newline, or the last place of the buffer, ends a command.  The token  *)
(* in that place is overwritten by the end of the string, except when the  *)
(* command is the newline alone.                                           *)
Room_off(t) == Len(t.buf) < LINELEN
Room(t) == Len(t.buf) < LINELEN - 1
get_char(t, c) ==
  IF c = "cr" THEN t
  ELSE IF c # "nl" /\ Room(t)
  THEN [t EXCEPT !.buf = Append(@, c)]
  ELSE LET cmd == IF t.buf = <<>> THEN <<c>> ELSE t.buf
       IN  [Run(t, Answer(cmd)) EXCEPT !.buf = <<>>, !.cmds = Append(@, cmd)]

(* One turn of the loop of newdata: IAC negotiations are refused.          *)
Parsed(t, c) ==
  CASE t.state = "IAC" /\ c = "IAC"  -> [get_char(t, c) EXCEPT !.state = "NORMAL"]
    [] t.state = "IAC" /\ c # "IAC"  -> [t EXCEPT !.state = IF c \in Options THEN c ELSE "NORMAL"]
    [] t.state \in Options           -> [sendopt(t) EXCEPT !.state = "NORMAL"]
    [] t.state = "NORMAL"            -> IF c = "IAC" THEN [t EXCEPT !.state = "IAC"] ELSE get_char(t, c)
    [] t.state = "CLOSE"             -> t

newdata_fresh(t, data) ==
  FoldLeft(Parsed, [t EXCEPT !.state = IF @ = "CLOSE" THEN @ ELSE "NORMAL"], data)
newdata(t, data) == FoldLeft(Parsed, t, data)

(* The queue of the last connection is forgotten, not freed.               *)
Started(t) ==
  Run([t EXCEPT !.lines = <<>>, !.buf = <<>>, !.state = "NORMAL", !.made = 0, !.cmds = <<>>],
      Greeting)

(* The whole call.  After a quit it only closes, whatever else it is for.  *)
Sends == {"REXMIT", "NEWDATA", "ACKDATA", "CONNECTED", "POLL"}
Leaving(t, flags) == "CONNECTED" \notin flags /\ t.state = "CLOSE"

telnetd_appcall(t, flags, data) ==
  LET started  == IF "CONNECTED" \in flags THEN Started(t) ELSE t
      freed    == IF flags \cap {"CLOSE", "ABORT", "TIMEDOUT"} # {}
                  THEN closed(started) ELSE started
      answered == IF "ACKDATA" \in flags THEN acked(freed) ELSE freed
      parsed   == IF "NEWDATA" \in flags THEN newdata(answered, data) ELSE answered
  IN  IF Leaving(t, flags) THEN [t EXCEPT !.state = "NORMAL"]
      ELSE IF flags \cap Sends # {} THEN senddata(parsed) ELSE parsed

Op(flags) == IF Leaving(s, flags) THEN "close" ELSE "none"

-----------------------------------------------------------------------------
(* The calls uIP makes, and what they do to the segment in flight.         *)

Init ==
  /\ App!Init
  /\ s = [lines |-> <<>>, numsent |-> 0, buf |-> <<>>, state |-> "NORMAL",
          count |-> memb_init, text |-> [b \in Blocks |-> [no |-> 0, len |-> 0]],
          made |-> 0, cmds |-> <<>>]
  /\ wire = [c \in Conns |-> <<>>]
  /\ typed = [c \in Conns |-> <<>>]
  /\ seen = [c \in Conns |-> 0]
  /\ crowded = FALSE
  /\ quitter = NoConn

(* uIP makes the call: what is acknowledged leaves the wire, and what is   *)
(* handed over is sent if nothing is in flight.                            *)
Handle(c, flags, data) ==
  LET left == IF "ACKDATA" \in flags THEN <<>> ELSE wire[c]
      said == flags \cap Sends # {} /\ ~Leaving(s, flags)
  IN  /\ "NEWDATA" \in flags <=> data # <<>>
      /\ flags \cap {"ACKDATA", "REXMIT"} # {} => wire[c] # <<>>
      /\ "POLL" \in flags => wire[c] = <<>>
      /\ "CLOSE" \in flags => left = <<>>
      /\ s' = telnetd_appcall(s, flags, data)
      /\ wire' = [wire EXCEPT ![c] =
                    IF phase'[c] # "open" THEN <<>>
                    ELSE IF left = <<>> /\ said THEN Handed(s') ELSE left]
      /\ seen' = [seen EXCEPT ![c] =
                    IF "CONNECTED" \in flags THEN 0
                    ELSE IF "ACKDATA" \in flags THEN Last(wire[c]).no ELSE @]
      /\ typed' = [typed EXCEPT ![c] = IF "CONNECTED" \in flags THEN data ELSE @ \o data]
      /\ Len(typed'[c]) <= MaxInput
      /\ crowded' = ("CONNECTED" \notin flags /\ (crowded \/ (left # <<>> /\ data # <<>>)))
      /\ quitter' = IF s'.state = "CLOSE" THEN c ELSE quitter

Data(flags) == IF "NEWDATA" \in flags THEN Segments ELSE {<<>>}

Connected(c) == \E flags \in SUBSET {"NEWDATA"} : \E data \in Data(flags) :
  /\ App!Connected(c, "none", flags)
  /\ Handle(c, {"CONNECTED"} \cup flags, data)
Served(c) == \E flags \in SUBSET {"ACKDATA", "NEWDATA", "POLL"} : \E data \in Data(flags) :
  App!Served(c, Op(flags), flags) /\ Handle(c, flags, data)
Rexmit(c) == App!Rexmit(c, Op({"REXMIT"})) /\ Handle(c, {"REXMIT"}, <<>>)
PeerCloses(c) == \E flags \in SUBSET {"ACKDATA", "NEWDATA"} : \E data \in Data(flags) :
  App!PeerCloses(c, flags) /\ Handle(c, {"CLOSE"} \cup flags, data)
PeerFollows(c) == App!PeerFollows(c) /\ Handle(c, {"CLOSE"}, <<>>)
ClosedAgain(c) == App!ClosedAgain(c) /\ Handle(c, {"CLOSE"}, <<>>)
Broken(c) == \E how \in {"ABORT", "TIMEDOUT"} : App!Broken(c, how) /\ Handle(c, {how}, <<>>)
Forgotten(c) == App!Forgotten(c) /\ UNCHANGED <<s, wire, typed, seen, crowded, quitter>>

Next == \E c \in Conns :
  \/ Connected(c) \/ Served(c) \/ Rexmit(c) \/ PeerCloses(c)
  \/ PeerFollows(c) \/ ClosedAgain(c) \/ Broken(c) \/ Forgotten(c)

Spec == Init /\ [][Next]_vars

-----------------------------------------------------------------------------
(* What the server promises.                                               *)

TypeOK ==
  /\ App!TypeOK
  /\ s.lines \in Seq(Blocks) /\ s.numsent \in 0..Len(s.lines)
  /\ Len(s.buf) < LINELEN /\ s.state \in States
  /\ s.count \in [Blocks -> {0, 1}] /\ s.text \in [Blocks -> Lines]

(* The commands in a stream of tokens, read with the whole stream at hand: *)
(* negotiations are cut out, returns are dropped, and what is left is cut  *)
(* at newlines or after LINELEN tokens.                                    *)
Text(stream) ==
  LET from[i \in 1..(Len(stream) + 3)] ==
        IF i > Len(stream) THEN <<>>
        ELSE IF stream[i] = "cr" THEN from[i + 1]
        ELSE IF stream[i] # "IAC" THEN <<stream[i]>> \o from[i + 1]
        ELSE IF i = Len(stream) THEN <<>>
        ELSE CASE stream[i + 1] = "IAC"      -> <<"IAC">> \o from[i + 2]
               [] stream[i + 1] \in Options -> from[i + 3]
               [] OTHER                     -> from[i + 2]
  IN  from[1]

Cut(text) ==
  LET from[i \in 1..(Len(text) + 1)] ==
        LET ends == {j \in i..Len(text) : text[j] = "nl" \/ j = i + LINELEN - 1}
            end  == Min(ends)
        IN  IF ends = {} THEN <<>>
            ELSE <<SubSeq(text, i, IF end = i THEN i ELSE end - 1)>> \o from[end + 1]
  IN  from[1]

Commands(stream) == Cut(Text(stream))

UpToExit(cmds) ==
  LET exits == {i \in DOMAIN cmds : cmds[i][1] = "exit"}
  IN  IF exits = {} THEN cmds ELSE SubSeq(cmds, 1, Min(exits))

(* The shell is given the commands that were typed, however the stream was *)
(* cut into segments and whatever was negotiated in between.               *)
ParsedWhole ==
  \A c \in Conns : phase[c] = "open" => UpToExit(s.cmds) = UpToExit(Commands(typed[c]))

(* Lines reach the other side in the order in which they were queued, none *)
(* of them twice; and none is left out, unless something was typed while   *)
(* lines were in flight: those queued then are counted as sent with the    *)
(* segment in flight, and freed with it.                                   *)
OutputInOrder ==
  \A c \in Conns : \A i \in DOMAIN wire[c] :
    LET last == IF i = 1 THEN seen[c] ELSE wire[c][i - 1].no
    IN  wire[c][i].no > last /\ (~crowded => wire[c][i].no = last + 1)

(* What is handed over while a segment is in flight begins with what the   *)
(* segment held: uIP sends that many octets of it again.                   *)
RetransmitsSame ==
  \A c \in Conns : wire[c] # <<>> => IsPrefix(wire[c], Handed(s))

(* When nobody is connected, every line has been given back, as long as    *)
(* nobody typed exit: the call that answers exit does not free the queue.  *)
MemoryReturned ==
  (\A c \in Conns : phase[c] = "absent") /\ quitter = NoConn => Unused(s.count) = Blocks

(* Typing exit leaves the connection it was typed on (shell.c:83 "exit     *)
(* - exit shell"): the server leaves no other.                             *)
QuitCloses ==
  [][\A c \in Conns : phase[c] = "open" /\ phase'[c] = "left" => c = quitter]_vars
=============================================================================
