----------------------------- MODULE MCTelnetd ------------------------------
(* Instances of Telnetd, with its shell, for TLC.                          *)
EXTENDS Telnetd, Shell

(* A help command in one segment or two, an exit, an option in one or two, *)
(* an IAC typed as text, a line too long for the buffer.                   *)
McSegments ==
  {<<"?", "cr", "nl">>, <<"x">>, <<"nl">>, <<"exit", "nl">>, <<"IAC">>, <<"DO", "?">>}
QuitSegments == {<<"exit", "nl">>}

(* Which block a queued line has is of no interest while all are in use    *)
(* and different, nor is the session that is over.                         *)
Proper == IsInjective(s.lines) /\ \A i \in DOMAIN s.lines : s.count[s.lines[i]] = 1
Numbers(c, lines) == [i \in DOMAIN lines |-> [lines[i] EXCEPT !.no = @ - seen[c]]]
Queued(c) ==
  IF Proper THEN <<Cardinality(Unused(s.count)), Numbers(c, [i \in DOMAIN s.lines |-> s.text[s.lines[i]]])>>
  ELSE <<s.count, s.lines>>
McView ==
  <<phase, s.numsent, s.state, quitter,
    [c \in Conns |->
       IF phase[c] = "open"
       THEN <<Queued(c), Numbers(c, wire[c]), s.made - seen[c], s.buf, UpToExit(s.cmds), typed[c], crowded>>
       ELSE <<s.count, s.lines>>]>>
=============================================================================
