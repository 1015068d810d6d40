------------------------------ MODULE Jsoncmd -------------------------------
(***************************************************************************)
(* The JSON command server of the HIL simulator (src/plc-sw/apps/jsoncmd): *)
(* the telnet server under other names (jsoncmd.c), with a shell that      *)
(* answers a request for the values of the inputs, or sets the outputs.    *)
(* A request is one token; "junk" stands for what is neither.              *)
(*                                                                         *)
(* The client is one that waits for an answer before it asks again: an     *)
(* answer takes most of the queue.                                         *)
(***************************************************************************)
EXTENDS SequencesExt

CONSTANTS Conns, num, NUMLINES, LINELEN, MSS, Segments, MaxInput

VARIABLES phase, ev, s, wire, typed, seen, crowded, quitter

VALUES == 8

(* The header, the values with commas between them, and the end.           *)
GetValues_ended == <<"prompt">> \o [i \in 1..(3 * VALUES - 1) |-> "prompt"] \o <<"line">>
GetValues == <<"prompt">> \o [i \in 1..(2 * VALUES - 1) |-> "prompt"] \o <<"line">>

shell_start      == <<>>
shell_input(cmd) == IF cmd[1] = "getvalues" THEN GetValues ELSE <<"line">>

Server == INSTANCE Telnetd WITH Greeting <- shell_start, Answer <- shell_input

Waits == \A c \in Conns :
  \/ typed'[c] = typed[c] \/ "CONNECTED" \in ev'.flags
  \/ s.numsent = Len(s.lines) /\ (wire[c] = <<>> \/ "ACKDATA" \in ev'.flags)

Init == Server!Init
Next == Server!Next /\ Waits

(* Such a client gets every line of every answer: neither the pool nor the *)
(* queue is too short for one, and the segments it is cut into follow each *)
(* other without a gap.                                                    *)
AnswerWhole ==
  \A c \in Conns : phase[c] = "open" =>
    LET Lines(sum, cmd) == sum + Len(shell_input(cmd))
        due == FoldLeft(Lines, 0, Server!Commands(typed[c]))
    IN  /\ s.lines = <<>> => seen[c] = due
        /\ \A i \in DOMAIN wire[c] : wire[c][i].no = seen[c] + i
        /\ s.made = due
=============================================================================
