------------------------------- MODULE Shell --------------------------------
(***************************************************************************)
(* The command shell of the telnet server (src/plc-sw/apps/telnetd/        *)
(* shell.c).  Commands and their answers are scripts: sequences of calls   *)
(* of shell_output ("line"), shell_prompt ("prompt") and shell_quit        *)
(* ("quit").  A word of a command is one token, as "exit" or "?".          *)
(***************************************************************************)
EXTENDS Sequences

help    == <<"line", "line", "line", "line", "line">>
unknown(str) == IF str # <<>> THEN <<"line">> ELSE <<>>

(* The first entry of the table that the command begins with.              *)
parsetab == [word \in {"stats", "conn", "help", "exit", "?"} |->
               IF word = "exit" THEN <<"quit">> ELSE help]
parse(str) ==
  IF str # <<>> /\ str[1] \in DOMAIN parsetab THEN parsetab[str[1]]
  ELSE unknown(str)

shell_start      == <<"line", "line", "prompt">>
shell_input(cmd) == Append(parse(cmd), "prompt")
=============================================================================
