------------------------------- MODULE MCCli -------------------------------
(* The arguments that main registers, and command lines of two or three    *)
(* tokens.                                                                 *)
EXTENDS Cli

Plain == [kind |-> "Flag", name |-> <<>>, short |-> "", required |-> FALSE,
          default |-> <<>>, multi |-> FALSE, split |-> "", help |-> FALSE]

MainArgs == <<
  [Plain EXCEPT !.kind = "Positional", !.name = <<"file">>, !.required = TRUE],
  [Plain EXCEPT !.kind = "Option", !.name = <<"out">>, !.short = "o", !.default = << <<"a.out">> >>],
  [Plain EXCEPT !.kind = "Option", !.name = <<"target">>, !.short = "t", !.required = TRUE],
  [Plain EXCEPT !.kind = "Option", !.name = <<"emit">>, !.multi = TRUE, !.split = ",",
                !.default = << <<"exe">> >>],
  [Plain EXCEPT !.name = <<"verbose">>, !.short = "v", !.multi = TRUE],
  [Plain EXCEPT !.name = <<"quiet">>, !.short = "q"],
  [Plain EXCEPT !.name = <<"help">>, !.short = "h", !.help = TRUE] >>

OldValue == <<"old">>

Tokens == {
  <<>>, <<"f">>, <<"-">>, <<"-", "-">>, <<"-", "1">>,
  <<"-", "o">>, <<"-", "o", "x">>, <<"-", "v", "o">>, <<"-", "t", "x">>, <<"-", "t">>,
  <<"-", "v", "v">>, <<"-", "q">>, <<"-", "h">>, <<"-", "q", "z">>, <<"-", "q", "q">>,
  <<"-", "-", "out">>, <<"-", "-", "out", "=">>, <<"-", "-", "target", "=", "x", "=", "y">>,
  <<"-", "-", "emit", "=", "ir", ",", ",", "exe">>, <<"-", "-", "emit">>,
  <<"-", "-", "quiet">>, <<"-", "-", "quiet", "=", "x">>, <<"-", "-", "help">>,
  <<"-", "-", "other">>, <<"-", "-", "=", "x">> }

Required == <<<<"f">>, <<"-", "t", "x">>>>

Lines ==
  {<<>>} \cup {<<a>> : a \in Tokens} \cup (Tokens \X Tokens)
  \cup (Tokens \X Tokens \X Tokens)
  \cup {Required \o l : l \in Tokens \X Tokens}
=============================================================================
