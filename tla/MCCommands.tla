----------------------------- MODULE MCCommands -----------------------------
(* Instance of Commands for TLC: abbreviations that are unique, ambiguous,  *)
(* aliases and arguments that look like commands.                           *)
EXTENDS Commands

MCWords == {"attach", "b", "breakpoint", "d", "l", "s", "set", "st", "symbols", "inst", "inst-over",
            "q", "quit", "help", "zz", "w", "watchpoint", "variable", "delete", "print", "--t", "--waitfor",
            "--ns", "1", "$v"}

AllNames == UNION {ToSet(p) : p \in Paths}

MCAbbr ==
    [w \in MCWords \cup {Empty} |->
        CASE w = Empty  -> AllNames
          [] w = "b"    -> {"backtrace", "breakpoint"}
          [] w = "d"    -> {"detach", "disassemble", "delete", "deliver"}
          [] w = "l"    -> {"list"}
          [] w = "s"    -> {"signal", "step", "symbols", "set", "select"}
          [] w = "st"   -> {"step"}
          [] w = "inst" -> {"inst-into", "inst-over"}
          [] w = "q"    -> {"quit"}
          [] w = "w"    -> {"watchpoint", "write"}
          [] w \in {"zz", "--t", "--waitfor", "--ns", "1", "$v"} -> {}
          [] OTHER      -> {w}]

\* Names of letters are also expressions; only - keeps inst-over from being a name.
MCClass ==
    [w \in MCWords |->
        CASE w = "1"         -> {"text", "name", "expr", "digits", "number", "path"}
          [] w = "--t"       -> {"text", "expr", "dashed", "t"}
          [] w = "--waitfor" -> {"text", "expr", "dashed", "waitfor"}
          [] w = "--ns"      -> {"text", "expr", "dashed", "ns"}
          [] w = "$v"        -> {"text", "expr", "variable", "register"}
          [] w = "inst-over" -> {"text", "expr"}
          [] OTHER           -> {"text", "name", "expr", "path"}]

MCLines ==
    {EmptyLine, BlankLine, ShellLine} \cup
    {Line(w) : w \in {<<"zz">>, <<"s", "l">>, <<"b", "l">>, <<"b", "set", "zz", "set", "l">>,
                      <<"b", "zz">>, <<"attach", "attach", "--ns">>, <<"attach">>, <<"st", "inst">>,
                      <<"st", "inst-over">>, <<"q", "zz">>, <<"help", "breakpoint", "set">>,
                      <<"help", "--ns">>, <<"b", "set", "--t", "1", "zz">>, <<"b", "set", "zz", "--t", "1", "l">>,
                      <<"attach", "--waitfor", "zz", "--ns">>, <<"attach", "--ns", "zz">>,
                      <<"w", "delete", "1", "1">>, <<"w", "set", "--t", "1", "1">>,
                      <<"w", "set", "--t", "1", "--ns", "zz", "1">>, <<"variable", "print", "$v", "$v">>}}

MCTyped == {<<>>, <<"q">>, <<"b", "l">>, <<"breakpoint", "l">>, <<"s">>, <<"st">>, <<"zz">>,
            <<"help", "q">>, <<"help", "breakpoint", "s">>, <<"symbols", Empty>>, <<"breakpoint", Empty>>,
            <<"attach", "attach">>}
=============================================================================
