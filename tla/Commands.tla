------------------------------ MODULE Commands ------------------------------
(***************************************************************************)
(* From what the user types to the command that runs (source/cmd/cmd.c,    *)
(* completer.c, argparse.c, audit.c, documentation.c, and linecb and       *)
(* _rl_getc of source/iosdbg.c).                                           *)
(*                                                                         *)
(* Completion with TAB and the execution of a line share one generator,    *)
(* which leaves the command it matched in the global CURRENT_MATCH_INFO;   *)
(* a line is run by completing its words one after the other, and those    *)
(* left over are matched with the regular expression of the command.       *)
(* A word is opaque: Abbr says which names it is a prefix of, and Class    *)
(* which parts of the expressions match it.  A part matches a word as a    *)
(* whole or not at all, and no argument is quoted.                         *)
(***************************************************************************)
EXTENDS Integers, Sequences, FiniteSets, SequencesExt, FiniteSetsExt

CONSTANTS
    Words,    \* what can be typed between two spaces
    Abbr,     \* Abbr[w]: the names of commands that begin with w
    Class,    \* Class[w]: the parts of regular expressions that match w, from its first character to its last
    Lines,    \* the lines the user enters
    Typed     \* what the user has typed when TAB is hit

None  == "none"
NoCmd == <<>>
Empty == ""

----------------------------------------------------------------------------
(* The regular expressions for the arguments.                              *)

\* A group takes a word of a class.  It is required or not, and a word may
\* have to stand before it.
Must(class)          == [class |-> class, opt |-> FALSE, flag |-> None]
May(class)           == [class |-> class, opt |-> TRUE, flag |-> None]
MustAfter(flag, class) == [class |-> class, opt |-> FALSE, flag |-> flag]
MayAfter(flag, class)  == [class |-> class, opt |-> TRUE, flag |-> flag]

\* start: where a match can begin; many: the first group takes all the words
\* of its class that it can get, and not just one.
Regex(start, many, groups) == [start |-> start, many |-> many, groups |-> groups]

NO_ARGUMENT_REGEX         == Regex("anywhere", FALSE, <<>>)
ATTACH_COMMAND_REGEX      == Regex("start_or_waitfor", FALSE, <<May("waitfor"), Must("name"), May("ns")>>)
EVALUATE_COMMAND_REGEX    == Regex("anywhere", FALSE, <<Must("text")>>)
HELP_COMMAND_REGEX        == Regex("anywhere", TRUE, <<May("name")>>)
BREAKPOINT_DELETE_COMMAND_REGEX == Regex("anywhere", TRUE, <<May("digits")>>)
BREAKPOINT_SET_COMMAND_REGEX    == Regex("anywhere", FALSE, <<MayAfter("t", "number"), Must("expr")>>)
DISASSEMBLE_COMMAND_REGEX == Regex("anywhere", FALSE, <<Must("expr"), Must("expr")>>)
EXAMINE_COMMAND_REGEX     == Regex("anywhere", FALSE, <<Must("expr"), Must("expr")>>)
MEMORY_FIND_COMMAND_REGEX ==
    Regex("start", FALSE, <<Must("expr"), May("number"), Must("find_type"), Must("target")>>)
MEMORY_WRITE_COMMAND_REGEX   == Regex("start", FALSE, <<Must("expr"), Must("expr"), Must("number")>>)
REGISTER_VIEW_COMMAND_REGEX  == Regex("anywhere", FALSE, <<Must("text")>>)
REGISTER_WRITE_COMMAND_REGEX == Regex("start", FALSE, <<Must("register"), Must("value")>>)
SIGNAL_DELIVER_COMMAND_REGEX == Regex("start", FALSE, <<Must("text")>>)
SIGNAL_HANDLE_COMMAND_REGEX  ==
    Regex("start", TRUE, <<Must("name"), MustAfter("n", "preference"), MustAfter("p", "preference"),
                           MustAfter("s", "preference")>>)
SYMBOLS_ADD_COMMAND_REGEX    == Regex("anywhere", TRUE, <<Must("path")>>)
THREAD_SELECT_COMMAND_REGEX  == Regex("start", FALSE, <<Must("digits")>>)
VARIABLE_PRINT_COMMAND_REGEX == Regex("anywhere", FALSE, <<May("variable")>>)
VARIABLE_SET_COMMAND_REGEX   == Regex("anywhere", FALSE, <<Must("variable"), Must("set_value")>>)
VARIABLE_UNSET_COMMAND_REGEX == Regex("anywhere", FALSE, <<Must("variable")>>)
WATCHPOINT_DELETE_COMMAND_REGEX == Regex("anywhere", TRUE, <<May("digits")>>)
WATCHPOINT_SET_COMMAND_REGEX    ==
    Regex("start", FALSE, <<MayAfter("t", "digits"), May("dashed"), Must("expr"), Must("number")>>)

----------------------------------------------------------------------------
(* The tree of commands.                                                   *)

\* groups: how many groups the regular expression has; unk: the last of them
\* is matched again and again.
create_child_cmd(name, regex, groups, unk) ==
    [name |-> name, regex |-> regex, groups |-> groups, unk |-> unk]

create_parent_cmd(name, alias, regex, groups, unk, subcmds) ==
    [name |-> name, alias |-> alias, regex |-> regex, groups |-> groups, unk |-> unk, subcmds |-> subcmds]

\* A command without arguments.
Bare(name, alias, subcmds) == create_parent_cmd(name, alias, NO_ARGUMENT_REGEX, 0, FALSE, subcmds)
BareChild(name)            == create_child_cmd(name, NO_ARGUMENT_REGEX, 0, FALSE)

\* initialize_commands, aslr to memory.
COMMANDS_aslr_to_memory == <<
    Bare("aslr", None, <<>>),
    create_parent_cmd("attach", None, ATTACH_COMMAND_REGEX, 3, FALSE, <<>>),
    Bare("backtrace", "bt", <<>>),
    Bare("breakpoint", "b",
        <<create_child_cmd("delete", BREAKPOINT_DELETE_COMMAND_REGEX, 1, FALSE), BareChild("list"),
          create_child_cmd("set", BREAKPOINT_SET_COMMAND_REGEX, 2, TRUE)>>),
    Bare("continue", "c", <<>>),
    Bare("detach", None, <<>>),
    create_parent_cmd("disassemble", "dis", DISASSEMBLE_COMMAND_REGEX, 2, FALSE, <<>>),
    create_parent_cmd("evaluate", None, EVALUATE_COMMAND_REGEX, 1, TRUE, <<>>),
    create_parent_cmd("examine", "x", EXAMINE_COMMAND_REGEX, 2, FALSE, <<>>),
    create_parent_cmd("help", None, HELP_COMMAND_REGEX, 1, FALSE, <<>>),
    Bare("kill", None, <<>>),
    Bare("memory", None,
        <<create_child_cmd("find", MEMORY_FIND_COMMAND_REGEX, 4, FALSE),
          create_child_cmd("write", MEMORY_WRITE_COMMAND_REGEX, 3, FALSE)>>)>>

\* initialize_commands, interrupt to trace.
COMMANDS_interrupt_to_trace == <<
    Bare("interrupt", None, <<>>),
    Bare("quit", "q", <<>>),
    Bare("register", None,
        <<create_child_cmd("view", REGISTER_VIEW_COMMAND_REGEX, 1, TRUE),
          create_child_cmd("write", REGISTER_WRITE_COMMAND_REGEX, 2, FALSE)>>),
    Bare("signal", None,
        <<create_child_cmd("deliver", SIGNAL_DELIVER_COMMAND_REGEX, 1, FALSE),
          create_child_cmd("handle", SIGNAL_HANDLE_COMMAND_REGEX, 4, FALSE)>>),
    Bare("step", None, <<BareChild("inst-into"), BareChild("inst-over")>>),
    Bare("symbols", None, <<create_child_cmd("add", SYMBOLS_ADD_COMMAND_REGEX, 1, FALSE)>>),
    Bare("thread", None,
        <<BareChild("list"), create_child_cmd("select", THREAD_SELECT_COMMAND_REGEX, 1, FALSE)>>),
    Bare("trace", None, <<>>)>>

\* initialize_commands, variable and watchpoint.
COMMANDS_variable_to_watchpoint == <<
    Bare("variable", None,
        <<create_child_cmd("print", VARIABLE_PRINT_COMMAND_REGEX, 1, TRUE),
          create_child_cmd("set", VARIABLE_SET_COMMAND_REGEX, 2, FALSE),
          create_child_cmd("unset", VARIABLE_UNSET_COMMAND_REGEX, 1, TRUE)>>),
    Bare("watchpoint", "w",
        <<create_child_cmd("delete", WATCHPOINT_DELETE_COMMAND_REGEX, 1, TRUE), BareChild("list"),
          create_child_cmd("set", WATCHPOINT_SET_COMMAND_REGEX, 4, FALSE)>>)>>

COMMANDS == COMMANDS_aslr_to_memory \o COMMANDS_interrupt_to_trace \o COMMANDS_variable_to_watchpoint

\* A command is named by its path in the tree: <<"quit">>, <<"thread", "list">>.
Tree ==
    UNION {{<<<<c.name>>, c>>} \cup {<<<<c.name, s.name>>, s>> : s \in ToSet(c.subcmds)} : c \in ToSet(COMMANDS)}

Paths == {node[1] : node \in Tree}
Cmd   == [p \in Paths |-> (CHOOSE node \in Tree : node[1] = p)[2]]
Sub(p) == {q \in Paths : Len(q) = 2 /\ q[1] = p[1]}

\* A command with sub-commands has no function of its own.
Functions == {p \in Paths : Len(p) = 2 \/ Sub(p) = {}}

ASSUME WordAssumption ==
    /\ DOMAIN Abbr = Words \cup {Empty} /\ Empty \notin Words /\ DOMAIN Class = Words
    /\ \A w \in DOMAIN Abbr : Abbr[w] \subseteq UNION {ToSet(p) : p \in Paths}
    /\ \A p \in Paths : \A n \in ToSet(p) : n \in Words => n \in Abbr[n]
    /\ \A p \in Paths : ToSet(p) \subseteq Abbr[Empty]
    /\ \A words \in Typed : words \in Seq(Words \cup {Empty})

\* A line: its words, or a shell command; `blank' when it is spaces only.
Line(words)  == [kind |-> "words", words |-> words]
ShellLine    == [kind |-> "shell", words |-> <<>>]
BlankLine    == [kind |-> "blank", words |-> <<>>]
EmptyLine    == Line(<<>>)
NoLine       == [kind |-> "none", words |-> <<>>]

ASSUME LineAssumption ==
    \A line \in Lines : line \in {ShellLine, BlankLine} \/ (line = Line(line.words) /\ line.words \in Seq(Words))

VARIABLES
    match,       \* CURRENT_MATCH_INFO.cmd
    is_help,     \* IS_HELP_COMMAND
    prevline,    \* prevline of linecb
    attached,    \* debuggee->pid # -1
    running,     \* the user has not quit
    last,        \* history: what the last line did
    tabbed       \* history: what TAB matched since the last line that was no shell command

vars == <<match, is_help, prevline, attached, running, last, tabbed>>

Nothing == [line |-> EmptyLine, key |-> "return", stale |-> NoCmd, ran |-> NoCmd, args |-> <<>>,
            docs |-> NoCmd, error |-> None, shown |-> FALSE, debuggee |-> FALSE]

Init ==
    /\ match = NoCmd
    /\ is_help = FALSE
    /\ prevline = NoLine
    /\ attached = FALSE
    /\ running = TRUE
    /\ last = Nothing
    /\ tabbed = NoCmd

----------------------------------------------------------------------------
(* completer.c.  A token is a word and the random string do_cmdline_command *)
(* pads it with, which is its position here; 0 when it is not padded.       *)

Token(w, pad) == [w |-> w, pad |-> pad]
Plain(words)  == [i \in DOMAIN words |-> Token(words[i], 0)]

\* The names text is a prefix of.  The padding is ignored, except in help mode.
Names(text, help) == IF text.pad # 0 /\ help THEN {} ELSE Abbr[text.w]

Occurrences(line, text) == {i \in DOMAIN line : line[i] = text}
FirstOf(line, text) ==
    IF Occurrences(line, text) = {} THEN Len(line) + 1 ELSE Min(Occurrences(line, text))

\* Everything before text in rl_line_buffer.
everything_before(line, text) == SubSeq(line, 1, FirstOf(line, text) - 1)

\* The level text is matched at: the words before it, "help" not counted.
count_spaces_before(line, text, help) == FirstOf(line, text) - 1 - (IF help THEN 1 ELSE 0)

word_before(line, text) ==
    LET later == Occurrences(line, text) \ {1}
    IN  IF text.w = Empty THEN Last(line)
        ELSE IF later = {} THEN line[1] ELSE line[Max(later) - 1]

\* The commands text can stand for at a level of the tree.
match_at_level(line, text, level, help) ==
    {p \in Paths :
        IF level >= 1
        THEN /\ Len(p) = level + 1
             /\ p[1] \in Names(word_before(line, text), help)
             /\ p[2] \in Names(text, help)
        ELSE Len(p) = 1 /\ p[1] \in Names(text, help)}

ambiguous_command_at_level(line, text, level, help) ==
    Cardinality(match_at_level(line, text, level, help)) > 1

no_ambiguity_before(line, text, help) ==
    \A i \in DOMAIN everything_before(line, text) :
        ~ambiguous_command_at_level(line, line[i], i - 1, help)

\* What completing a word leaves in CURRENT_MATCH_INFO, which held m: a single
\* match; nothing for several; no match leaves it alone.
Left(clear, found, m) ==
    IF ~clear \/ Cardinality(found) > 1 THEN NoCmd
    ELSE IF found = {} THEN m ELSE CHOOSE p \in found : TRUE

completion_generator(line, text, help) ==
    [clear |-> no_ambiguity_before(line, text, help),
     found |-> {p \in match_at_level(line, text, count_spaces_before(line, text, help), help) :
                    no_ambiguity_before(line, text, help)}]

\* TAB with the cursor at the end of the line: _rl_getc completes the first
\* word to see whether it is help, and then readline completes the last one.
rl_getc_completes(words, help) ==
    LET line == Plain(SelectSeq(words, LAMBDA w : w # Empty))
    IN  IF line = <<>> THEN [clear |-> TRUE, found |-> {}] ELSE completion_generator(line, line[1], help)

readline_completes(words, help) ==
    completion_generator(Plain(SelectSeq(words, LAMBDA w : w # Empty)),
                         IF words = <<>> THEN Token(Empty, 0) ELSE Token(Last(words), 0), help)

FirstTab  == [words \in Typed |-> [help \in BOOLEAN |-> rl_getc_completes(words, help)]]
SecondTab == [words \in Typed |-> [help \in BOOLEAN |-> readline_completes(words, help)]]

Tab(words) ==
    /\ running
    /\ \E one \in {FirstTab[words][is_help]} :
        /\ is_help' = (is_help \/ one.found = {<<"help">>})
        /\ \E two \in {SecondTab[words][is_help']} :
            /\ match' = Left(two.clear, two.found, Left(one.clear, one.found, match))
            /\ tabbed' = match'
    /\ UNCHANGED <<prevline, attached, running, last>>

----------------------------------------------------------------------------
(* Arguments: argparse.c and audit.c                                       *)

NULL == <<>>     \* the value of a group that matched nothing; other values are words

\* A match: the word it begins with, the groups that take part, and how many
\* words the first group takes.
NoMatch == [at |-> 0, groups |-> {}, n |-> 0]

\* How many words a group takes, and the one that announces it.
Takes(m, g)    == IF g = 1 THEN m.n ELSE 1
Width(c, m, g) ==
    IF g \notin m.groups THEN 0
    ELSE Takes(m, g) + (IF c.regex.groups[g].flag = None THEN 0 ELSE 1)

\* Upto(c, m)[g]: the first word behind the groups up to the gth.
Upto(c, m) ==
    LET upto[g \in 0 .. c.groups] == IF g = 0 THEN m.at ELSE upto[g - 1] + Width(c, m, g)
    IN  upto

Starts(c, m) ==
    CASE c.regex.start = "start"            -> m.at = 1
      [] c.regex.start = "start_or_waitfor" -> m.at = 1 \/ 1 \in m.groups
      [] OTHER                              -> TRUE

Required(c) == {g \in 1 .. c.groups : ~c.regex.groups[g].opt}

\* The words from m.at on are what the groups of m want.
Fits(c, args, m) ==
    /\ Starts(c, m)
    /\ m.n = 1 \/ 1 \in m.groups
    /\ Upto(c, m)[c.groups] <= Len(args) + 1
    /\ \A g \in m.groups :
        /\ \A j \in Upto(c, m)[g] - Takes(m, g) .. Upto(c, m)[g] - 1 : c.regex.groups[g].class \in Class[args[j]]
        /\ c.regex.groups[g].flag # None => c.regex.groups[g].flag \in Class[args[Upto(c, m)[g - 1]]]

Matches(c, args) ==
    {m \in [at : 1 .. Len(args) + 1,
            groups : {s \in SUBSET (1 .. c.groups) : Required(c) \subseteq s},
            n : {n \in 1 .. Len(args) : n = 1 \/ c.regex.many}] : Fits(c, args, m)}

\* Taking part is tried first, for one group after the other (MAX_GROUPS is 4).
Eagerness(m) ==
    (IF 1 \in m.groups THEN 8 ELSE 0) + (IF 2 \in m.groups THEN 4 ELSE 0)
        + (IF 3 \in m.groups THEN 2 ELSE 0) + (IF 4 \in m.groups THEN 1 ELSE 0)

\* The search tries m before o.
TriedBefore(m, o) ==
    \/ m.at < o.at
    \/ m.at = o.at /\ Eagerness(m) > Eagerness(o)
    \/ m.at = o.at /\ Eagerness(m) = Eagerness(o) /\ m.n >= o.n

\* pcre2_match from a word on.  Behind an earlier match the search begins with
\* the space, where an expression that requires nothing matches nothing.
pcre2_match(c, args, from) ==
    LET found == {m \in Matches(c, args) :
                    m.at >= from /\ (from > 1 /\ Required(c) = {} => m.groups = {})}
    IN  IF found = {} THEN NoMatch ELSE CHOOSE m \in found : \A o \in found : TriedBefore(m, o)

\* The text of a group.
substring(c, args, m, g) == SubSeq(args, Upto(c, m)[g] - Takes(m, g), Upto(c, m)[g] - 1)

\* The loop for the group that repeats: where its rounds begin, and their
\* number.  It ends when the group matched nothing.
Begins(c, args) ==
    LET begins[k \in 0 .. Len(args)] ==
            IF k = 0 THEN 1
            ELSE LET m == pcre2_match(c, args, begins[k - 1])
                 IN  IF c.groups \in m.groups THEN Upto(c, m)[c.groups] ELSE begins[k - 1]
    IN  begins

Round(c, args, k) == pcre2_match(c, args, Begins(c, args)[k])
Rounds(c, args)   == Min({k \in 0 .. Len(args) : c.groups \notin Round(c, args, k).groups})

Repeated(c, args) ==
    [k \in 1 .. Rounds(c, args) |-> substring(c, args, Round(c, args, k - 1), c.groups)]

\* The queue of values of each group.
parse_and_create_args(c, args) ==
    IF args = <<>> THEN <<>>
    ELSE [g \in 1 .. c.groups |->
            IF g = c.groups /\ c.unk THEN Repeated(c, args)
            ELSE LET m == pcre2_match(c, args, 1)
                 IN  IF g \in m.groups THEN <<substring(c, args, m, g)>> ELSE <<NULL>>]

Malformed(c, args) == args # <<>> /\ pcre2_match(c, args, 1) = NoMatch

\* One round of argdup: the head of a queue is copied and put back at its end.
Rotate(r) == [queue |-> Append(Tail(r.queue), Head(r.queue)), copy |-> Append(r.copy, Head(r.queue))]

\* Mutant: one value is left out.
argdup_Short(queue) ==
    LET rounds[n \in 0 .. Len(queue)] ==
            IF n = 0 THEN [queue |-> queue, copy |-> <<>>] ELSE Rotate(rounds[n - 1])
    IN  rounds[Len(queue) - 1]

\* argdup of one group: as many rounds as there are values.
argdup(queue) ==
    LET rounds[n \in 0 .. Len(queue)] ==
            IF n = 0 THEN [queue |-> queue, copy |-> <<>>] ELSE Rotate(rounds[n - 1])
    IN  rounds[Len(queue)]

\* What the audits ask for: a debuggee, and arguments.
AUDITS_aslr_to_kill ==
    [debuggee |-> {<<"aslr">>, <<"backtrace">>, <<"breakpoint", "set">>, <<"continue">>, <<"detach">>,
                   <<"disassemble">>, <<"examine">>, <<"kill">>},
     args     |-> {<<"attach">>, <<"breakpoint", "set">>, <<"disassemble">>, <<"evaluate">>, <<"examine">>}]

AUDITS_memory_to_watchpoint ==
    [debuggee |-> {<<"memory", "find">>, <<"memory", "write">>, <<"register", "view">>,
                   <<"register", "write">>, <<"signal", "deliver">>, <<"step", "inst-into">>,
                   <<"step", "inst-over">>, <<"thread", "list">>, <<"thread", "select">>,
                   <<"watchpoint", "set">>},
     args     |-> {<<"memory", "find">>, <<"signal", "deliver">>, <<"symbols", "add">>,
                   <<"thread", "select">>, <<"watchpoint", "set">>}]

NeedsDebuggee == AUDITS_aslr_to_kill.debuggee \cup AUDITS_memory_to_watchpoint.debuggee
NeedsArgs     == AUDITS_aslr_to_kill.args \cup AUDITS_memory_to_watchpoint.args

\* The arguments as the command's function gets them: an audit looks at a copy.
Given(path, args) ==
    LET parsed == parse_and_create_args(Cmd[path], args)
    IN  [g \in DOMAIN parsed |->
            IF path \in NeedsDebuggee \cup NeedsArgs THEN argdup(parsed[g]).queue ELSE parsed[g]]

\* Whether the audit of a command objects.  It takes the values it looks at
\* out of the copy.
audit(path, args) ==
    \/ path \in NeedsDebuggee /\ ~attached
    \/ path \in NeedsArgs /\ args = <<>>

----------------------------------------------------------------------------
(* do_cmdline_command                                                      *)

\* The alias of a top level command, as the first word, becomes its name.
Aliased == {p \in Paths : Len(p) = 1 /\ Cmd[p].alias # None}

expand_aliases(words) ==
    LET named == {p \in Aliased : words # <<>> /\ Cmd[p].alias = words[1]}
    IN  IF named = {} THEN words ELSE (CHOOSE p \in named : TRUE) \o Tail(words)

\* Mutant: the tokens are not told apart.
Padded_Not(words) == [i \in DOMAIN words |-> Token(words[i], 0)]

Padded(words) == [i \in DOMAIN words |-> Token(words[i], i)]

\* What completing each word of a line finds.
Completions ==
    [words \in {expand_aliases(line.words) : line \in Lines} |-> [help \in BOOLEAN |->
        [i \in DOMAIN words |-> completion_generator(Padded(words), Padded(words)[i], help)]]]

\* The loop: words are completed until one, the nth, has no match; that one and
\* those after it are arguments.  An unknown first word is an error.
Resolved(words, help) ==
    LET c == Completions[words][help]
        n == Min({i \in DOMAIN c : c[i].found = {}} \cup {Len(c) + 1})
    IN  [undefined |-> n = 1 /\ c # <<>>,
         prev      |-> IF n = 1 THEN {} ELSE c[n - 1].found,
         clear     |-> n > Len(c) \/ c[n].clear,
         args      |-> IF n = 1 THEN <<>> ELSE SubSeq(words, n, Len(words))]

\* CURRENT_MATCH_INFO after the loop.
Matched(r, m) == Left(r.clear, {}, Left(TRUE, r.prev, m))

\* What a line did: the command that ran, the documentation and the error
\* that are shown.
Did(ran, args, docs, error, shown) ==
    [ran |-> ran, args |-> args, docs |-> docs, error |-> error, shown |-> shown]

\* documentation_for_cmdname: names are compared whole, at most two deep.
documentation_for_cmdname(words) == IF words \in Paths THEN words ELSE NoCmd

\* Mutant: having nothing to run is a success.
prepare_and_call_cmdfunc_Succeeds(path, args, undefined, objection) ==
    Did(NoCmd, <<>>, path, IF undefined THEN "undefined" ELSE None, FALSE)

\* Runs CURRENT_MATCH_INFO, whether or not the line is what put it there; an
\* error so far stops it after the arguments are parsed.  objection: what the
\* audit has against the arguments' values.
prepare_and_call_cmdfunc(path, args, undefined, objection) ==
    LET error == IF undefined THEN "undefined" ELSE None
        shows == IF path = <<"help">> /\ args # <<>> /\ Given(path, args)[1][1] # NULL
                 THEN documentation_for_cmdname(Given(path, args)[1][1]) ELSE NoCmd
    IN  CASE path = NoCmd          -> Did(NoCmd, <<>>, NoCmd, error, undefined)
          [] path \in Paths \ Functions -> Did(NoCmd, <<>>, path, error, FALSE)
          [] path \in Functions /\ undefined -> Did(NoCmd, <<>>, path, error, TRUE)
          [] path \in Functions /\ ~undefined /\ Malformed(Cmd[path], args)
                                   -> Did(NoCmd, <<>>, path, "malformed", TRUE)
          [] path \in Functions /\ ~undefined /\ ~Malformed(Cmd[path], args)
                /\ objection # None /\ args # <<>> /\ Cmd[path].groups > 0
                                   -> Did(NoCmd, <<>>, path, objection, TRUE)
          [] path \in Functions /\ ~undefined /\ audit(path, args)
                                   -> Did(NoCmd, <<>>, path, "audit", TRUE)
          [] OTHER                 -> Did(path, Given(path, args), shows, None, FALSE)

do_cmdline_command(r, path, objection) ==
    IF Cardinality(r.prev) > 1 THEN Did(NoCmd, <<>>, NoCmd, "ambiguous", TRUE)
    ELSE prepare_and_call_cmdfunc(path, r.args, r.undefined, objection)

\* What running a command changes here; quit asks before it ends iosdbg.
cmdfunc(path) ==
    /\ running' \in (IF path = <<"quit">> THEN BOOLEAN ELSE {TRUE})
    /\ attached' \in CASE path = <<"attach">> -> {attached, TRUE}
                       [] path \in {<<"detach">>, <<"kill">>} -> {FALSE}
                       [] OTHER -> {attached}

\* The copy of the line that do_cmdline_command leaves for linecb: cleaned.
Remembered(line) == IF line.kind = "shell" THEN line ELSE Line(line.words)

\* _rl_getc: only a carriage return ends help mode.
Helping(key) == is_help /\ key # "return"

\* linecb.  An empty line is the previous line again, if there was one.
Effective(line) == IF line = EmptyLine /\ prevline # NoLine THEN prevline ELSE line

linecb(line, key, objection) ==
    /\ running
    /\ Effective(line).kind # "shell"
    /\ \E r \in {Resolved(expand_aliases(Effective(line).words), Helping(key))} :
        \E did \in {do_cmdline_command(r, Matched(r, match), objection)} :
            /\ last' = [line |-> Remembered(Effective(line)), key |-> key, stale |-> match,
                        ran |-> did.ran, args |-> did.args, docs |-> did.docs,
                        error |-> did.error, shown |-> did.shown, debuggee |-> attached]
            /\ cmdfunc(did.ran)
            /\ match' = IF did.error = "ambiguous" THEN Matched(r, match) ELSE NoCmd
    /\ tabbed' = NoCmd
    /\ prevline' = Remembered(Effective(line))
    /\ is_help' = Helping(key)

\* execute_shell_cmd: what TAB matched stays.
linecb_shell(line, key) ==
    /\ running
    /\ Effective(line).kind = "shell"
    /\ last' = [Nothing EXCEPT !.line = Effective(line), !.key = key]
    /\ prevline' = Effective(line)
    /\ is_help' = Helping(key)
    /\ UNCHANGED <<match, attached, running, tabbed>>

\* The death server detaches.
DebuggeeDies ==
    /\ attached
    /\ attached' = FALSE
    /\ UNCHANGED <<match, is_help, prevline, running, last, tabbed>>

Next ==
    \/ \E words \in Typed : Tab(words)
    \/ \E line \in Lines, key \in {"return", "newline"} :
        \/ \E objection \in {None, "refused"} : linecb(line, key, objection)
        \/ linecb_shell(line, key)
    \/ DebuggeeDies

Spec == Init /\ [][Next]_vars

----------------------------------------------------------------------------
(* Properties                                                              *)

TypeOK ==
    /\ {match, tabbed} \subseteq Paths \cup {NoCmd}
    /\ {is_help, attached, running} \subseteq BOOLEAN
    /\ prevline.kind \in {"none", "words", "shell"}
    /\ {last.ran, last.docs} \subseteq Paths \cup {NoCmd}

\* The reference: a line walks down the tree of commands.
Walk(words) ==
    LET tops == {p \in Paths : Len(p) = 1 /\ p[1] \in Abbr[words[1]]}
        subs == {q \in UNION {Sub(p) : p \in tops} : Len(words) > 1 /\ q[2] \in Abbr[words[2]]}
        means(kind, paths, n) ==
            [kind |-> kind, path |-> IF paths = {} THEN NoCmd ELSE CHOOSE p \in paths : TRUE,
             args |-> SubSeq(words, n, Len(words))]
    IN  IF tops = {} THEN means("undefined", {}, 1)
        ELSE IF Cardinality(tops) > 1 \/ Cardinality(subs) > 1 THEN means("ambiguous", {}, 1)
        ELSE IF subs = {} THEN means("path", tops, 2)
        ELSE means("path", subs, 3)

Meaning(typed) == Walk(expand_aliases(typed))

HasWords == last.line.words # <<>>
Means    == Meaning(last.line.words)

\* do_cmdline_command: whatever TAB left behind and whatever its arguments
\* are called, a line runs or documents the command it names, no argument is
\* missed, and it is called undefined or ambiguous only if it is; after a
\* newline in help mode every line is undefined (cmd.c:574-592).
TypedCommandRuns ==
    HasWords /\ Means.kind = "path" =>
        /\ last.ran \in {NoCmd, Means.path}
        /\ last.key = "return" => last.error \notin {"undefined", "ambiguous"}
        /\ last.ran = NoCmd /\ last.error # "undefined" => last.docs = Means.path
        /\ last.error = "audit" /\ Means.args # <<>> => Means.path \in NeedsDebuggee /\ ~last.debuggee

\* A line that names no command or several runs nothing, although the command
\* TAB matched before is still passed on (cmd.c:647, 691).
RejectedNeverRuns ==
    HasWords /\ Means.kind # "path" =>
        /\ last.ran = NoCmd
        /\ last.key = "return" => last.error = Means.kind

\* linecb: what is typed is what is done, from any state of the completer.
CommandsOK == TypeOK /\ TypedCommandRuns /\ RejectedNeverRuns

\* The values that the groups hold, by group and place in its queue.
Values(given) ==
    {v \in UNION {{<<g, i>> : i \in DOMAIN given[g]} : g \in DOMAIN given} : given[v[1]][v[2]] # NULL}

Value(given, v) == given[v[1]][v[2]]
Before(u, v)    == u[1] < v[1] \/ (u[1] = v[1] /\ u[2] < v[2])

\* Commands that take one argument any number of times, after options:
\* breakpoint set, evaluate, register view and variable unset.
TakesAll(c) ==
    /\ c.unk /\ c.regex.start = "anywhere" /\ ~c.regex.many
    /\ ~c.regex.groups[c.groups].opt /\ c.regex.groups[c.groups].flag = None
    /\ \A g \in 1 .. c.groups - 1 : c.regex.groups[g].opt /\ c.regex.groups[g].flag # None

\* The jth word announces an option, or stands where its value does.
OfOption(c, typed, j) ==
    \E g \in 1 .. c.groups - 1 :
        \/ c.regex.groups[g].flag \in Class[typed[j]]
        \/ (j > 1 /\ c.regex.groups[g].flag \in Class[typed[j - 1]])

\* The values are the typed words, each taken once and in order; at: where.
TakenInOrder(c, given, typed) ==
    \E at \in [Values(given) -> DOMAIN typed] :
        /\ \A v \in Values(given) :
            /\ at[v] + Len(Value(given, v)) - 1 \in DOMAIN typed
            /\ Value(given, v) = SubSeq(typed, at[v], at[v] + Len(Value(given, v)) - 1)
        /\ \A u, v \in Values(given) : Before(u, v) => at[u] + Len(Value(given, u)) <= at[v]
        /\ TakesAll(c) =>
            \A j \in DOMAIN typed :
                c.regex.groups[c.groups].class \in Class[typed[j]] =>
                    (\E v \in Values(given) : v[1] = c.groups /\ at[v] = j) \/ OfOption(c, typed, j)

\* A required group has a value.
RequiredGiven(c, given) == \A g \in Required(c) : given[g] # <<>> /\ given[g][1] # NULL

\* An option in front is one: breakpoint set --t 1 main is for thread 1.
OptionTaken(c, given, typed) ==
    LET group == c.regex.groups
    IN  TakesAll(c) /\ c.groups = 2 /\ Len(typed) >= 3 /\ group[1].flag \in Class[typed[1]]
            /\ group[1].class \in Class[typed[2]] /\ group[2].class \in Class[typed[3]]
        => given[1] = <<<<typed[2]>>>>

\* parse_and_create_args and argdup: the function of a command gets the words
\* that were typed.  No word reaches two groups and their order is kept,
\* whichever optional groups stay NULL; a required group always has a value;
\* where the last group repeats no word that fits it is left out; and argdup,
\* which takes every queue apart for the audit, leaves all this alone.
ArgumentsIntact ==
    HasWords /\ last.ran # NoCmd /\ Means.args # <<>> =>
        /\ TakenInOrder(Cmd[last.ran], last.args, Means.args)
        /\ RequiredGiven(Cmd[last.ran], last.args)
        /\ OptionTaken(Cmd[last.ran], last.args, Means.args)

\* _reset_matchedcmdinfo: a line leaves no match behind for an empty or an
\* undefined one to pick up; only TAB does.
OnlyTabLeavesMatch == match = tabbed

\* No command that needs a debuggee runs without one, however it came to be
\* run: typed, repeated, or matched by TAB and run by an empty line.
GuardedHasDebuggee == last.ran \in NeedsDebuggee => last.debuggee

\* An undefined command is reported, unless what TAB left is a command with
\* sub-commands, whose documentation hides the error (completer.c:41-44).
UndefinedIsReported ==
    last.error = "undefined" => last.shown \/ (last.stale # NoCmd /\ last.stale \notin Functions)

\* The match that TAB leaves in CURRENT_MATCH_INFO for the next line to find
\* does no harm: only TAB leaves one, what it leads to is still audited, and it
\* hides an undefined command only as above.
StaleMatchHarmless == OnlyTabLeavesMatch /\ GuardedHasDebuggee /\ UndefinedIsReported
=============================================================================
