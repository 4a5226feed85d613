----------------------------- MODULE Evaluator -----------------------------
(***************************************************************************)
(* The calculator at work: expressions over convenience variables and the  *)
(* registers of the focused thread, while the user sets the ones, writes   *)
(* the others, and the debuggee runs and stops.                            *)
(*                                                                         *)
(* typed is the expression on the line.  What the model types is bounded:  *)
(* anything up to FreeTokens tokens, and up to MaxTokens what can still    *)
(* become an expression; one operand never follows another, since their    *)
(* texts would be one word.  Names are typed only after another command,   *)
(* and then only what can become an expression of up to ShortTokens; after *)
(* TypeCommands commands nothing is typed.  Longer expressions are not     *)
(* entered; what they would give is stated of the line.                    *)
(***************************************************************************)
EXTENDS ConvVars, LocationExpr

CONSTANTS Results,        \* the names $0, $1, ... in order
          Alphabet,       \* tokens that are typed
          FreeTokens, MaxTokens, ShortTokens, MaxCommands, TypeCommands, DetourTokens,
          SetNames, SetTexts

VARIABLES
    typed,      \* the expression typed so far
    cnt,        \* evaluate's static counter
    commands    \* commands given, for the bound

evars == <<typed, cnt, commands, convvars, registers>>

EvaluatorTypeOK ==
    /\ RegistersTypeOK
    /\ \A i \in DOMAIN typed : typed[i] \in Alphabet
    /\ cnt \in 0 .. Len(Results)
    /\ commands \in 0 .. MaxCommands

Init ==
    /\ ConvVarsInit
    /\ RegistersInit
    /\ typed = <<>> /\ cnt = 0 /\ commands = 0

----------------------------------------------------------------------------
(* Typing.                                                                 *)

IsOperand(t) == t[1] \in {"num", "hex", "var", "bad"}
Opened(ts)   == Len(SelectSeq(ts, LAMBDA t : t = Op("("))) - Len(SelectSeq(ts, LAMBDA t : t = Op(")")))

\* After an operand comes an operator or a parenthesis; elsewhere an operand,
\* a sign or an opening parenthesis.
Goes(ts, t) ==
    IF ts # <<>> /\ (IsOperand(Last(ts)) \/ Last(ts) = Op(")"))
    THEN is_operator(t) \/ (t = Op("(") /\ IsOperand(Last(ts))) \/ (t = Op(")") /\ Opened(ts) > 0)
    ELSE IsOperand(t) \/ t \in {Op("-"), Op("(")}

Type(t) ==
    /\ commands <= TypeCommands
    /\ Len(typed) < (IF commands = 0 THEN MaxTokens ELSE ShortTokens)
    /\ t[1] = "var" => commands > 0
    /\ Len(typed) >= FreeTokens \/ commands > 0 => Goes(typed, t)
    /\ ~(typed # <<>> /\ IsOperand(Last(typed)) /\ IsOperand(t))
    /\ typed' = Append(typed, t)
    /\ UNCHANGED <<cnt, commands, convvars, registers>>

----------------------------------------------------------------------------
(* Evaluating.                                                             *)

\* The text that takes the place of a name: a variable's value, else a
\* register's, else nothing at all.
TextOf(x, held) ==
    LET i == lookup_convvar(x, held)
    IN  CASE i # 0 -> Printed(convvar_strval(vars[i]))
          [] i = 0 /\ ~attached -> NoFocus
          [] i = 0 /\ attached /\ ~good_reg(x) -> <<>>
          [] OTHER -> IF Registers[x] = "q0" THEN <<Bad>> ELSE NumberText(regtoa(hw, Registers[x]))

Named(ts) == {ts[i][2] : i \in {j \in DOMAIN ts : ts[j][1] = "var"}}

Value(ts, held) == eval_expr(ts, [x \in Named(ts) |-> TextOf(x, held)])

\* Names that are not variables are looked for among the registers, and for
\* that the thread's state is fetched.
Fetches(ts, held) == attached /\ \E x \in Named(ts) : lookup_convvar(x, held) = 0

cmdfunc_evaluate ==
    /\ typed # <<>> /\ cnt < Len(Results)
    /\ \E held \in BOOLEAN :
        /\ \E r \in {Value(typed, held)} :
            IF r.err THEN UNCHANGED <<cnt, convvars>>
            ELSE Set(Results[cnt + 1], [t |-> "int", v |-> r.v], held) /\ cnt' = cnt + 1
        /\ IF Fetches(typed, held) THEN cmdfunc_register_view ELSE UNCHANGED registers
    /\ typed' = <<>>

Step(A) == commands < MaxCommands /\ A /\ commands' = commands + 1

VariableCommand ==
    /\ \E x \in SetNames : (\E text \in SetTexts : cmdfunc_variable_set(x, text)) \/ cmdfunc_variable_unset(x)
    /\ UNCHANGED registers

RegisterStep == RegistersNext /\ UNCHANGED convvars

Next ==
    \/ \E t \in Alphabet : Type(t)
    \/ Len(typed) <= ShortTokens /\ Step(cmdfunc_evaluate)
    \/ typed = <<>> /\ Step(VariableCommand \/ RegisterStep) /\ UNCHANGED <<typed, cnt>>

Spec == Init /\ [][Next]_evars

----------------------------------------------------------------------------
\* What a name is meant to stand for: the number or the string a variable
\* holds, or the number in a register.  LONG_MIN and a register with its top bit set are
\* left out, since their text does not fit a long, and so is a name whose
\* text ends in a letter when a parenthesis follows.
Means(x) ==
    LET i == lookup_convvar(x, TRUE)
    IN  IF i # 0 THEN convvar_strval(vars[i])
        ELSE IF attached /\ good_reg(x) /\ Registers[x] # "q0" THEN [t |-> "int", v |-> regtoa(hw, Registers[x])]
        ELSE Absent

Plain(ts, i) ==
    LET m == Means(ts[i][2])
    IN  \/ m.t = "str"
        \/ /\ m.t = "int" /\ m.v > LONG_MIN /\ m.v <= LONG_MAX
           /\ i < Len(ts) /\ ts[i + 1] = Op("(") => Abs(m.v) % 16 < 10

\* The expression with numbers and strings in the places of the names.
Spelt(ts) ==
    FlattenSeq([i \in DOMAIN ts |->
        LET m == Means(ts[i][2])
        IN  CASE ts[i][1] # "var" -> <<ts[i]>>
              [] ts[i][1] = "var" /\ m.t = "int" -> <<Num(m.v)>>
              [] OTHER -> StringText[m.v]])

\* An expression that the grammar gives a value has that value for
\* eval_expr: the two stacks, the sign operator `N', the `*' that is put
\* before a parenthesis and the text that variables and registers are
\* printed to (a sign and a hexadecimal magnitude, or the string) agree with
\* the usual reading of sums, products, signs and parentheses, errors for a
\* division by zero included.
ValueFollowsGrammar ==
    (\A i \in DOMAIN typed : typed[i][1] = "var" => Plain(typed, i)) =>
        LET ref == Reference(Spelt(typed))
        IN  ref.ok => LET r == Value(typed, TRUE) IN r.err = ref.err /\ (~r.err => r.v = ref.v)

\* The stack machine computes what the expression it was compiled from means,
\* what is stored at that address when a deref follows, and the same with
\* operations in between that only move values, or compute and undo: every
\* operation takes its operands from the places and in the order that the
\* others leave them.  (A division by zero has no value.)
LocationFollowsGrammar ==
    (\A i \in DOMAIN typed : typed[i][1] # "var") =>
        LET ref == Reference(typed)
        IN  ref.ok /\ ~ref.err =>
                /\ Computes(ref.code, ref.v)
                /\ Computes(Append(ref.code, Idle("deref")), Memory[ref.v])
                /\ Len(typed) <= DetourTokens => ComputesAnyway(ref.code, ref.v)

\* A variable at an offset from the frame base, which goes through the text
\* of an expression and a fetch of the registers, is where the operation with
\* the register itself, which uses the copy, puts it: as long as the thread
\* has not run since the copy was fetched and the register's top bit is clear.
FrameBaseIsRegister ==
    attached /\ ~ran /\ hw.x0 <= LONG_MAX =>
        \A n \in -2 .. 2 :
            decode_location_description(<<<<"fbreg", n>>>>) = decode_location_description(<<<<"breg", n>>>>)

\* The calculator's state is well formed, and eval_expr gives expressions the
\* value that the grammar gives them.
EvaluationFollowsGrammar == EvaluatorTypeOK /\ ValueFollowsGrammar

\* decode_location_description gives the place that the description means.
LocationsOK == LocationFollowsGrammar /\ FrameBaseIsRegister
=============================================================================
