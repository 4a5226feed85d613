-------------------------------- MODULE Expr --------------------------------
(***************************************************************************)
(* The calculator behind `evaluate' and every command that takes a number  *)
(* (source/expr.c, source/stack.c), and the grammar it is meant for.       *)
(*                                                                         *)
(* An expression is a sequence of the tokens of Numbers.                   *)
(***************************************************************************)
EXTENDS Numbers, SequencesExt

Operators      == {Op("+"), Op("-"), Op("*"), Op("/")}
is_operator(t) == t \in Operators
IsNumber(t)    == t[1] \in {"num", "hex"}

----------------------------------------------------------------------------
(* stack.c: popping an empty stack gives LONG_MIN.                         *)

Pop(stack)  == IF stack = <<>> THEN LONG_MIN ELSE Last(stack)
Rest(stack) == IF stack = <<>> THEN stack ELSE Front(stack)

----------------------------------------------------------------------------
(* expr.c                                                                  *)

perform_operation(l, r, op) ==
    CASE op = "+" -> [v |-> Long(l + r), err |-> FALSE]
      [] op = "-" -> [v |-> Long(l - r), err |-> FALSE]
      [] op = "*" -> [v |-> Long(l * r), err |-> FALSE]
      [] op = "/" /\ r # 0 -> [v |-> Long(Quotient(l, r)), err |-> FALSE]
      [] OTHER -> [v |-> LONG_MIN, err |-> TRUE]

\* Mutant: the four operators bind alike.
precedence_Flat(op) == CASE op \in {"+", "-", "*", "/"} -> 1 [] op = "N" -> 3 [] OTHER -> 0

precedence(op) ==
    CASE op \in {"+", "-"} -> 1
      [] op \in {"*", "/"} -> 2
      [] op = "N" -> 3
      [] OTHER -> 0

is_neg_operator(ts, i) ==
    /\ ts[i] = Op("-")
    /\ i = 1 \/ ts[i - 1] = Op("(") \/ is_operator(ts[i - 1])

\* Two operators in a row, unless the second is a sign.
invalid_expr(ts, i) ==
    /\ i > 1
    /\ is_operator(ts[i - 1]) /\ is_operator(ts[i])
    /\ ~is_neg_operator(ts, i)

EndsInDigit(t) == t[1] = "num" \/ (t[1] = "hex" /\ t[2] % 16 < 10)

\* A `*' goes before a `(' that follows a decimal digit.
add_mults(ts) ==
    FlattenSeq([i \in DOMAIN ts |->
        IF i > 1 /\ ts[i] = Op("(") /\ EndsInDigit(ts[i - 1]) THEN <<Op("*"), ts[i]>> ELSE <<ts[i]>>])

\* One round with the stacks st.ops and st.nums.
process_stacks(st) ==
    LET op     == Pop(st.ops)
        second == Pop(st.nums)
        first  == Pop(Rest(st.nums))
        r      == perform_operation(first, second, op)
    IN  IF op = "N"
        THEN [st EXCEPT !.ops = Rest(@), !.nums = Append(Rest(@), Long(-second))]
        ELSE [ops |-> Rest(st.ops), nums |-> Append(Rest(Rest(st.nums)), r.v), err |-> r.err]

\* Rounds while the operator on top binds at least as tightly as p.
RECURSIVE Reduce(_, _)
Reduce(st, p) ==
    IF st.err \/ st.ops = <<>> THEN st
    ELSE IF precedence(Last(st.ops)) < p THEN st
    ELSE Reduce(process_stacks(st), p)

\* What one token does to the stacks.
token_step(ts, i, st) ==
    CASE is_neg_operator(ts, i) -> [st EXCEPT !.ops = Append(@, "N")]
      [] IsNumber(ts[i]) -> [st EXCEPT !.nums = Append(@, strtol(ts[i][2]))]
      [] ts[i] = Op("(") -> [st EXCEPT !.ops = Append(@, "(")]
      [] ts[i] = Op(")") -> LET r == Reduce(st, 1) IN [r EXCEPT !.ops = Rest(@)]
      [] is_operator(ts[i]) /\ ~is_neg_operator(ts, i) ->
            LET r == Reduce(st, precedence(ts[i][2])) IN [r EXCEPT !.ops = Append(@, ts[i][2])]
      [] OTHER -> [st EXCEPT !.err = TRUE]

RECURSIVE Tokens(_, _, _)
Tokens(ts, i, st) == IF st.err \/ i > Len(ts) THEN st ELSE Tokens(ts, i + 1, token_step(ts, i, st))

\* The operands left over are not looked at.
evaluate(ts) ==
    LET st == Reduce(Tokens(ts, 1, [ops |-> <<>>, nums |-> <<>>, err |-> FALSE]), 0)
    IN  IF (\E i \in DOMAIN ts : invalid_expr(ts, i)) \/ st.err
        THEN [v |-> LONG_MIN, err |-> TRUE]
        ELSE [v |-> Pop(st.nums), err |-> FALSE]

\* The text the name x stands for is text[x]; NoFocus when there is neither a
\* variable nor a thread to ask for a register.
NoFocus == <<<<"none", 0>>>>

sub_conv_vars(ts, text) == FlattenSeq([i \in DOMAIN ts |-> IF ts[i][1] = "var" THEN text[ts[i][2]] ELSE <<ts[i]>>])

eval_expr(ts, text) ==
    IF ts = <<>> \/ \E i \in DOMAIN ts : ts[i][1] = "var" /\ text[ts[i][2]] = NoFocus
    THEN [v |-> LONG_MIN, err |-> TRUE]
    ELSE evaluate(add_mults(sub_conv_vars(ts, text)))

----------------------------------------------------------------------------
(* The grammar: sums of products of signed operands, where a number before *)
(* a parenthesis multiplies it.  A parse is the value so far, whether      *)
(* there is one, whether it divided by zero, the next token's place, and   *)
(* the same computation for a stack machine (LocationExpr).                *)

NoParse == [ok |-> FALSE, v |-> 0, err |-> FALSE, i |-> 1, code |-> <<>>]

Instruction == [op \in {"+", "-", "*", "/"} |->
    CASE op = "+" -> <<"plus", 0>> [] op = "-" -> <<"minus", 0>> [] op = "*" -> <<"mul", 0>> [] op = "/" -> <<"div", 0>>]

RECURSIVE Operand(_, _), Chain(_, _, _)

Operand(ts, i) ==
    IF i > Len(ts) THEN NoParse
    ELSE IF IsNumber(ts[i]) THEN [ok |-> TRUE, v |-> ts[i][2], err |-> FALSE, i |-> i + 1, code |-> <<<<"constu", ts[i][2]>>>>]
    ELSE IF ts[i] = Op("-")
    THEN LET r == Operand(ts, i + 1) IN [r EXCEPT !.v = Long(-@), !.code = Append(@, <<"neg", 0>>)]
    ELSE IF ts[i] = Op("(")
    THEN LET r == Chain(ts, 1, i + 1)
         IN  IF r.ok /\ r.i <= Len(ts) /\ ts[r.i] = Op(")") THEN [r EXCEPT !.i = @ + 1] ELSE NoParse
    ELSE NoParse

\* level 1: + and -, of products; level 2: * and /, of operands.
Chain(ts, level, start) ==
    LET part(i) == IF level = 1 THEN Chain(ts, 2, i) ELSE Operand(ts, i)
        mine    == IF level = 1 THEN {Op("+"), Op("-")} ELSE {Op("*"), Op("/")}
        with(l, op, r) ==
            LET v == perform_operation(l.v, r.v, op)
            IN  [ok |-> r.ok, v |-> v.v, err |-> l.err \/ r.err \/ v.err, i |-> r.i,
                 code |-> Append(l.code \o r.code, Instruction[op])]
        RECURSIVE rest(_)
        rest(l) ==
            IF ~l.ok \/ l.i > Len(ts) THEN l
            ELSE IF ts[l.i] \in mine THEN rest(with(l, ts[l.i][2], part(l.i + 1)))
            ELSE IF level = 2 /\ ts[l.i] = Op("(") /\ IsNumber(ts[l.i - 1]) THEN rest(with(l, "*", part(l.i)))
            ELSE l
    IN  rest(part(start))

\* The value of a whole expression; ok is FALSE when the grammar has none.
Reference(ts) ==
    LET r == Chain(ts, 1, 1)
    IN  IF r.ok /\ r.i = Len(ts) + 1 THEN r ELSE NoParse
=============================================================================
