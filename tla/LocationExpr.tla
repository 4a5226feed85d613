---------------------------- MODULE LocationExpr ----------------------------
(***************************************************************************)
(* The stack machine for DWARF location descriptions                       *)
(* (source/symbol/dexpr.c), which shares the calculator and the focused    *)
(* thread's registers with the commands.                                   *)
(*                                                                         *)
(* A description is a sequence of operations <<name, operand>>.  Register  *)
(* 0 stands for all of them, an int-wide constant for those narrower than  *)
(* a long, and "nop" also for the operations that are not implemented.     *)
(* The size of a deref_size is in bits.                                    *)
(* The array stack[0..sp] is the sequence s, whose first element is the 0  *)
(* below everything that is pushed.                                        *)
(***************************************************************************)
EXTENDS Expr, Registers, Bitwise

CONSTANT Memory    \* what read_memory_at_location gives, 0 where it fails

ASSUME MemoryAssumption == Memory \in [Longs -> Longs]

\* x0 is the copy's register, which a fetch on the way refreshes.
Start == [at |-> 1, s |-> <<0>>, x0 |-> Long(cache.x0), wild |-> FALSE]

get_register_value(m) == m.x0

Truth(p) == IF p THEN 1 ELSE 0

Unary(op, a) ==
    CASE op = "abs" -> Long(Abs(a))
      [] op = "neg" -> Long(-a)
      [] op = "not" -> -1 - a

\* a is below b.  Mutant: the top is what is subtracted from.
Minus_Swapped(a, b) == Long(b - a)

Minus(a, b) == Long(a - b)

\* Shifts take as many bits of the count as the processor does, and 1 << b is
\* an int.
Arithmetic(op, a, b) ==
    CASE op = "plus" -> Long(a + b)
      [] op = "minus" -> Minus(a, b)
      [] op = "mul" -> Long(a * b)
      [] op = "div" -> IF b = 0 THEN 0 ELSE Long(Quotient(a, b))
      [] op = "mod" -> IF b = 0 THEN a ELSE a - b * Quotient(a, b)
      [] op = "and" -> Long((a % Whole) & (b % Whole))
      [] op = "or" -> Long((a % Whole) | (b % Whole))
      [] op = "xor" -> Long((a % Whole) ^^ (b % Whole))
      [] op = "shl" -> Long(a * 2 ^ (b % Bits))
      [] op = "shr" -> a \div 2 ^ (b % Bits)
      [] op = "shra" -> LET n == 2 ^ (b % (Bits \div 2)) IN Long(Quotient(a, IF n = Half \div 2 THEN -n ELSE n))

Comparison(op, a, b) ==
    CASE op = "eq" -> Truth(a = b)
      [] op = "ge" -> Truth(a >= b)
      [] op = "gt" -> Truth(a > b)
      [] op = "le" -> Truth(a <= b)
      [] op = "lt" -> Truth(a < b)
      [] op = "ne" -> Truth(a # b)

\* What is pushed by the operations that only push.
Constant(op, n) ==
    CASE op = "const4u" -> n % Half
      [] op = "const4s" -> IF n % Half >= Half \div 2 THEN (n % Half) - Half ELSE n % Half
      [] op \in {"addr", "constu", "consts", "lit"} -> Long(n)

\* The expression made for DW_OP_fbreg: the name of a register and %+lld.
FrameBaseText(n) == <<Var("$x0"), IF n < 0 THEN Op("-") ELSE Op("+"), Num(Abs(n))>>

evaluate_frame_base(n) ==
    LET r == eval_expr(FrameBaseText(n), [x \in {"$x0"} |-> NumberText(regtoa(hw, "x0"))]) IN r.v

\* How far bra and skip go, from the operation itself: an offset in
\* operations, and one less when it is backwards.
Offset(n) == IF n < 0 THEN n + 1 ELSE n

Unaries     == {"abs", "neg", "not"}
Comparisons == {"eq", "ge", "gt", "le", "lt", "ne"}
Binaries    == {"plus", "minus", "mul", "div", "mod", "and", "or", "xor", "shl", "shr", "shra"}
Constants   == {"addr", "const4u", "const4s", "constu", "consts", "lit"}

\* The values an operation reads below the top.
Depth(op, n) ==
    CASE op \in Binaries \cup Comparisons \cup {"over", "swap"} -> 2
      [] op = "rot" -> 3
      [] op = "pick" -> n + 1
      [] OTHER -> 1

\* One operation.  A read below stack[0] is not in the array.
location_op(op, n, m) ==
    LET s       == m.s
        sp      == Len(s)
        push(x) == [m EXCEPT !.s = Append(s, x), !.at = @ + 1]
        with(t) == [m EXCEPT !.s = t, !.at = @ + 1]
        below   == SubSeq(s, 1, sp - 2)
    IN  IF sp < Depth(op, n) THEN [m EXCEPT !.wild = TRUE] ELSE
        CASE op \in Constants -> push(Constant(op, n))
          [] op = "reg" -> push(get_register_value(m))
          [] op = "breg" -> push(Long(get_register_value(m) + n))
          [] op = "fbreg" -> [push(evaluate_frame_base(n)) EXCEPT !.x0 = Long(hw.x0)]
          [] op = "deref" -> push(Memory[s[sp]])
          [] op = "deref_size" /\ n > 0 -> push(IF n = Bits THEN Memory[s[sp]] ELSE Memory[s[sp]] % (2 ^ n))
          [] op = "dup" -> push(s[sp])
          [] op = "over" -> push(s[sp - 1])
          [] op = "pick" -> push(s[sp - n])
          [] op = "drop" -> with(Front(s))
          [] op = "swap" -> with(below \o <<s[sp], s[sp - 1]>>)
          [] op = "rot" -> with(SubSeq(s, 1, sp - 3) \o <<s[sp], s[sp - 2], s[sp - 1]>>)
          [] op = "plus_uconst" -> with([s EXCEPT ![sp] = Long(@ + n)])
          [] op \in Unaries -> with([s EXCEPT ![sp] = Unary(op, @)])
          [] op \in Binaries -> with(Append(below, Arithmetic(op, s[sp - 1], s[sp])))
          [] op \in Comparisons -> with(Append(below, Comparison(op, s[sp - 1], s[sp])))
          [] op = "skip" \/ (op = "bra" /\ s[sp] # 0) -> [m EXCEPT !.at = @ + Offset(n)]
          [] OTHER -> [m EXCEPT !.at = @ + 1]

\* Runs until it leaves the list or meets stack_value.
RECURSIVE Decoded(_, _)
Decoded(ops, m) ==
    IF m.wild \/ m.at \notin DOMAIN ops THEN m
    ELSE IF ops[m.at][1] = "stack_value" THEN m
    ELSE Decoded(ops, location_op(ops[m.at][1], ops[m.at][2], m))

decode_location_description(ops) ==
    LET m == Decoded(ops, Start) IN [v |-> IF m.s = <<>> THEN 0 ELSE Last(m.s), wild |-> m.wild]

----------------------------------------------------------------------------
\* Operations that leave the stack as it is.
Idle(name) == <<name, 0>>
Detours ==
    {<<Idle("dup"), Idle("drop")>>, <<Idle("over"), Idle("drop")>>, <<<<"pick", 1>>, Idle("drop")>>,
     <<Idle("swap"), Idle("swap")>>, <<Idle("rot"), Idle("rot"), Idle("rot")>>,
     <<Idle("neg"), Idle("neg")>>, <<Idle("not"), Idle("not")>>, <<Idle("nop")>>, <<<<"skip", 1>>>>,
     <<<<"plus_uconst", 0>>>>,
     <<Idle("dup"), Idle("abs"), <<"lit", 0>>, Idle("mul"), Idle("plus")>>,
     <<Idle("dup"), <<"lit", 1>>, Idle("mod"), Idle("plus")>>,
     <<Idle("dup"), Idle("and")>>, <<Idle("dup"), Idle("or")>>}
    \cup {<<<<"const4s", 0>>, Idle(op)>> : op \in {"plus", "minus", "xor", "or", "shl", "shr", "shra"}}
    \cup {<<<<"const4u", 1>>, Idle(op)>> : op \in {"mul", "div"}}
    \cup {<<Idle("dup"), Idle("dup"), Idle(op), Idle("mul")>> : op \in {"eq", "ge", "le"}}
    \cup {<<Idle("dup"), Idle("dup"), Idle(op), Idle("plus")>> : op \in {"ne", "gt", "lt"}}

\* The description computes v, and goes on doing so with any detour that
\* finds the values it needs, at any place.
Computes(code, v) == LET r == decode_location_description(code) IN ~r.wild /\ r.v = v

ComputesAnyway(code, v) ==
    \A d \in Detours, k \in 1 .. Len(code) :
        LET r == decode_location_description(SubSeq(code, 1, k) \o d \o SubSeq(code, k + 1, Len(code)))
        IN  r.wild \/ r.v = v
=============================================================================
