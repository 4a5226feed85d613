------------------------------ MODULE Numbers ------------------------------
(***************************************************************************)
(* Numbers as the program has them, and their text.  A long has Bits bits  *)
(* and an int half of them.  A token of an expression is <<kind, value>>:  *)
(* operators and parentheses, numbers typed in decimal ("num") or printed  *)
(* in hexadecimal ("hex"), names that begin with $ ("var"), and text that  *)
(* is none of them ("bad").                                                *)
(***************************************************************************)
EXTENDS Integers, Sequences

CONSTANT Bits
ASSUME BitsAssumption  == Bits \in Nat \ {0, 1}
ASSUME WidthAssumption == Bits % 2 = 0

LONG_MAX == 2 ^ (Bits - 1) - 1
LONG_MIN == -(2 ^ (Bits - 1))
Longs    == LONG_MIN .. LONG_MAX

Half  == 2 ^ (Bits \div 2)
Whole == 2 ^ Bits
Ones  == Whole - 1

\* What the powers of two are to each other, which the provers do not know.
ASSUME PowerAssumption ==
    /\ Half \in Nat /\ Half > 1 /\ Half % 2 = 0
    /\ Whole = Half * Half /\ 2 ^ (Bits - 1) = (Half \div 2) * Half

\* What an operation leaves in a long.
Long(n) == ((n - LONG_MIN) % (2 ^ Bits)) + LONG_MIN

\* strtol stops at the limits.
strtol(n) == IF n > LONG_MAX THEN LONG_MAX ELSE IF n < LONG_MIN THEN LONG_MIN ELSE n

Abs(n) == IF n < 0 THEN -n ELSE n

\* C's division, which truncates.
Quotient(l, r) == IF (l < 0) = (r < 0) THEN Abs(l) \div Abs(r) ELSE -(Abs(l) \div Abs(r))

Op(c)  == <<"op", c>>
Num(n) == <<"num", n>>
Hex(n) == <<"hex", n>>
Var(x) == <<"var", x>>
Bad    == <<"bad", 0>>

\* %#llx of the magnitude, after a sign.
NumberText(n) == IF n = 0 THEN <<Num(0)>> ELSE IF n < 0 THEN <<Op("-"), Hex(-n)>> ELSE <<Hex(n)>>
=============================================================================
