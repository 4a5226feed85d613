---------------------------- MODULE MCEvaluator ----------------------------
EXTENDS Evaluator

MCNames    == {"$_", "$0", "$1", "$2", "$x0", "$s0", "$q0", "$sum", "$nope"}
MCbadNames == {"$x0", "$s0", "$q0"}
MCOwn      == <<"$_">>
MCResults  == <<"$0", "$1", "$2">>

MCAlphabet ==
    {Op("+"), Op("-"), Op("*"), Op("/"), Op("("), Op(")"), Num(2), Num(3)} \cup {Var(x) : x \in {"$0", "$x0", "$sum", "$nope"}}

MCSetNames == {"$0", "$x0"}
MCSetTexts ==
    {[t |-> "int", v |-> -5], [t |-> "badint", v |-> 1], [t |-> "dbl", v |-> 2],
     [t |-> "dots", v |-> 0], [t |-> "str", v |-> 3]}

MCStringText == [v \in Longs |-> IF v = 3 THEN <<Num(2), Op("-"), Num(3)>> ELSE <<Bad>>]

MCWriteNames  == {"$x0", "$w0", "$q0", "$d0", "$s0", "$fpsr", "$sum"}
MCWriteValues ==
    {[t |-> "int", v |-> -3, b |-> <<>>], [t |-> "int", v |-> 40, b |-> <<>>], [t |-> "dec", v |-> -2, b |-> <<>>],
     [t |-> "bytes", v |-> 0, b |-> <<1, 2, 3, 4>>], [t |-> "bytes", v |-> 0, b |-> <<5, 6>>],
     [t |-> "bad", v |-> 0, b |-> <<>>]}

MCMemory == [a \in Longs |-> Long(3 * a + 1)]

MCRuns == {[x0 |-> 5, pc |-> 8, fpsr |-> 1, v0 |-> <<3, 0>>], [x0 |-> 60, pc |-> 9, fpsr |-> 0, v0 |-> <<50, 63>>]}
=============================================================================
