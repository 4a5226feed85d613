------------------------------ MODULE ConvVars ------------------------------
(***************************************************************************)
(* Convenience variables (source/convvar.c, source/cmd/varcmd.c): the list *)
(* of named values that the user, `evaluate' and the debugger itself set   *)
(* and that expressions read.                                              *)
(*                                                                         *)
(* The text a variable is set to is a record [t, v]: "empty"; a number     *)
(* that strtoll ("int") or strtod ("dbl") reads to its end; one they do    *)
(* not ("badint", "baddbl"); one with two dots ("dots"); or a quoted       *)
(* string ("str"), which reads StringText[v]: numbers and operators, or    *)
(* what is bad text in an expression.  Garbage is the number that the bits *)
(* of a pointer or of a double look like.                                  *)
(***************************************************************************)
EXTENDS Numbers, SequencesExt

CONSTANTS Names,       \* names that begin with $
          bad_names,   \* the names of registers among them
          Own,         \* the variables the debugger creates, in order
          Garbage,
          StringText

ASSUME ConvVarsAssumption == bad_names \subseteq Names /\ Garbage \in Longs
ASSUME StringAssumption ==
    \A v \in Longs : \A i \in DOMAIN StringText[v] : StringText[v][i][1] \in {"op", "num", "hex", "bad"}
ASSUME OwnAssumption ==
    Own \in Seq(Names \ bad_names) /\ \A i, j \in DOMAIN Own : Own[i] = Own[j] => i = j

VARIABLES
    vars,    \* the list: [name, kind, data, state, freed]
    want     \* history: what each name was last set to

convvars == <<vars, want>>

TextKinds == {"empty", "int", "badint", "dbl", "baddbl", "dots", "str"}
Texts     == [t : TextKinds, v : Longs]
Kinds     == {"void", "int", "dbl", "str", "none"}
Data      == [t : {"junk", "int", "dbl", "ptr"}, v : Longs]
Shown     == [t : {"absent", "void", "int", "dbl", "str", "spoilt"}, v : Longs]

Entries   == [name : Names \ bad_names, kind : Kinds, data : Data, state : {"void", "nonvoid"}, freed : BOOLEAN]

ConvVarsTypeOK ==
    /\ vars \in Seq(Entries)
    /\ want \in [Names -> Shown]

Void   == [t |-> "void", v |-> 0]
Absent == [t |-> "absent", v |-> 0]
Spoilt == [t |-> "spoilt", v |-> 0]

\* What a text means, when it is well formed.
Meaning(text) == IF text.t = "empty" THEN Void ELSE text

\* The names that iosdbg.c creates before the first command.
ConvVarsInit ==
    /\ vars = [i \in DOMAIN Own |-> [name |-> Own[i], kind |-> "void", state |-> "void", freed |-> FALSE,
                                     data |-> [t |-> "junk", v |-> 0]]]
    /\ want = [x \in Names |-> IF x \in ToSet(Own) THEN Void ELSE Absent]

----------------------------------------------------------------------------
(* convvar.c                                                               *)

invalid_name(x) == x \in bad_names

\* The place of a name in the list, 0 for none.  strcmp with a name that was
\* freed finds the old text or what took its place: `held' is which.
lookup_convvar(x, held) ==
    LET at == {i \in DOMAIN vars : vars[i].name = x /\ (vars[i].freed => held)}
    IN  IF invalid_name(x) \/ at = {} THEN 0 ELSE CHOOSE i \in at : \A j \in at : i <= j

determine_kind(text) ==
    CASE text.t = "empty" -> "void"
      [] text.t = "str" -> "str"
      [] text.t = "dots" -> "none"
      [] text.t \in {"dbl", "baddbl"} -> "dbl"
      [] OTHER -> "int"

Fails(text) == text.t \in {"badint", "baddbl", "dots"}

\* A number that is not one frees the variable; one with two dots leaves the
\* old data under a kind that is none.
update_convvar(var, text) ==
    CASE text.t = "empty" -> [var EXCEPT !.state = "void"]
      [] var.kind \in {"int", "dbl"} ->
            [var EXCEPT !.data = [t |-> var.kind, v |-> text.v],
                        !.freed = @ \/ Fails(text), !.state = IF Fails(text) THEN @ ELSE "nonvoid"]
      [] var.kind = "str" -> [var EXCEPT !.data = [t |-> "ptr", v |-> text.v], !.state = "nonvoid"]
      [] OTHER -> [var EXCEPT !.state = "nonvoid"]

create_convvar(x, text) ==
    LET kind == determine_kind(text)
        new  == [name |-> x, kind |-> kind, data |-> [t |-> "junk", v |-> 0], freed |-> FALSE,
                 state |-> IF kind = "void" THEN "void" ELSE "nonvoid"]
    IN  IF Fails(text) THEN vars ELSE Append(vars, update_convvar(new, text))

\* Mutant: an existing variable keeps the kind it was created with.
set_convvar_KeepsKind(x, text, held) ==
    LET i == lookup_convvar(x, held)
    IN  CASE invalid_name(x) -> vars
          [] ~invalid_name(x) /\ i = 0 -> create_convvar(x, text)
          [] OTHER -> [vars EXCEPT ![i] = update_convvar(@, text)]

\* The list after a set.
set_convvar(x, text, held) ==
    LET i == lookup_convvar(x, held)
    IN  CASE invalid_name(x) -> vars
          [] ~invalid_name(x) /\ i = 0 -> create_convvar(x, text)
          [] OTHER -> [vars EXCEPT ![i] = update_convvar([@ EXCEPT !.kind = determine_kind(text)], text)]

void_convvar(x, held) ==
    LET i == lookup_convvar(x, held) IN IF i = 0 THEN vars ELSE [vars EXCEPT ![i].state = "void"]

\* What the value of a variable is printed from.
convvar_strval(var) ==
    CASE var.state = "void" -> Void
      [] var.state # "void" /\ var.kind = "str" -> [t |-> "str", v |-> var.data.v]
      [] var.state # "void" /\ var.kind = "dbl" -> [t |-> "dbl", v |-> var.data.v]
      [] OTHER -> [t |-> "int", v |-> IF var.data.t = "int" THEN var.data.v ELSE Garbage]

\* The text an expression gets for it: "void" and a number with a dot are no
\* expressions.
Printed(shown) ==
    CASE shown.t = "int" -> NumberText(shown.v)
      [] shown.t = "str" -> StringText[shown.v]
      [] OTHER -> <<Bad>>

----------------------------------------------------------------------------
(* The commands.                                                           *)

\* What name x is meant to hold once it was set to text.
Wanted(x, text) ==
    CASE invalid_name(x) -> want[x]
      [] ~invalid_name(x) /\ Fails(text) -> IF want[x] = Absent THEN Absent ELSE Spoilt
      [] OTHER -> Meaning(text)

Set(x, text, held) ==
    /\ vars' = set_convvar(x, text, held)
    /\ want' = [want EXCEPT ![x] = Wanted(x, text)]

cmdfunc_variable_set(x, text) == \E held \in BOOLEAN : Set(x, text, held)

cmdfunc_variable_unset(x) ==
    /\ \E held \in BOOLEAN : vars' = void_convvar(x, held)
    /\ want' = [want EXCEPT ![x] = IF invalid_name(x) \/ @ = Absent THEN @ ELSE Void]

\* Any of them; `evaluate' sets variables too.
ConvVarsNext ==
    \E x \in Names : (\E text \in Texts : cmdfunc_variable_set(x, text)) \/ cmdfunc_variable_unset(x)

ConvVarsSpec == ConvVarsInit /\ [][ConvVarsNext]_convvars

----------------------------------------------------------------------------
\* A variable shows what it was last set to, whatever it was before (integer,
\* double, string, void), and a set that failed for a name not in the list
\* leaves no variable: nothing convvar_strval returns was left behind by an
\* earlier kind.  A set of an existing variable that fails spoils it until the
\* next one, or for good when it was freed in place.
VariablesShowWhatWasSet ==
    \A x \in Names \ bad_names :
        LET i == lookup_convvar(x, TRUE)
            spoilt == want[x] = Spoilt \/ \E j \in DOMAIN vars : vars[j].name = x /\ vars[j].freed
        IN  ~spoilt => (IF i = 0 THEN Absent ELSE convvar_strval(vars[i])) = want[x]

\* The list of variables is well formed, and a variable shows what it was set
\* to by set_convvar.
VariablesOK == ConvVarsTypeOK /\ VariablesShowWhatWasSet
=============================================================================
