--------------------------- MODULE CommandsProofs ---------------------------
(***************************************************************************)
(* Proofs about Commands: for every vocabulary and every set of lines,     *)
(* whatever TAB leaves behind, a line does what it says.                   *)
(***************************************************************************)
EXTENDS Commands, SequenceTheorems, FiniteSetTheorems, NaturalsInduction, WellFoundedInduction, TLAPS

----------------------------------------------------------------------------
(* The inductive invariant.                                                *)

\* What linecb repeats is a line that was entered, cleaned.
PrevlineInv ==
    \/ prevline = NoLine
    \/ /\ prevline.kind \in {"words", "shell"}
       /\ \E line \in Lines : prevline.words = line.words
       /\ prevline.kind = "shell" => prevline.words = <<>>

IInv ==
    /\ TypeOK /\ PrevlineInv /\ TypedCommandRuns /\ RejectedNeverRuns /\ StaleMatchHarmless
    /\ ArgumentsIntact

----------------------------------------------------------------------------
(* The tree of commands, and the words of a line.                          *)

\* A command is at the top or below one that is.
LEMMA PathShapes ==
    \A p \in Paths : \/ \E a : p = <<a>>
                     \/ \E a, b : p = <<a, b>> /\ <<a>> \in Paths
<1> SUFFICES ASSUME NEW p \in Paths
             PROVE  \/ \E a : p = <<a>>
                    \/ \E a, b : p = <<a, b>> /\ <<a>> \in Paths
    OBVIOUS
<1>1. PICK node \in Tree : node[1] = p
    BY DEF Paths
<1>2. PICK c \in ToSet(COMMANDS) :
        node \in {<<<<c.name>>, c>>} \cup {<<<<c.name, s.name>>, s>> : s \in ToSet(c.subcmds)}
    BY DEF Tree
<1>3. <<<<c.name>>, c>> \in Tree
    BY DEF Tree
<1>4. <<c.name>> \in Paths
    <2>1. <<<<c.name>>, c>>[1] = <<c.name>>
        OBVIOUS
    <2> QED
        BY <1>3, <2>1 DEF Paths
<1>5. CASE node = <<<<c.name>>, c>>
    BY <1>1, <1>5
<1>6. CASE \E s \in ToSet(c.subcmds) : node = <<<<c.name, s.name>>, s>>
    BY <1>1, <1>4, <1>6
<1> QED
    BY <1>2, <1>5, <1>6

\* A path has one or two names, and an empty one is no path.
LEMMA PathLengths ==
    \A p \in Paths : /\ Len(p) \in {1, 2} /\ p # NoCmd
                     /\ Len(p) = 1 => p = <<p[1]>>
                     /\ Len(p) = 2 => <<p[1]>> \in Paths
<1>1. \A a : Len(<<a>>) = 1 /\ <<a>>[1] = a /\ <<a>> # <<>>
    OBVIOUS
<1>2. \A a, b : Len(<<a, b>>) = 2 /\ <<a, b>>[1] = a /\ <<a, b>> # <<>>
    OBVIOUS
<1> SUFFICES ASSUME NEW p \in Paths
             PROVE  /\ Len(p) \in {1, 2} /\ p # NoCmd
                    /\ Len(p) = 1 => p = <<p[1]>>
                    /\ Len(p) = 2 => <<p[1]>> \in Paths
    OBVIOUS
<1>3. CASE \E a : p = <<a>>
    <2>1. PICK a : p = <<a>>
        BY <1>3
    <2>2. Len(p) = 1 /\ p[1] = a /\ p # <<>>
        BY <1>1, <2>1
    <2> QED
        BY <2>1, <2>2 DEF NoCmd
<1>4. CASE \E a, b : p = <<a, b>> /\ <<a>> \in Paths
    <2>1. PICK a, b : p = <<a, b>> /\ <<a>> \in Paths
        BY <1>4
    <2>2. Len(p) = 2 /\ p[1] = a /\ p # <<>>
        BY <1>2, <2>1
    <2> QED
        BY <2>1, <2>2 DEF NoCmd
<1> QED
    BY <1>3, <1>4, PathShapes

\* The least element of a set of numbers.
LEMMA MinIs ==
    ASSUME NEW S, S \subseteq Int, NEW n \in S, \A y \in S : n <= y
    PROVE  Min(S) = n
<1>1. Min(S) \in S /\ \A y \in S : Min(S) <= y
    BY DEF Min
<1>2. Min(S) \in Int /\ n \in Int /\ Min(S) <= n /\ n <= Min(S)
    BY <1>1
<1> QED
    BY ONLY <1>2

\* The only element of a set.
LEMMA OnlyOne ==
    ASSUME NEW i \in Int
    PROVE  Min({i}) = i /\ Max({i}) = i
BY DEF Min, Max

\* The names of the top level, which expand_aliases puts in a line.
TopNames == {p[1] : p \in Paths}
Spoken   == Words \cup TopNames

\* expand_aliases changes the first word of a line only.
LEMMA Expanded ==
    ASSUME NEW w \in Seq(Words)
    PROVE  /\ expand_aliases(w) \in Seq(Spoken)
           /\ Len(expand_aliases(w)) = Len(w)
           /\ \A i \in DOMAIN w : i # 1 => expand_aliases(w)[i] = w[i] /\ w[i] \in Words
<1>1. Len(w) \in Nat /\ DOMAIN w = 1 .. Len(w) /\ w \in Seq(Spoken)
    <2>1. Len(w) \in Nat /\ DOMAIN w = 1 .. Len(w)
        BY LenProperties
    <2>2. Words \subseteq Spoken
        BY DEF Spoken
    <2> QED
        BY <2>1, <2>2, SeqMonotonic
<1>2. \A i \in DOMAIN w : w[i] \in Words
    BY <1>1, ElementOfSeq
<1> DEFINE named == {p \in Aliased : w # <<>> /\ Cmd[p].alias = w[1]}
<1>3. expand_aliases(w) = IF named = {} THEN w ELSE (CHOOSE p \in named : TRUE) \o Tail(w)
    BY DEF expand_aliases
<1>4. CASE named = {}
    BY <1>1, <1>2, <1>3, <1>4
<1>5. CASE named # {}
    <2>1. PICK p \in named : expand_aliases(w) = p \o Tail(w)
        BY <1>3, <1>5
    <2>2. p \in Paths /\ Len(p) = 1 /\ w # <<>>
        BY DEF Aliased
    <2>3. p[1] \in Spoken /\ p = <<p[1]>>
        BY <2>2, PathLengths DEF Spoken, TopNames
    <2>4. p \in Seq(Spoken)
        <3>1. <<p[1]>> \in Seq(Spoken)
            BY <2>3
        <3> QED
            BY <2>3, <3>1
    <2> HIDE DEF named
    <2>5. /\ Tail(w) \in Seq(Spoken) /\ Len(Tail(w)) = Len(w) - 1
          /\ \A i \in 1 .. Len(Tail(w)) : Tail(w)[i] = w[i + 1]
        BY <1>1, <2>2, HeadTailProperties
    <2>6. /\ p \o Tail(w) \in Seq(Spoken)
          /\ Len(p \o Tail(w)) = Len(p) + Len(Tail(w))
          /\ \A i \in 1 .. Len(p) + Len(Tail(w)) :
                (p \o Tail(w))[i] = IF i <= Len(p) THEN p[i] ELSE Tail(w)[i - Len(p)]
        BY <2>4, <2>5, ConcatProperties
    <2>7. Len(p \o Tail(w)) = Len(w) /\ Len(p) + Len(Tail(w)) = Len(w)
        BY <1>1, <2>2, <2>5, <2>6
    <2>8. ASSUME NEW i \in DOMAIN w, i # 1
          PROVE  (p \o Tail(w))[i] = w[i]
        <3>1. i \in Nat /\ i >= 2 /\ i <= Len(w) /\ i \in 1 .. Len(w)
            BY <1>1, <2>8
        <3>2. (p \o Tail(w))[i] = Tail(w)[i - 1]
            BY <2>2, <2>6, <2>7, <3>1
        <3>3. i - 1 \in 1 .. Len(Tail(w)) /\ i - 1 + 1 = i
            BY <1>1, <2>5, <3>1
        <3> QED
            BY <2>5, <3>2, <3>3
    <2> QED
        BY <1>2, <2>1, <2>6, <2>7, <2>8
<1> QED
    BY <1>4, <1>5

\* What linecb runs is a line of words that was entered, now or before.
LEMMA EffectiveLine ==
    ASSUME PrevlineInv, NEW line \in Lines
    PROVE  /\ Effective(line).kind \in {"words", "blank", "shell"}
           /\ \E l \in Lines : Effective(line).words = l.words
           /\ Effective(line).words \in Seq(Words)
           /\ Effective(line).kind = "shell" => Effective(line).words = <<>>
<1>1. \A l \in Lines : /\ l.kind \in {"words", "blank", "shell"} /\ l.words \in Seq(Words)
                       /\ l.kind = "shell" => l.words = <<>>
    <2> SUFFICES ASSUME NEW l \in Lines
                 PROVE  /\ l.kind \in {"words", "blank", "shell"} /\ l.words \in Seq(Words)
                        /\ l.kind = "shell" => l.words = <<>>
        OBVIOUS
    <2>1. <<>> \in Seq(Words)
        BY EmptySeq
    <2>2. CASE l \in {ShellLine, BlankLine}
        <3>1. l.words = <<>> /\ l.kind \in {"shell", "blank"}
            BY <2>2 DEF ShellLine, BlankLine
        <3> QED
            BY <2>1, <3>1
    <2>3. CASE l = Line(l.words) /\ l.words \in Seq(Words)
        <3>1. l.kind = "words"
            BY <2>3 DEF Line
        <3> QED
            BY <2>3, <3>1
    <2> QED
        BY <2>2, <2>3, LineAssumption
<1>2. CASE Effective(line) = line
    BY <1>1, <1>2
<1>3. CASE Effective(line) = prevline /\ prevline # NoLine
    BY <1>1, <1>3 DEF PrevlineInv
<1> QED
    BY <1>2, <1>3 DEF Effective

----------------------------------------------------------------------------
(* Completing the words of a line.                                         *)

\* The commands the words of a line can stand for, by the tree.
TopsOf(words) == {p \in Paths : Len(p) = 1 /\ p[1] \in Abbr[words[1]]}
SubsOf(words) == {q \in Paths : Len(q) = 2 /\ q[1] \in Abbr[words[1]] /\ q[2] \in Abbr[words[2]]}
Nth(words, i) == IF i = 1 THEN TopsOf(words) ELSE IF i = 2 THEN SubsOf(words) ELSE {}

\* No word before the ith stands for several commands.
Clear(words, i) == \A j \in 1 .. i - 1 : ~(Cardinality(Nth(words, j)) > 1)

\* The words of a line, all but the first of which are not empty.
GoodWords(words) ==
    /\ words \in Seq(Spoken)
    /\ \A i \in DOMAIN words : i # 1 => words[i] # Empty

TokenSet == [w : Spoken, pad : Nat]

\* The padding tells the tokens of a line apart.
LEMMA PaddedFacts ==
    ASSUME NEW words \in Seq(Spoken)
    PROVE  /\ Len(words) \in Nat /\ DOMAIN words = 1 .. Len(words)
           /\ Padded(words) \in Seq(TokenSet)
           /\ DOMAIN Padded(words) = DOMAIN words /\ Len(Padded(words)) = Len(words)
           /\ \A i \in DOMAIN words : /\ Padded(words)[i].w = words[i]
                                      /\ Padded(words)[i].pad = i /\ i # 0
                                      /\ Occurrences(Padded(words), Padded(words)[i]) = {i}
                                      /\ FirstOf(Padded(words), Padded(words)[i]) = i
<1>1. Len(words) \in Nat /\ DOMAIN words = 1 .. Len(words)
    BY LenProperties
<1>2. \A i \in DOMAIN words : words[i] \in Spoken /\ i \in Nat /\ i # 0
    BY <1>1, ElementOfSeq
<1> DEFINE line == Padded(words)
<1>3. line = [i \in DOMAIN words |-> Token(words[i], i)]
    BY DEF Padded
<1>4. \A i \in DOMAIN words : line[i].w = words[i] /\ line[i].pad = i
    <2>1. \A a, n : Token(a, n).w = a /\ Token(a, n).pad = n
        BY DEF Token
    <2>2. \A i \in DOMAIN words : line[i] = Token(words[i], i)
        BY <1>3
    <2> QED
        BY <2>1, <2>2
<1>5. \A i \in DOMAIN words : line[i] \in TokenSet
    <2>1. \A a \in Spoken, n \in Nat : Token(a, n) \in TokenSet
        BY DEF Token, TokenSet
    <2>2. \A i \in DOMAIN words : line[i] = Token(words[i], i)
        BY <1>3
    <2> QED
        BY <1>2, <2>1, <2>2
<1>6. DOMAIN line = 1 .. Len(words)
    BY <1>1, <1>3
<1>7. line \in [1 .. Len(words) -> TokenSet]
    BY <1>1, <1>3, <1>5
<1> HIDE DEF line
<1>8. line \in Seq(TokenSet)
    BY <1>1, <1>7, SeqDef
<1>9. Len(line) = Len(words)
    BY <1>1, <1>6, <1>8, LenProperties
<1>10. \A i, j \in DOMAIN words : line[i] = line[j] => i = j
    BY <1>4
<1>11. \A i \in DOMAIN words : Occurrences(line, line[i]) = {i}
    BY <1>1, <1>6, <1>10 DEF Occurrences
<1>12. \A i \in DOMAIN words : FirstOf(line, line[i]) = i
    <2> SUFFICES ASSUME NEW i \in DOMAIN words
                 PROVE  FirstOf(line, line[i]) = i
        OBVIOUS
    <2>1. FirstOf(line, line[i]) = Min({i})
        BY <1>11 DEF FirstOf
    <2>2. i \in Int
        BY <1>2
    <2> QED
        BY <2>1, <2>2, OnlyOne
<1> QED
    BY <1>1, <1>2, <1>4, <1>6, <1>8, <1>9, <1>11, <1>12 DEF line

\* match_at_level finds what the tree says.
LEMMA MatchIs ==
    ASSUME NEW words, GoodWords(words), NEW i \in DOMAIN words, NEW help \in BOOLEAN, ~help
    PROVE  match_at_level(Padded(words), Padded(words)[i], i - 1, help) = Nth(words, i)
<1> DEFINE line == Padded(words)
           text == line[i]
<1>0. words \in Seq(Spoken)
    BY DEF GoodWords
<1>1. /\ Len(words) \in Nat /\ DOMAIN words = 1 .. Len(words)
      /\ \A j \in DOMAIN words : line[j].w = words[j] /\ line[j].pad = j /\ j # 0
      /\ Occurrences(line, text) = {i}
    BY <1>0, PaddedFacts
<1>2. \A j \in DOMAIN words : Names(line[j], help) = Abbr[words[j]]
    BY <1>1 DEF Names
<1>3. i \in Nat /\ i >= 1 /\ i <= Len(words)
    BY <1>1
<1>4. match_at_level(line, text, i - 1, help) =
        {p \in Paths : IF i - 1 >= 1
                       THEN /\ Len(p) = i - 1 + 1
                            /\ p[1] \in Names(word_before(line, text), help)
                            /\ p[2] \in Names(text, help)
                       ELSE Len(p) = 1 /\ p[1] \in Names(text, help)}
    BY DEF match_at_level
<1>5. i # 1 => word_before(line, text) = line[i - 1]
    <2> SUFFICES ASSUME i # 1
                 PROVE  word_before(line, text) = line[i - 1]
        OBVIOUS
    <2>1. text.w # Empty
        BY <1>1 DEF GoodWords
    <2>2. Occurrences(line, text) \ {1} = {i} /\ {i} # {}
        BY <1>1
    <2>3. Max({i}) = i
        <3>1. i \in Int
            BY <1>3
        <3> QED
            BY <3>1, OnlyOne
    <2> HIDE DEF line, text
    <2> QED
        BY <2>1, <2>2, <2>3 DEF word_before
<1> HIDE DEF line, text
<1>6. ASSUME i = 1
      PROVE  match_at_level(line, text, i - 1, help) = Nth(words, i)
    <2>1. ~(i - 1 >= 1)
        BY <1>6
    <2>2. Names(text, help) = Abbr[words[1]]
        BY <1>2, <1>6 DEF text
    <2> QED
        BY <1>4, <1>6, <2>1, <2>2 DEF Nth, TopsOf
<1>7. ASSUME i = 2
      PROVE  match_at_level(line, text, i - 1, help) = Nth(words, i)
    <2>1. i - 1 >= 1 /\ i - 1 + 1 = 2 /\ i - 1 = 1 /\ 1 \in DOMAIN words
        BY <1>1, <1>3, <1>7
    <2>2. Names(text, help) = Abbr[words[2]]
        BY <1>2, <1>7 DEF text
    <2>3. Names(word_before(line, text), help) = Abbr[words[1]]
        <3>1. word_before(line, text) = line[1]
            BY <1>5, <1>7, <2>1
        <3>2. Names(line[1], help) = Abbr[words[1]]
            BY <1>2, <2>1
        <3> QED
            BY <3>1, <3>2
    <2>4. match_at_level(line, text, i - 1, help) = SubsOf(words)
        BY <1>4, <2>1, <2>2, <2>3 DEF SubsOf
    <2> QED
        <3>1. Nth(words, 2) = SubsOf(words)
            BY DEF Nth
        <3> QED
            BY <1>7, <2>4, <3>1
<1>8. ASSUME i > 2
      PROVE  match_at_level(line, text, i - 1, help) = Nth(words, i)
    <2>1. i - 1 >= 1 /\ i - 1 + 1 = i /\ i # 1 /\ i # 2
        BY <1>3, <1>8
    <2>2. \A p \in Paths : Len(p) # i
        BY <2>1, PathLengths
    <2>3. match_at_level(line, text, i - 1, help) = {}
        BY <1>4, <2>1, <2>2
    <2> QED
        BY <2>1, <2>3 DEF Nth
<1>9. i = 1 \/ i = 2 \/ i > 2
    BY <1>3
<1>10. match_at_level(line, text, i - 1, help) = Nth(words, i)
    BY <1>6, <1>7, <1>8, <1>9
<1> QED
    BY <1>10 DEF line, text

\* The completion of the ith word of a line finds the commands it stands for
\* unless a word before it is ambiguous.
LEMMA CompletionIs ==
    ASSUME NEW words, GoodWords(words), NEW i \in DOMAIN words, NEW help \in BOOLEAN, ~help
    PROVE  LET c == completion_generator(Padded(words), Padded(words)[i], help)
           IN  /\ c.clear = Clear(words, i)
               /\ Clear(words, i) => c.found = Nth(words, i)
               /\ ~Clear(words, i) => c.found = {}
<1> DEFINE line == Padded(words)
           text == line[i]
           c == completion_generator(line, text, help)
<1>1. /\ Len(words) \in Nat /\ DOMAIN words = 1 .. Len(words)
      /\ line \in Seq(TokenSet) /\ Len(line) = Len(words)
      /\ FirstOf(line, text) = i
    BY PaddedFacts DEF GoodWords
<1>2. i \in Nat /\ i >= 1 /\ i <= Len(words) /\ i - 1 \in Nat /\ i - 1 - 0 = i - 1
    BY <1>1
<1>3. everything_before(line, text) = SubSeq(line, 1, i - 1)
    BY <1>1 DEF everything_before
<1>4. DOMAIN everything_before(line, text) = 1 .. i - 1
    <2>1. \A j \in 1 .. i - 1 : line[j] \in TokenSet
        <3>1. \A j \in 1 .. i - 1 : j \in 1 .. Len(line)
            BY <1>1, <1>2
        <3> HIDE DEF line
        <3> QED
            BY <1>1, <3>1, ElementOfSeq
    <2> HIDE DEF line
    <2>2. /\ SubSeq(line, 1, i - 1) \in Seq(TokenSet)
          /\ Len(SubSeq(line, 1, i - 1)) = IF 1 <= i - 1 THEN i - 1 - 1 + 1 ELSE 0
        BY <1>1, <1>2, <2>1, SubSeqProperties
    <2>3. Len(SubSeq(line, 1, i - 1)) = i - 1
        BY <1>2, <2>2
    <2> QED
        BY <1>3, <2>2, <2>3, LenProperties
<1>5. \A j \in DOMAIN words : match_at_level(line, line[j], j - 1, help) = Nth(words, j)
    BY MatchIs
<1>6. \A j \in 1 .. i - 1 : j \in DOMAIN words
    BY <1>1, <1>2
<1> HIDE DEF line
<1>7. no_ambiguity_before(line, text, help) = Clear(words, i)
    BY <1>4, <1>5, <1>6 DEF no_ambiguity_before, ambiguous_command_at_level, Clear
<1>8. count_spaces_before(line, text, help) = i - 1
    BY <1>1, <1>2 DEF count_spaces_before
<1>9. match_at_level(line, text, i - 1, help) = Nth(words, i)
    BY <1>5
<1> HIDE DEF text
<1>10. c = [clear |-> Clear(words, i), found |-> {p \in Nth(words, i) : Clear(words, i)}]
    BY <1>7, <1>8, <1>9 DEF completion_generator
<1> HIDE DEF c
<1>11. c.clear = Clear(words, i) /\ c.found = {p \in Nth(words, i) : Clear(words, i)}
    <2> DEFINE F == {p \in Nth(words, i) : Clear(words, i)}
               b == Clear(words, i)
    <2>1. c = [clear |-> b, found |-> F]
        BY <1>10
    <2> HIDE DEF F, b
    <2>2. c.clear = b /\ c.found = F
        BY <2>1, Zenon
    <2> QED
        BY <2>2 DEF F, b
<1>12. /\ c.clear = Clear(words, i)
       /\ Clear(words, i) => c.found = Nth(words, i)
       /\ ~Clear(words, i) => c.found = {}
    BY <1>11
<1> QED
    BY <1>12 DEF c, line, text

\* In help mode a padded word matches nothing.
LEMMA HelpFindsNothing ==
    ASSUME NEW words \in Seq(Spoken), NEW i \in DOMAIN words, NEW help \in BOOLEAN, help
    PROVE  completion_generator(Padded(words), Padded(words)[i], help).found = {}
<1>1. Padded(words)[i].pad # 0
    BY PaddedFacts
<1>2. Names(Padded(words)[i], help) = {}
    BY <1>1 DEF Names
<1>3. \A level : match_at_level(Padded(words), Padded(words)[i], level, help) = {}
    BY <1>2 DEF match_at_level
<1> QED
    BY <1>3 DEF completion_generator

----------------------------------------------------------------------------
(* The loop over the words.                                                *)

\* The words of a line as do_cmdline_command gets them.
LineWords(words) == GoodWords(words) /\ \E line \in Lines : words = expand_aliases(line.words)

\* The loop stops at the first word that has no match.
LEMMA StopsAt ==
    ASSUME NEW c, NEW L \in Nat, DOMAIN c = 1 .. L, Len(c) = L,
           NEW n \in 1 .. L + 1, n = L + 1 \/ c[n].found = {},
           \A j \in 1 .. n - 1 : c[j].found # {}
    PROVE  Min({i \in DOMAIN c : c[i].found = {}} \cup {Len(c) + 1}) = n
<1> DEFINE S == {i \in DOMAIN c : c[i].found = {}} \cup {Len(c) + 1}
<1>1. S \subseteq Int
    OBVIOUS
<1>2. n \in S
    <2>1. n = L + 1 \/ n \in 1 .. L
        OBVIOUS
    <2> QED
        BY <2>1
<1>3. \A y \in S : n <= y
    <2> SUFFICES ASSUME NEW y \in S, ~(n <= y)
                 PROVE  FALSE
        OBVIOUS
    <2>1. y \in 1 .. L + 1 /\ y \in Int /\ n \in Int
        OBVIOUS
    <2>2. y \in 1 .. n - 1 /\ y # L + 1
        BY <2>1
    <2> QED
        BY <2>2
<1> HIDE DEF S
<1>4. Min(S) = n
    BY <1>1, <1>2, <1>3, MinIs
<1> QED
    BY <1>4 DEF S

\* What the loop works with.
LEMMA LoopState ==
    ASSUME NEW words, LineWords(words), NEW help \in BOOLEAN, NEW c, c = Completions[words][help]
    PROVE  /\ Len(words) \in Nat /\ DOMAIN words = 1 .. Len(words)
           /\ DOMAIN c = 1 .. Len(words) /\ Len(c) = Len(words)
           /\ c = <<>> <=> words = <<>>
           /\ words = <<>> <=> Len(words) = 0
           /\ \A i \in DOMAIN words :
                c[i] = completion_generator(Padded(words), Padded(words)[i], help)
<1>1. Len(words) \in Nat /\ DOMAIN words = 1 .. Len(words)
    BY PaddedFacts DEF LineWords, GoodWords
<1>2. words \in {expand_aliases(line.words) : line \in Lines}
    BY DEF LineWords
<1>3. c = [i \in DOMAIN words |-> completion_generator(Padded(words), Padded(words)[i], help)]
    BY <1>2 DEF Completions
<1>4. \A i \in DOMAIN words :
        c[i] = completion_generator(Padded(words), Padded(words)[i], help)
    BY <1>3
<1>5. c \in Seq({c[i] : i \in 1 .. Len(words)})
    BY <1>1, <1>3, IsASeq
<1>6. DOMAIN c = 1 .. Len(words)
    BY <1>1, <1>3
<1>7. Len(c) = Len(words)
    BY <1>1, <1>5, <1>6, LenProperties
<1>8. (c = <<>> <=> Len(c) = 0) /\ (words = <<>> <=> Len(words) = 0)
    BY <1>5, EmptySeq DEF LineWords, GoodWords
<1> QED
    BY <1>1, <1>4, <1>6, <1>7, <1>8

\* Where the loop stops, and its result from there.
Stops(words, c, n) ==
    /\ n \in 1 .. Len(words) + 1
    /\ n = Len(words) + 1 \/ c[n].found = {}
    /\ \A j \in 1 .. n - 1 : c[j].found # {}

Gives(r, words, c, n) ==
    /\ r.undefined \in BOOLEAN /\ (r.undefined <=> n = 1 /\ words # <<>>)
    /\ r.prev = IF n = 1 THEN {} ELSE c[n - 1].found
    /\ r.clear <=> n > Len(words) \/ c[n].clear
    /\ r.args = IF n = 1 THEN <<>> ELSE SubSeq(words, n, Len(words))

LEMMA LoopResult ==
    ASSUME NEW words, LineWords(words), NEW help \in BOOLEAN, NEW n,
           Stops(words, Completions[words][help], n)
    PROVE  Gives(Resolved(words, help), words, Completions[words][help], n)
<1>0. PICK c : c = Completions[words][help]
    OBVIOUS
<1>1. /\ Len(words) \in Nat /\ DOMAIN c = 1 .. Len(words) /\ Len(c) = Len(words)
      /\ c = <<>> <=> words = <<>>
    BY <1>0, LoopState
<1>2. Min({i \in DOMAIN c : c[i].found = {}} \cup {Len(c) + 1}) = n
    <2>1. Stops(words, c, n)
        BY <1>0
    <2>2. PICK L \in Nat : L = Len(words)
        BY <1>1
    <2> QED
        BY ONLY <1>1, <2>1, <2>2, StopsAt DEF Stops
<1> DEFINE u == n = 1 /\ c # <<>>
           p == IF n = 1 THEN {} ELSE c[n - 1].found
           k == n > Len(c) \/ c[n].clear
           a == IF n = 1 THEN <<>> ELSE SubSeq(words, n, Len(words))
<1>3. Resolved(words, help) = [undefined |-> u, prev |-> p, clear |-> k, args |-> a]
    BY <1>0, <1>2 DEF Resolved
<1>4. PICK r : r = [undefined |-> u, prev |-> p, clear |-> k, args |-> a]
    OBVIOUS
<1>5. (r.undefined = u) /\ r.prev = p /\ (r.clear = k) /\ r.args = a
    <2> HIDE DEF u, p, k, a
    <2> QED
        BY <1>4, Zenon
<1>6. Gives(r, words, c, n)
    BY <1>1, <1>5 DEF Gives
<1>7. Resolved(words, help) = r
    BY <1>3, <1>4, Zenon
<1> QED
    BY <1>0, <1>6, <1>7

\* A line without words matches nothing and is no error.
LEMMA ResolvedEmpty ==
    ASSUME NEW words, LineWords(words), words = <<>>, NEW help \in BOOLEAN
    PROVE  LET r == Resolved(words, help)
           IN  r.undefined \in BOOLEAN /\ ~r.undefined /\ r.prev = {} /\ r.args = <<>>
<1>1. Len(words) = 0
    BY LoopState
<1>2. 1 \in 1 .. Len(words) + 1 /\ 1 = Len(words) + 1 /\ 1 .. 1 - 1 = {}
    BY <1>1
<1>3. Stops(words, Completions[words][help], 1)
    BY <1>2 DEF Stops
<1>4. Gives(Resolved(words, help), words, Completions[words][help], 1)
    BY <1>3, LoopResult
<1> QED
    BY <1>4 DEF Gives

\* In help mode every line with words is undefined.
LEMMA ResolvedHelp ==
    ASSUME NEW words, LineWords(words), words # <<>>, NEW help \in BOOLEAN, help
    PROVE  LET r == Resolved(words, help)
           IN  r.undefined \in BOOLEAN /\ r.undefined /\ r.prev = {} /\ r.args = <<>>
<1>0. PICK c : c = Completions[words][help]
    OBVIOUS
<1>1. ASSUME NEW h \in BOOLEAN, c = Completions[words][h]
      PROVE  /\ Len(words) \in Nat /\ Len(words) # 0 /\ DOMAIN words = 1 .. Len(words)
             /\ \A i \in DOMAIN words :
                    c[i] = completion_generator(Padded(words), Padded(words)[i], h)
             /\ Stops(words, c, 1) => Gives(Resolved(words, h), words, c, 1)
    BY <1>1, LoopState, LoopResult
<1>2. 1 \in DOMAIN words /\ 1 \in 1 .. Len(words) + 1 /\ 1 .. 1 - 1 = {}
    <2>1. Len(words) \in Nat /\ Len(words) # 0 /\ DOMAIN words = 1 .. Len(words)
        BY <1>0, <1>1, Zenon
    <2> QED
        BY <2>1
<1>3. c[1].found = {}
    BY <1>0, <1>1, <1>2, HelpFindsNothing DEF LineWords, GoodWords
<1>4. Stops(words, c, 1)
    BY <1>2, <1>3 DEF Stops
<1>5. Gives(Resolved(words, help), words, c, 1)
    BY <1>0, <1>1, <1>4
<1> QED
    BY <1>5 DEF Gives

\* Otherwise the loop walks down the tree.
LEMMA ResolvedWords ==
    ASSUME NEW words, LineWords(words), words # <<>>, NEW help \in BOOLEAN, ~help
    PROVE  LET r == Resolved(words, help)
               tops == TopsOf(words)
               subs == SubsOf(words)
           IN  /\ r.undefined \in BOOLEAN
               /\ tops = {} => r.undefined /\ r.prev = {} /\ r.args = <<>>
               /\ tops # {} => ~r.undefined
               /\ tops # {} /\ Cardinality(tops) > 1 => r.prev = tops
               /\ tops # {} /\ ~(Cardinality(tops) > 1) =>
                    /\ ~(Len(words) > 1) \/ subs = {} =>
                        r.prev = tops /\ r.clear /\ r.args = SubSeq(words, 2, Len(words))
                    /\ Len(words) > 1 /\ subs # {} =>
                        /\ r.prev = subs /\ r.args = SubSeq(words, 3, Len(words))
                        /\ ~(Cardinality(subs) > 1) => r.clear
<1>0. PICK c : c = Completions[words][help]
    OBVIOUS
<1> DEFINE r == Resolved(words, help)
           tops == TopsOf(words)
           subs == SubsOf(words)
           L == Len(words)
<1>1. /\ L \in Nat /\ L # 0 /\ DOMAIN words = 1 .. L
      /\ \A i \in DOMAIN words :
            c[i] = completion_generator(Padded(words), Padded(words)[i], help)
    BY <1>0, LoopState
<1>2. \A i \in DOMAIN words : /\ c[i].clear = Clear(words, i)
                              /\ Clear(words, i) => c[i].found = Nth(words, i)
                              /\ ~Clear(words, i) => c[i].found = {}
    BY <1>1, CompletionIs DEF LineWords
<1>3. ASSUME NEW n \in 1 .. L + 1, n = L + 1 \/ c[n].found = {},
             \A j \in 1 .. n - 1 : c[j].found # {}
      PROVE  /\ r.undefined \in BOOLEAN /\ (r.undefined <=> n = 1)
             /\ r.prev = IF n = 1 THEN {} ELSE c[n - 1].found
             /\ r.clear <=> n > L \/ c[n].clear
             /\ r.args = IF n = 1 THEN <<>> ELSE SubSeq(words, n, L)
    <2>1. Stops(words, c, n)
        BY <1>3 DEF Stops
    <2>2. Gives(Resolved(words, help), words, c, n)
        BY <1>0, <2>1, LoopResult
    <2> QED
        BY <2>2 DEF Gives
<1>4. Clear(words, 1)
    <2>1. 1 .. 1 - 1 = {}
        OBVIOUS
    <2> QED
        BY <2>1 DEF Clear
<1>5. Clear(words, 2) <=> ~(Cardinality(tops) > 1)
    <2>1. 1 .. 2 - 1 = {1}
        OBVIOUS
    <2> QED
        BY <2>1 DEF Clear, Nth
<1>6. Clear(words, 3) <=> ~(Cardinality(tops) > 1) /\ ~(Cardinality(subs) > 1)
    <2>1. 1 .. 3 - 1 = {1, 2}
        OBVIOUS
    <2> QED
        BY <2>1 DEF Clear, Nth
<1>7. Nth(words, 1) = tops /\ Nth(words, 2) = subs /\ Nth(words, 3) = {}
    BY DEF Nth
<1> HIDE DEF r, tops, subs, L
<1>8. 1 \in DOMAIN words /\ c[1].found = tops
    <2>1. 1 \in DOMAIN words
        BY <1>1
    <2> QED
        BY <1>2, <1>4, <1>7, <2>1
<1>9. CASE tops = {}
    <2>1. 1 \in 1 .. L + 1 /\ 1 .. 1 - 1 = {}
        BY <1>1
    <2>2. r.undefined \in BOOLEAN /\ r.undefined /\ r.prev = {} /\ r.args = <<>>
        BY <1>3, <1>8, <1>9, <2>1
    <2> QED
        BY <1>9, <2>2 DEF r, tops, subs, L
<1>10. CASE tops # {} /\ (L = 1 \/ Cardinality(tops) > 1 \/ subs = {})
    <2>1. 2 \in 1 .. L + 1 /\ 1 .. 2 - 1 = {1} /\ (L # 1 => 2 \in DOMAIN words) /\ 2 - 1 = 1
        BY <1>1
    <2>2. L # 1 => c[2].found = {}
        BY <1>2, <1>5, <1>7, <1>10, <2>1
    <2>3. 2 = L + 1 \/ c[2].found = {}
        BY <1>1, <2>2
    <2>4. \A j \in 1 .. 2 - 1 : c[j].found # {}
        BY <1>8, <1>10, <2>1
    <2>5. /\ r.undefined \in BOOLEAN /\ ~r.undefined /\ r.prev = tops /\ r.args = SubSeq(words, 2, L)
          /\ r.clear <=> 2 > L \/ c[2].clear
        <3>1. /\ r.undefined \in BOOLEAN /\ (r.undefined <=> 2 = 1)
              /\ r.prev = IF 2 = 1 THEN {} ELSE c[2 - 1].found
              /\ r.clear <=> 2 > L \/ c[2].clear
              /\ r.args = IF 2 = 1 THEN <<>> ELSE SubSeq(words, 2, L)
            BY <1>3, <2>1, <2>3, <2>4, Zenon
        <3>2. 2 # 1 /\ 2 - 1 = 1
            OBVIOUS
        <3> QED
            BY <1>8, <3>1, <3>2, Zenon
    <2>6. ~(Cardinality(tops) > 1) => r.clear
        BY <1>1, <1>2, <1>5, <2>1, <2>5
    <2>7. L > 1 <=> L # 1
        BY <1>1
    <2> QED
        BY <1>10, <2>5, <2>6, <2>7 DEF r, tops, subs, L
<1>11. CASE tops # {} /\ L # 1 /\ ~(Cardinality(tops) > 1) /\ subs # {}
    <2>1. /\ 3 \in 1 .. L + 1 /\ 1 .. 3 - 1 = {1, 2} /\ 2 \in DOMAIN words /\ 3 - 1 = 2
          /\ L > 1 /\ (L # 2 => 3 \in DOMAIN words)
        BY <1>1, <1>11
    <2>2. c[2].found = subs
        BY <1>2, <1>5, <1>7, <1>11, <2>1
    <2>3. L # 2 => c[3].found = {}
        BY <1>2, <1>7, <2>1
    <2>4. 3 = L + 1 \/ c[3].found = {}
        BY <1>1, <2>3
    <2>5. \A j \in 1 .. 3 - 1 : c[j].found # {}
        BY <1>8, <1>11, <2>1, <2>2
    <2>6. /\ r.undefined \in BOOLEAN /\ ~r.undefined /\ r.prev = subs /\ r.args = SubSeq(words, 3, L)
          /\ r.clear <=> 3 > L \/ c[3].clear
        <3>1. /\ r.undefined \in BOOLEAN /\ (r.undefined <=> 3 = 1)
              /\ r.prev = IF 3 = 1 THEN {} ELSE c[3 - 1].found
              /\ r.clear <=> 3 > L \/ c[3].clear
              /\ r.args = IF 3 = 1 THEN <<>> ELSE SubSeq(words, 3, L)
            BY <1>3, <2>1, <2>4, <2>5, Zenon
        <3>2. 3 # 1 /\ 3 - 1 = 2
            OBVIOUS
        <3> QED
            BY <2>2, <3>1, <3>2, Zenon
    <2>7. ~(Cardinality(subs) > 1) => r.clear
        BY <1>1, <1>2, <1>6, <1>11, <2>1, <2>6
    <2> QED
        BY <1>11, <2>1, <2>6, <2>7 DEF r, tops, subs, L
<1> QED
    BY <1>9, <1>10, <1>11

\* The reference says the same.
LEMMA MeaningIs ==
    ASSUME NEW typed, NEW words, words = expand_aliases(typed), LineWords(words), words # <<>>
    PROVE  LET m == Meaning(typed)
               tops == TopsOf(words)
               subs == SubsOf(words)
           IN  /\ tops = {} => m.kind = "undefined"
               /\ tops # {} /\ (Cardinality(tops) > 1 \/ (Len(words) > 1 /\ Cardinality(subs) > 1))
                    => m.kind = "ambiguous"
               /\ tops # {} /\ ~(Cardinality(tops) > 1) =>
                    /\ ~(Len(words) > 1) \/ subs = {} =>
                        /\ m.kind = "path" /\ m.path = (CHOOSE p \in tops : TRUE)
                        /\ m.args = SubSeq(words, 2, Len(words))
                    /\ Len(words) > 1 /\ subs # {} /\ ~(Cardinality(subs) > 1) =>
                        /\ m.kind = "path" /\ m.path = (CHOOSE p \in subs : TRUE)
                        /\ m.args = SubSeq(words, 3, Len(words))
<1> DEFINE tops == TopsOf(words)
           subs == SubsOf(words)
           under == {q \in UNION {Sub(p) : p \in tops} : Len(words) > 1 /\ q[2] \in Abbr[words[2]]}
           means(kind, paths, n) ==
             [kind |-> kind, path |-> IF paths = {} THEN NoCmd ELSE CHOOSE p \in paths : TRUE,
              args |-> SubSeq(words, n, Len(words))]
           m == Meaning(typed)
<1>1. m = IF tops = {} THEN means("undefined", {}, 1)
          ELSE IF Cardinality(tops) > 1 \/ Cardinality(under) > 1 THEN means("ambiguous", {}, 1)
          ELSE IF under = {} THEN means("path", tops, 2)
          ELSE means("path", under, 3)
    BY Zenon DEF Meaning, Walk, TopsOf
<1>2. under = IF Len(words) > 1 THEN subs ELSE {}
    <2>1. \A q \in Paths : Len(q) = 2 => <<q[1]>> \in Paths /\ Len(<<q[1]>>) = 1 /\ <<q[1]>>[1] = q[1]
        BY PathLengths
    <2>2. \A q : q \in UNION {Sub(p) : p \in tops} <=>
                    q \in Paths /\ Len(q) = 2 /\ q[1] \in Abbr[words[1]]
        <3> SUFFICES ASSUME NEW q
                     PROVE  q \in UNION {Sub(p) : p \in tops} <=>
                                q \in Paths /\ Len(q) = 2 /\ q[1] \in Abbr[words[1]]
            OBVIOUS
        <3>1. q \in UNION {Sub(p) : p \in tops} <=> \E p \in tops : q \in Sub(p)
            OBVIOUS
        <3>2. ASSUME NEW p \in tops, q \in Sub(p)
              PROVE  q \in Paths /\ Len(q) = 2 /\ q[1] \in Abbr[words[1]]
            BY <3>2 DEF Sub, TopsOf
        <3>3. ASSUME q \in Paths, Len(q) = 2, q[1] \in Abbr[words[1]]
              PROVE  <<q[1]>> \in tops /\ q \in Sub(<<q[1]>>)
            BY <2>1, <3>3 DEF Sub, TopsOf
        <3> QED
            BY <3>1, <3>2, <3>3
    <2> QED
        BY <2>2 DEF SubsOf
<1> HIDE DEF tops, subs, under, m
<1>3. ~(Cardinality({}) > 1)
    BY FS_EmptySet
<1>4. \A k, S, n : /\ means(k, S, n).kind = k
                   /\ means(k, S, n).args = SubSeq(words, n, Len(words))
                   /\ S # {} => means(k, S, n).path = (CHOOSE p \in S : TRUE)
    <2> TAKE k, S, n
    <2> DEFINE p == IF S = {} THEN NoCmd ELSE CHOOSE x \in S : TRUE
               a == SubSeq(words, n, Len(words))
    <2>1. means(k, S, n) = [kind |-> k, path |-> p, args |-> a]
        BY Zenon
    <2>2. S # {} => p = (CHOOSE x \in S : TRUE)
        BY Zenon
    <2> HIDE DEF p, a, means
    <2>3. means(k, S, n).kind = k /\ means(k, S, n).args = a /\ means(k, S, n).path = p
        BY <2>1
    <2> QED
        BY <2>2, <2>3, Zenon DEF a
<1> HIDE DEF means
<1>5. tops = {} => m.kind = "undefined"
    BY <1>1, <1>4
<1>6. tops # {} /\ (Cardinality(tops) > 1 \/ (Len(words) > 1 /\ Cardinality(subs) > 1))
        => m.kind = "ambiguous"
    BY <1>1, <1>2, <1>4
<1>7. ASSUME tops # {}, ~(Cardinality(tops) > 1), ~(Len(words) > 1) \/ subs = {}
      PROVE  /\ m.kind = "path" /\ m.path = (CHOOSE p \in tops : TRUE)
             /\ m.args = SubSeq(words, 2, Len(words))
    <2>1. under = {}
        BY <1>2, <1>7
    <2>2. m = means("path", tops, 2)
        BY <1>1, <1>3, <1>7, <2>1, Zenon
    <2>3. /\ means("path", tops, 2).kind = "path"
          /\ means("path", tops, 2).args = SubSeq(words, 2, Len(words))
          /\ means("path", tops, 2).path = (CHOOSE p \in tops : TRUE)
        BY <1>4, <1>7
    <2> QED
        BY <2>2, <2>3
<1>8. ASSUME tops # {}, ~(Cardinality(tops) > 1), Len(words) > 1, subs # {},
             ~(Cardinality(subs) > 1)
      PROVE  /\ m.kind = "path" /\ m.path = (CHOOSE p \in subs : TRUE)
             /\ m.args = SubSeq(words, 3, Len(words))
    <2>1. under = subs
        BY <1>2, <1>8
    <2>2. m = means("path", subs, 3)
        BY <1>1, <1>8, <2>1, Zenon
    <2>3. /\ means("path", subs, 3).kind = "path"
          /\ means("path", subs, 3).args = SubSeq(words, 3, Len(words))
          /\ means("path", subs, 3).path = (CHOOSE p \in subs : TRUE)
        BY <1>4, <1>8
    <2> QED
        BY <2>2, <2>3
<1> QED
    BY <1>5, <1>6, <1>7, <1>8, Zenon DEF m, tops, subs

----------------------------------------------------------------------------
(* The arguments: what pcre2_match finds, how parse_and_create_args repeats *)
(* it, and that argdup leaves the queues as they were.                      *)

\* A set of naturals that is not empty has a least element.
LEMMA LeastNat ==
    ASSUME NEW S, S \subseteq Nat, S # {}
    PROVE  \E i \in S : \A j \in S : i <= j
<1> DEFINE R == OpToRel(<, Nat)
<1>1. IsWellFoundedOn(R, Nat)
    BY NatLessThanWellFounded DEF OpToRel
<1>2. PICK i \in S : \A j \in S : <<j, i>> \notin R
    <2> HIDE DEF R
    <2> QED
        BY <1>1, WFMin
<1>3. \A j \in S : ~(j < i)
    BY <1>2 DEF OpToRel
<1> QED
    BY <1>3

\* What is true of 0 and passes from n - 1 to n is true of every n up to L: B is
\* where it fails.
LEMMA NoneLeft ==
    ASSUME NEW L \in Nat, NEW B, B \subseteq 0 .. L, 0 \notin B,
           \A n \in 1 .. L : n - 1 \notin B => n \notin B
    PROVE  B = {}
<1> SUFFICES ASSUME B # {}
             PROVE  FALSE
    OBVIOUS
<1>1. PICK i \in B : \A j \in B : i <= j
    <2>1. B \subseteq Nat
        OBVIOUS
    <2> QED
        BY <2>1, LeastNat
<1>2. i \in 1 .. L /\ i - 1 \notin B
    BY <1>1
<1> QED
    BY <1>2

\* A queue of length L after n rounds of argdup.
Turned(q, L, n) == [i \in 1 .. L |-> IF i <= L - n THEN q[n + i] ELSE q[i - (L - n)]]

IsTurned(v, T, q, L, n) ==
    /\ v \in Seq(T) /\ Len(v) = L
    /\ \A i \in 1 .. L : v[i] = IF i <= L - n THEN q[n + i] ELSE q[i - (L - n)]

LEMMA TurnedIs ==
    ASSUME NEW T, NEW q \in Seq(T), NEW L, L = Len(q), NEW n \in 0 .. L
    PROVE  IsTurned(Turned(q, L, n), T, q, L, n)
<1>1. L \in Nat /\ \A i \in 1 .. L : q[i] \in T
    BY LenProperties, ElementOfSeq
<1>2. \A i \in 1 .. L : (IF i <= L - n THEN q[n + i] ELSE q[i - (L - n)]) \in T
    <2> TAKE i \in 1 .. L
    <2>1. IF i <= L - n THEN n + i \in 1 .. L ELSE i - (L - n) \in 1 .. L
        BY <1>1
    <2> QED
        BY <1>1, <2>1
<1>3. Turned(q, L, n) \in [1 .. L -> T]
    BY <1>2 DEF Turned
<1>4. Turned(q, L, n) \in Seq(T) /\ Len(Turned(q, L, n)) = L
    <2>1. PICK t : t = Turned(q, L, n)
        OBVIOUS
    <2>2. t \in [1 .. L -> T]
        BY <1>3, <2>1
    <2>3. t \in Seq(T)
        BY <1>1, <2>2, SeqDef
    <2>4. Len(t) \in Nat /\ DOMAIN t = 1 .. Len(t) /\ DOMAIN t = 1 .. L
        BY <2>2, <2>3, LenProperties
    <2>5. Len(t) = L
        <3>1. 1 .. Len(t) = 1 .. L
            BY <2>4
        <3>2. \A a, b \in Nat : 1 .. a = 1 .. b => a = b
            OBVIOUS
        <3> QED
            BY <1>1, <2>4, <3>1, <3>2, Zenon
    <2> QED
        BY <2>1, <2>3, <2>5
<1> QED
    BY <1>4 DEF Turned, IsTurned

\* A round of argdup turns a queue by one.
LEMMA TurnsByOne ==
    ASSUME NEW T, NEW q \in Seq(T), NEW L, L = Len(q), NEW n \in 1 .. L
    PROVE  Append(Tail(Turned(q, L, n - 1)), Head(Turned(q, L, n - 1))) = Turned(q, L, n)
<1>0. L \in Nat /\ n \in 0 .. L /\ n - 1 \in 0 .. L /\ L >= 1
    BY LenProperties
<1>1. PICK t : t = Turned(q, L, n - 1)
    OBVIOUS
<1>2. PICK v : v = Turned(q, L, n)
    OBVIOUS
<1>3. /\ t \in Seq(T) /\ Len(t) = L
      /\ \A i \in 1 .. L : t[i] = IF i <= L - (n - 1) THEN q[n - 1 + i] ELSE q[i - (L - (n - 1))]
    <2>1. IsTurned(t, T, q, L, n - 1)
        BY <1>0, <1>1, TurnedIs
    <2> QED
        BY <2>1 DEF IsTurned
<1>4. /\ v \in Seq(T) /\ Len(v) = L
      /\ \A i \in 1 .. L : v[i] = IF i <= L - n THEN q[n + i] ELSE q[i - (L - n)]
    <2>1. IsTurned(v, T, q, L, n)
        BY <1>0, <1>2, TurnedIs
    <2> QED
        BY <2>1 DEF IsTurned
<1>5. t # <<>>
    BY <1>0, <1>3, EmptySeq
<1>6. /\ Head(t) \in T /\ Head(t) = t[1] /\ Tail(t) \in Seq(T) /\ Len(Tail(t)) = L - 1
      /\ \A i \in 1 .. L - 1 : Tail(t)[i] = t[i + 1]
    <2>1. Head(t) = t[1] /\ t[1] \in T
        BY <1>0, <1>3, <1>5, HeadTailProperties, ElementOfSeq
    <2>2. Tail(t) \in Seq(T) /\ Len(Tail(t)) = Len(t) - 1
        BY <1>3, <1>5, HeadTailProperties
    <2>3. \A i \in 1 .. Len(Tail(t)) : Tail(t)[i] = t[i + 1]
        BY <1>3, <1>5, HeadTailProperties
    <2> QED
        BY <1>3, <2>1, <2>2, <2>3
<1>7. PICK h : h = Head(t)
    OBVIOUS
<1>8. PICK s : s = Tail(t)
    OBVIOUS
<1>9. /\ h = t[1] /\ h \in T /\ s \in Seq(T) /\ Len(s) = L - 1
      /\ \A i \in 1 .. L - 1 : s[i] = t[i + 1]
    BY <1>6, <1>7, <1>8
<1>10. /\ Append(s, h) \in Seq(T) /\ Len(Append(s, h)) = Len(s) + 1
       /\ \A i \in 1 .. Len(s) : Append(s, h)[i] = s[i]
       /\ Append(s, h)[Len(s) + 1] = h
    BY <1>9, AppendProperties
<1>11. Len(Append(s, h)) = L
    BY <1>0, <1>9, <1>10
<1>12. ASSUME NEW i \in 1 .. L
       PROVE  Append(s, h)[i] = v[i]
    <2>1. CASE i = L
        <3>1. Append(s, h)[i] = t[1] /\ 1 \in 1 .. L /\ 1 <= L - (n - 1) /\ n - 1 + 1 = n
            BY <1>0, <1>9, <1>10, <2>1
        <3>2. Append(s, h)[i] = q[n]
            BY <1>3, <3>1
        <3>3. ~(i <= L - n) /\ i - (L - n) = n
            BY <1>0, <2>1
        <3> QED
            BY <1>4, <3>2, <3>3
    <2>2. CASE i # L
        <3>1. i \in 1 .. L - 1 /\ i + 1 \in 1 .. L
            BY <1>0, <2>2
        <3>2. Append(s, h)[i] = t[i + 1]
            BY <1>9, <1>10, <3>1
        <3>3. /\ i + 1 <= L - (n - 1) <=> i <= L - n
              /\ n - 1 + (i + 1) = n + i /\ i + 1 - (L - (n - 1)) = i - (L - n)
            BY <1>0, <3>1
        <3>4. t[i + 1] = IF i <= L - n THEN q[n + i] ELSE q[i - (L - n)]
            BY <1>3, <3>1, <3>3
        <3> QED
            BY <1>4, <3>2, <3>4
    <2> QED
        BY <2>1, <2>2
<1>13. Append(s, h) = v
    BY <1>4, <1>10, <1>11, <1>12, SeqEqual
<1> QED
    BY <1>1, <1>2, <1>7, <1>8, <1>13

\* After no round and after all of them a queue is as it was.
LEMMA TurnedBack ==
    ASSUME NEW T, NEW q \in Seq(T), NEW L, L = Len(q), NEW n \in {0, L}
    PROVE  Turned(q, L, n) = q
<1>0. L \in Nat /\ n \in 0 .. L
    BY LenProperties
<1>1. PICK v : v = Turned(q, L, n)
    OBVIOUS
<1>2. /\ v \in Seq(T) /\ Len(v) = L
      /\ \A i \in 1 .. L : v[i] = IF i <= L - n THEN q[n + i] ELSE q[i - (L - n)]
    <2>1. IsTurned(v, T, q, L, n)
        BY <1>0, <1>1, TurnedIs
    <2> QED
        BY <2>1 DEF IsTurned
<1>3. \A i \in 1 .. L : v[i] = q[i]
    <2> TAKE i \in 1 .. L
    <2>1. IF i <= L - n THEN n + i = i ELSE i - (L - n) = i
        BY <1>0
    <2> QED
        BY <1>2, <2>1
<1> QED
    BY <1>1, <1>2, <1>3, SeqEqual

\* argdup leaves a queue as it was: it is turned all the way round.
LEMMA argdupKeeps ==
    ASSUME NEW T, NEW q \in Seq(T)
    PROVE  argdup(q).queue = q
<1>1. PICK L : L = Len(q)
    OBVIOUS
<1>2. L \in Nat /\ 0 \in 0 .. L /\ L \in 0 .. L
    BY <1>1, LenProperties
<1> DEFINE start == [queue |-> q, copy |-> <<>>]
           Runs(f) == f = [n \in 0 .. L |-> IF n = 0 THEN start ELSE Rotate(f[n - 1])]
           Copied(n) == [i \in 1 .. n |-> q[i]]
           W == [n \in 0 .. L |-> [queue |-> Turned(q, L, n), copy |-> Copied(n)]]
<1>3. Runs(W)
    <2>1. W[0] = start
        <3>1. Turned(q, L, 0) = q
            BY <1>1, TurnedBack
        <3>2. Copied(0) = <<>>
            OBVIOUS
        <3> HIDE DEF Copied
        <3> QED
            BY <1>2, <3>1, <3>2
    <2>2. ASSUME NEW n \in 1 .. L
          PROVE  W[n] = Rotate(W[n - 1])
        <3>1. n \in 0 .. L /\ n - 1 \in 0 .. L
            BY <1>2
        <3>2. W[n] = [queue |-> Turned(q, L, n), copy |-> Copied(n)]
            BY <3>1, Zenon
        <3>3. W[n - 1] = [queue |-> Turned(q, L, n - 1), copy |-> Copied(n - 1)]
            BY <3>1, Zenon
        <3>4. Append(Tail(Turned(q, L, n - 1)), Head(Turned(q, L, n - 1))) = Turned(q, L, n)
            BY <1>1, TurnsByOne
        <3>5. Append(Copied(n - 1), Head(Turned(q, L, n - 1))) = Copied(n)
            <4>1. Head(Turned(q, L, n - 1)) = q[n]
                <5>1. PICK t : t = Turned(q, L, n - 1)
                    OBVIOUS
                <5>2. PICK m \in 0 .. L : m = n - 1
                    BY <3>1
                <5>3. t \in Seq(T) /\ Len(t) = L /\ t[1] = IF 1 <= L - m THEN q[m + 1] ELSE q[1 - (L - m)]
                    <6>1. 1 \in 1 .. L
                        BY <1>2
                    <6>2. IsTurned(t, T, q, L, m)
                        BY <1>1, <5>1, <5>2, TurnedIs
                    <6> QED
                        BY <6>1, <6>2 DEF IsTurned
                <5>4. t # <<>> /\ 1 <= L - m /\ m + 1 = n
                    BY <1>2, <5>2, <5>3, EmptySeq
                <5>5. Head(t) = t[1]
                    BY <5>3, <5>4, HeadTailProperties
                <5> QED
                    BY <5>1, <5>3, <5>4, <5>5
            <4>2. Append(Copied(n - 1), q[n]) = Copied(n)
                <5>1. \A i \in 1 .. n : q[i] \in T
                    <6>1. \A i \in 1 .. n : i \in 1 .. Len(q)
                        BY <1>1, <1>2
                    <6> QED
                        BY <6>1, ElementOfSeq
                <5> QED
                    BY <1>2, <5>1
            <4> QED
                BY <4>1, <4>2
        <3> HIDE DEF W, Copied
        <3> QED
            <4>1. \A t, c : Rotate([queue |-> t, copy |-> c]) =
                                [queue |-> Append(Tail(t), Head(t)), copy |-> Append(c, Head(t))]
                BY DEF Rotate
            <4> QED
                BY <3>2, <3>3, <3>4, <3>5, <4>1, Zenon
    <2>3. \A n \in 0 .. L : W[n] = IF n = 0 THEN start ELSE Rotate(W[n - 1])
        <3> HIDE DEF W, start
        <3> TAKE n \in 0 .. L
        <3>1. n = 0 \/ n \in 1 .. L
            BY <1>2
        <3> QED
            BY <2>1, <2>2, <3>1
    <2>4. DOMAIN W = 0 .. L /\ W = [n \in 0 .. L |-> W[n]]
        OBVIOUS
    <2> HIDE DEF W, start
    <2> QED
        BY <2>3, <2>4
<1>4. PICK f : f = CHOOSE g : Runs(g)
    OBVIOUS
<1>5. Runs(f)
    <2> HIDE DEF Runs
    <2> QED
        BY <1>3, <1>4
<1>6. argdup(q) = f[L]
    BY <1>1, <1>4, Zenon DEF argdup
<1> DEFINE B == {n \in 0 .. L : f[n] # W[n]}
<1>7. B = {}
    <2>1. \A g : Runs(g) => g[0] = start /\ \A n \in 1 .. L : g[n] = Rotate(g[n - 1])
        <3> HIDE DEF start
        <3> SUFFICES ASSUME NEW g, Runs(g)
                     PROVE  g[0] = start /\ \A n \in 1 .. L : g[n] = Rotate(g[n - 1])
            OBVIOUS
        <3>1. \A n \in 0 .. L : g[n] = IF n = 0 THEN start ELSE Rotate(g[n - 1])
            OBVIOUS
        <3> HIDE DEF Runs
        <3>2. \A n \in 1 .. L : n \in 0 .. L /\ n # 0
            BY <1>2
        <3> QED
            BY <1>2, <3>1, <3>2
    <2> HIDE DEF Runs, start, W
    <2>2. 0 \notin B
        BY <1>3, <1>5, <2>1
    <2>3. \A n \in 1 .. L : n - 1 \notin B => n \notin B
        <3> TAKE n \in 1 .. L
        <3>1. n - 1 \in 0 .. L
            BY <1>2
        <3> QED
            BY <1>3, <1>5, <2>1, <3>1
    <2>4. B \subseteq 0 .. L
        OBVIOUS
    <2> HIDE DEF B
    <2> QED
        BY <1>2, <2>2, <2>3, <2>4, NoneLeft
<1>8. f[L] = W[L]
    <2> HIDE DEF W, Runs
    <2> QED
        BY <1>2, <1>7
<1>9. W[L].queue = Turned(q, L, L)
    BY <1>2
<1>10. Turned(q, L, L) = q
    BY <1>1, <1>2, TurnedBack
<1> QED
    BY <1>6, <1>8, <1>9, <1>10

\* f begins with a, and F makes its value at n of its value at n - 1.
Recurs(f, L, D, a, F) ==
    f \in [0 .. L -> D] /\ f[0] = a /\ \A n \in 1 .. L : f[n] = F[n][f[n - 1]]

LEMMA Recursion ==
    ASSUME NEW L \in Nat, NEW D, NEW a \in D, NEW F \in [1 .. L -> [D -> D]]
    PROVE  \E f : Recurs(f, L, D, a, F)
<1> DEFINE Defines(f, n) == f[0] = a /\ \A i \in 1 .. n : f[i] = F[i][f[i - 1]]
           B == {n \in 0 .. L : ~\E f \in [0 .. n -> D] : Defines(f, n)}
<1>1. 0 \notin B
    <2> DEFINE f == [i \in 0 .. 0 |-> a]
    <2>1. f \in [0 .. 0 -> D] /\ Defines(f, 0)
        OBVIOUS
    <2> QED
        BY <2>1
<1>2. ASSUME NEW n \in 1 .. L, n - 1 \notin B
      PROVE  n \notin B
    <2>1. PICK f \in [0 .. n - 1 -> D] : Defines(f, n - 1)
        BY <1>2
    <2> DEFINE g == [i \in 0 .. n |-> IF i = n THEN F[n][f[n - 1]] ELSE f[i]]
    <2>2. F[n][f[n - 1]] \in D
        OBVIOUS
    <2>3. g \in [0 .. n -> D]
        BY <2>2
    <2>4. g[0] = a
        BY <2>1
    <2>5. ASSUME NEW i \in 1 .. n
          PROVE  g[i] = F[i][g[i - 1]]
        <3>1. i \in 0 .. n /\ i - 1 \in 0 .. n /\ i - 1 # n
            OBVIOUS
        <3>2. g[i - 1] = f[i - 1]
            BY <3>1
        <3>3. CASE i = n
            BY <3>1, <3>2, <3>3
        <3>4. CASE i # n
            <4>1. i \in 1 .. n - 1
                BY <3>4
            <4>2. g[i] = f[i]
                BY <3>1, <3>4
            <4>3. f[i] = F[i][f[i - 1]]
                BY <2>1, <4>1
            <4> HIDE DEF g
            <4> QED
                BY <3>2, <4>2, <4>3
        <3> QED
            BY <3>3, <3>4
    <2> HIDE DEF g
    <2>6. Defines(g, n)
        BY <2>4, <2>5
    <2> QED
        BY <2>3, <2>6
<1>3. B = {}
    <2>1. B \subseteq 0 .. L /\ \A n \in 1 .. L : n - 1 \notin B => n \notin B
        BY <1>2
    <2> HIDE DEF B
    <2> QED
        BY <1>1, <2>1, NoneLeft
<1>4. L \in 0 .. L
    OBVIOUS
<1>5. PICK f \in [0 .. L -> D] : Defines(f, L)
    <2>1. L \notin B
        BY <1>3
    <2> QED
        BY <1>4, <2>1
<1>6. Recurs(f, L, D, a, F)
    BY <1>5 DEF Recurs
<1> QED
    BY <1>6

\* Where the groups end: what Upto is, and that it does not fall.
IsUpto(f, c, m) ==
    /\ f \in [0 .. c.groups -> Nat] /\ f[0] = m.at
    /\ \A g \in 1 .. c.groups : f[g] = f[g - 1] + Width(c, m, g)

MatchType(c, L) == [at : 1 .. L + 1, groups : SUBSET (1 .. c.groups), n : 1 .. L]

LEMMA WidthIs ==
    ASSUME NEW c, NEW L \in Nat, NEW m \in MatchType(c, L), NEW g
    PROVE  /\ Takes(m, g) \in Nat /\ Takes(m, g) >= 1 /\ Width(c, m, g) \in Nat
           /\ g \in m.groups => Width(c, m, g) >= Takes(m, g)
           /\ g \in m.groups /\ c.regex.groups[g].flag = None => Width(c, m, g) = Takes(m, g)
           /\ g \in m.groups /\ c.regex.groups[g].flag # None => Width(c, m, g) = Takes(m, g) + 1
           /\ g \notin m.groups => Width(c, m, g) = 0
<1>1. m.n \in Nat /\ m.n >= 1
    BY DEF MatchType
<1>2. Takes(m, g) \in Nat /\ Takes(m, g) >= 1
    BY <1>1 DEF Takes
<1> QED
    BY <1>2 DEF Width

LEMMA UptoIs ==
    ASSUME NEW c, c.groups \in Nat, NEW L \in Nat, NEW m \in MatchType(c, L)
    PROVE  IsUpto(Upto(c, m), c, m)
<1>1. PICK G \in Nat : G = c.groups
    OBVIOUS
<1>2. \A g : Width(c, m, g) \in Nat
    BY WidthIs
<1>3. m.at \in Nat
    BY DEF MatchType
<1> DEFINE Runs(f) == f = [g \in 0 .. G |-> IF g = 0 THEN m.at ELSE f[g - 1] + Width(c, m, g)]
           F == [g \in 1 .. G |-> [x \in Nat |-> x + Width(c, m, g)]]
<1>4. F \in [1 .. G -> [Nat -> Nat]]
    BY <1>2
<1>5. PICK f \in [0 .. G -> Nat] : f[0] = m.at /\ \A g \in 1 .. G : f[g] = F[g][f[g - 1]]
    <2> HIDE DEF F, Runs
    <2>1. PICK f : Recurs(f, G, Nat, m.at, F)
        BY <1>3, <1>4, Recursion
    <2> QED
        BY <2>1 DEF Recurs
<1>6. \A g \in 1 .. G : f[g] = f[g - 1] + Width(c, m, g)
    <2> TAKE g \in 1 .. G
    <2>1. f[g - 1] \in Nat
        OBVIOUS
    <2> QED
        BY <1>5, <2>1
<1>7. Runs(f)
    <2>1. \A g \in 0 .. G : f[g] = IF g = 0 THEN m.at ELSE f[g - 1] + Width(c, m, g)
        BY <1>5, <1>6
    <2> QED
        BY <2>1
<1>8. PICK u : u = CHOOSE x : Runs(x)
    OBVIOUS
<1>9. Runs(u)
    <2> HIDE DEF Runs
    <2> QED
        BY <1>7, <1>8
<1>10. Upto(c, m) = u
    BY <1>1, <1>8, Zenon DEF Upto
<1>11. u[0] = m.at /\ \A g \in 1 .. G : u[g] = u[g - 1] + Width(c, m, g)
    <2>1. \A g \in 0 .. G : u[g] = IF g = 0 THEN m.at ELSE u[g - 1] + Width(c, m, g)
        BY <1>9
    <2> HIDE DEF Runs
    <2> QED
        BY <2>1
<1>12. \A g \in 0 .. G : u[g] \in Nat
    <2> DEFINE B == {g \in 0 .. G : u[g] \notin Nat}
    <2>1. 0 \notin B /\ B \subseteq 0 .. G
        BY <1>3, <1>11
    <2>2. \A g \in 1 .. G : g - 1 \notin B => g \notin B
        <3> SUFFICES ASSUME NEW g \in 1 .. G, u[g - 1] \in Nat
                     PROVE  u[g] \in Nat
            OBVIOUS
        <3> QED
            BY <1>2, <1>11
    <2> HIDE DEF B
    <2>3. B = {}
        BY <2>1, <2>2, NoneLeft
    <2> QED
        BY <2>3 DEF B
<1>13. u \in [0 .. G -> Nat]
    <2>1. DOMAIN u = 0 .. G /\ u = [g \in 0 .. G |-> u[g]]
        BY <1>9
    <2> HIDE DEF Runs
    <2> QED
        BY <1>12, <2>1
<1> QED
    BY <1>1, <1>10, <1>11, <1>13 DEF IsUpto

LEMMA UptoRises ==
    ASSUME NEW G \in Nat, NEW f \in [0 .. G -> Nat], \A g \in 1 .. G : f[g - 1] <= f[g],
           NEW g \in 0 .. G, NEW h \in 0 .. G, g <= h
    PROVE  f[g] <= f[h]
<1> DEFINE B == {k \in 0 .. G - g : ~(f[g] <= f[g + k])}
<1>1. B \subseteq 0 .. G - g /\ 0 \notin B /\ G - g \in Nat
    OBVIOUS
<1>2. \A k \in 1 .. G - g : k - 1 \notin B => k \notin B
    <2> SUFFICES ASSUME NEW k \in 1 .. G - g, f[g] <= f[g + (k - 1)]
                 PROVE  f[g] <= f[g + k]
        OBVIOUS
    <2>1. PICK i : i = g + k
        OBVIOUS
    <2>2. i \in 1 .. G /\ i - 1 = g + (k - 1) /\ i - 1 \in 0 .. G
        BY <2>1
    <2>3. f[i - 1] <= f[i]
        BY <2>2
    <2>4. f[g] \in Nat /\ f[i - 1] \in Nat /\ f[i] \in Nat
        BY <2>2
    <2> QED
        BY <2>1, <2>2, <2>3, <2>4
<1>3. B = {}
    <2> HIDE DEF B
    <2> QED
        BY <1>1, <1>2, NoneLeft
<1>4. h - g \in 0 .. G - g /\ g + (h - g) = h
    OBVIOUS
<1> QED
    BY <1>3, <1>4

\* The first word of a group.
Pos(c, m, g) == Upto(c, m)[g] - Takes(m, g)

\* The groups of a match stand one behind the other, and within the arguments.
Placed(c, A, m) ==
    /\ \A g \in 0 .. c.groups : Upto(c, m)[g] \in Nat
    /\ \A g, h \in 0 .. c.groups : g <= h => Upto(c, m)[g] <= Upto(c, m)[h]
    /\ Upto(c, m)[0] = m.at /\ Upto(c, m)[c.groups] <= Len(A) + 1
    /\ m.at \in 1 .. Len(A) + 1 /\ m.groups \subseteq 1 .. c.groups
    /\ \A g \in m.groups :
        /\ Takes(m, g) \in Nat /\ Takes(m, g) >= 1 /\ Pos(c, m, g) \in Nat
        /\ Pos(c, m, g) + Takes(m, g) = Upto(c, m)[g]
        /\ Upto(c, m)[g - 1] <= Pos(c, m, g)

LEMMA MatchPlaced ==
    ASSUME NEW c, c.groups \in Nat, NEW T, NEW A \in Seq(T), NEW m \in Matches(c, A)
    PROVE  Placed(c, A, m)
<1>1. PICK G \in Nat : G = c.groups
    OBVIOUS
<1>2. PICK L \in Nat : L = Len(A)
    BY LenProperties
<1>3. m \in MatchType(c, L) /\ Fits(c, A, m)
    BY <1>2 DEF Matches, MatchType
<1>4. PICK u : u = Upto(c, m)
    OBVIOUS
<1>5. u \in [0 .. G -> Nat] /\ u[0] = m.at /\ \A g \in 1 .. G : u[g] = u[g - 1] + Width(c, m, g)
    BY <1>1, <1>3, <1>4, UptoIs DEF IsUpto
<1>6. \A g : Width(c, m, g) \in Nat
    BY <1>3, WidthIs
<1>7. \A g \in 1 .. G : u[g - 1] <= u[g]
    <2> TAKE g \in 1 .. G
    <2>1. u[g - 1] \in Nat /\ u[g] = u[g - 1] + Width(c, m, g) /\ Width(c, m, g) \in Nat
        BY <1>5, <1>6
    <2> QED
        BY <2>1
<1>8. \A g, h \in 0 .. G : g <= h => u[g] <= u[h]
    BY <1>5, <1>7, UptoRises
<1>9. u[G] <= L + 1
    BY <1>1, <1>2, <1>3, <1>4 DEF Fits
<1>10. m.at \in 1 .. L + 1 /\ m.groups \subseteq 1 .. G
    BY <1>1, <1>3 DEF MatchType
<1>11. ASSUME NEW g \in m.groups
       PROVE  /\ Takes(m, g) \in Nat /\ Takes(m, g) >= 1 /\ u[g] - Takes(m, g) \in Nat
              /\ (u[g] - Takes(m, g)) + Takes(m, g) = u[g]
              /\ u[g - 1] <= u[g] - Takes(m, g)
    <2>1. g \in 1 .. G
        BY <1>10
    <2>2. PICK t : t = Takes(m, g)
        OBVIOUS
    <2>3. PICK w : w = Width(c, m, g)
        OBVIOUS
    <2>4. t \in Nat /\ t >= 1 /\ w \in Nat /\ w >= t
        BY <1>3, <2>2, <2>3, WidthIs
    <2>5. u[g] \in Nat /\ u[g - 1] \in Nat /\ u[g] = u[g - 1] + w
        BY <1>5, <2>1, <2>3
    <2> QED
        BY <2>2, <2>4, <2>5
<1>12. \A g \in 0 .. G : u[g] \in Nat
    BY <1>5
<1> QED
    BY <1>1, <1>2, <1>4, <1>5, <1>8, <1>9, <1>10, <1>11, <1>12 DEF Placed, Pos

\* What substring returns: the words of the group, and never NULL.
LEMMA TextIs ==
    ASSUME NEW c, c.groups \in Nat, NEW T, NEW A \in Seq(T), NEW m, Placed(c, A, m), NEW g \in m.groups,
           NEW s, s = substring(c, A, m, g)
    PROVE  /\ s \in Seq(T) /\ s # NULL /\ Len(s) = Takes(m, g)
           /\ Pos(c, m, g) \in DOMAIN A /\ Pos(c, m, g) + Len(s) - 1 \in DOMAIN A
           /\ s = SubSeq(A, Pos(c, m, g), Pos(c, m, g) + Len(s) - 1)
<1>1. PICK G \in Nat : G = c.groups
    OBVIOUS
<1>2. PICK L \in Nat : L = Len(A)
    BY LenProperties
<1>3. PICK u : u = Upto(c, m)
    OBVIOUS
<1>4. PICK p : p = Pos(c, m, g)
    OBVIOUS
<1>5. PICK t : t = Takes(m, g)
    OBVIOUS
<1>6. g \in 1 .. G /\ p \in Nat /\ t \in Nat /\ t >= 1 /\ p + t = u[g] /\ u[g - 1] <= p
    BY <1>1, <1>3, <1>4, <1>5 DEF Placed
<1>7. /\ u[g] \in Nat /\ u[g - 1] \in Nat /\ u[0] <= u[g - 1] /\ u[g] <= u[G] /\ u[G] <= L + 1
      /\ u[0] >= 1 /\ u[G] \in Nat /\ u[0] \in Nat
    <2>1. g \in 0 .. G /\ g - 1 \in 0 .. G /\ 0 \in 0 .. G /\ G \in 0 .. G /\ 0 <= g - 1 /\ g <= G
        BY <1>6
    <2> QED
        BY <1>1, <1>2, <1>3, <2>1 DEF Placed
<1>8. p \in 1 .. L /\ p + t - 1 \in 1 .. L /\ p <= p + t - 1 /\ u[g] - t = p /\ u[g] - 1 = p + t - 1
    <2>1. u[g] \in Nat /\ u[g] <= L + 1 /\ 1 <= p
        BY <1>6, <1>7
    <2> QED
        BY <1>6, <2>1
<1>9. s = SubSeq(A, p, p + t - 1)
    BY <1>3, <1>5, <1>8 DEF substring
<1>10. PICK e : e = p + t - 1
    OBVIOUS
<1>11. \A i \in p .. e : A[i] \in T
    <2>1. \A i \in p .. e : i \in 1 .. Len(A)
        BY <1>2, <1>8, <1>10
    <2> QED
        BY <2>1, ElementOfSeq
<1>12. s \in Seq(T) /\ Len(s) = e - p + 1
    <2>1. p \in 1 .. Len(A) + 1 /\ e \in 0 .. Len(A)
        BY <1>2, <1>8, <1>10
    <2>2. p <= e
        BY <1>8, <1>10
    <2> QED
        BY <1>8, <1>9, <1>10, <1>11, <2>1, <2>2, SubSeqProperties
<1>13. Len(s) = t
    BY <1>6, <1>10, <1>12
<1>14. s # NULL
    <2>1. Len(<<>>) = 0
        OBVIOUS
    <2> QED
        BY <1>6, <1>13, <2>1 DEF NULL
<1>15. DOMAIN A = 1 .. L
    BY <1>2, LenProperties
<1> QED
    BY <1>4, <1>5, <1>8, <1>9, <1>12, <1>13, <1>14, <1>15

\* One of several matches is tried before the others.
LEMMA OneTriedFirst ==
    ASSUME NEW c, NEW L \in Nat, NEW S, S \subseteq MatchType(c, L), S # {}
    PROVE  \E m \in S : \A o \in S : TriedBefore(m, o)
<1>1. \A m \in S : m.at \in Nat /\ m.n \in Nat /\ m.n <= L
    BY DEF MatchType
<1>2. \A m : Eagerness(m) \in Nat /\ Eagerness(m) <= 15
    BY DEF Eagerness
<1> DEFINE X == {m.at : m \in S}
<1>3. PICK x \in X : \A j \in X : x <= j
    <2>1. X \subseteq Nat /\ X # {}
        BY <1>1
    <2> HIDE DEF X
    <2> QED
        BY <2>1, LeastNat
<1> DEFINE S2 == {m \in S : m.at = x}
           Y == {15 - Eagerness(m) : m \in S2}
<1>4. PICK y \in Y : \A j \in Y : y <= j
    <2>1. Y \subseteq Nat /\ Y # {}
        BY <1>2, <1>3
    <2> HIDE DEF Y
    <2> QED
        BY <2>1, LeastNat
<1> DEFINE S3 == {m \in S2 : 15 - Eagerness(m) = y}
           Z == {L - m.n : m \in S3}
<1>5. PICK z \in Z : \A j \in Z : z <= j
    <2>1. Z \subseteq Nat /\ Z # {}
        BY <1>1, <1>4
    <2> HIDE DEF Z
    <2> QED
        BY <2>1, LeastNat
<1>6. PICK m \in S3 : z = L - m.n
    OBVIOUS
<1>7. m \in S /\ m.at = x /\ 15 - Eagerness(m) = y
    OBVIOUS
<1>8. ASSUME NEW o \in S
      PROVE  TriedBefore(m, o)
    <2>1. x <= o.at
        BY <1>3
    <2>2. o.at = x => y <= 15 - Eagerness(o)
        BY <1>4
    <2>3. o.at = x /\ 15 - Eagerness(o) = y => z <= L - o.n
        BY <1>5
    <2>4. m.at \in Nat /\ o.at \in Nat /\ m.n \in Nat /\ o.n \in Nat
        BY <1>1, <1>7
    <2>5. Eagerness(m) \in Nat /\ Eagerness(o) \in Nat
        BY <1>2
    <2> HIDE DEF X, Y, Z, S2, S3
    <2>6. PICK a : a = Eagerness(m)
        OBVIOUS
    <2>7. PICK b : b = Eagerness(o)
        OBVIOUS
    <2> QED
        BY <1>6, <1>7, <2>1, <2>2, <2>3, <2>4, <2>5, <2>6, <2>7 DEF TriedBefore
<1> QED
    BY <1>7, <1>8

\* What a search can find from a word on.
Found(c, A, from) ==
    {m \in Matches(c, A) : m.at >= from /\ (from > 1 /\ Required(c) = {} => m.groups = {})}

LEMMA SearchIs ==
    ASSUME NEW c, NEW T, NEW A \in Seq(T), NEW from, NEW r, r = pcre2_match(c, A, from)
    PROVE  \/ r = NoMatch /\ Found(c, A, from) = {}
           \/ /\ r \in Found(c, A, from) /\ r \in Matches(c, A) /\ r.at >= from
              /\ \A o \in Found(c, A, from) : TriedBefore(r, o)
<1>1. PICK S : S = Found(c, A, from)
    OBVIOUS
<1>2. r = IF S = {} THEN NoMatch ELSE CHOOSE m \in S : \A o \in S : TriedBefore(m, o)
    BY <1>1 DEF pcre2_match, Found
<1>3. CASE S = {}
    BY <1>1, <1>2, <1>3
<1>4. CASE S # {}
    <2>1. Len(A) \in Nat
        BY LenProperties
    <2>2. S \subseteq MatchType(c, Len(A)) /\ \A m \in S : m \in Matches(c, A) /\ m.at >= from
        BY <1>1 DEF Found, Matches, MatchType
    <2>3. \E m \in S : \A o \in S : TriedBefore(m, o)
        BY <1>4, <2>1, <2>2, OneTriedFirst
    <2>4. r = CHOOSE m \in S : \A o \in S : TriedBefore(m, o)
        BY <1>2, <1>4
    <2>5. r \in S /\ \A o \in S : TriedBefore(r, o)
        BY <2>3, <2>4
    <2> QED
        BY <1>1, <2>2, <2>5
<1> QED
    BY <1>3, <1>4

\* Where the round behind one that began with the word x begins.
Behind(c, A, x) ==
    IF c.groups \in pcre2_match(c, A, x).groups THEN Upto(c, pcre2_match(c, A, x))[c.groups] ELSE x

LEMMA BehindIs ==
    ASSUME NEW c, c.groups \in Nat, c.groups >= 1, NEW T, NEW A \in Seq(T),
           NEW x \in 1 .. Len(A) + 1, NEW m, m = pcre2_match(c, A, x)
    PROVE  /\ Behind(c, A, x) \in 1 .. Len(A) + 1 /\ Behind(c, A, x) >= x
           /\ c.groups \notin m.groups => Behind(c, A, x) = x
           /\ c.groups \in m.groups =>
                /\ m \in Matches(c, A) /\ Placed(c, A, m) /\ m.at >= x /\ Pos(c, m, c.groups) >= x
                /\ Behind(c, A, x) = Upto(c, m)[c.groups] /\ Behind(c, A, x) > x
<1>1. PICK G \in Nat : G = c.groups
    OBVIOUS
<1>2. Len(A) \in Nat
    BY LenProperties
<1>3. CASE G \notin m.groups
    BY <1>1, <1>2, <1>3 DEF Behind
<1>4. CASE G \in m.groups
    <2>1. m # NoMatch
        BY <1>4 DEF NoMatch
    <2>2. m \in Matches(c, A) /\ m.at >= x
        BY <2>1, SearchIs
    <2>3. Placed(c, A, m)
        BY <2>2, MatchPlaced
    <2>4. PICK u : u = Upto(c, m)
        OBVIOUS
    <2>5. PICK p : p = Pos(c, m, G)
        OBVIOUS
    <2>6. PICK t : t = Takes(m, G)
        OBVIOUS
    <2>7. /\ t \in Nat /\ t >= 1 /\ p \in Nat /\ p + t = u[G] /\ u[G - 1] <= p
          /\ u[G] \in Nat /\ u[G] <= Len(A) + 1 /\ u[0] = m.at /\ m.at \in Nat
          /\ u[G - 1] \in Nat /\ u[0] <= u[G - 1]
        <3>1. 0 \in 0 .. G /\ G - 1 \in 0 .. G /\ G \in 0 .. G /\ 0 <= G - 1
            BY <1>1
        <3> QED
            BY <1>1, <1>4, <2>3, <2>4, <2>5, <2>6, <3>1 DEF Placed
    <2>8. Behind(c, A, x) = u[G]
        BY <1>1, <1>4, <2>4 DEF Behind
    <2>9. u[G] > x /\ p >= x /\ u[G] \in 1 .. Len(A) + 1
        BY <1>2, <2>2, <2>7
    <2> QED
        BY <1>1, <1>2, <1>4, <2>2, <2>3, <2>4, <2>5, <2>8, <2>9
<1> QED
    BY <1>1, <1>3, <1>4

LEMMA BeginsIs ==
    ASSUME NEW c, c.groups \in Nat, c.groups >= 1, NEW T, NEW A \in Seq(T), NEW L, L = Len(A),
           NEW b, b = Begins(c, A)
    PROVE  /\ b \in [0 .. L -> 1 .. L + 1] /\ b[0] = 1
           /\ \A k \in 1 .. L : b[k] = Behind(c, A, b[k - 1])
<1>1. L \in Nat
    BY LenProperties
<1> DEFINE D == 1 .. L + 1
           Runs(f) == f = [k \in 0 .. L |-> IF k = 0 THEN 1 ELSE Behind(c, A, f[k - 1])]
           F == [k \in 1 .. L |-> [x \in D |-> Behind(c, A, x)]]
<1>2. \A x \in D : Behind(c, A, x) \in D
    BY BehindIs
<1>3. F \in [1 .. L -> [D -> D]] /\ 1 \in D
    BY <1>1, <1>2
<1>4. PICK f : Recurs(f, L, D, 1, F)
    <2> HIDE DEF F, D
    <2> QED
        BY <1>1, <1>3, Recursion
<1>5. f \in [0 .. L -> D] /\ f[0] = 1 /\ \A k \in 1 .. L : f[k] = Behind(c, A, f[k - 1])
    <2>1. f \in [0 .. L -> D] /\ f[0] = 1 /\ \A k \in 1 .. L : f[k] = F[k][f[k - 1]]
        <3> HIDE DEF F, D
        <3> QED
            BY <1>4 DEF Recurs
    <2>2. \A k \in 1 .. L : f[k - 1] \in D
        <3>1. \A k \in 1 .. L : k - 1 \in 0 .. L
            BY <1>1
        <3> HIDE DEF D
        <3> QED
            BY <2>1, <3>1
    <2> HIDE DEF D
    <2> QED
        BY <2>1, <2>2
<1>6. Runs(f)
    <2>1. \A k \in 0 .. L : f[k] = IF k = 0 THEN 1 ELSE Behind(c, A, f[k - 1])
        BY <1>1, <1>5
    <2> HIDE DEF D
    <2> QED
        BY <1>5, <2>1
<1>7. b = CHOOSE g : Runs(g)
    BY Zenon DEF Begins, Behind
<1>8. Runs(b)
    <2> HIDE DEF Runs
    <2> QED
        BY <1>6, <1>7
<1>9. b[0] = 1 /\ \A k \in 1 .. L : b[k] = Behind(c, A, b[k - 1])
    <2>1. \A k \in 0 .. L : b[k] = IF k = 0 THEN 1 ELSE Behind(c, A, b[k - 1])
        BY <1>8
    <2> HIDE DEF Runs
    <2> QED
        BY <1>1, <2>1
<1>10. \A k \in 0 .. L : b[k] \in D
    <2> DEFINE W == {k \in 0 .. L : b[k] \notin D}
    <2> HIDE DEF Runs, F, D
    <2>1. 0 \notin W /\ W \subseteq 0 .. L
        BY <1>3, <1>9
    <2>2. \A k \in 1 .. L : k - 1 \notin W => k \notin W
        <3> SUFFICES ASSUME NEW k \in 1 .. L, k - 1 \notin W
                     PROVE  k \notin W
            OBVIOUS
        <3>1. b[k - 1] \in D
            BY <1>1
        <3> QED
            BY <1>2, <1>9, <3>1
    <2> HIDE DEF W
    <2>3. W = {}
        BY <1>1, <2>1, <2>2, NoneLeft
    <2> QED
        BY <2>3 DEF W
<1>11. b \in [0 .. L -> D]
    <2>1. b = [k \in 0 .. L |-> b[k]]
        BY <1>8
    <2> HIDE DEF Runs, D
    <2> QED
        BY <1>10, <2>1
<1> QED
    BY <1>9, <1>11

\* The rounds of the loop for the group that repeats: each begins behind the
\* one before it, and the last one finds nothing.
Looped(c, A, b, R) ==
    /\ R \in 0 .. Len(A) /\ b[0] = 1 /\ \A k \in 0 .. R : b[k] \in 1 .. Len(A) + 1
    /\ c.groups \notin pcre2_match(c, A, b[R]).groups
    /\ \A j, k \in 0 .. R : j <= k => b[j] <= b[k]
    /\ \A k \in 1 .. R :
        /\ c.groups \in pcre2_match(c, A, b[k - 1]).groups
        /\ b[k] = Upto(c, pcre2_match(c, A, b[k - 1]))[c.groups]

LEMMA LoopIs ==
    ASSUME NEW c, c.groups \in Nat, c.groups >= 1, NEW T, NEW A \in Seq(T)
    PROVE  Looped(c, A, Begins(c, A), Rounds(c, A))
<1>1. PICK L \in Nat : L = Len(A)
    BY LenProperties
<1>2. PICK b : b = Begins(c, A)
    OBVIOUS
<1>3. /\ b \in [0 .. L -> 1 .. L + 1] /\ b[0] = 1
      /\ \A k \in 1 .. L : b[k] = Behind(c, A, b[k - 1])
    BY <1>1, <1>2, BeginsIs
<1> DEFINE More(k) == c.groups \in pcre2_match(c, A, b[k]).groups
<1>4. ASSUME NEW k \in 1 .. L
      PROVE  /\ b[k - 1] \in Nat /\ b[k] \in Nat /\ b[k - 1] <= b[k]
             /\ More(k - 1) => b[k] = Upto(c, pcre2_match(c, A, b[k - 1]))[c.groups] /\ b[k - 1] < b[k]
    <2>1. PICK x \in 1 .. Len(A) + 1 : x = b[k - 1]
        BY <1>1, <1>3
    <2>2. b[k] = Behind(c, A, x)
        BY <1>3, <2>1
    <2>3. Behind(c, A, x) \in 1 .. Len(A) + 1 /\ Behind(c, A, x) >= x
        BY BehindIs
    <2>4. c.groups \in pcre2_match(c, A, x).groups =>
            Behind(c, A, x) = Upto(c, pcre2_match(c, A, x))[c.groups] /\ Behind(c, A, x) > x
        BY BehindIs
    <2>5. x \in Nat /\ Behind(c, A, x) \in Nat
        BY <1>1, <2>3
    <2> QED
        BY <2>1, <2>2, <2>3, <2>4, <2>5
<1> DEFINE S == {k \in 0 .. L : ~More(k)}
<1>5. S # {}
    <2> SUFFICES ASSUME \A k \in 0 .. L : More(k)
                 PROVE  FALSE
        OBVIOUS
    <2> DEFINE W == {k \in 0 .. L : ~(b[k] >= k + 1)}
    <2>1. 0 \notin W /\ W \subseteq 0 .. L
        BY <1>3
    <2>2. \A k \in 1 .. L : k - 1 \notin W => k \notin W
        <3> SUFFICES ASSUME NEW k \in 1 .. L, b[k - 1] >= (k - 1) + 1
                     PROVE  b[k] >= k + 1
            OBVIOUS
        <3>1. b[k - 1] \in Nat /\ b[k] \in Nat /\ b[k - 1] < b[k]
            <4>1. More(k - 1)
                <5>1. k - 1 \in 0 .. L
                    OBVIOUS
                <5> QED
                    BY <5>1
            <4> HIDE DEF More
            <4> QED
                BY <1>4, <4>1
        <3> QED
            BY <3>1
    <2> HIDE DEF W
    <2>3. W = {}
        BY <2>1, <2>2, NoneLeft
    <2>4. L \in 0 .. L
        OBVIOUS
    <2>5. b[L] = L + 1
        <3>1. b[L] >= L + 1
            BY <2>3, <2>4 DEF W
        <3>2. b[L] \in 1 .. L + 1
            BY <1>3, <2>4
        <3> HIDE DEF More, S
        <3> QED
            BY <3>1, <3>2
    <2>6. b[L] \in 1 .. Len(A) + 1
        BY <1>1, <1>3, <2>4
    <2>7. Behind(c, A, b[L]) > b[L] /\ Behind(c, A, b[L]) \in 1 .. Len(A) + 1
        BY <2>4, <2>6, BehindIs
    <2> QED
        BY <1>1, <2>5, <2>7
<1>6. PICK R \in S : \A k \in S : R <= k
    <2>1. S \subseteq Nat
        OBVIOUS
    <2> HIDE DEF S
    <2> QED
        BY <1>5, <2>1, LeastNat
<1>7. Rounds(c, A) = R
    <2>1. Rounds(c, A) = Min(S)
        BY <1>1, <1>2 DEF Rounds, Round
    <2>2. S \subseteq Int
        OBVIOUS
    <2> HIDE DEF S
    <2> QED
        BY <1>6, <2>1, <2>2, MinIs
<1>8. R \in 0 .. L /\ ~More(R) /\ \A k \in 1 .. R : k \in 1 .. L /\ More(k - 1)
    <2>1. R \in 0 .. L /\ ~More(R)
        OBVIOUS
    <2>2. ASSUME NEW k \in 1 .. R
          PROVE  k \in 1 .. L /\ More(k - 1)
        <3>1. k - 1 \in 0 .. L /\ ~(R <= k - 1) /\ k \in 1 .. L
            BY <2>1
        <3>2. k - 1 \notin S
            <4> HIDE DEF S
            <4> QED
                BY <1>6, <3>1
        <3> QED
            BY <3>1, <3>2
    <2> QED
        BY <2>1, <2>2
<1> HIDE DEF S
<1>9. \A j, k \in 0 .. L : j <= k => b[j] <= b[k]
    <2>1. b \in [0 .. L -> Nat] /\ \A k \in 1 .. L : b[k - 1] <= b[k]
        BY <1>3, <1>4
    <2> QED
        BY <2>1, UptoRises
<1>10. \A k \in 1 .. R : /\ c.groups \in pcre2_match(c, A, b[k - 1]).groups
                         /\ b[k] = Upto(c, pcre2_match(c, A, b[k - 1]))[c.groups]
    BY <1>4, <1>8
<1>11. \A k \in 0 .. R : k \in 0 .. L /\ b[k] \in 1 .. L + 1
    BY <1>3, <1>8
<1> QED
    BY <1>1, <1>2, <1>3, <1>7, <1>8, <1>9, <1>10, <1>11 DEF Looped

\* The number of groups is a number, and only a group can repeat.
Shaped(c) == c.groups \in Nat /\ c.unk \in BOOLEAN /\ (c.unk => c.groups >= 1)

\* The match a value comes from, and the place of its first word.
FromMatch(c, A, v) ==
    IF c.unk /\ v[1] = c.groups THEN Round(c, A, v[2] - 1) ELSE pcre2_match(c, A, 1)

PlaceOf(c, A, v) == Pos(c, FromMatch(c, A, v), v[1])

\* What there is to know of a value.
Known(c, A, P, v) ==
    /\ v[1] \in 1 .. c.groups /\ v[2] \in Nat
    /\ FromMatch(c, A, v) \in Matches(c, A) /\ Placed(c, A, FromMatch(c, A, v))
    /\ v[1] \in FromMatch(c, A, v).groups
    /\ Value(P, v) = substring(c, A, FromMatch(c, A, v), v[1])
    /\ ~(c.unk /\ v[1] = c.groups) => v[2] = 1
    /\ c.unk /\ v[1] = c.groups => v[2] \in 1 .. Rounds(c, A)

\* The rounds of the group that repeats.
LEMMA RoundIs ==
    ASSUME NEW c, Shaped(c), c.unk, NEW T, NEW A \in Seq(T), NEW k \in 1 .. Rounds(c, A),
           NEW m, m = Round(c, A, k - 1), NEW b, b = Begins(c, A)
    PROVE  /\ m \in Matches(c, A) /\ Placed(c, A, m) /\ c.groups \in m.groups
           /\ b[k - 1] \in Nat /\ b[k] \in Nat /\ m = pcre2_match(c, A, b[k - 1])
           /\ b[k] = Upto(c, m)[c.groups] /\ b[k - 1] <= Pos(c, m, c.groups) /\ b[k - 1] <= m.at
<1>1. c.groups \in Nat /\ c.groups >= 1
    BY DEF Shaped
<1>2. Looped(c, A, b, Rounds(c, A))
    BY <1>1, LoopIs
<1>3. PICK R : R = Rounds(c, A)
    OBVIOUS
<1>4. R \in Nat /\ k \in 1 .. R /\ k \in 0 .. R /\ k - 1 \in 0 .. R
    <2>1. Len(A) \in Nat
        BY LenProperties
    <2> QED
        BY <1>2, <1>3, <2>1 DEF Looped
<1>5. m = pcre2_match(c, A, b[k - 1])
    BY DEF Round
<1>6. /\ b[k - 1] \in 1 .. Len(A) + 1 /\ b[k] \in 1 .. Len(A) + 1
      /\ c.groups \in m.groups /\ b[k] = Upto(c, m)[c.groups]
    BY <1>2, <1>3, <1>4, <1>5 DEF Looped
<1>7. m \in Matches(c, A) /\ Placed(c, A, m) /\ m.at >= b[k - 1] /\ Pos(c, m, c.groups) >= b[k - 1]
    BY <1>1, <1>5, <1>6, BehindIs
<1>8. m.at \in Nat /\ Pos(c, m, c.groups) \in Nat /\ b[k - 1] \in Nat /\ b[k] \in Nat
    BY <1>6, <1>7, LenProperties DEF Placed
<1> QED
    BY <1>5, <1>6, <1>7, <1>8

\* parse_and_create_args: the queues.
LEMMA ParsedIs ==
    ASSUME NEW c, Shaped(c), NEW T, NEW A \in Seq(T), A # <<>>, NEW P, P = parse_and_create_args(c, A),
           NEW m, m = pcre2_match(c, A, 1)
    PROVE  /\ DOMAIN P = 1 .. c.groups
           /\ \A g \in 1 .. c.groups : ~(c.unk /\ g = c.groups) =>
                P[g] = IF g \in m.groups THEN <<substring(c, A, m, g)>> ELSE <<NULL>>
           /\ c.unk => P[c.groups] = Repeated(c, A)
<1>1. P = [g \in 1 .. c.groups |->
            IF g = c.groups /\ c.unk THEN Repeated(c, A)
            ELSE IF g \in m.groups THEN <<substring(c, A, m, g)>> ELSE <<NULL>>]
    BY Zenon DEF parse_and_create_args
<1>2. c.unk => c.groups \in 1 .. c.groups
    BY DEF Shaped
<1> QED
    BY <1>1, <1>2

LEMMA ValueKnown ==
    ASSUME NEW c, Shaped(c), NEW T, NEW A \in Seq(T), A # <<>>, ~Malformed(c, A),
           NEW P, P = parse_and_create_args(c, A), NEW v \in Values(P)
    PROVE  Known(c, A, P, v)
<1>1. PICK m : m = pcre2_match(c, A, 1)
    OBVIOUS
<1>2. m \in Matches(c, A) /\ Placed(c, A, m)
    <2>1. m # NoMatch
        BY <1>1 DEF Malformed
    <2>2. m \in Matches(c, A)
        BY <1>1, <2>1, SearchIs
    <2> QED
        BY <2>2, MatchPlaced DEF Shaped
<1>3. PICK g \in DOMAIN P : v \in {<<g, i>> : i \in DOMAIN P[g]}
    BY DEF Values
<1>4. PICK i \in DOMAIN P[g] : v = <<g, i>>
    BY <1>3
<1>5. v[1] = g /\ v[2] = i /\ P[g][i] # NULL /\ Value(P, v) = P[g][i]
    <2>1. v[1] = g /\ v[2] = i
        BY <1>4
    <2>2. P[v[1]][v[2]] # NULL
        BY DEF Values
    <2> QED
        BY <2>1, <2>2 DEF Value
<1>6. /\ DOMAIN P = 1 .. c.groups
      /\ ~(c.unk /\ g = c.groups) =>
            P[g] = IF g \in m.groups THEN <<substring(c, A, m, g)>> ELSE <<NULL>>
      /\ c.unk => P[c.groups] = Repeated(c, A)
    <2>1. /\ DOMAIN P = 1 .. c.groups
          /\ \A k \in 1 .. c.groups : ~(c.unk /\ k = c.groups) =>
                P[k] = IF k \in m.groups THEN <<substring(c, A, m, k)>> ELSE <<NULL>>
          /\ c.unk => P[c.groups] = Repeated(c, A)
        BY <1>1, ParsedIs
    <2> QED
        BY <1>3, <2>1
<1>7. CASE ~(c.unk /\ g = c.groups)
    <2>1. FromMatch(c, A, v) = m
        BY <1>1, <1>5, <1>7 DEF FromMatch
    <2>2. g \in m.groups
        <3>1. SUFFICES ASSUME g \notin m.groups
                       PROVE  FALSE
            OBVIOUS
        <3>2. P[g] = <<NULL>>
            BY <1>6, <1>7, <3>1
        <3>3. i \in {1} /\ P[g][1] = NULL
            BY <3>2
        <3> QED
            BY <1>5, <3>3
    <2>3. P[g] = <<substring(c, A, m, g)>>
        BY <1>6, <1>7, <2>2
    <2>4. i = 1 /\ P[g][i] = substring(c, A, m, g)
        <3>1. PICK s : s = substring(c, A, m, g)
            OBVIOUS
        <3>2. i \in DOMAIN <<s>>
            BY <2>3, <3>1
        <3> QED
            BY <2>3, <3>1, <3>2
    <2> QED
        BY <1>2, <1>3, <1>5, <1>6, <1>7, <2>1, <2>2, <2>4 DEF Known
<1>8. CASE c.unk /\ g = c.groups
    <2>1. P[g] = [k \in 1 .. Rounds(c, A) |-> substring(c, A, Round(c, A, k - 1), c.groups)]
        BY <1>6, <1>8 DEF Repeated
    <2>2. i \in 1 .. Rounds(c, A) /\ P[g][i] = substring(c, A, Round(c, A, i - 1), c.groups)
        BY <2>1
    <2>3. FromMatch(c, A, v) = Round(c, A, i - 1)
        BY <1>5, <1>8 DEF FromMatch
    <2>4. /\ Round(c, A, i - 1) \in Matches(c, A) /\ Placed(c, A, Round(c, A, i - 1))
          /\ c.groups \in Round(c, A, i - 1).groups
        BY <1>8, <2>2, RoundIs
    <2>5. i \in Nat
        BY <2>2
    <2> QED
        BY <1>3, <1>5, <1>6, <1>8, <2>2, <2>3, <2>4, <2>5 DEF Known
<1> QED
    BY <1>7, <1>8

\* The values stand in the order of their groups and of the queues.
LEMMA ValuesInOrder ==
    ASSUME NEW c, Shaped(c), NEW T, NEW A \in Seq(T), NEW P, NEW u, NEW v,
           Known(c, A, P, u), Known(c, A, P, v), Before(u, v)
    PROVE  Upto(c, FromMatch(c, A, u))[u[1]] <= PlaceOf(c, A, v)
<1>1. PICK G \in Nat : G = c.groups
    BY DEF Shaped
<1>2. PICK m : m = FromMatch(c, A, u)
    OBVIOUS
<1>3. PICK n : n = FromMatch(c, A, v)
    OBVIOUS
<1>4. PICK g : g = u[1]
    OBVIOUS
<1>5. PICK h : h = v[1]
    OBVIOUS
<1>6. /\ g \in 1 .. G /\ h \in 1 .. G /\ u[2] \in Nat /\ v[2] \in Nat
      /\ Placed(c, A, m) /\ Placed(c, A, n) /\ g \in m.groups /\ h \in n.groups
      /\ ~(c.unk /\ g = G) => u[2] = 1
      /\ ~(c.unk /\ h = G) => v[2] = 1
      /\ c.unk /\ g = G => u[2] \in 1 .. Rounds(c, A)
      /\ c.unk /\ h = G => v[2] \in 1 .. Rounds(c, A)
    BY <1>1, <1>2, <1>3, <1>4, <1>5 DEF Known
<1>7. g < h \/ (g = h /\ u[2] < v[2])
    BY <1>4, <1>5 DEF Before
<1>8. g \in 0 .. G /\ h - 1 \in 0 .. G /\ h \in 0 .. G /\ G \in 0 .. G /\ g <= G
    BY <1>6
<1>9. /\ Upto(c, m)[g] \in Nat /\ Pos(c, n, h) \in Nat /\ Upto(c, n)[h - 1] \in Nat
      /\ Upto(c, n)[h - 1] <= Pos(c, n, h)
    BY <1>1, <1>6, <1>8 DEF Placed
<1>10. CASE ~(c.unk /\ h = G)
    <2>1. ~(c.unk /\ g = G) /\ g <= h - 1
        BY <1>6, <1>7, <1>10
    <2>2. m = n
        BY <1>1, <1>2, <1>3, <1>4, <1>5, <1>10, <2>1 DEF FromMatch
    <2>3. Upto(c, n)[g] <= Upto(c, n)[h - 1]
        BY <1>1, <1>6, <1>8, <2>1 DEF Placed
    <2> QED
        BY <1>2, <1>3, <1>4, <1>5, <1>9, <2>2, <2>3 DEF PlaceOf
<1>11. CASE c.unk /\ h = G
    <2>1. PICK b : b = Begins(c, A)
        OBVIOUS
    <2>2. PICK R : R = Rounds(c, A)
        OBVIOUS
    <2>3. PICK i : i = v[2]
        OBVIOUS
    <2>4. i \in 1 .. R /\ n = Round(c, A, i - 1)
        BY <1>1, <1>3, <1>5, <1>6, <1>11, <2>2, <2>3 DEF FromMatch
    <2>5. /\ b[i - 1] \in Nat /\ n = pcre2_match(c, A, b[i - 1]) /\ b[i - 1] <= Pos(c, n, G)
        BY <1>1, <1>11, <2>1, <2>2, <2>4, RoundIs
    <2>6. Looped(c, A, b, R) /\ R \in Nat
        <3>1. Looped(c, A, b, R)
            BY <1>11, <2>1, <2>2, LoopIs DEF Shaped
        <3>2. Len(A) \in Nat
            BY LenProperties
        <3> QED
            BY <3>1, <3>2 DEF Looped
    <2>7. b[0] = 1 /\ \A j, k \in 0 .. R : j <= k => b[j] <= b[k]
        BY <2>6 DEF Looped
    \* u ends where some round j + 1 before v's begins, or both are of the first match.
    <2>8. ASSUME NEW j \in 1 .. R, j <= i - 1, Upto(c, m)[g] <= b[j], b[j] \in Nat
          PROVE  Upto(c, m)[g] <= Pos(c, n, G)
        <3>1. j \in 0 .. R /\ i - 1 \in 0 .. R
            BY <2>4, <2>6
        <3>2. b[j] <= b[i - 1]
            BY <2>7, <2>8, <3>1
        <3> QED
            BY <1>9, <1>11, <2>5, <2>8, <3>2
    <2>9. CASE g = G
        <3>1. PICK j : j = u[2]
            OBVIOUS
        <3>2. j \in 1 .. R /\ j < i /\ m = Round(c, A, j - 1)
            BY <1>1, <1>2, <1>4, <1>6, <1>7, <1>11, <2>2, <2>3, <2>9, <3>1 DEF FromMatch
        <3>3. b[j] = Upto(c, m)[G] /\ b[j] \in Nat
            BY <1>1, <1>11, <2>1, <2>2, <3>2, RoundIs
        <3>4. Upto(c, m)[g] <= Pos(c, n, G)
            <4>1. j <= i - 1 /\ Upto(c, m)[g] <= b[j]
                BY <2>4, <2>9, <3>2, <3>3
            <4> QED
                BY <2>8, <3>2, <3>3, <4>1
        <3> QED
            BY <1>2, <1>3, <1>4, <1>5, <1>11, <3>4 DEF PlaceOf
    <2>10. CASE g # G
        <3>1. m = pcre2_match(c, A, b[0])
            BY <1>1, <1>2, <1>4, <2>7, <2>10 DEF FromMatch
        <3>2. CASE i = 1
            <4>1. m = n
                BY <2>5, <3>1, <3>2
            <4>2. g <= h - 1
                BY <1>6, <1>11, <2>10
            <4>3. Upto(c, n)[g] <= Upto(c, n)[h - 1]
                BY <1>1, <1>6, <1>8, <4>2 DEF Placed
            <4> QED
                BY <1>2, <1>3, <1>4, <1>5, <1>9, <4>1, <4>3 DEF PlaceOf
        <3>3. CASE i # 1
            <4>1. 1 \in 1 .. R /\ 1 <= i - 1 /\ 1 - 1 = 0
                BY <2>4, <2>6, <3>3
            <4>2. b[1] \in Nat /\ b[1] = Upto(c, m)[G]
                <5>1. m = Round(c, A, 1 - 1)
                    BY <2>1, <3>1, <4>1 DEF Round
                <5> QED
                    BY <1>1, <1>11, <2>1, <2>2, <4>1, <5>1, RoundIs
            <4>3. Upto(c, m)[g] <= b[1]
                BY <1>1, <1>6, <1>8, <4>2 DEF Placed
            <4>4. Upto(c, m)[g] <= Pos(c, n, G)
                BY <2>8, <4>1, <4>2, <4>3
            <4> QED
                BY <1>2, <1>3, <1>4, <1>5, <1>11, <4>4 DEF PlaceOf
        <3> QED
            BY <3>2, <3>3
    <2> QED
        BY <2>9, <2>10
<1> QED
    BY <1>10, <1>11

\* Only the group that repeats is required where every word is taken.
LEMMA TakesAllIs ==
    ASSUME NEW c, Shaped(c), TakesAll(c)
    PROVE  /\ c.unk /\ c.groups >= 1 /\ Required(c) = {c.groups}
           /\ \A m : Starts(c, m)
           /\ c.regex.groups[c.groups].flag = None
           /\ \A g \in 1 .. c.groups - 1 : c.regex.groups[g].flag # None
           /\ \A A, m : m \in Matches(c, A) => m.n = 1
<1>1. c.unk /\ c.groups \in Nat /\ c.groups >= 1
    BY DEF Shaped, TakesAll
<1>2. PICK G \in Nat : G = c.groups
    BY <1>1
<1>3. Required(c) = {G}
    <2>1. \A g \in 1 .. G : g # G => g \in 1 .. G - 1
        BY <1>2
    <2>2. G \in 1 .. G
        BY <1>1, <1>2
    <2>3. (~c.regex.groups[G].opt) /\ \A g \in 1 .. G - 1 : c.regex.groups[g].opt
        BY <1>2 DEF TakesAll
    <2> QED
        BY <1>2, <2>1, <2>2, <2>3 DEF Required
<1>4. \A m : Starts(c, m)
    <2>1. c.regex.start = "anywhere"
        BY DEF TakesAll
    <2> QED
        BY <2>1 DEF Starts
<1>5. \A A, m : m \in Matches(c, A) => m.n = 1
    <2>1. ~c.regex.many
        BY DEF TakesAll
    <2> QED
        BY <2>1 DEF Matches
<1>6. c.regex.groups[c.groups].flag = None /\ \A g \in 1 .. c.groups - 1 : c.regex.groups[g].flag # None
    BY DEF TakesAll
<1> QED
    BY <1>1, <1>2, <1>3, <1>4, <1>5, <1>6

\* A word of its class is a match for the group that repeats.
LEMMA WordMatches ==
    ASSUME NEW c, Shaped(c), TakesAll(c), NEW T, NEW A \in Seq(T), NEW j \in DOMAIN A,
           c.regex.groups[c.groups].class \in Class[A[j]]
    PROVE  \E o \in Matches(c, A) : o.at = j
<1>1. PICK G \in Nat : G = c.groups
    BY DEF Shaped
<1>2. PICK L \in Nat : L = Len(A)
    BY LenProperties
<1>3. j \in 1 .. L
    BY <1>2, LenProperties
<1>4. G >= 1 /\ Required(c) = {G} /\ c.regex.groups[G].flag = None
    BY <1>1, TakesAllIs
<1> DEFINE o == [at |-> j, groups |-> {G}, n |-> 1]
<1>5. o.at = j /\ o.groups = {G} /\ o.n = 1
    OBVIOUS
<1>6. o \in MatchType(c, L)
    <2>1. 1 \in 1 .. L /\ j \in 1 .. L + 1 /\ {G} \in SUBSET (1 .. G)
        BY <1>3, <1>4
    <2> QED
        BY <1>1, <2>1 DEF MatchType
<1> HIDE DEF o
<1>7. PICK u : u = Upto(c, o)
    OBVIOUS
<1>8. u \in [0 .. G -> Nat] /\ u[0] = j /\ \A g \in 1 .. G : u[g] = u[g - 1] + Width(c, o, g)
    BY <1>1, <1>5, <1>6, <1>7, UptoIs DEF IsUpto
<1>9. Takes(o, G) = 1 /\ Width(c, o, G) = 1
    <2>1. Takes(o, G) = 1
        BY <1>5 DEF Takes
    <2>2. G \in o.groups
        BY <1>5
    <2> QED
        BY <1>4, <1>6, <2>1, <2>2, WidthIs
<1>10. \A g \in 0 .. G - 1 : u[g] = j
    <2> DEFINE B == {g \in 0 .. G - 1 : u[g] # j}
    <2>1. 0 \notin B /\ B \subseteq 0 .. G - 1 /\ G - 1 \in Nat
        BY <1>4, <1>8
    <2>2. \A g \in 1 .. G - 1 : g - 1 \notin B => g \notin B
        <3> SUFFICES ASSUME NEW g \in 1 .. G - 1, g - 1 \notin B
                     PROVE  g \notin B
            OBVIOUS
        <3>1. u[g - 1] = j
            OBVIOUS
        <3>2. Width(c, o, g) = 0
            <4>1. g \notin o.groups
                BY <1>5
            <4> QED
                BY <1>6, <4>1, WidthIs
        <3>3. u[g] = u[g - 1] + Width(c, o, g)
            BY <1>8
        <3> QED
            BY <1>3, <3>1, <3>2, <3>3
    <2> HIDE DEF B
    <2>3. B = {}
        BY <2>1, <2>2, NoneLeft
    <2> QED
        BY <2>3 DEF B
<1>11. u[G] = j + 1
    <2>1. G \in 1 .. G /\ G - 1 \in 0 .. G - 1
        BY <1>4
    <2> QED
        BY <1>8, <1>9, <1>10, <2>1
<1>12. Fits(c, A, o)
    <2>1. Starts(c, o)
        BY TakesAllIs
    <2>2. Required(c) \subseteq o.groups /\ o.n = 1
        BY <1>4, <1>5
    <2>3. u[G] <= L + 1
        BY <1>3, <1>11
    <2>4. \A i \in u[G] - Takes(o, G) .. u[G] - 1 : c.regex.groups[G].class \in Class[A[i]]
        <3>1. \A i \in u[G] - Takes(o, G) .. u[G] - 1 : i = j
            BY <1>3, <1>9, <1>11
        <3> QED
            BY <1>1, <3>1
    <2> QED
        BY <1>1, <1>2, <1>4, <1>5, <1>7, <2>1, <2>2, <2>3, <2>4 DEF Fits
<1>13. o \in Matches(c, A)
    BY <1>2, <1>4, <1>5, <1>6, <1>12 DEF Matches, MatchType
<1> QED
    BY <1>5, <1>13

\* A word within a match is the last group's, or belongs to an option.
LEMMA WithinMatch ==
    ASSUME NEW c, Shaped(c), TakesAll(c), NEW T, NEW A \in Seq(T), NEW m \in Matches(c, A), NEW j \in Nat,
           m.at <= j, j < Upto(c, m)[c.groups], c.groups \in m.groups
    PROVE  j = Pos(c, m, c.groups) \/ OfOption(c, A, j)
<1>1. PICK G \in Nat : G = c.groups
    BY DEF Shaped
<1>2. PICK L \in Nat : L = Len(A)
    BY LenProperties
<1>3. m \in MatchType(c, L) /\ Fits(c, A, m)
    BY <1>2 DEF Matches, MatchType
<1>4. m.n = 1 /\ G >= 1 /\ c.regex.groups[G].flag = None
      /\ \A g \in 1 .. G - 1 : c.regex.groups[g].flag # None
    BY <1>1, <1>3, TakesAllIs
<1>5. \A g : Takes(m, g) = 1
    BY <1>4 DEF Takes
<1>6. PICK u : u = Upto(c, m)
    OBVIOUS
<1>7. u \in [0 .. G -> Nat] /\ u[0] = m.at /\ \A g \in 1 .. G : u[g] = u[g - 1] + Width(c, m, g)
    BY <1>1, <1>3, <1>6, UptoIs DEF IsUpto
<1> DEFINE S == {g \in 0 .. G : j < u[g]}
<1>8. PICK g \in S : \A h \in S : g <= h
    <2>1. S \subseteq Nat /\ S # {}
        BY <1>1, <1>6
    <2> HIDE DEF S
    <2> QED
        BY <2>1, LeastNat
<1>9. g \in 1 .. G /\ j < u[g] /\ u[g - 1] <= j /\ u[g] \in Nat /\ u[g - 1] \in Nat
    <2>1. g \in 0 .. G /\ j < u[g]
        OBVIOUS
    <2>2. g # 0
        BY <1>7, <2>1
    <2>3. g \in 1 .. G /\ g - 1 \in 0 .. G /\ ~(g <= g - 1)
        BY <2>1, <2>2
    <2>4. ~(j < u[g - 1])
        BY <1>8, <2>3
    <2> QED
        BY <1>7, <2>1, <2>3, <2>4
<1> HIDE DEF S
<1>10. PICK w : w = Width(c, m, g)
    OBVIOUS
<1>11. u[g] = u[g - 1] + w
    BY <1>7, <1>9, <1>10
<1>12. g \in m.groups
    <2>1. g \notin m.groups => w = 0
        BY <1>3, <1>10, WidthIs
    <2> QED
        BY <1>9, <1>11, <2>1
<1>13. CASE g = G
    <2>1. w = 1
        BY <1>3, <1>4, <1>5, <1>10, <1>12, <1>13, WidthIs
    <2>2. j = u[G] - Takes(m, G)
        <3>1. j = u[g] - 1
            BY <1>9, <1>11, <2>1
        <3> QED
            BY <1>5, <1>13, <3>1
    <2> QED
        BY <1>1, <1>6, <2>2 DEF Pos
<1>14. CASE g # G
    <2>1. g \in 1 .. G - 1
        BY <1>9, <1>14
    <2>2. c.regex.groups[g].flag # None
        BY <1>4, <2>1
    <2>3. w = 2
        <3>1. w = Takes(m, g) + 1
            BY <1>3, <1>10, <1>12, <2>2, WidthIs
        <3> QED
            BY <1>5, <3>1
    <2>4. c.regex.groups[g].flag \in Class[A[u[g - 1]]]
        BY <1>3, <1>6, <1>12, <2>2 DEF Fits
    <2>5. u[g - 1] >= 1
        <3>1. Placed(c, A, m)
            BY <1>1, MatchPlaced
        <3>2. 0 \in 0 .. G /\ g - 1 \in 0 .. G /\ 0 <= g - 1
            BY <1>9
        <3>3. u[0] <= u[g - 1]
            BY <1>1, <1>6, <3>1, <3>2 DEF Placed
        <3>4. u[0] \in Nat /\ u[0] >= 1
            BY <1>3, <1>7 DEF MatchType
        <3> QED
            BY <1>9, <3>3, <3>4
    <2>6. j = u[g - 1] \/ (j > 1 /\ j - 1 = u[g - 1])
        BY <1>9, <1>11, <2>3, <2>5
    <2>7. \/ c.regex.groups[g].flag \in Class[A[j]]
          \/ (j > 1 /\ c.regex.groups[g].flag \in Class[A[j - 1]])
        <3>1. PICK x : x = u[g - 1]
            OBVIOUS
        <3> QED
            BY <2>4, <2>6, <3>1
    <2>8. OfOption(c, A, j)
        BY <1>1, <2>1, <2>7 DEF OfOption
    <2> QED
        BY <2>8
<1> QED
    BY <1>13, <1>14

\* Every word of its class reaches the group that repeats, or is an option's.
LEMMA AllTaken ==
    ASSUME NEW c, Shaped(c), TakesAll(c), NEW T, NEW A \in Seq(T), NEW j \in DOMAIN A,
           c.regex.groups[c.groups].class \in Class[A[j]]
    PROVE  (\E k \in 1 .. Rounds(c, A) : j = Pos(c, Round(c, A, k - 1), c.groups)) \/ OfOption(c, A, j)
<1>1. c.unk /\ c.groups \in Nat /\ c.groups >= 1 /\ Required(c) = {c.groups}
    BY TakesAllIs DEF Shaped
<1>2. PICK R : R = Rounds(c, A)
    OBVIOUS
<1>3. PICK b : b = Begins(c, A)
    OBVIOUS
<1>4. Looped(c, A, b, R)
    BY <1>1, <1>2, <1>3, LoopIs
<1>5. PICK L \in Nat : L = Len(A)
    BY LenProperties
<1>6. j \in 1 .. L
    BY <1>5, LenProperties
<1>7. /\ R \in 0 .. L /\ b[0] = 1 /\ \A k \in 0 .. R : b[k] \in 1 .. L + 1
      /\ c.groups \notin pcre2_match(c, A, b[R]).groups
    BY <1>4, <1>5 DEF Looped
<1>8. PICK o \in Matches(c, A) : o.at = j
    BY WordMatches
<1>9. ASSUME NEW x \in Nat, x <= j
      PROVE  /\ pcre2_match(c, A, x).groups # {} /\ c.groups \in pcre2_match(c, A, x).groups
             /\ pcre2_match(c, A, x).at <= j
    <2>1. PICK r : r = pcre2_match(c, A, x)
        OBVIOUS
    <2>2. Required(c) # {}
        BY <1>1
    <2>3. o \in Found(c, A, x)
        BY <1>6, <1>8, <1>9, <2>2 DEF Found
    <2>4. r \in Matches(c, A) /\ TriedBefore(r, o)
        BY <2>1, <2>3, SearchIs
    <2>5. c.groups \in r.groups
        BY <1>1, <2>4 DEF Matches, Fits
    <2>6. r.at <= j
        <3>1. r.at \in Nat
            BY <1>5, <2>4 DEF Matches
        <3> QED
            BY <1>6, <1>8, <2>4, <3>1 DEF TriedBefore
    <2> QED
        BY <2>1, <2>5, <2>6
<1> DEFINE S == {k \in 0 .. R : j < b[k]}
<1>10. R \in S
    <2>1. R \in 0 .. R /\ b[R] \in Nat
        BY <1>7
    <2>2. ~(b[R] <= j)
        BY <1>7, <1>9, <2>1
    <2> QED
        BY <1>6, <2>1, <2>2
<1>11. PICK k \in S : \A h \in S : k <= h
    <2>1. S \subseteq Nat /\ S # {}
        BY <1>7, <1>10
    <2> HIDE DEF S
    <2> QED
        BY <2>1, LeastNat
<1>12. k \in 1 .. R /\ j < b[k] /\ b[k - 1] <= j /\ b[k - 1] \in Nat
    <2>1. k \in 0 .. R /\ j < b[k]
        OBVIOUS
    <2>2. k # 0
        BY <1>6, <1>7, <2>1
    <2>3. k \in 1 .. R /\ k - 1 \in 0 .. R /\ ~(k <= k - 1)
        BY <1>7, <2>1, <2>2
    <2>4. ~(j < b[k - 1])
        BY <1>11, <2>3
    <2>5. b[k - 1] \in Nat
        BY <1>7, <2>3
    <2> QED
        BY <1>6, <2>1, <2>3, <2>4, <2>5
<1> HIDE DEF S
<1>13. PICK m : m = Round(c, A, k - 1)
    OBVIOUS
<1>14. m \in Matches(c, A) /\ c.groups \in m.groups /\ m = pcre2_match(c, A, b[k - 1])
       /\ b[k] = Upto(c, m)[c.groups]
    BY <1>1, <1>2, <1>3, <1>12, <1>13, RoundIs
<1>15. m.at <= j
    BY <1>9, <1>12, <1>14
<1>16. j = Pos(c, m, c.groups) \/ OfOption(c, A, j)
    <2>1. j \in Nat /\ j < Upto(c, m)[c.groups]
        BY <1>6, <1>12, <1>14
    <2> QED
        BY <1>14, <1>15, <2>1, WithinMatch
<1> QED
    BY <1>2, <1>12, <1>13, <1>16

\* An option in front is a match that is tried before any without it.
LEMMA OptionFirst ==
    ASSUME NEW c, Shaped(c), TakesAll(c), c.groups = 2, NEW T, NEW A \in Seq(T), Len(A) >= 3,
           c.regex.groups[1].flag \in Class[A[1]], c.regex.groups[1].class \in Class[A[2]],
           c.regex.groups[2].class \in Class[A[3]], NEW r, r = pcre2_match(c, A, 1)
    PROVE  1 \in r.groups /\ substring(c, A, r, 1) = <<A[2]>>
<1>1. PICK L \in Nat : L = Len(A)
    BY LenProperties
<1>2. Required(c) = {2} /\ c.regex.groups[1].flag # None /\ c.regex.groups[2].flag = None
    <2>1. 1 \in 1 .. c.groups - 1
        OBVIOUS
    <2> QED
        BY <2>1, TakesAllIs
<1> DEFINE o == [at |-> 1, groups |-> {1, 2}, n |-> 1]
<1>3. o.at = 1 /\ o.groups = {1, 2} /\ o.n = 1
    OBVIOUS
<1>4. o \in MatchType(c, L)
    <2>1. 1 \in 1 .. L /\ 1 \in 1 .. L + 1 /\ {1, 2} \in SUBSET (1 .. 2)
        BY <1>1
    <2> QED
        BY <2>1 DEF MatchType
<1> HIDE DEF o
<1>5. \A g : Takes(o, g) = 1
    BY <1>3 DEF Takes
<1>6. Width(c, o, 1) = 2 /\ Width(c, o, 2) = 1
    <2>1. 1 \in o.groups /\ 2 \in o.groups
        BY <1>3
    <2>2. Width(c, o, 1) = Takes(o, 1) + 1 /\ Width(c, o, 2) = Takes(o, 2)
        BY <1>2, <1>4, <2>1, WidthIs
    <2> QED
        BY <1>5, <2>2
<1>7. PICK u : u = Upto(c, o)
    OBVIOUS
<1>8. u[0] = 1 /\ u[1] = 3 /\ u[2] = 4
    <2>1. IsUpto(u, c, o)
        BY <1>4, <1>7, UptoIs
    <2>2. u[0] = 1 /\ \A g \in 1 .. 2 : u[g] = u[g - 1] + Width(c, o, g)
        BY <1>3, <2>1 DEF IsUpto
    <2>3. 1 \in 1 .. 2 /\ 2 \in 1 .. 2 /\ 1 - 1 = 0 /\ 2 - 1 = 1
        OBVIOUS
    <2>4. u[1] = u[0] + 2 /\ u[2] = u[1] + 1
        BY <1>6, <2>2, <2>3
    <2> QED
        BY <2>2, <2>4
<1>9. Fits(c, A, o)
    <2>1. Starts(c, o)
        BY TakesAllIs
    <2>2. Required(c) \subseteq o.groups /\ o.n = 1
        BY <1>2, <1>3
    <2>3. u[2] <= L + 1
        BY <1>1, <1>8
    <2>4. ASSUME NEW g \in o.groups
          PROVE  /\ \A j \in u[g] - Takes(o, g) .. u[g] - 1 : c.regex.groups[g].class \in Class[A[j]]
                 /\ c.regex.groups[g].flag # None => c.regex.groups[g].flag \in Class[A[u[g - 1]]]
        <3>1. CASE g = 1
            <4>1. \A j \in u[1] - Takes(o, 1) .. u[1] - 1 : j = 2
                BY <1>5, <1>8
            <4>2. u[1 - 1] = 1
                BY <1>8
            <4> QED
                BY <3>1, <4>1, <4>2
        <3>2. CASE g = 2
            <4>1. \A j \in u[2] - Takes(o, 2) .. u[2] - 1 : j = 3
                BY <1>5, <1>8
            <4> QED
                BY <1>2, <3>2, <4>1
        <3> QED
            BY <1>3, <3>1, <3>2
    <2> QED
        BY <1>1, <1>7, <2>1, <2>2, <2>3, <2>4 DEF Fits
<1>10. o \in Found(c, A, 1)
    <2>1. o \in Matches(c, A)
        BY <1>1, <1>2, <1>3, <1>4, <1>9 DEF Matches, MatchType
    <2> QED
        BY <1>3, <2>1 DEF Found
<1>11. r \in Matches(c, A) /\ r.at >= 1 /\ TriedBefore(r, o)
    BY <1>10, SearchIs
<1>12. r \in MatchType(c, L) /\ Fits(c, A, r)
    BY <1>1, <1>11 DEF Matches, MatchType
<1>13. Eagerness(o) = 12
    BY <1>3 DEF Eagerness
<1>14. r.groups \subseteq 1 .. 2 /\ r.at \in Nat
    BY <1>12 DEF MatchType
<1>15. Eagerness(r) \in Nat /\ (1 \notin r.groups => Eagerness(r) <= 7)
    BY DEF Eagerness
<1>16. r.at = 1 /\ 1 \in r.groups
    BY <1>3, <1>11, <1>13, <1>14, <1>15 DEF TriedBefore
<1>17. r.n = 1
    BY <1>11, TakesAllIs
<1>18. Takes(r, 1) = 1 /\ Width(c, r, 1) = 2
    <2>1. Takes(r, 1) = 1
        BY <1>17 DEF Takes
    <2>2. Width(c, r, 1) = Takes(r, 1) + 1
        BY <1>2, <1>12, <1>16, WidthIs
    <2> QED
        BY <2>1, <2>2
<1>19. Upto(c, r)[1] = 3
    <2>1. PICK w : w = Upto(c, r)
        OBVIOUS
    <2>2. IsUpto(w, c, r)
        BY <1>12, <2>1, UptoIs
    <2>3. w[0] = 1 /\ \A g \in 1 .. 2 : w[g] = w[g - 1] + Width(c, r, g)
        BY <1>16, <2>2 DEF IsUpto
    <2>4. 1 \in 1 .. 2 /\ 1 - 1 = 0
        OBVIOUS
    <2>5. w[1] = w[0] + 2
        BY <1>18, <2>3, <2>4
    <2> QED
        BY <2>1, <2>3, <2>5
<1>20. substring(c, A, r, 1) = SubSeq(A, 2, 2)
    <2>1. PICK x : x = Upto(c, r)[1] - Takes(r, 1)
        OBVIOUS
    <2>2. PICK y : y = Upto(c, r)[1] - 1
        OBVIOUS
    <2>3. x = 2 /\ y = 2
        BY <1>18, <1>19, <2>1, <2>2
    <2>4. substring(c, A, r, 1) = SubSeq(A, x, y)
        BY <2>1, <2>2, Zenon DEF substring
    <2> QED
        BY <2>3, <2>4
<1>21. SubSeq(A, 2, 2) = <<A[2]>>
    <2>1. 2 \in 1 .. Len(A)
        BY <1>1
    <2>2. PICK q : q = SubSeq(A, 2, 2)
        OBVIOUS
    <2>3. /\ q \in Seq(T) /\ Len(q) = 1 /\ \A i \in 1 .. 1 : q[i] = A[2 + i - 1]
        <3>1. \A i \in 2 .. 2 : A[i] \in T
            <4>1. A[2] \in T
                BY <2>1, ElementOfSeq
            <4> QED
                BY <4>1
        <3>2. 2 \in 1 .. Len(A) + 1 /\ 2 \in 0 .. Len(A)
            BY <1>1
        <3>3. /\ SubSeq(A, 2, 2) \in Seq(T)
              /\ Len(SubSeq(A, 2, 2)) = IF 2 <= 2 THEN 2 - 2 + 1 ELSE 0
              /\ \A i \in 1 .. 2 - 2 + 1 : SubSeq(A, 2, 2)[i] = A[2 + i - 1]
            BY <3>1, <3>2, SubSeqProperties
        <3> QED
            BY <2>2, <3>3
    <2>4. q[1] = A[2]
        BY <2>3
    <2>5. q = <<A[2]>>
        BY <2>3, <2>4
    <2> QED
        BY <2>2, <2>5
<1> QED
    BY <1>16, <1>20, <1>21

\* The queues hold the typed words in order.
LEMMA InOrder ==
    ASSUME NEW c, Shaped(c), NEW T, NEW A \in Seq(T), A # <<>>, ~Malformed(c, A),
           NEW P, P = parse_and_create_args(c, A)
    PROVE  TakenInOrder(c, P, A)
<1> DEFINE at == [v \in Values(P) |-> PlaceOf(c, A, v)]
<1>1. \A v \in Values(P) : Known(c, A, P, v)
    BY ValueKnown
<1>2. c.groups \in Nat
    BY DEF Shaped
<1>3. ASSUME NEW v \in Values(P)
      PROVE  /\ PlaceOf(c, A, v) \in DOMAIN A
             /\ PlaceOf(c, A, v) + Len(Value(P, v)) - 1 \in DOMAIN A
             /\ Value(P, v) = SubSeq(A, PlaceOf(c, A, v), PlaceOf(c, A, v) + Len(Value(P, v)) - 1)
             /\ PlaceOf(c, A, v) + Len(Value(P, v)) = Upto(c, FromMatch(c, A, v))[v[1]]
    <2>1. PICK m : m = FromMatch(c, A, v)
        OBVIOUS
    <2>2. PICK g : g = v[1]
        OBVIOUS
    <2>3. PICK s : s = Value(P, v)
        OBVIOUS
    <2>4. Placed(c, A, m) /\ g \in m.groups /\ s = substring(c, A, m, g)
        BY <1>1, <2>1, <2>2, <2>3 DEF Known
    <2>5. PICK p : p = Pos(c, m, g)
        OBVIOUS
    <2>6. /\ Len(s) = Takes(m, g) /\ p \in DOMAIN A /\ p + Len(s) - 1 \in DOMAIN A
          /\ s = SubSeq(A, p, p + Len(s) - 1)
        BY <1>2, <2>4, <2>5, TextIs
    <2>7. p + Takes(m, g) = Upto(c, m)[g]
        BY <2>4, <2>5 DEF Placed
    <2>8. p = PlaceOf(c, A, v)
        BY <2>1, <2>2, <2>5 DEF PlaceOf
    <2> QED
        BY <2>1, <2>2, <2>3, <2>6, <2>7, <2>8
<1>4. at \in [Values(P) -> DOMAIN A]
    BY <1>3
<1>5. \A v \in Values(P) : /\ at[v] + Len(Value(P, v)) - 1 \in DOMAIN A
                           /\ Value(P, v) = SubSeq(A, at[v], at[v] + Len(Value(P, v)) - 1)
    <2> TAKE v \in Values(P)
    <2>1. at[v] = PlaceOf(c, A, v)
        OBVIOUS
    <2> HIDE DEF at
    <2> QED
        BY <1>3, <2>1
<1>6. \A u, v \in Values(P) : Before(u, v) => at[u] + Len(Value(P, u)) <= at[v]
    <2> SUFFICES ASSUME NEW u \in Values(P), NEW v \in Values(P), Before(u, v)
                 PROVE  at[u] + Len(Value(P, u)) <= at[v]
        OBVIOUS
    <2>1. at[u] = PlaceOf(c, A, u) /\ at[v] = PlaceOf(c, A, v)
        OBVIOUS
    <2>2. Known(c, A, P, u) /\ Known(c, A, P, v)
        BY <1>1
    <2>3. Upto(c, FromMatch(c, A, u))[u[1]] <= PlaceOf(c, A, v)
        BY <2>2, ValuesInOrder
    <2>4. PlaceOf(c, A, u) + Len(Value(P, u)) = Upto(c, FromMatch(c, A, u))[u[1]]
        BY <1>3
    <2> HIDE DEF at
    <2> QED
        BY <2>1, <2>3, <2>4
<1>7. TakesAll(c) =>
        \A j \in DOMAIN A :
            c.regex.groups[c.groups].class \in Class[A[j]] =>
                (\E v \in Values(P) : v[1] = c.groups /\ at[v] = j) \/ OfOption(c, A, j)
    <2> SUFFICES ASSUME TakesAll(c), NEW j \in DOMAIN A, c.regex.groups[c.groups].class \in Class[A[j]],
                        ~OfOption(c, A, j)
                 PROVE  \E v \in Values(P) : v[1] = c.groups /\ at[v] = j
        OBVIOUS
    <2>1. PICK k \in 1 .. Rounds(c, A) : j = Pos(c, Round(c, A, k - 1), c.groups)
        BY AllTaken
    <2>2. c.unk /\ c.groups >= 1
        BY TakesAllIs
    <2>3. PICK m : m = Round(c, A, k - 1)
        OBVIOUS
    <2>4. Placed(c, A, m) /\ c.groups \in m.groups
        BY <2>2, <2>3, RoundIs
    <2>5. PICK G \in Nat : G = c.groups
        BY <1>2
    <2>6. DOMAIN P = 1 .. G /\ P[G] = Repeated(c, A)
        BY <2>2, <2>5, ParsedIs
    <2>7. k \in DOMAIN P[G] /\ P[G][k] = substring(c, A, m, G)
        BY <2>3, <2>5, <2>6 DEF Repeated
    <2>8. P[G][k] # NULL
        BY <1>2, <2>4, <2>5, <2>7, TextIs
    <2>9. <<G, k>> \in Values(P)
        <3>1. G \in DOMAIN P
            BY <2>2, <2>5, <2>6
        <3>2. <<G, k>>[1] = G /\ <<G, k>>[2] = k
            OBVIOUS
        <3> QED
            BY <2>7, <2>8, <3>1, <3>2 DEF Values
    <2>10. at[<<G, k>>] = j
        <3>1. at[<<G, k>>] = PlaceOf(c, A, <<G, k>>)
            BY <2>9
        <3>2. FromMatch(c, A, <<G, k>>) = m
            BY <2>2, <2>3, <2>5 DEF FromMatch
        <3> HIDE DEF at
        <3> QED
            BY <2>1, <2>3, <2>5, <3>1, <3>2 DEF PlaceOf
    <2>11. <<G, k>>[1] = G
        OBVIOUS
    <2> HIDE DEF at
    <2> QED
        BY <2>5, <2>9, <2>10, <2>11
<1> HIDE DEF at
<1> QED
    BY <1>4, <1>5, <1>6, <1>7 DEF TakenInOrder

\* A match has what the expression requires.
LEMMA RequiredParsed ==
    ASSUME NEW c, Shaped(c), NEW T, NEW A \in Seq(T), A # <<>>, ~Malformed(c, A),
           NEW P, P = parse_and_create_args(c, A)
    PROVE  RequiredGiven(c, P)
<1> SUFFICES ASSUME NEW g \in Required(c)
             PROVE  P[g] # <<>> /\ P[g][1] # NULL
    BY DEF RequiredGiven
<1>1. PICK m : m = pcre2_match(c, A, 1)
    OBVIOUS
<1>2. c.groups \in Nat
    BY DEF Shaped
<1>3. m \in Matches(c, A) /\ Placed(c, A, m)
    <2>1. m # NoMatch
        BY <1>1 DEF Malformed
    <2>2. m \in Matches(c, A)
        BY <1>1, <2>1, SearchIs
    <2> QED
        BY <1>2, <2>2, MatchPlaced
<1>4. g \in m.groups /\ g \in 1 .. c.groups
    BY <1>3 DEF Matches, Fits, Required
<1>5. substring(c, A, m, g) # NULL
    BY <1>2, <1>3, <1>4, TextIs
<1>6. /\ \A k \in 1 .. c.groups : ~(c.unk /\ k = c.groups) =>
            P[k] = IF k \in m.groups THEN <<substring(c, A, m, k)>> ELSE <<NULL>>
      /\ c.unk => P[c.groups] = Repeated(c, A)
    BY <1>1, ParsedIs
<1>7. CASE ~(c.unk /\ g = c.groups)
    <2>1. PICK s : s = substring(c, A, m, g)
        OBVIOUS
    <2>2. P[g] = <<s>>
        BY <1>4, <1>6, <1>7, <2>1
    <2> QED
        BY <1>5, <2>1, <2>2
<1>8. CASE c.unk /\ g = c.groups
    <2>1. PICK R : R = Rounds(c, A)
        OBVIOUS
    <2>2. PICK b : b = Begins(c, A)
        OBVIOUS
    <2>3. Looped(c, A, b, R) /\ Len(A) \in Nat
        BY <1>8, <2>1, <2>2, LoopIs, LenProperties DEF Shaped
    <2>4. b[0] = 1 /\ R \in Nat /\ c.groups \notin pcre2_match(c, A, b[R]).groups
        BY <2>3 DEF Looped
    <2>5. R # 0
        BY <1>1, <1>4, <1>8, <2>4
    <2>6. 1 \in 1 .. R /\ 1 - 1 = 0
        BY <2>4, <2>5
    <2>7. P[g] = [k \in 1 .. R |-> substring(c, A, Round(c, A, k - 1), c.groups)]
        BY <1>6, <1>8, <2>1 DEF Repeated
    <2>8. P[g][1] = substring(c, A, Round(c, A, 0), c.groups) /\ 1 \in DOMAIN P[g]
        BY <2>6, <2>7
    <2>9. Round(c, A, 0) = m
        BY <1>1, <2>2, <2>4 DEF Round
    <2>10. P[g] # <<>>
        <3>1. DOMAIN <<>> = {}
            OBVIOUS
        <3> QED
            BY <2>8, <3>1
    <2> QED
        BY <1>5, <1>8, <2>8, <2>9, <2>10
<1> QED
    BY <1>7, <1>8

\* What ArgumentsIntact says of a command and its arguments.
Intact(c, given, A) == TakenInOrder(c, given, A) /\ RequiredGiven(c, given) /\ OptionTaken(c, given, A)

\* parse_and_create_args and argdup keep the words of a line.
LEMMA GivenIntact ==
    ASSUME NEW path, Shaped(Cmd[path]), NEW T, NEW A \in Seq(T), A # <<>>, ~Malformed(Cmd[path], A)
    PROVE  Intact(Cmd[path], Given(path, A), A)
<1>1. PICK c : c = Cmd[path]
    OBVIOUS
<1>2. PICK P : P = parse_and_create_args(c, A)
    OBVIOUS
<1>3. Shaped(c) /\ ~Malformed(c, A)
    BY <1>1
<1>4. PICK m : m = pcre2_match(c, A, 1)
    OBVIOUS
<1>5. /\ DOMAIN P = 1 .. c.groups
      /\ \A g \in 1 .. c.groups : ~(c.unk /\ g = c.groups) =>
            P[g] = IF g \in m.groups THEN <<substring(c, A, m, g)>> ELSE <<NULL>>
      /\ c.unk => P[c.groups] = Repeated(c, A)
    BY <1>2, <1>3, <1>4, ParsedIs
<1>6. \A g \in DOMAIN P : \E S : P[g] \in Seq(S)
    <2> SUFFICES ASSUME NEW g \in 1 .. c.groups
                 PROVE  \E S : P[g] \in Seq(S)
        BY <1>5
    <2>1. CASE ~(c.unk /\ g = c.groups)
        <3>1. PICK s : P[g] = <<s>>
            BY <1>5, <2>1
        <3>2. P[g] \in Seq({s})
            BY <3>1
        <3> QED
            BY <3>2
    <2>2. CASE c.unk /\ g = c.groups
        <3>1. PICK R : R = Rounds(c, A)
            OBVIOUS
        <3>2. R \in Nat
            <4>1. Looped(c, A, Begins(c, A), R) /\ Len(A) \in Nat
                BY <1>3, <2>2, <3>1, LoopIs, LenProperties DEF Shaped
            <4> QED
                BY <4>1 DEF Looped
        <3> DEFINE S == {substring(c, A, Round(c, A, k - 1), c.groups) : k \in 1 .. R}
        <3>3. P[g] = [k \in 1 .. R |-> substring(c, A, Round(c, A, k - 1), c.groups)]
            BY <1>5, <2>2, <3>1 DEF Repeated
        <3>4. P[g] \in [1 .. R -> S]
            BY <3>3
        <3> HIDE DEF S
        <3>5. P[g] \in Seq(S)
            BY <3>2, <3>4, SeqDef
        <3> QED
            BY <3>5
    <2> QED
        BY <2>1, <2>2
<1>7. \A g \in DOMAIN P : argdup(P[g]).queue = P[g]
    BY <1>6, argdupKeeps
<1>8. Given(path, A) = P
    <2>1. Given(path, A) = [g \in DOMAIN P |->
            IF path \in NeedsDebuggee \cup NeedsArgs THEN argdup(P[g]).queue ELSE P[g]]
        BY <1>1, <1>2, Zenon DEF Given
    <2>2. Given(path, A) = [g \in DOMAIN P |-> P[g]]
        BY <1>7, <2>1
    <2>3. P = [g \in DOMAIN P |-> P[g]]
        BY <1>2 DEF parse_and_create_args
    <2> QED
        BY <2>2, <2>3
<1>9. TakenInOrder(c, P, A) /\ RequiredGiven(c, P)
    BY <1>2, <1>3, InOrder, RequiredParsed
<1>10. OptionTaken(c, P, A)
    <2> SUFFICES ASSUME TakesAll(c), c.groups = 2, Len(A) >= 3,
                        c.regex.groups[1].flag \in Class[A[1]], c.regex.groups[1].class \in Class[A[2]],
                        c.regex.groups[2].class \in Class[A[3]]
                 PROVE  P[1] = <<<<A[2]>>>>
        BY DEF OptionTaken
    <2>1. 1 \in m.groups /\ substring(c, A, m, 1) = <<A[2]>>
        BY <1>3, <1>4, OptionFirst
    <2>2. 1 \in 1 .. c.groups /\ 1 # c.groups
        OBVIOUS
    <2>3. P[1] = <<substring(c, A, m, 1)>>
        BY <1>5, <2>1, <2>2
    <2> QED
        BY <2>1, <2>3
<1> QED
    BY <1>1, <1>8, <1>9, <1>10 DEF Intact

\* A command and those below it.
WellShaped(c) == Shaped(c) /\ \A s \in ToSet(c.subcmds) : Shaped(s)

LEMMA ChildShaped ==
    ASSUME NEW name, NEW regex, NEW groups \in Nat, NEW unk \in BOOLEAN, unk => groups >= 1
    PROVE  Shaped(create_child_cmd(name, regex, groups, unk))
<1>1. PICK c : c = create_child_cmd(name, regex, groups, unk)
    OBVIOUS
<1>2. c.groups = groups /\ c.unk = unk
    BY <1>1 DEF create_child_cmd
<1> QED
    BY <1>1, <1>2 DEF Shaped

LEMMA ParentShaped ==
    ASSUME NEW name, NEW alias, NEW regex, NEW groups \in Nat, NEW unk \in BOOLEAN, unk => groups >= 1,
           NEW subcmds, \A s \in ToSet(subcmds) : Shaped(s)
    PROVE  WellShaped(create_parent_cmd(name, alias, regex, groups, unk, subcmds))
<1>1. PICK c : c = create_parent_cmd(name, alias, regex, groups, unk, subcmds)
    OBVIOUS
<1>2. c.groups = groups /\ c.unk = unk /\ c.subcmds = subcmds
    BY <1>1 DEF create_parent_cmd
<1> QED
    BY <1>1, <1>2 DEF Shaped, WellShaped

\* The elements of short tuples.
LEMMA TupleElements ==
    /\ \A x : x \notin ToSet(<<>>)
    /\ \A a, x : x \in ToSet(<<a>>) => x = a
    /\ \A a, b, x : x \in ToSet(<<a, b>>) => x \in {a, b}
    /\ \A a, b, c, x : x \in ToSet(<<a, b, c>>) => x \in {a, b, c}
BY DEF ToSet

LEMMA EightShaped ==
    ASSUME NEW a, NEW b, NEW c, NEW d, NEW e, NEW f, NEW g, NEW h,
           WellShaped(a), WellShaped(b), WellShaped(c), WellShaped(d),
           WellShaped(e), WellShaped(f), WellShaped(g), WellShaped(h)
    PROVE  \A x \in ToSet(<<a, b, c, d, e, f, g, h>>) : WellShaped(x)
BY DEF ToSet

LEMMA TwelveShaped ==
    ASSUME NEW a, NEW b, NEW c, NEW d, NEW e, NEW f, NEW g, NEW h, NEW i, NEW j, NEW k, NEW l,
           WellShaped(a), WellShaped(b), WellShaped(c), WellShaped(d), WellShaped(e), WellShaped(f),
           WellShaped(g), WellShaped(h), WellShaped(i), WellShaped(j), WellShaped(k), WellShaped(l)
    PROVE  \A x \in ToSet(<<a, b, c, d, e, f, g, h, i, j, k, l>>) : WellShaped(x)
BY DEF ToSet

\* The calls that initialize_commands makes, whatever the names and the
\* expressions are.
LEMMA CreatedShaped ==
    /\ \A name, re, g : g \in {0, 1, 2, 3, 4} => Shaped(create_child_cmd(name, re, g, FALSE))
    /\ \A name, re, g : g \in {1, 2} => Shaped(create_child_cmd(name, re, g, TRUE))
    /\ \A name, alias, re, g :
            g \in {0, 1, 2, 3, 4} => WellShaped(create_parent_cmd(name, alias, re, g, FALSE, <<>>))
    /\ \A name, alias, re, g : g \in {1, 2} => WellShaped(create_parent_cmd(name, alias, re, g, TRUE, <<>>))
    /\ \A name : Shaped(BareChild(name))
    /\ \A name, alias : WellShaped(Bare(name, alias, <<>>))
    /\ \A name, alias, a : Shaped(a) => WellShaped(Bare(name, alias, <<a>>))
    /\ \A name, alias, a, b : Shaped(a) /\ Shaped(b) => WellShaped(Bare(name, alias, <<a, b>>))
    /\ \A name, alias, a, b, c :
            Shaped(a) /\ Shaped(b) /\ Shaped(c) => WellShaped(Bare(name, alias, <<a, b, c>>))
<1>1. \A g : g \in {0, 1, 2, 3, 4} => g \in Nat /\ (FALSE => g >= 1)
    OBVIOUS
<1>2. \A g : g \in {1, 2} => g \in Nat /\ (TRUE => g >= 1)
    OBVIOUS
<1>3. 0 \in Nat /\ TRUE \in BOOLEAN /\ FALSE \in BOOLEAN
    OBVIOUS
<1>4. \A name, re, g : g \in {0, 1, 2, 3, 4} => Shaped(create_child_cmd(name, re, g, FALSE))
    BY <1>1, <1>3, ChildShaped, Zenon
<1>5. \A name, re, g : g \in {1, 2} => Shaped(create_child_cmd(name, re, g, TRUE))
    BY <1>2, <1>3, ChildShaped, Zenon
<1>6. \A name, alias, re, g, subs :
        g \in {0, 1, 2, 3, 4} /\ (\A s \in ToSet(subs) : Shaped(s))
            => WellShaped(create_parent_cmd(name, alias, re, g, FALSE, subs))
    BY <1>1, <1>3, ParentShaped, Zenon
<1>7. \A name, alias, re, g, subs :
        g \in {1, 2} /\ (\A s \in ToSet(subs) : Shaped(s))
            => WellShaped(create_parent_cmd(name, alias, re, g, TRUE, subs))
    BY <1>2, <1>3, ParentShaped, Zenon
<1>8. 0 \in {0, 1, 2, 3, 4}
    OBVIOUS
<1>9. /\ \A s \in ToSet(<<>>) : Shaped(s)
      /\ \A a : Shaped(a) => \A s \in ToSet(<<a>>) : Shaped(s)
      /\ \A a, b : Shaped(a) /\ Shaped(b) => \A s \in ToSet(<<a, b>>) : Shaped(s)
      /\ \A a, b, c : Shaped(a) /\ Shaped(b) /\ Shaped(c) => \A s \in ToSet(<<a, b, c>>) : Shaped(s)
    BY TupleElements
<1>10. \A name : Shaped(BareChild(name))
    BY <1>4, <1>8, Zenon DEF BareChild
<1>11. \A name, alias, subs :
        (\A s \in ToSet(subs) : Shaped(s)) => WellShaped(Bare(name, alias, subs))
    BY <1>6, <1>8, Zenon DEF Bare
<1> QED
    BY <1>4, <1>5, <1>6, <1>7, <1>8, <1>9, <1>10, <1>11, Zenon

\* The tree of initialize_commands, part by part.
LEMMA FirstShaped == \A c \in ToSet(COMMANDS_aslr_to_memory) : WellShaped(c)
<1>1. 0 \in {0, 1, 2, 3, 4} /\ 1 \in {0, 1, 2, 3, 4} /\ 2 \in {0, 1, 2, 3, 4} /\ 3 \in {0, 1, 2, 3, 4}
      /\ 4 \in {0, 1, 2, 3, 4} /\ 1 \in {1, 2} /\ 2 \in {1, 2}
    OBVIOUS
<1>2. \A name, x, alias, re1, re2 :
        WellShaped(Bare(name, alias,
            <<create_child_cmd("delete", re1, 1, FALSE), BareChild(x), create_child_cmd("set", re2, 2, TRUE)>>))
    BY <1>1, CreatedShaped, Zenon
<1>3. \A name, alias, re1, re2 :
        WellShaped(Bare(name, alias,
            <<create_child_cmd("find", re1, 4, FALSE), create_child_cmd("write", re2, 3, FALSE)>>))
    BY <1>1, CreatedShaped, Zenon
<1>4. \A name, alias, re : /\ WellShaped(Bare(name, alias, <<>>))
                           /\ WellShaped(create_parent_cmd(name, alias, re, 1, FALSE, <<>>))
                           /\ WellShaped(create_parent_cmd(name, alias, re, 2, FALSE, <<>>))
                           /\ WellShaped(create_parent_cmd(name, alias, re, 3, FALSE, <<>>))
                           /\ WellShaped(create_parent_cmd(name, alias, re, 1, TRUE, <<>>))
    BY <1>1, CreatedShaped, Zenon
<1> QED
    BY <1>2, <1>3, <1>4, TwelveShaped, Zenon DEF COMMANDS_aslr_to_memory

LEMMA SecondShaped == \A c \in ToSet(COMMANDS_interrupt_to_trace) : WellShaped(c)
<1>1. /\ 1 \in {0, 1, 2, 3, 4} /\ 2 \in {0, 1, 2, 3, 4} /\ 4 \in {0, 1, 2, 3, 4} /\ 1 \in {1, 2}
    OBVIOUS
<1>2. /\ \A name, re : /\ Shaped(BareChild(name)) /\ Shaped(create_child_cmd(name, re, 1, FALSE))
                       /\ Shaped(create_child_cmd(name, re, 2, FALSE))
                       /\ Shaped(create_child_cmd(name, re, 4, FALSE))
                       /\ Shaped(create_child_cmd(name, re, 1, TRUE))
      /\ \A name, alias : WellShaped(Bare(name, alias, <<>>))
    BY <1>1, CreatedShaped, Zenon
<1>3. /\ \A name, alias, a : Shaped(a) => WellShaped(Bare(name, alias, <<a>>))
      /\ \A name, alias, a, b : Shaped(a) /\ Shaped(b) => WellShaped(Bare(name, alias, <<a, b>>))
    BY CreatedShaped, Zenon
<1> QED
    BY <1>2, <1>3, EightShaped, Zenon DEF COMMANDS_interrupt_to_trace

LEMMA ThirdShaped == \A c \in ToSet(COMMANDS_variable_to_watchpoint) : WellShaped(c)
<1>1. /\ 2 \in {0, 1, 2, 3, 4} /\ 4 \in {0, 1, 2, 3, 4} /\ 1 \in {1, 2}
    OBVIOUS
<1>2. /\ \A name, re : /\ Shaped(BareChild(name)) /\ Shaped(create_child_cmd(name, re, 2, FALSE))
                       /\ Shaped(create_child_cmd(name, re, 4, FALSE))
                       /\ Shaped(create_child_cmd(name, re, 1, TRUE))
      /\ \A name, alias, a, b, c :
            Shaped(a) /\ Shaped(b) /\ Shaped(c) => WellShaped(Bare(name, alias, <<a, b, c>>))
    BY <1>1, CreatedShaped, Zenon
<1>3. \A a, b : WellShaped(a) /\ WellShaped(b) => \A x \in ToSet(<<a, b>>) : WellShaped(x)
    BY TupleElements
<1> QED
    BY <1>2, <1>3, Zenon DEF COMMANDS_variable_to_watchpoint

\* The elements of two sequences joined.
LEMMA JoinedElements ==
    ASSUME NEW S, NEW T, NEW s \in Seq(S), NEW t \in Seq(T)
    PROVE  s \o t \in Seq(S \cup T) /\ \A x \in ToSet(s \o t) : x \in ToSet(s) \/ x \in ToSet(t)
<1>1. s \in Seq(S \cup T) /\ t \in Seq(S \cup T)
    <2>1. S \subseteq S \cup T /\ T \subseteq S \cup T
        OBVIOUS
    <2> QED
        BY <2>1, SeqMonotonic
<1>2. /\ s \o t \in Seq(S \cup T) /\ Len(s \o t) = Len(s) + Len(t)
      /\ \A i \in 1 .. Len(s) + Len(t) : (s \o t)[i] = IF i <= Len(s) THEN s[i] ELSE t[i - Len(s)]
    BY <1>1, ConcatProperties
<1>3. /\ Len(s) \in Nat /\ DOMAIN s = 1 .. Len(s) /\ Len(t) \in Nat /\ DOMAIN t = 1 .. Len(t)
    BY LenProperties
<1>4. PICK u : u = s \o t
    OBVIOUS
<1>5. DOMAIN u = 1 .. Len(s) + Len(t)
    BY <1>2, <1>4, LenProperties
<1>6. ASSUME NEW i \in DOMAIN u
      PROVE  u[i] \in ToSet(s) \/ u[i] \in ToSet(t)
    <2>1. CASE i <= Len(s)
        <3>1. i \in DOMAIN s /\ u[i] = s[i]
            BY <1>2, <1>3, <1>4, <1>5, <2>1
        <3> QED
            BY <3>1 DEF ToSet
    <2>2. CASE ~(i <= Len(s))
        <3>1. i - Len(s) \in DOMAIN t /\ u[i] = t[i - Len(s)]
            BY <1>2, <1>3, <1>4, <1>5, <2>2
        <3> QED
            BY <3>1 DEF ToSet
    <2> QED
        BY <2>1, <2>2
<1>7. \A x \in ToSet(u) : x \in ToSet(s) \/ x \in ToSet(t)
    BY <1>6 DEF ToSet
<1> QED
    BY <1>2, <1>4, <1>7

\* Tuples are sequences.
LEMMA TwelveIsSeq ==
    ASSUME NEW a, NEW b, NEW c, NEW d, NEW e, NEW f, NEW g, NEW h, NEW i, NEW j, NEW k, NEW l
    PROVE  \E S : <<a, b, c, d, e, f, g, h, i, j, k, l>> \in Seq(S)
<1> WITNESS {a, b, c, d, e, f, g, h, i, j, k, l}
<1> QED
    OBVIOUS

LEMMA EightIsSeq ==
    ASSUME NEW a, NEW b, NEW c, NEW d, NEW e, NEW f, NEW g, NEW h
    PROVE  \E S : <<a, b, c, d, e, f, g, h>> \in Seq(S)
<1> WITNESS {a, b, c, d, e, f, g, h}
<1> QED
    OBVIOUS

LEMMA TwoIsSeq ==
    ASSUME NEW a, NEW b
    PROVE  \E S : <<a, b>> \in Seq(S)
<1> WITNESS {a, b}
<1> QED
    OBVIOUS

\* Every command that there is.
LEMMA CmdShaped == \A p \in Paths : Shaped(Cmd[p])
<1>1. PICK s : s = COMMANDS_aslr_to_memory
    OBVIOUS
<1>2. PICK t : t = COMMANDS_interrupt_to_trace
    OBVIOUS
<1>3. PICK u : u = COMMANDS_variable_to_watchpoint
    OBVIOUS
<1>4. PICK S : s \in Seq(S)
    BY <1>1, TwelveIsSeq, Zenon DEF COMMANDS_aslr_to_memory
<1>5. PICK T : t \in Seq(T)
    BY <1>2, EightIsSeq, Zenon DEF COMMANDS_interrupt_to_trace
<1>6. PICK U : u \in Seq(U)
    BY <1>3, TwoIsSeq, Zenon DEF COMMANDS_variable_to_watchpoint
<1>7. \A c \in ToSet(COMMANDS) : WellShaped(c)
    <2>1. COMMANDS = s \o t \o u
        BY <1>1, <1>2, <1>3 DEF COMMANDS
    <2>2. /\ s \o t \in Seq(S \cup T)
          /\ \A x \in ToSet(s \o t) : x \in ToSet(s) \/ x \in ToSet(t)
        BY <1>4, <1>5, JoinedElements
    <2>3. \A x \in ToSet(s \o t \o u) : x \in ToSet(s \o t) \/ x \in ToSet(u)
        BY <1>6, <2>2, JoinedElements
    <2> QED
        BY <1>1, <1>2, <1>3, <2>1, <2>2, <2>3, FirstShaped, SecondShaped, ThirdShaped, Zenon
<1>8. \A node \in Tree : Shaped(node[2])
    <2> SUFFICES ASSUME NEW node \in Tree
                 PROVE  Shaped(node[2])
        OBVIOUS
    <2>1. PICK c \in ToSet(COMMANDS) :
            node \in {<<<<c.name>>, c>>} \cup {<<<<c.name, x.name>>, x>> : x \in ToSet(c.subcmds)}
        BY DEF Tree
    <2>2. Shaped(c) /\ \A x \in ToSet(c.subcmds) : Shaped(x)
        BY <1>7 DEF WellShaped
    <2>3. CASE node = <<<<c.name>>, c>>
        BY <2>2, <2>3
    <2>4. CASE \E x \in ToSet(c.subcmds) : node = <<<<c.name, x.name>>, x>>
        BY <2>2, <2>4
    <2> QED
        BY <2>1, <2>3, <2>4
<1> SUFFICES ASSUME NEW p \in Paths
             PROVE  Shaped(Cmd[p])
    OBVIOUS
<1>9. PICK n : n = CHOOSE node \in Tree : node[1] = p
    OBVIOUS
<1>10. n \in Tree
    BY <1>9 DEF Paths
<1>11. Cmd[p] = n[2]
    BY <1>9 DEF Cmd
<1> QED
    BY <1>8, <1>10, <1>11

----------------------------------------------------------------------------
(* What a line does.                                                       *)

\* CURRENT_MATCH_INFO after the loop.
LEMMA MatchedIs ==
    ASSUME NEW r, NEW m
    PROVE  /\ Matched(r, m) \in r.prev \cup {NoCmd, m}
           /\ r.prev = {} => Matched(r, m) \in {NoCmd, m}
           /\ r.prev # {} /\ Cardinality(r.prev) > 1 => Matched(r, m) = NoCmd
           /\ r.prev # {} /\ ~(Cardinality(r.prev) > 1) /\ r.clear =>
                Matched(r, m) = CHOOSE p \in r.prev : TRUE
<1>1. ~(Cardinality({}) > 1)
    BY FS_EmptySet
<1>2. PICK S : S = r.prev
    OBVIOUS
<1>3. PICK x : x = CHOOSE p \in S : TRUE
    OBVIOUS
<1>4. S # {} => x \in S
    BY <1>3
<1>5. Matched(r, m) =
        IF ~r.clear \/ Cardinality({}) > 1 THEN NoCmd
        ELSE IF Cardinality(S) > 1 THEN NoCmd
        ELSE IF S = {} THEN m ELSE x
    <2>1. Left(TRUE, S, m) = IF Cardinality(S) > 1 THEN NoCmd ELSE IF S = {} THEN m ELSE x
        BY <1>3 DEF Left
    <2>2. Matched(r, m) = Left(r.clear, {}, Left(TRUE, S, m))
        BY <1>2 DEF Matched
    <2>3. \A y, c : Left(c, {}, y) = IF ~c \/ Cardinality({}) > 1 THEN NoCmd ELSE y
        BY Zenon DEF Left
    <2> QED
        BY <2>1, <2>2, <2>3
<1>6. /\ Matched(r, m) \in S \cup {NoCmd, m}
      /\ S = {} => Matched(r, m) \in {NoCmd, m}
      /\ S # {} /\ Cardinality(S) > 1 => Matched(r, m) = NoCmd
      /\ S # {} /\ ~(Cardinality(S) > 1) /\ r.clear => Matched(r, m) = x
    BY <1>1, <1>4, <1>5
<1> QED
    BY <1>2, <1>3, <1>6

Objections == {None, "refused"}

\* What prepare_and_call_cmdfunc does with a match and the loop's verdict.
Prepared(d, path, args, undefined) ==
    /\ d.ran \in {NoCmd, path} /\ d.docs \in Paths \cup {NoCmd}
    /\ undefined => /\ d.ran = NoCmd /\ d.error = "undefined"
                    /\ d.shown \/ (path # NoCmd /\ path \notin Functions)
    /\ ~undefined => d.error \notin {"undefined", "ambiguous"}
    /\ d.error # "ambiguous"
    /\ ~undefined /\ path # NoCmd /\ d.ran = NoCmd => d.docs = path
    /\ d.ran # NoCmd => ~audit(path, args)
    /\ d.error = "audit" => audit(path, args)
    /\ d.ran # NoCmd => d.args = Given(path, args) /\ ~Malformed(Cmd[path], args)

\* prepare_and_call_cmdfunc runs a command only if there was no error and the
\* audit has nothing against it, and shows what is wrong otherwise.
LEMMA PrepareIs ==
    ASSUME NEW path \in Paths \cup {NoCmd}, NEW args, NEW undefined \in BOOLEAN,
           NEW objection \in Objections,
           NEW d, d = prepare_and_call_cmdfunc(path, args, undefined, objection)
    PROVE  Prepared(d, path, args, undefined)
<1> USE DEF Prepared
<1> DEFINE error == IF undefined THEN "undefined" ELSE None
           shows == IF path = <<"help">> /\ args # <<>> /\ Given(path, args)[1][1] # NULL
                    THEN documentation_for_cmdname(Given(path, args)[1][1]) ELSE NoCmd
           bad == Malformed(Cmd[path], args)
           refused == objection # None /\ args # <<>> /\ Cmd[path].groups > 0
<1>1. d = CASE path = NoCmd -> Did(NoCmd, <<>>, NoCmd, error, undefined)
            [] path \in Paths \ Functions -> Did(NoCmd, <<>>, path, error, FALSE)
            [] path \in Functions /\ undefined -> Did(NoCmd, <<>>, path, error, TRUE)
            [] path \in Functions /\ ~undefined /\ bad -> Did(NoCmd, <<>>, path, "malformed", TRUE)
            [] path \in Functions /\ ~undefined /\ ~bad
                  /\ objection # None /\ args # <<>> /\ Cmd[path].groups > 0
                                   -> Did(NoCmd, <<>>, path, objection, TRUE)
            [] path \in Functions /\ ~undefined /\ audit(path, args)
                                   -> Did(NoCmd, <<>>, path, "audit", TRUE)
            [] OTHER -> Did(path, Given(path, args), shows, None, FALSE)
    BY Zenon DEF prepare_and_call_cmdfunc
<1>2. Functions \subseteq Paths /\ NoCmd \notin Paths
    BY PathLengths DEF Functions
<1>3. shows \in Paths \cup {NoCmd}
    BY DEF documentation_for_cmdname
<1>4. /\ objection \notin {"undefined", "ambiguous", "audit"}
      /\ None \notin {"undefined", "ambiguous", "audit"}
      /\ "malformed" \notin {"undefined", "ambiguous", "audit"}
    BY DEF Objections, None
<1>5. undefined => error = "undefined"
    OBVIOUS
<1>6. ~undefined => error = None
    OBVIOUS
<1> HIDE DEF shows, error, bad
<1>7. CASE path = NoCmd
    <2>1. d = Did(NoCmd, <<>>, NoCmd, error, undefined)
        BY <1>1, <1>2, <1>7
    <2>2. d.ran = NoCmd /\ d.docs = NoCmd /\ d.error = error /\ d.shown = undefined
        BY <2>1 DEF Did
    <2> QED
        BY <1>4, <1>7, <1>5, <1>6, <2>2
<1>8. CASE path \in Paths \ Functions
    <2>1. d = Did(NoCmd, <<>>, path, error, FALSE)
        BY <1>1, <1>2, <1>8
    <2>2. d.ran = NoCmd /\ d.docs = path /\ d.error = error
        BY <2>1 DEF Did
    <2> QED
        BY <1>2, <1>4, <1>8, <1>5, <1>6, <2>2
<1>9. CASE path \in Functions /\ undefined
    <2>1. d = Did(NoCmd, <<>>, path, error, TRUE)
        BY <1>1, <1>2, <1>9
    <2>2. d.ran = NoCmd /\ d.docs = path /\ d.error = error /\ d.shown
        BY <2>1 DEF Did
    <2> QED
        BY <1>2, <1>4, <1>9, <1>5, <1>6, <2>2
<1>10. CASE path \in Functions /\ ~undefined /\ (bad \/ refused \/ audit(path, args))
    <2>1. \/ d = Did(NoCmd, <<>>, path, objection, TRUE)
          \/ d = Did(NoCmd, <<>>, path, "malformed", TRUE)
          \/ d = Did(NoCmd, <<>>, path, "audit", TRUE) /\ audit(path, args)
        BY <1>1, <1>2, <1>10
    <2>2. /\ d.ran = NoCmd /\ d.docs = path
          /\ d.error \in {objection, "malformed"} \/ (d.error = "audit" /\ audit(path, args))
        BY <2>1 DEF Did
    <2> QED
        BY <1>2, <1>4, <1>10, <2>2
<1>11. CASE path \in Functions /\ ~undefined /\ ~bad /\ ~refused /\ ~audit(path, args)
    <2>1. d = Did(path, Given(path, args), shows, None, FALSE)
        BY <1>1, <1>2, <1>11
    <2>2. d.ran = path /\ d.docs = shows /\ d.error = None /\ d.args = Given(path, args)
        BY <2>1 DEF Did
    <2>3. ~Malformed(Cmd[path], args)
        BY <1>11 DEF bad
    <2> QED
        BY <1>2, <1>3, <1>4, <1>11, <2>2, <2>3
<1> QED
    BY <1>2, <1>7, <1>8, <1>9, <1>10, <1>11

\* The four ways the loop can end, r being its result: nothing was typed, the
\* first word is unknown, the last word matched is ambiguous, or it is not.
NothingTyped(r) == ~r.undefined /\ r.prev = {}
Unknown(r)      == r.undefined /\ r.prev = {}
Several(r)      == ~r.undefined /\ Cardinality(r.prev) > 1 /\ r.prev # {} /\ r.prev \subseteq Paths
NamesOne(r, M)  ==
    /\ ~r.undefined /\ r.prev # {} /\ ~(Cardinality(r.prev) > 1) /\ r.clear
    /\ r.prev \subseteq Paths /\ M.kind = "path" /\ M.path = (CHOOSE p \in r.prev : TRUE)
    /\ r.args = M.args /\ M.args \in Seq(Spoken)

\* The loop agrees with the reference.
LEMMA LoopAgrees ==
    ASSUME NEW typed, NEW words, words = expand_aliases(typed), LineWords(words), words # <<>>,
           NEW help \in BOOLEAN, NEW r, r = Resolved(words, help),
           NEW M, M = Meaning(typed)
    PROVE  /\ r.undefined \in BOOLEAN
           /\ help => Unknown(r)
           /\ ~help => \/ Unknown(r) /\ M.kind = "undefined"
                       \/ Several(r) /\ M.kind = "ambiguous"
                       \/ NamesOne(r, M)
<1>1. CASE help
    <2>1. r.undefined \in BOOLEAN /\ r.undefined /\ r.prev = {}
        BY <1>1, ResolvedHelp
    <2> QED
        BY <1>1, <2>1 DEF Unknown
<1>2. CASE ~help
    <2> DEFINE tops == TopsOf(words)
               subs == SubsOf(words)
               two  == Len(words) > 1
    <2>1. /\ r.undefined \in BOOLEAN
          /\ tops = {} => r.undefined /\ r.prev = {} /\ r.args = <<>>
          /\ tops # {} => ~r.undefined
          /\ tops # {} /\ Cardinality(tops) > 1 => r.prev = tops
          /\ tops # {} /\ ~(Cardinality(tops) > 1) =>
                /\ ~two \/ subs = {} =>
                    r.prev = tops /\ r.clear /\ r.args = SubSeq(words, 2, Len(words))
                /\ two /\ subs # {} =>
                    /\ r.prev = subs /\ r.args = SubSeq(words, 3, Len(words))
                    /\ ~(Cardinality(subs) > 1) => r.clear
        BY <1>2, ResolvedWords
    <2>2. /\ tops = {} => M.kind = "undefined"
          /\ tops # {} /\ (Cardinality(tops) > 1 \/ (two /\ Cardinality(subs) > 1))
                => M.kind = "ambiguous"
          /\ tops # {} /\ ~(Cardinality(tops) > 1) =>
                /\ ~two \/ subs = {} =>
                    /\ M.kind = "path" /\ M.path = (CHOOSE p \in tops : TRUE)
                    /\ M.args = SubSeq(words, 2, Len(words))
                /\ two /\ subs # {} /\ ~(Cardinality(subs) > 1) =>
                    /\ M.kind = "path" /\ M.path = (CHOOSE p \in subs : TRUE)
                    /\ M.args = SubSeq(words, 3, Len(words))
        BY MeaningIs
    <2>3. tops \subseteq Paths /\ subs \subseteq Paths
        BY DEF TopsOf, SubsOf
    <2>9. /\ SubSeq(words, 2, Len(words)) \in Seq(Spoken)
          /\ two => SubSeq(words, 3, Len(words)) \in Seq(Spoken)
        <3>1. /\ words \in Seq(Spoken) /\ Len(words) \in Nat /\ Len(words) # 0
              /\ \A i \in 1 .. Len(words) : words[i] \in Spoken
            BY LenProperties, ElementOfSeq, EmptySeq DEF LineWords, GoodWords
        <3>2. \A k \in {2, 3} : \A i \in k .. Len(words) : words[i] \in Spoken
            BY <3>1
        <3>3. 2 \in 1 .. Len(words) + 1 /\ (two => 3 \in 1 .. Len(words) + 1) /\ Len(words) \in 0 .. Len(words)
            BY <3>1
        <3> QED
            BY <3>1, <3>2, <3>3, SubSeqProperties
    <2> HIDE DEF tops, subs, two
    <2>4. CASE tops = {}
        BY <1>2, <2>1, <2>2, <2>4 DEF Unknown
    <2>5. CASE tops # {} /\ Cardinality(tops) > 1
        BY <1>2, <2>1, <2>2, <2>3, <2>5 DEF Several
    <2>6. CASE tops # {} /\ ~(Cardinality(tops) > 1) /\ (~two \/ subs = {})
        BY <1>2, <2>1, <2>2, <2>3, <2>6, <2>9 DEF NamesOne
    <2>7. CASE tops # {} /\ ~(Cardinality(tops) > 1) /\ two /\ subs # {} /\ Cardinality(subs) > 1
        BY <1>2, <2>1, <2>2, <2>3, <2>7 DEF Several
    <2>8. CASE tops # {} /\ ~(Cardinality(tops) > 1) /\ two /\ subs # {} /\ ~(Cardinality(subs) > 1)
        BY <1>2, <2>1, <2>2, <2>3, <2>8, <2>9 DEF NamesOne
    <2> QED
        BY <2>4, <2>5, <2>6, <2>7, <2>8
<1> QED
    BY <1>1, <1>2

\* What holds of a line whatever it says: what it leaves behind, and what the
\* match m that was there before can do.
Harmless(d, path, m) ==
    /\ d.ran \in Paths \cup {NoCmd} /\ d.docs \in Paths \cup {NoCmd}
    /\ d.error = "ambiguous" => path = NoCmd
    /\ d.ran \in NeedsDebuggee => attached
    /\ d.error = "undefined" => d.shown \/ (m # NoCmd /\ m \notin Functions)

\* What a line with a meaning does.
DoesWhatItSays(d, M, help) ==
    /\ M.kind = "path" =>
        /\ d.ran \in {NoCmd, M.path}
        /\ ~help => d.error \notin {"undefined", "ambiguous"}
        /\ d.ran = NoCmd /\ d.error # "undefined" => d.docs = M.path
        /\ d.error = "audit" /\ M.args # <<>> => M.path \in NeedsDebuggee /\ ~attached
        /\ d.ran # NoCmd /\ M.args # <<>> => Intact(Cmd[d.ran], d.args, M.args)
    /\ M.kind # "path" =>
        /\ d.ran = NoCmd
        /\ ~help => d.error = M.kind

\* No command that needs a debuggee is the empty path.
LEMMA NoneNeedsNothing == NoCmd \notin NeedsDebuggee
<1>1. \A a : <<a>> # <<>>
    OBVIOUS
<1>2. \A a, b : <<a, b>> # <<>>
    OBVIOUS
<1> QED
    BY <1>1, <1>2, Zenon DEF NoCmd, NeedsDebuggee, AUDITS_aslr_to_kill, AUDITS_memory_to_watchpoint

LEMMA OutcomeHarmless ==
    ASSUME NEW r, r.undefined \in BOOLEAN, NEW m \in Paths \cup {NoCmd},
           r.prev \subseteq Paths, r.undefined => r.prev = {},
           NEW objection \in Objections, NEW path, path = Matched(r, m),
           NEW d, d = do_cmdline_command(r, path, objection)
    PROVE  Harmless(d, path, m)
<1>1. CASE Cardinality(r.prev) > 1
    <2>1. r.prev # {} /\ path = NoCmd
        BY <1>1, MatchedIs, FS_EmptySet
    <2>2. d = Did(NoCmd, <<>>, NoCmd, "ambiguous", TRUE)
        BY <1>1 DEF do_cmdline_command
    <2>3. d.ran = NoCmd /\ d.docs = NoCmd /\ d.error = "ambiguous"
        BY <2>2 DEF Did
    <2> QED
        BY <2>1, <2>3, NoneNeedsNothing DEF Harmless
<1>2. CASE ~(Cardinality(r.prev) > 1)
    <2>1. path \in Paths \cup {NoCmd}
        BY MatchedIs
    <2>2. d = prepare_and_call_cmdfunc(path, r.args, r.undefined, objection)
        BY <1>2 DEF do_cmdline_command
    <2>3. PICK u \in BOOLEAN : u = r.undefined
        OBVIOUS
    <2>4. PICK a : a = r.args
        OBVIOUS
    <2>5. /\ d.ran \in {NoCmd, path} /\ d.docs \in Paths \cup {NoCmd}
          /\ u => d.shown \/ (path # NoCmd /\ path \notin Functions)
          /\ ~u => d.error # "undefined"
          /\ d.error # "ambiguous"
          /\ d.ran # NoCmd => ~audit(path, a)
        <3>1. d = prepare_and_call_cmdfunc(path, a, u, objection)
            BY <2>2, <2>3, <2>4
        <3> QED
            BY <2>1, <3>1, PrepareIs DEF Prepared
    <2>6. u => path \in {NoCmd, m}
        BY <2>3, MatchedIs
    <2>7. d.ran \in NeedsDebuggee => attached
        BY <2>5, NoneNeedsNothing DEF audit
    <2> QED
        BY <2>1, <2>5, <2>6, <2>7 DEF Harmless
<1> QED
    BY <1>1, <1>2

LEMMA OutcomeFollows ==
    ASSUME NEW r, r.undefined \in BOOLEAN, NEW m \in Paths \cup {NoCmd}, NEW help \in BOOLEAN, NEW M,
           help => Unknown(r),
           ~help => \/ Unknown(r) /\ M.kind = "undefined"
                    \/ Several(r) /\ M.kind = "ambiguous"
                    \/ NamesOne(r, M),
           NEW objection \in Objections, NEW path, path = Matched(r, m),
           NEW d, d = do_cmdline_command(r, path, objection)
    PROVE  DoesWhatItSays(d, M, help)
<1>1. PICK u \in BOOLEAN : u = r.undefined
    OBVIOUS
<1>2. PICK a : a = r.args
    OBVIOUS
<1>3. ~(Cardinality(r.prev) > 1) => d = prepare_and_call_cmdfunc(path, a, u, objection)
    BY <1>1, <1>2 DEF do_cmdline_command
<1>4. CASE Unknown(r)
    <2>1. ~(Cardinality(r.prev) > 1) /\ path \in Paths \cup {NoCmd} /\ u
        BY <1>1, <1>4, MatchedIs, FS_EmptySet DEF Unknown
    <2>2. d.ran = NoCmd /\ d.error = "undefined"
        <3>1. d = prepare_and_call_cmdfunc(path, a, u, objection)
            BY <1>3, <2>1
        <3>2. Prepared(d, path, a, u)
            BY <2>1, <3>1, PrepareIs
        <3> QED
            BY <2>1, <3>2 DEF Prepared
    <2>3. help \/ M.kind = "undefined"
        BY <1>4 DEF Unknown, Several, NamesOne
    <2> QED
        BY <2>2, <2>3 DEF DoesWhatItSays
<1>5. CASE ~help /\ Several(r) /\ M.kind = "ambiguous"
    <2>1. d = Did(NoCmd, <<>>, NoCmd, "ambiguous", TRUE)
        BY <1>5 DEF do_cmdline_command, Several
    <2>2. d.ran = NoCmd /\ d.error = "ambiguous"
        BY <2>1 DEF Did
    <2> QED
        BY <1>5, <2>2 DEF DoesWhatItSays
<1>6. CASE ~help /\ NamesOne(r, M)
    <2>1. /\ path = M.path /\ path \in Paths /\ path # NoCmd /\ M.kind = "path" /\ a = M.args /\ ~u
          /\ ~(Cardinality(r.prev) > 1)
        <3>1. path = CHOOSE p \in r.prev : TRUE
            BY <1>6, MatchedIs DEF NamesOne
        <3>2. (CHOOSE p \in r.prev : TRUE) \in r.prev
            BY <1>6 DEF NamesOne
        <3> QED
            BY <1>1, <1>2, <1>6, <3>1, <3>2, PathLengths DEF NamesOne
    <2>2. /\ d.ran \in {NoCmd, path}
          /\ d.error \notin {"undefined", "ambiguous"}
          /\ d.ran = NoCmd => d.docs = path
          /\ d.error = "audit" => audit(path, a)
          /\ d.ran # NoCmd => d.args = Given(path, a) /\ ~Malformed(Cmd[path], a)
        <3>1. d = prepare_and_call_cmdfunc(path, a, u, objection)
            BY <1>3, <2>1
        <3>2. Prepared(d, path, a, u)
            BY <2>1, <3>1, PrepareIs
        <3> QED
            BY <2>1, <3>2 DEF Prepared
    <2>3. audit(path, a) /\ a # <<>> => path \in NeedsDebuggee /\ ~attached
        BY DEF audit
    <2>4. a # <<>> /\ ~Malformed(Cmd[path], a) => Intact(Cmd[path], Given(path, a), a)
        <3>1. a \in Seq(Spoken)
            BY <1>6, <2>1 DEF NamesOne
        <3>2. Shaped(Cmd[path])
            BY <2>1, CmdShaped
        <3> QED
            BY <3>1, <3>2, GivenIntact
    <2> QED
        BY <2>1, <2>2, <2>3, <2>4 DEF DoesWhatItSays
<1> QED
    BY <1>4, <1>5, <1>6

----------------------------------------------------------------------------
(* The steps.                                                              *)

\* The words that linecb passes on.
LEMMA WordsPassedOn ==
    ASSUME PrevlineInv, NEW line \in Lines,
           NEW typed, typed = Effective(line).words, NEW words, words = expand_aliases(typed)
    PROVE  LineWords(words) /\ (words = <<>> <=> typed = <<>>)
<1>1. typed \in Seq(Words) /\ \E l \in Lines : typed = l.words
    BY EffectiveLine
<1>2. /\ words \in Seq(Spoken) /\ Len(words) = Len(typed)
      /\ \A i \in DOMAIN typed : i # 1 => words[i] = typed[i] /\ typed[i] \in Words
    BY <1>1, Expanded
<1>3. DOMAIN words = DOMAIN typed
    BY <1>1, <1>2, LenProperties
<1>4. Empty \notin Words
    BY WordAssumption
<1>5. GoodWords(words)
    BY <1>2, <1>3, <1>4 DEF GoodWords
<1>6. words = <<>> <=> typed = <<>>
    BY <1>1, <1>2, EmptySeq
<1> QED
    BY <1>1, <1>5, <1>6 DEF LineWords

\* From any state of the completer, a line does what it says, and no harm.
LEMMA LineDoes ==
    ASSUME PrevlineInv, match \in Paths \cup {NoCmd}, NEW line \in Lines, NEW help \in BOOLEAN,
           NEW typed, typed = Effective(line).words,
           NEW r, r = Resolved(expand_aliases(typed), help),
           NEW objection \in Objections, NEW d, d = do_cmdline_command(r, Matched(r, match), objection)
    PROVE  /\ Harmless(d, Matched(r, match), match)
           /\ typed # <<>> => DoesWhatItSays(d, Meaning(typed), help)
<1>1. PICK words : words = expand_aliases(typed)
    OBVIOUS
<1>2. LineWords(words) /\ (words = <<>> <=> typed = <<>>)
    BY <1>1, WordsPassedOn
<1>3. PICK M : M = Meaning(typed)
    OBVIOUS
<1>4. PICK path : path = Matched(r, match)
    OBVIOUS
<1>5. r = Resolved(words, help) /\ d = do_cmdline_command(r, path, objection)
    BY <1>1, <1>4
<1>6. CASE typed = <<>>
    <2>1. r.undefined \in BOOLEAN /\ ~r.undefined /\ r.prev = {}
        BY <1>2, <1>5, <1>6, ResolvedEmpty
    <2>2. Harmless(d, path, match)
        BY <1>4, <1>5, <2>1, OutcomeHarmless
    <2> QED
        BY <1>4, <1>6, <2>2
<1>7. CASE typed # <<>>
    <2>1. /\ r.undefined \in BOOLEAN
          /\ help => Unknown(r)
          /\ ~help => \/ Unknown(r) /\ M.kind = "undefined"
                      \/ Several(r) /\ M.kind = "ambiguous"
                      \/ NamesOne(r, M)
        BY <1>1, <1>2, <1>3, <1>5, <1>7, LoopAgrees
    <2>2. r.prev \subseteq Paths /\ (r.undefined => r.prev = {})
        <3>1. CASE Unknown(r)
            BY <3>1 DEF Unknown
        <3>2. CASE Several(r)
            BY <3>2 DEF Several
        <3>3. CASE NamesOne(r, M)
            BY <3>3 DEF NamesOne
        <3> QED
            BY <2>1, <3>1, <3>2, <3>3
    <2>3. Harmless(d, path, match)
        BY <1>4, <1>5, <2>1, <2>2, OutcomeHarmless
    <2>4. DoesWhatItSays(d, M, help)
        BY <1>4, <1>5, <2>1, OutcomeFollows
    <2> QED
        BY <1>3, <1>4, <2>3, <2>4
<1> QED
    BY <1>6, <1>7

LEMMA LinecbStep ==
    ASSUME IInv, NEW line \in Lines, NEW key \in {"return", "newline"}, NEW objection \in Objections,
           linecb(line, key, objection)
    PROVE  IInv'
<1>1. PICK e : e = Effective(line)
    OBVIOUS
<1>2. PICK typed : typed = e.words
    OBVIOUS
<1>3. PICK help \in BOOLEAN : help = Helping(key)
    BY DEF Helping
<1>4. key = "return" => ~help
    BY <1>3 DEF Helping
<1>5. PICK r : r = Resolved(expand_aliases(typed), help)
    OBVIOUS
<1>6. PICK d : d = do_cmdline_command(r, Matched(r, match), objection)
    OBVIOUS
<1>7. /\ e.kind # "shell"
      /\ last' = [line |-> Remembered(e), key |-> key, stale |-> match,
                  ran |-> d.ran, args |-> d.args, docs |-> d.docs,
                  error |-> d.error, shown |-> d.shown, debuggee |-> attached]
      /\ cmdfunc(d.ran)
      /\ match' = IF d.error = "ambiguous" THEN Matched(r, match) ELSE NoCmd
      /\ tabbed' = NoCmd /\ prevline' = Remembered(e) /\ is_help' = help
    BY <1>1, <1>2, <1>3, <1>5, <1>6, Zenon DEF linecb
<1>8. /\ Harmless(d, Matched(r, match), match)
      /\ typed # <<>> => DoesWhatItSays(d, Meaning(typed), help)
    BY <1>1, <1>2, <1>5, <1>6, LineDoes DEF IInv, TypeOK
<1>9. match' = NoCmd
    BY <1>7, <1>8 DEF Harmless
<1>10. /\ last'.line = Remembered(e) /\ last'.key = key /\ last'.stale = match
       /\ last'.ran = d.ran /\ last'.docs = d.docs /\ last'.error = d.error
       /\ last'.shown = d.shown /\ last'.debuggee = attached /\ last'.args = d.args
    BY <1>7
<1>11. Remembered(e).words = typed /\ Remembered(e).kind = "words"
    BY <1>2, <1>7 DEF Remembered, Line
<1>12. TypeOK'
    <2>1. attached' \in BOOLEAN /\ running' \in BOOLEAN
        <3>1. attached \in BOOLEAN
            BY DEF IInv, TypeOK
        <3> QED
            BY <1>7, <3>1 DEF cmdfunc
    <2> QED
        BY <1>7, <1>8, <1>9, <1>10, <1>11, <2>1 DEF TypeOK, Harmless
<1>13. PrevlineInv'
    <2>1. \E l \in Lines : typed = l.words
        BY <1>1, <1>2, EffectiveLine DEF IInv
    <2> QED
        BY <1>7, <1>11, <2>1 DEF PrevlineInv
<1>14. (TypedCommandRuns /\ RejectedNeverRuns /\ ArgumentsIntact)'
    <2>1. HasWords' <=> typed # <<>>
        BY <1>10, <1>11 DEF HasWords
    <2>2. Means' = Meaning(typed)
        BY <1>10, <1>11 DEF Means
    <2>3. PICK M : M = Meaning(typed)
        OBVIOUS
    <2>4. CASE typed # <<>>
        <3>1. DoesWhatItSays(d, M, help)
            BY <1>8, <2>3, <2>4
        <3>2. /\ TypedCommandRuns' <=>
                    (M.kind = "path" =>
                        /\ d.ran \in {NoCmd, M.path}
                        /\ key = "return" => d.error \notin {"undefined", "ambiguous"}
                        /\ d.ran = NoCmd /\ d.error # "undefined" => d.docs = M.path
                        /\ d.error = "audit" /\ M.args # <<>> => M.path \in NeedsDebuggee /\ ~attached)
              /\ RejectedNeverRuns' <=>
                    (M.kind # "path" => d.ran = NoCmd /\ (key = "return" => d.error = M.kind))
            BY <1>10, <2>1, <2>2, <2>3, <2>4 DEF TypedCommandRuns, RejectedNeverRuns
        <3>3. (d.ran # NoCmd /\ M.args # <<>> => Intact(Cmd[d.ran], d.args, M.args)) => ArgumentsIntact'
            BY <1>10, <2>2, <2>3 DEF ArgumentsIntact, Intact
        <3> QED
            BY <1>4, <3>1, <3>2, <3>3 DEF DoesWhatItSays
    <2>5. CASE typed = <<>>
        BY <2>1, <2>5 DEF TypedCommandRuns, RejectedNeverRuns, ArgumentsIntact
    <2> QED
        BY <2>4, <2>5
<1>15. StaleMatchHarmless'
    <2>1. OnlyTabLeavesMatch'
        BY <1>7, <1>9 DEF OnlyTabLeavesMatch
    <2>2. GuardedHasDebuggee'
        BY <1>8, <1>10 DEF Harmless, GuardedHasDebuggee
    <2>3. UndefinedIsReported'
        BY <1>8, <1>10 DEF Harmless, UndefinedIsReported
    <2> QED
        BY <2>1, <2>2, <2>3 DEF StaleMatchHarmless
<1> QED
    BY <1>12, <1>13, <1>14, <1>15 DEF IInv

LEMMA ShellStep ==
    ASSUME IInv, NEW line \in Lines, NEW key \in {"return", "newline"}, linecb_shell(line, key)
    PROVE  IInv'
<1>1. PICK e : e = Effective(line)
    OBVIOUS
<1>2. /\ e.kind = "shell" /\ prevline' = e /\ is_help' = Helping(key)
      /\ last' = [Nothing EXCEPT !.line = e, !.key = key]
      /\ UNCHANGED <<match, attached, running, tabbed>>
    BY <1>1 DEF linecb_shell
<1>3. e.words = <<>> /\ \E l \in Lines : e.words = l.words
    BY <1>1, <1>2, EffectiveLine DEF IInv
<1>4. /\ last'.line = e /\ last'.ran = NoCmd /\ last'.docs = NoCmd /\ last'.error = None
    BY <1>2 DEF Nothing
<1>5. TypeOK'
    BY <1>2, <1>4 DEF IInv, TypeOK, Helping
<1>6. PrevlineInv'
    BY <1>2, <1>3 DEF PrevlineInv
<1>7. (TypedCommandRuns /\ RejectedNeverRuns /\ ArgumentsIntact)'
    <2>1. ~HasWords'
        BY <1>3, <1>4 DEF HasWords
    <2> QED
        BY <2>1 DEF TypedCommandRuns, RejectedNeverRuns, ArgumentsIntact
<1>8. StaleMatchHarmless'
    <2>1. OnlyTabLeavesMatch'
        BY <1>2 DEF IInv, StaleMatchHarmless, OnlyTabLeavesMatch
    <2>2. GuardedHasDebuggee'
        BY <1>4, NoneNeedsNothing DEF GuardedHasDebuggee
    <2>3. UndefinedIsReported'
        BY <1>4 DEF UndefinedIsReported, None
    <2> QED
        BY <2>1, <2>2, <2>3 DEF StaleMatchHarmless
<1> QED
    BY <1>5, <1>6, <1>7, <1>8 DEF IInv

\* Completing a word leaves a command, or nothing.
LEMMA LeftIsPath ==
    ASSUME NEW clear, NEW found \in SUBSET Paths, NEW m \in Paths \cup {NoCmd}
    PROVE  Left(clear, found, m) \in Paths \cup {NoCmd}
BY DEF Left

LEMMA GeneratorFindsPaths ==
    \A line, text, help : completion_generator(line, text, help).found \in SUBSET Paths
BY DEF completion_generator, match_at_level

\* What was there before a step that prints nothing is still there.
LEMMA HistoryKept ==
    ASSUME IInv, UNCHANGED <<prevline, last>>
    PROVE  /\ PrevlineInv' /\ (TypedCommandRuns /\ RejectedNeverRuns /\ ArgumentsIntact)'
           /\ GuardedHasDebuggee' /\ UndefinedIsReported'
           /\ (prevline.kind \in {"none", "words", "shell"})'
           /\ ({last.ran, last.docs} \subseteq Paths \cup {NoCmd})'
<1>1. PrevlineInv'
    BY DEF IInv, PrevlineInv
<1>2. HasWords' = HasWords /\ Means' = Means
    BY DEF HasWords, Means
<1>3. TypedCommandRuns'
    BY <1>2 DEF IInv, TypedCommandRuns
<1>4. RejectedNeverRuns'
    BY <1>2 DEF IInv, RejectedNeverRuns
<1>5. GuardedHasDebuggee' /\ UndefinedIsReported'
    BY DEF IInv, StaleMatchHarmless, GuardedHasDebuggee, UndefinedIsReported
<1>6. ArgumentsIntact'
    BY <1>2 DEF IInv, ArgumentsIntact
<1> QED
    BY <1>1, <1>3, <1>4, <1>5, <1>6 DEF IInv, TypeOK

LEMMA TabStep ==
    ASSUME IInv, NEW words \in Typed, Tab(words)
    PROVE  IInv'
<1>1. is_help \in BOOLEAN
    BY DEF IInv, TypeOK
<1>2. PICK one : one = FirstTab[words][is_help]
    OBVIOUS
<1>3. is_help' = (is_help \/ one.found = {<<"help">>})
    BY <1>2 DEF Tab
<1>4. is_help' \in BOOLEAN
    BY <1>1, <1>3
<1>5. PICK two : two = SecondTab[words][is_help']
    OBVIOUS
<1>6. /\ match' = Left(two.clear, two.found, Left(one.clear, one.found, match))
      /\ tabbed' = match' /\ UNCHANGED <<prevline, attached, running, last>>
    BY <1>2, <1>5 DEF Tab
<1>7. one.found \in SUBSET Paths
    <2>1. one = rl_getc_completes(words, is_help)
        BY <1>1, <1>2 DEF FirstTab
    <2> DEFINE line == Plain(SelectSeq(words, LAMBDA w : w # Empty))
    <2>2. one = IF line = <<>> THEN [clear |-> TRUE, found |-> {}]
                ELSE completion_generator(line, line[1], is_help)
        BY <2>1 DEF rl_getc_completes
    <2> HIDE DEF line
    <2>3. CASE line = <<>>
        <3>1. one = [clear |-> TRUE, found |-> {}]
            BY <2>2, <2>3
        <3> QED
            BY <3>1
    <2>4. CASE line # <<>>
        BY <2>2, <2>4, GeneratorFindsPaths
    <2> QED
        BY <2>3, <2>4
<1>8. two.found \in SUBSET Paths
    <2>1. two = readline_completes(words, is_help')
        BY <1>4, <1>5 DEF SecondTab
    <2> QED
        BY <2>1, GeneratorFindsPaths DEF readline_completes
<1>9. match' \in Paths \cup {NoCmd}
    <2>1. match \in Paths \cup {NoCmd}
        BY DEF IInv, TypeOK
    <2>2. Left(one.clear, one.found, match) \in Paths \cup {NoCmd}
        BY <1>7, <2>1, LeftIsPath
    <2> QED
        BY <1>6, <1>8, <2>2, LeftIsPath
<1>10. TypeOK'
    BY <1>4, <1>6, <1>9, HistoryKept DEF IInv, TypeOK
<1>11. OnlyTabLeavesMatch'
    BY <1>6 DEF OnlyTabLeavesMatch
<1> QED
    BY <1>6, <1>10, <1>11, HistoryKept DEF IInv, StaleMatchHarmless

LEMMA DiesStep ==
    ASSUME IInv, DebuggeeDies \/ UNCHANGED vars
    PROVE  IInv'
<1>1. /\ UNCHANGED <<match, is_help, prevline, running, last, tabbed>>
      /\ attached' = attached \/ attached' = FALSE
    <2>1. CASE DebuggeeDies
        BY <2>1, Zenon DEF DebuggeeDies
    <2>2. CASE UNCHANGED vars
        BY <2>2, Zenon DEF vars
    <2> QED
        BY <2>1, <2>2
<1>2. TypeOK'
    BY <1>1 DEF IInv, TypeOK
<1>3. OnlyTabLeavesMatch'
    BY <1>1 DEF IInv, StaleMatchHarmless, OnlyTabLeavesMatch
<1> QED
    BY <1>1, <1>2, <1>3, HistoryKept DEF IInv, StaleMatchHarmless

LEMMA InitOK == Init => IInv
<1> SUFFICES ASSUME Init
             PROVE  IInv
    OBVIOUS
<1>1. /\ last.line.words = <<>> /\ last.ran = NoCmd /\ last.docs = NoCmd /\ last.error = None
    BY DEF Init, Nothing, EmptyLine, Line
<1>2. TypeOK
    BY <1>1 DEF Init, TypeOK, NoLine
<1>3. PrevlineInv
    BY DEF Init, PrevlineInv
<1>4. TypedCommandRuns /\ RejectedNeverRuns /\ ArgumentsIntact
    BY <1>1 DEF TypedCommandRuns, RejectedNeverRuns, ArgumentsIntact, HasWords
<1>5. StaleMatchHarmless
    BY <1>1, NoneNeedsNothing
       DEF Init, StaleMatchHarmless, OnlyTabLeavesMatch, GuardedHasDebuggee, UndefinedIsReported, None
<1> QED
    BY <1>2, <1>3, <1>4, <1>5 DEF IInv

\* Every state of the command line keeps the inductive invariant: a line is
\* interpreted by its words alone, and only TAB leaves a match behind.
THEOREM CommandsInductive == Spec => []IInv
<1>1. Init => IInv
    BY InitOK
<1>2. IInv /\ [Next]_vars => IInv'
    <2> SUFFICES ASSUME IInv, [Next]_vars
                 PROVE  IInv'
        OBVIOUS
    <2>1. ASSUME NEW words \in Typed, Tab(words)
          PROVE  IInv'
        BY <2>1, TabStep
    <2>2. ASSUME NEW line \in Lines, NEW key \in {"return", "newline"},
                 NEW objection \in {None, "refused"}, linecb(line, key, objection)
          PROVE  IInv'
        BY <2>2, LinecbStep DEF Objections
    <2>3. ASSUME NEW line \in Lines, NEW key \in {"return", "newline"}, linecb_shell(line, key)
          PROVE  IInv'
        BY <2>3, ShellStep
    <2>4. CASE DebuggeeDies \/ UNCHANGED vars
        BY <2>4, DiesStep
    <2> QED
        BY <2>1, <2>2, <2>3, <2>4 DEF Next
<1> QED
    BY <1>1, <1>2, PTL DEF Spec

\* linecb and do_cmdline_command: for every vocabulary and whatever TAB left in
\* CURRENT_MATCH_INFO, a line runs or documents the command it names, and a
\* line that names none or several runs nothing.
THEOREM LinesDoWhatTheySay == Spec => []CommandsOK
<1>1. IInv => CommandsOK
    BY DEF IInv, CommandsOK
<1> QED
    BY <1>1, CommandsInductive, PTL

\* CURRENT_MATCH_INFO: only TAB leaves a match for the next line, what runs on
\* account of it is audited, and an undefined command is reported.
THEOREM StaleMatchDoesNoHarm == Spec => []StaleMatchHarmless
<1>1. IInv => StaleMatchHarmless
    BY DEF IInv
<1> QED
    BY <1>1, CommandsInductive, PTL

\* parse_and_create_args and argdup: for every vocabulary, every line and every
\* way in which words fit the expressions, the groups that a command's function
\* gets hold words of the line, each at most once and in order, whichever
\* optional groups are NULL; what the expression requires is there; where the
\* last group repeats every word that fits it is taken, and an option in front
\* is recognised.
THEOREM ArgumentsReachCommands == Spec => []ArgumentsIntact
<1>1. IInv => ArgumentsIntact
    BY DEF IInv
<1> QED
    BY <1>1, CommandsInductive, PTL
=============================================================================
