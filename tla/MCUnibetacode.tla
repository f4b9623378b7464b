--------------------------- MODULE MCUnibetacode ---------------------------
(***************************************************************************)
(* Every code sequence uni2beta has a rule for, alone on a line; and every *)
(* line of up to MaxUnits units from a set that meets every language and   *)
(* every context the rules look at.  For unibetaprep likewise: every code  *)
(* alone, and lines of codes and characters.                               *)
(***************************************************************************)
EXTENDS Unibetacode

CONSTANT MaxUnits

Unit(codes, meant) == [text |-> codes, meant |-> meant]
Plain(code) == Unit(<<code>>, <<code>>)

(* The canonical form: a single code for a decomposed letter, the tonos    *)
(* for the oxia, and one quotation mark for each use.                      *)
OxiaVowels == [a |-> \h3AC, e |-> \h3AD, h |-> \h3AE, i |-> \h3AF, o |-> \h3CC, u |-> \h3CD, w |-> \h3CE]
OxiaCapitals == [a |-> \h386, e |-> \h388, h |-> \h389, i |-> \h38A, o |-> \h38C, u |-> \h38E, w |-> \h38F]
Oxia ==
  [code \in {\h1F6F + 2 * n : n \in 1..7} |-> OxiaVowels[Vowels[(code - \h1F6F) \div 2]]]
  @@ \h1FBB :> \h386 @@ \h1FC9 :> \h388 @@ \h1FCB :> \h389 @@ \h1FDB :> \h38A @@ \h1FF9 :> \h38C
  @@ \h1FEB :> \h38E @@ \h1FFB :> \h38F @@ \h1FD3 :> \h390 @@ \h1FE3 :> \h3B0
  @@ \h37E :> Ascii[";"] @@ \h387 :> \hB7
Alike ==
  \h201C :> \hAB @@ \h201E :> \hAB @@ \h201D :> \hBB @@ \h2018 :> \h2BB @@ \h201A :> \h2BB
  @@ \h2039 :> \h2BB @@ \h2019 :> \h2BC @@ \h201B :> \h2BC @@ \h203A :> \h2BC

(* The composed letter with these marks, by the rows of the Unicode block. *)
IsMark(ch) == ch \in {")", "(", "\\", "/", "=", "|", "+", "'", "&"}
LetterOf(e) == SelectSeq(e.beta, LAMBDA ch : ~IsMark(ch) /\ ch # "*")[1]
MarksOf(e) == SelectSeq(e.beta, IsMark)
IsMarkedLetter(e) == MarksOf(e) # <<>> /\ \E ch \in Range(e.beta) : ~IsMark(ch)
Decomposed(e) ==
  <<GreekCode(LetterOf(e)) + (IF e.beta[1] = "*" THEN 0 ELSE 32)>> \o MarkCodes(MarksOf(e))
Composed == {Unit(Decomposed(e), e.code) : e \in {p \in Patterns : IsMarkedLetter(p)}}
VariaCodes ==
  [codes \in {<<GreekCode(ch) + 32, \h300>> : ch \in Range(Vowels)} |->
     SmallVaria[CHOOSE ch \in Range(Vowels) : GreekCode(ch) + 32 = codes[1]]]
CapitalVariaCodes ==
  <<\h391, \h300>> :> \h1FBA @@ <<\h395, \h300>> :> \h1FC8 @@ <<\h397, \h300>> :> \h1FCA
  @@ <<\h399, \h300>> :> \h1FDA @@ <<\h39F, \h300>> :> \h1FF8 @@ <<\h3A5, \h300>> :> \h1FEA
  @@ <<\h3A9, \h300>> :> \h1FFA
Canonical(codes) ==
  IF Len(codes) = 1
  THEN CASE codes[1] \in DOMAIN Oxia -> Oxia[codes[1]] [] codes[1] \in DOMAIN Alike -> Alike[codes[1]]
         [] OTHER -> codes[1]
  ELSE CASE \E u \in Composed : u.text = codes -> (CHOOSE u \in Composed : u.text = codes).meant
         [] codes \in DOMAIN VariaCodes -> VariaCodes[codes]
         [] codes \in DOMAIN CapitalVariaCodes -> CapitalVariaCodes[codes]
         [] OTHER -> 0

NewlineUnit == Plain(Ascii[Newline])
Singles ==
  {<<Unit(codes, <<Canonical(codes)>>), NewlineUnit>> : codes \in RuleCodes}

Vocabulary ==
  {Plain(code) : code \in {\h3B1, \h3AC, \h3C3, \h3C2, \h1F05, \h391, \hAB, \hBB, \h2BC, \h2014, \h2C81,
                           \h5E2, \h5DA, \h1D6C2} \cup {Ascii[ch] : ch \in {" ", "x", "a", "S", "1", ";"}}}
  \cup {Unit(<<\h3B9, \h308, \h301>>, <<\h390>>)}
Words == {w \o <<NewlineUnit>> : w \in UNION {[1..n -> Vocabulary] : n \in 0..MaxUnits}}

MCLines == Singles \cup Words

-----------------------------------------------------------------------------
(* A code stands for its code points, a font code for none.                *)
Prep(chars) ==
  [text |-> chars,
   meant |-> IF chars \in {r.lexeme : r \in FontCodes} THEN <<>>
             ELSE IF chars \in Doubled THEN Tail(PrepCodes[chars]) ELSE PrepCodes[chars]]
Char(ch, code) == [text |-> <<ch>>, meant |-> <<code>>]
PrepVocabulary ==
  {Prep(chars) : chars \in {<<"#", "5">>, <<"#", "1", "1", "3", "5">>, <<"%", "1">>, <<"%", "8">>, <<"[", "1">>,
                            <<"{", "1", "0", "0">>, <<"&", "1">>, <<"<", "3", "2">>}}
  \cup {Char("a", \h3B1), Char("c", \h3BE), Char("1", Ascii["1"]), Char(Newline, 10)}
PrepSingles == {<<Prep(chars), Char(ch, code)>> :
                  chars \in PrepLexemes, <<ch, code>> \in {<<"a", \h3B1>>, <<Newline, 10>>}}
MCPreparations == PrepSingles \cup UNION {[1..n -> PrepVocabulary] : n \in 0..MaxUnits}
NoPreparations == {}
NoLines == {}
-----------------------------------------------------------------------------
(* The library: every code point its functions look at, and texts.         *)
Languages == {"greek", "coptic", "hebrew"}
LooksAt == 32..127 \cup InTables["greek"] \cup InTables["coptic"] \cup InTables["hebrew"]
           \cup DOMAIN SignsElsewhere \cup {\h80, \h7FF, \h800, \hFFFF, \h10000, \h10FFFF}
LibVocabulary ==
  [greek |-> {Ascii["1"], Ascii[","], Ascii["*"], \h391, \h3B1, \h3B2, \h3C2, \h3C3, \h3F2, \h300, \h1FB3, \hAB, \hBB},
   coptic |-> {Ascii["*"], Ascii[","], \h300, \h3E3, \h2C80, \h2C81, \hAB, \hBB},
   hebrew |-> {Ascii["1"], Ascii["2"], Ascii["\""], \h5D0, \h5DA, \h5DB, \h2BC}]
LibText(lang, codes) == [lang |-> lang, text |-> [n \in DOMAIN codes |-> Plain(codes[n])]]
MCStrings ==
  {LibText(lang, <<code>>) : lang \in Languages, code \in LooksAt}
  \cup UNION {{LibText(lang, codes) : codes \in UNION {[1..n -> LibVocabulary[lang]] : n \in 0..MaxUnits}} :
                lang \in Languages}
NoStrings == {}
=============================================================================
