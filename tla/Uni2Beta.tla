------------------------------ MODULE Uni2Beta ------------------------------
(***************************************************************************)
(* uni2beta (unibetacode-2.0.1/src/progsrc/uni2beta.c), the way back from  *)
(* Unicode to Beta Code: a flex scanner whose rules take the longest run   *)
(* of code points they know and hand its Beta Code and its language to     *)
(* build_output, which switches the language mode and escapes what Beta    *)
(* Code has no sign for as "{\uXXXX}".                                     *)
(***************************************************************************)
EXTENDS BetaCode, FiniteSetsExt, SequencesExt

VARIABLES text,         \* the code points being read
          pos,          \* the reading position
          uppercase,    \* option -u: Greek in capital Latin letters
          lang_mode,    \* "greek", "latin", "coptic" or "hebrew"
          was_escaped,  \* is an escape sequence open?
          written       \* the Beta Code printed

u2bVars == <<text, pos, uppercase, lang_mode, was_escaped, written>>

-----------------------------------------------------------------------------
Rule(codes, new_text, lang) == [codes |-> codes, beta |-> new_text, lang |-> lang]
Greek(entries) == {Rule(<<e.code>>, e.beta, "greek") : e \in entries}

(* Signs, each alone.                                                      *)
SignCodes ==
  [ch \in {"\"", "bq", "'", "/", "+", ")", "(", "?", "=", "|", "#", ":", ";", "\\"} |->
     CASE ch = "\"" -> {\hAB, \hBB, \h201C, \h201D, \h201E}
       [] ch = "bq" -> {\h2BB, \h2018, \h201A, \h2039}
       [] ch = "'"  -> {\h2BC, \h2019, \h201B, \h203A, \h1FBD}
       [] ch = "/"  -> {\h301, \h384, \h1FFD}
       [] ch = "+"  -> {\h308}
       [] ch = ")"  -> {\h313, \h1FBF}
       [] ch = "("  -> {\h314, \h1FFE}
       [] ch = "?"  -> {\h323}
       [] ch = "="  -> {\h342, \h1FC0}
       [] ch = "|"  -> {\h345, \h37A, \h1FBE}
       [] ch = "#"  -> {\h374}
       [] ch = ":"  -> {\hB7, \h387}
       [] ch = ";"  -> {\h37E}
       [] ch = "\\" -> {\h1FEF}]
SignRules == UNION {{Rule(<<code>>, <<ch>>, "greek") : code \in SignCodes[ch]} : ch \in DOMAIN SignCodes}

(* Letters in the order of Unicode; the two sigmas have rules of their own. *)
GreekOrder ==
  <<"a", "b", "g", "d", "e", "z", "h", "q", "i", "k", "l", "m", "n", "c", "o", "p", "r", "",
    "s", "t", "u", "f", "x", "y", "w">>
Alphabet == {n \in DOMAIN GreekOrder : GreekOrder[n] # ""}
GreekCode(letter) == \h390 + CHOOSE n \in Alphabet : GreekOrder[n] = letter
CapitalLetters == {Rule(<<\h390 + n>>, <<"*", GreekOrder[n]>>, "greek") : n \in Alphabet}
SmallLetters ==
  {Rule(<<\h3B0 + n>>, <<GreekOrder[n]>>, "greek") : n \in {m \in Alphabet : GreekOrder[m] # "s"}}

DemoticOrder == <<"s", "f", "k", "h", "j", "g", "t">>
DemoticRules ==
  {Rule(<<\h3E0 + 2 * n>>, <<"*", DemoticOrder[n]>>, "coptic") : n \in DOMAIN DemoticOrder}
  \cup {Rule(<<\h3E1 + 2 * n>>, <<DemoticOrder[n]>>, "coptic") : n \in DOMAIN DemoticOrder}
CopticOrder ==
  <<"A", "B", "G", "D", "E", "V", "Z", "H", "Q", "I", "K", "L", "M", "N", "C", "O", "P", "R",
    "S", "T", "U", "F", "X", "Y", "W">>
CopticPair(n) ==
  {Rule(<<\h2C7E + 2 * n>>, <<"*", CopticOrder[n]>>, "coptic"), Rule(<<\h2C7F + 2 * n>>, <<CopticOrder[n]>>, "coptic")}
AlfaToKsi == UNION {CopticPair(n) : n \in 1..15}
OToOou == UNION {CopticPair(n) : n \in 16..Len(CopticOrder)}
CopticRules == AlfaToKsi \cup OToOou
HebrewOrder ==
  << <<"A">>, <<"b">>, <<"g">>, <<"d">>, <<"h">>, <<"v">>, <<"z">>, <<"H">>, <<"Q">>, <<"y">>,
     <<"k", "2">>, <<"k", "1">>, <<"l">>, <<"m", "2">>, <<"m", "1">>, <<"n", "2">>, <<"n", "1">>,
     <<"S">>, <<"a">>, <<"p", "2">>, <<"p", "1">>, <<"T", "2">>, <<"T", "1">>, <<"q">>, <<"r">>,
     <<"s">>, <<"t">> >>
HebrewRules == {Rule(<<\h5CF + n>>, HebrewOrder[n], "hebrew") : n \in DOMAIN HebrewOrder}

(* Letters with marks, composed, by the blocks of the source.  The rules   *)
(* for capital eta and iota give most letters with dasia the sign of psili, *)
(* and those for capital eta with iota subscript print epsilon.            *)
CapitalTonos == Greek(
  {Entry(<<"+", "/">>, \h385), Entry(<<"*", "/", "a">>, \h386), Entry(<<"*", "/", "e">>, \h388),
   Entry(<<"*", "/", "h">>, \h389), Entry(<<"*", "/", "i">>, \h38A), Entry(<<"*", "/", "o">>, \h38C),
   Entry(<<"*", "/", "u">>, \h38E), Entry(<<"*", "/", "w">>, \h38F), Entry(<<"i", "+", "/">>, \h390)})
SmallTonos == Greek(
  {Entry(<<"*", "+", "i">>, \h3AA), Entry(<<"*", "+", "u">>, \h3AB), Entry(<<"a", "/">>, \h3AC),
   Entry(<<"e", "/">>, \h3AD), Entry(<<"h", "/">>, \h3AE), Entry(<<"i", "/">>, \h3AF),
   Entry(<<"u", "+", "/">>, \h3B0)})
LateLetters == Greek(
  {Entry(<<"i", "+">>, \h3CA), Entry(<<"u", "+">>, \h3CB), Entry(<<"o", "/">>, \h3CC),
   Entry(<<"u", "/">>, \h3CD), Entry(<<"w", "/">>, \h3CE), Entry(<<"*", "v">>, \h3DC),
   Entry(<<"v">>, \h3DD), Entry(<<"s", "3">>, \h3F2), Entry(<<"*", "s", "3">>, \h3F9)})
PsiliCapitals(letter, base, accents) ==
  {Entry(Capital(letter, Marks(1, n), NoIota), base + 8 + b + 2 * (n - 1)) : b \in 0..1, n \in accents}
AlphaRules   == Greek(Row("a", \h1F00, 4, 1..2, NoIota))
EpsilonRules == Greek(Row("e", \h1F10, 3, 1..2, NoIota))
EtaRules     == Greek(SmallRow("h", \h1F20, 4, NoIota) \cup PsiliCapitals("h", \h1F20, 1..4))
IotaRules    == Greek(SmallRow("i", \h1F30, 4, NoIota) \cup CapitalRow("i", \h1F30, 1, 1..2, NoIota)
                      \cup PsiliCapitals("i", \h1F30, 2..4))
OmicronRules == Greek(Row("o", \h1F40, 3, 1..2, NoIota))
UpsilonRules == Greek(Row("u", \h1F50, 4, {2}, NoIota))
OmegaRules   == Greek(Row("w", \h1F60, 4, 1..2, NoIota))
Vowels == <<"a", "e", "h", "i", "o", "u", "w">>
VariaRules ==
  Greek(UNION {{Entry(<<Vowels[n], "\\">>, \h1F6E + 2 * n), Entry(<<Vowels[n], "/">>, \h1F6F + 2 * n)} :
               n \in DOMAIN Vowels})
AlphaIotaRules == Greek(Row("a", \h1F80, 4, 1..2, Iota))
EtaIotaRules   == Greek(SmallRow("h", \h1F90, 4, Iota) \cup CapitalRow("e", \h1F90, 4, 1..2, Iota))
OmegaIotaRules == Greek(Row("w", \h1FA0, 4, 1..2, Iota))
CapitalAccents(letter, base) ==
  {Entry(<<"*", "\\", letter>>, base), Entry(<<"*", "/", letter>>, base + 1)}
AlphaLengthRules == Greek(LengthRow("a", \h1FB0) \cup IotaRow("a", \h1FB2) \cup CapitalAccents("a", \h1FBA))
EtaAccentRules ==
  Greek(IotaRow("h", \h1FC2) \cup CapitalAccents("e", \h1FC8) \cup CapitalAccents("h", \h1FCA)
        \cup BareRow(")", \h1FCD) \cup {Entry(<<"+", "=">>, \h1FC1)})
IotaLengthRules ==
  Greek(LengthRow("i", \h1FD0) \cup DialytikaRow("i", \h1FD0) \cup CapitalAccents("i", \h1FDA)
        \cup BareRow("(", \h1FDD) \cup {Entry(<<"i", "+", "/">>, \h1FD3)})
UpsilonLengthRules ==
  Greek(LengthRow("u", \h1FE0) \cup DialytikaRow("u", \h1FE0) \cup CapitalAccents("u", \h1FEA)
        \cup {Entry(<<"u", "+", "/">>, \h1FE3), Entry(<<"r", ")">>, \h1FE4), Entry(<<"r", "(">>, \h1FE5),
              Entry(<<"*", "(", "r">>, \h1FEC), Entry(<<"+", "\\">>, \h1FED), Entry(<<"+", "/">>, \h1FEE)})
OmegaAccentRules ==
  Greek(IotaRow("w", \h1FF2) \cup CapitalAccents("o", \h1FF8) \cup CapitalAccents("w", \h1FFA))

(* Letters with marks, decomposed: the code of the letter, then those of   *)
(* its marks in the order of the canonical decomposition.                  *)
MarkCode ==
  [ch \in {")", "(", "\\", "/", "=", "|", "+", "'", "&"} |->
     CASE ch = ")" -> \h313 [] ch = "(" -> \h314 [] ch = "\\" -> \h300 [] ch = "/" -> \h301
       [] ch = "=" -> \h342 [] ch = "|" -> \h345 [] ch = "+" -> \h308 [] ch = "'" -> \h306
       [] ch = "&" -> \h304]
MarkCodes(marks) == [n \in DOMAIN marks |-> MarkCode[marks[n]]]
SmallRule(letter, marks) ==
  Rule(<<GreekCode(letter) + 32>> \o MarkCodes(marks), <<letter>> \o marks, "greek")
CapitalRule(letter, marks, iota) ==
  Rule(<<GreekCode(letter)>> \o MarkCodes(marks \o iota), Capital(letter, marks, iota), "greek")
DecomposedRow(letter, accents, capitals, iota) ==
  {SmallRule(letter, Marks(b, n) \o iota) : b \in 1..2, n \in 1..accents}
  \cup {CapitalRule(letter, Marks(b, n), iota) : b \in capitals, n \in 1..accents}
DecomposedAlpha   == DecomposedRow("a", 4, 1..2, NoIota)
DecomposedEpsilon == DecomposedRow("e", 3, 1..2, NoIota)
DecomposedEta     == DecomposedRow("h", 4, 1..2, NoIota)
DecomposedIota    == DecomposedRow("i", 4, 1..2, NoIota)
DecomposedOmicron == DecomposedRow("o", 3, 1..2, NoIota)
DecomposedUpsilon == DecomposedRow("u", 4, {2}, NoIota)
DecomposedOmega   == DecomposedRow("w", 4, 1..2, NoIota)
DecomposedAlphaIota == DecomposedRow("a", 4, 1..2, Iota)
DecomposedEtaIota   == DecomposedRow("h", 4, 1..2, Iota)
DecomposedOmegaIota == DecomposedRow("w", 4, 1..2, Iota)
DecomposedIotas ==
  UNION {DecomposedAlphaIota, DecomposedEtaIota, DecomposedOmegaIota}
  \cup {SmallRule(letter, marks \o Iota) : letter \in {"a", "h"}, marks \in {<<"\\">>, <<>>, <<"/">>, <<"=">>}}
  \cup {CapitalRule(letter, <<>>, Iota) : letter \in {"a", "h"}}
DecomposedOmegaAccents ==
  {SmallRule("w", marks \o Iota) : marks \in {<<"\\">>, <<>>, <<"/">>, <<"=">>}}
  \cup {Rule(<<\h3A9, \h345>>, <<"*", "=", "w">>, "greek")}
DecomposedVarias == {SmallRule(Vowels[n], <<"\\">>) : n \in DOMAIN Vowels}
DecomposedAccents ==
  {SmallRule(Vowels[n], <<"/">>) : n \in DOMAIN Vowels}
  \cup {CapitalRule(Vowels[n], <<mark>>, NoIota) : n \in DOMAIN Vowels, mark \in {"/", "\\"}}
  \cup {SmallRule(letter, <<"=">>) : letter \in {"a", "h", "i", "u", "w"}}
(* Iota with macron prints the macron alone.  Dialytika with perispomeni   *)
(* has its second order misspelt: U+0302 U+0348.                           *)
DecomposedLengths ==
  {SmallRule(letter, <<"'">>) : letter \in {"a", "i", "u"}}
  \cup {SmallRule(letter, <<"&">>) : letter \in {"a", "u"}} \cup {Rule(<<\h3B9, \h304>>, <<"&">>, "greek")}
  \cup {CapitalRule(letter, <<mark>>, NoIota) : letter \in {"a", "i", "u"}, mark \in {"'", "&"}}
DecomposedDialytika ==
  {SmallRule(letter, <<"+">> \o marks) : letter \in {"i", "u"},
                                         marks \in {<<>>, <<"/">>, <<"\\">>, <<"=">>}}
  \cup {Rule(<<GreekCode(letter) + 32, code, \h308>>, <<letter, "+">> \o mark, "greek") :
          letter \in {"i", "u"}, <<code, mark>> \in {<<\h301, <<"/">> >>, <<\h300, <<"\\">> >>}}
  \cup {Rule(<<GreekCode(letter) + 32, \h302, \h348>>, <<letter, "+", "=">>, "greek") : letter \in {"i", "u"}}
  \cup {CapitalRule(letter, <<"+">>, NoIota) : letter \in {"i", "u"}}
DecomposedRho == {SmallRule("r", <<")">>), SmallRule("r", <<"(">>), CapitalRule("r", <<"(">>, NoIota)}

BasicRules ==
  UNION {SignRules, CapitalLetters, SmallLetters, DemoticRules, CopticRules, HebrewRules,
         CapitalTonos, SmallTonos, LateLetters}
ExtendedRules ==
  UNION {AlphaRules, EpsilonRules, EtaRules, IotaRules, OmicronRules, UpsilonRules, OmegaRules, VariaRules,
         AlphaIotaRules, EtaIotaRules, OmegaIotaRules, AlphaLengthRules, EtaAccentRules,
         IotaLengthRules, UpsilonLengthRules, OmegaAccentRules}
DecomposedRules ==
  UNION {DecomposedAlpha, DecomposedEpsilon, DecomposedEta, DecomposedIota, DecomposedOmicron,
         DecomposedUpsilon, DecomposedOmega, DecomposedIotas,
         DecomposedOmegaAccents, DecomposedVarias, DecomposedAccents, DecomposedLengths,
         DecomposedDialytika, DecomposedRho}
(* The tables of the generated scanner: the rule a state accepts, and the  *)
(* sequences that lead there.                                              *)
ByCodes(rules) == [codes \in {r.codes : r \in rules} |-> CHOOSE r \in rules : r.codes = codes]
RuleFor == ByCodes(BasicRules) @@ ByCodes(ExtendedRules) @@ ByCodes(DecomposedRules)
RuleCodes == DOMAIN RuleFor
LongestRule == 4

-----------------------------------------------------------------------------
GreekCodes == {\h374, \h37E} \cup (\h390..\h3CE) \cup (\h1F00..\h1FFF)
CopticCodes == (\h3E2..\h3EF) \cup (\h2C80..\h2CB1)
HebrewCodes == \h5D0..\h5EA
LanguageOf(code) ==
  CASE code \in GreekCodes -> "greek" [] code \in CopticCodes -> "coptic"
    [] code \in HebrewCodes -> "hebrew" [] OTHER -> "none"

Selector ==
  [greek |-> <<"$">>, latin |-> <<"&">>, coptic |-> <<"&", "1", "0", "0">>,
   hebrew |-> <<"&", "3", "0", "0">>]
Switch(lang) == IF lang = lang_mode THEN <<>> ELSE Selector[lang]
ToUpper(ch) == IF ch \in LowerLetters THEN CharOf[Ascii[ch] - 32] ELSE ch
Cased(new_text, lang) ==
  IF uppercase /\ lang = "greek" THEN [n \in DOMAIN new_text |-> ToUpper(new_text[n])] ELSE new_text

(* end_escape                                                              *)
EndEscape == IF was_escaped THEN <<"}">> ELSE <<>>

HexDigit == <<"0", "1", "2", "3", "4", "5", "6", "7", "8", "9", "A", "B", "C", "D", "E", "F">>
Hex(code) ==   \* "%04X"
  LET size == Max({n \in 4..6 : n = 4 \/ code >= 16 ^ (n - 1)})
  IN [n \in 1..size |-> HexDigit[((code \div 16 ^ (size - n)) % 16) + 1]]

Mutant_Consume(size, printed) ==
  /\ pos' = pos + size + 1
  /\ written' = written \o printed
  /\ UNCHANGED <<text, uppercase>>
Consume(size, printed) ==
  /\ pos' = pos + size
  /\ written' = written \o printed
  /\ UNCHANGED <<text, uppercase>>

(* build_output for a letter or a sign of a language: the escape sequence  *)
(* ends unless the mode is Latin, and stays open then.                     *)
BuildOutput(size, new_text, lang) ==
  LET ends == was_escaped /\ lang_mode # "latin"  IN
  /\ Consume(size, (IF ends THEN EndEscape ELSE <<>>) \o Switch(lang) \o Cased(new_text, lang))
  /\ was_escaped' = (was_escaped /\ ~ends)
  /\ lang_mode' = lang

(* build_output for an ASCII character.  "$" and "&" go through escape_out, *)
(* whose ASCII branch prints the character that was read.                  *)
CommonToAll == {" ", "!", ",", ".", ";"}
AsciiOutput(ch) ==
  /\ Consume(1, EndEscape \o (IF ch \in CommonToAll THEN <<>> ELSE Switch("latin")) \o <<ch>>)
  /\ was_escaped' = FALSE
  /\ lang_mode' = IF ch \in CommonToAll THEN lang_mode ELSE "latin"

(* escape_out for a code point outside ASCII.                              *)
EscapeOut(code) ==
  /\ Consume(1, (IF was_escaped THEN <<>> ELSE <<"{">>) \o <<"\\", "u">> \o Hex(code))
  /\ was_escaped' = TRUE
  /\ UNCHANGED lang_mode

(* The rules for a space before a letter, and for a newline.               *)
Mutant_SwitchAndPrint(lang, ch) ==
  /\ Consume(1, EndEscape \o <<ch>>)
  /\ was_escaped' = FALSE
  /\ lang_mode' = lang
SwitchAndPrint(lang, ch) ==
  /\ Consume(1, EndEscape \o Switch(lang) \o <<ch>>)
  /\ was_escaped' = FALSE
  /\ lang_mode' = lang

-----------------------------------------------------------------------------
Code == text[pos]
Next1 == IF pos < Len(text) THEN text[pos + 1] ELSE 0
Next2 == IF pos + 1 < Len(text) THEN text[pos + 2] ELSE 0
Next3 == IF pos + 2 < Len(text) THEN text[pos + 3] ELSE 0
RuleSizes ==
  {n \in 1..Min({LongestRule, Len(text) - pos + 1}) : SubSeq(text, pos, pos + n - 1) \in RuleCodes}
FinalSigma == \h3C2
MiddleSigma == \h3C3
Varia == \h300

ConvertLetter ==
  /\ RuleSizes # {}
  /\ LET rule == RuleFor[SubSeq(text, pos, pos + Max(RuleSizes) - 1)]
     IN BuildOutput(Max(RuleSizes), rule.beta, rule.lang)

(* A final sigma inside a word is marked as one.                           *)
Mutant_ConvertFinalSigma ==
  /\ Code = FinalSigma
  /\ BuildOutput(1, <<"s">>, "greek")
ConvertFinalSigma ==
  /\ Code = FinalSigma
  /\ BuildOutput(1, IF Next1 \in (\h380..\h3FF) \cup (\h1F00..\h1FFF) THEN <<"s", "2">> ELSE <<"s">>, "greek")

(* A middle sigma is marked only before an ASCII character and "]]": the   *)
(* expression meant to say "not before a Greek letter" nests its brackets. *)
ConvertMiddleSigma ==
  /\ Code = MiddleSigma
  /\ LET marked == Next1 \in AsciiCodes \ {Ascii["["]} /\ Next2 = Ascii["]"] /\ Next3 = Ascii["]"]
     IN BuildOutput(1, IF marked THEN <<"s", "1">> ELSE <<"s">>, "greek")

ConvertVaria ==
  /\ Code = Varia
  /\ BuildOutput(1, <<"\\">>, IF lang_mode = "coptic" THEN "coptic" ELSE "greek")

ConvertSpace ==
  /\ Code = Ascii[" "] /\ LanguageOf(Next1) # "none"
  /\ SwitchAndPrint(LanguageOf(Next1), " ")

ConvertNewline ==
  /\ Code = Ascii[Newline]
  /\ SwitchAndPrint("greek", Newline)

ConvertAscii ==
  /\ Code \in AsciiCodes \ {Ascii[Newline]}
  /\ ~(Code = Ascii[" "] /\ LanguageOf(Next1) # "none")
  /\ AsciiOutput(CharOf[Code])

ConvertOther ==
  /\ RuleSizes = {} /\ Code \notin AsciiCodes \cup {FinalSigma, MiddleSigma, Varia}
  /\ EscapeOut(Code)

(* main ends the escape sequence at the end of the input.                  *)
EndOfText ==
  /\ pos = Len(text) + 1
  /\ Consume(1, EndEscape)
  /\ was_escaped' = FALSE
  /\ UNCHANGED lang_mode

Uni2BetaInit(Texts) ==
  /\ text \in Texts
  /\ uppercase \in BOOLEAN
  /\ pos = 1
  /\ lang_mode = "greek"
  /\ was_escaped = FALSE
  /\ written = <<>>

Convert ==
  \/ /\ pos <= Len(text)
     /\ \/ ConvertLetter \/ ConvertFinalSigma \/ ConvertMiddleSigma \/ ConvertVaria
        \/ ConvertSpace \/ ConvertNewline \/ ConvertAscii \/ ConvertOther
  \/ EndOfText

Converted == pos = Len(text) + 2
=============================================================================
