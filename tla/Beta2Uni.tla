------------------------------ MODULE Beta2Uni ------------------------------
(***************************************************************************)
(* beta2uni (unibetacode-2.0.1/src/progsrc/beta2uni.c): the filter that    *)
(* src/scripts/3_crunch.sh puts the untagged text through.  A flex scanner: *)
(* each step takes the longest lexeme some rule recognises at the reading  *)
(* position, the first rule on a tie, and prints its code points.  Four    *)
(* language modes share one set of rules.                                  *)
(***************************************************************************)
EXTENDS BetaCode, FiniteSetsExt, SequencesExt, TLC

VARIABLES yyin,           \* the Beta Code text being read
          at,             \* the reading position
          lang_type,      \* "greek", "latin", "coptic" or "hebrew"
          doubleq_style,  \* the style of the double quotation marks
          quote_state,    \* for each style: is a quotation open?
          uni             \* the code points printed

b2uVars == <<yyin, at, lang_type, doubleq_style, quote_state, uni>>

-----------------------------------------------------------------------------
(* The tables of single letters, in the order of the Latin alphabet.       *)
GreekCapital ==
  << \h391, \h392, \h39E, \h394, \h395, \h3A6, \h393, \h397, \h399, \h3A2, \h39A, \h39B, \h39C,
     \h39D, \h39F, \h3A0, \h398, \h3A1, \h3A3, \h3A4, \h3A5, \h3F9, \h3A9, \h3A7, \h3A8, \h396 >>
CopticCapital ==
  << \h2C80, \h2C82, \h2C9C, \h2C86, \h2C88, \h2CAA, \h2C84, \h2C8E, \h2C92, 0, \h2C94, \h2C96,
     \h2C98, \h2C9A, \h2C9E, \h2CA0, \h2C90, \h2CA2, \h2CA4, \h2CA6, \h2CA8, \h2C8A, \h2CB0,
     \h2CAC, 0, \h2C8C >>
DemoticLetter ==
  [f |-> \h3E4, g |-> \h3EC, h |-> \h3E8, j |-> \h3EA, k |-> \h3E6, s |-> \h3E2, t |-> \h3EE]
HebrewLetter ==
  [A |-> \h5D0, H |-> \h5D7, Q |-> \h5D8, S |-> \h5E1, T |-> \h5E6, a |-> \h5E2, b |-> \h5D1,
   d |-> \h5D3, g |-> \h5D2, h |-> \h5D4, k |-> \h5DB, l |-> \h5DC, m |-> \h5DE, n |-> \h5E0,
   p |-> \h5E4, q |-> \h5E7, r |-> \h5E8, s |-> \h5E9, t |-> \h5EA, v |-> \h5D5, y |-> \h5D9,
   z |-> \h5D6]
HebrewFinal == [k |-> \h5DA, m |-> \h5DD, n |-> \h5DF, p |-> \h5E3, T |-> \h5E5]

Place(ch) == Ascii[ToLower[ch]] - 96

(* ascii2greek_capital, ascii2greek_small, ascii2coptic, ascii2hebrew: a   *)
(* character without a letter has code 0.                                  *)
AsciiToGreekCapital(ch) ==
  IF ch \notin Letters THEN 0 ELSE IF ch = "v" THEN \h3DD ELSE GreekCapital[Place(ch)]
AsciiToGreekSmall(ch) ==
  IF ch \in {"v", "V"} THEN \h3DD ELSE GreekCapital[Place(ch)] + 32
AsciiToCoptic(ch) ==
  IF ch \in UpperLetters THEN CopticCapital[Place(ch)]
  ELSE IF ch \in DOMAIN DemoticLetter THEN DemoticLetter[ch] ELSE 0
AsciiToHebrew(ch) == IF ch \in DOMAIN HebrewLetter THEN HebrewLetter[ch] ELSE 0

(* The punctuation that reads differently in Greek and Coptic.             *)
GreekSign ==
  ":" :> \hB7 @@ "-" :> \h2010 @@ "_" :> \h2014 @@ "#" :> \h374 @@ ")" :> \h313 @@ "(" :> \h314
  @@ "/" :> \h301 @@ "=" :> \h342 @@ "\\" :> \h300 @@ "+" :> \h308 @@ "|" :> \h345
  @@ "?" :> \h323 @@ "<" :> \h2039 @@ ">" :> \h203A
CommonSigns == {"!", ".", ",", ";"}

-----------------------------------------------------------------------------
(* The rules that recognise a letter with its marks, by the blocks of the  *)
(* source; the lexemes are given with small Latin letters.                 *)
TonosPatterns ==
  {Entry(<<"*", "/", "a">>, \h386), Entry(<<"*", "/", "e">>, \h388), Entry(<<"*", "/", "h">>, \h389),
   Entry(<<"*", "/", "i">>, \h38A), Entry(<<"*", "/", "o">>, \h38C), Entry(<<"*", "/", "u">>, \h38E),
   Entry(<<"*", "/", "w">>, \h38F), Entry(<<"i", "+", "/">>, \h390), Entry(<<"i", "/", "+">>, \h390),
   Entry(<<"*", "+", "i">>, \h3AA), Entry(<<"*", "+", "u">>, \h3AB), Entry(<<"a", "/">>, \h3AC),
   Entry(<<"e", "/">>, \h3AD), Entry(<<"h", "/">>, \h3AE), Entry(<<"i", "/">>, \h3AF),
   Entry(<<"u", "+", "/">>, \h3B0), Entry(<<"u", "/", "+">>, \h3B0), Entry(<<"s", "2">>, \h3C2)}
DialytikaPatterns ==
  {Entry(<<"s", "1">>, \h3C3), Entry(<<"i", "+">>, \h3CA), Entry(<<"u", "+">>, \h3CB),
   Entry(<<"o", "/">>, \h3CC), Entry(<<"u", "/">>, \h3CD), Entry(<<"w", "/">>, \h3CE),
   Entry(<<"s", "3">>, \h3F2), Entry(<<"*", "s", "3">>, \h3F9)}
AlphaPatterns   == Row("a", \h1F00, 4, 1..2, NoIota)
EpsilonPatterns == Row("e", \h1F10, 3, 1..2, NoIota)
EtaPatterns     == Row("h", \h1F20, 4, 1..2, NoIota)
IotaPatterns    == Row("i", \h1F30, 4, 1..2, NoIota)
OmicronPatterns == Row("o", \h1F40, 3, 1..2, NoIota)
UpsilonPatterns == Row("u", \h1F50, 4, {2}, NoIota)
OmegaPatterns   == Row("w", \h1F60, 4, 1..2, NoIota)
AlphaIotaPatterns == Row("a", \h1F80, 4, 1..2, Iota)
EtaIotaPatterns   == Row("h", \h1F90, 4, 1..2, Iota)
OmegaIotaPatterns == Row("w", \h1FA0, 4, 1..2, Iota)
(* The reader takes the dialytika after the accent as well.                *)
EitherOrder(ch, base) ==
  {Entry(<<ch, "\\", "+">>, base + 2), Entry(<<ch, "=", "+">>, base + 7)}
AlphaLengthPatterns == LengthRow("a", \h1FB0) \cup IotaRow("a", \h1FB2)
EtaAccentPatterns ==
  IotaRow("h", \h1FC2) \cup BareRow(")", \h1FCD)
  \cup {Entry(<<"+", "=">>, \h1FC1), Entry(<<"=", "+">>, \h1FC1)}
IotaLengthPatterns ==
  LengthRow("i", \h1FD0) \cup DialytikaRow("i", \h1FD0) \cup EitherOrder("i", \h1FD0) \cup BareRow("(", \h1FDD)
UpsilonLengthPatterns ==
  LengthRow("u", \h1FE0) \cup DialytikaRow("u", \h1FE0) \cup EitherOrder("u", \h1FE0)
  \cup {Entry(<<"r", ")">>, \h1FE4), Entry(<<"r", "(">>, \h1FE5), Entry(<<"*", "(", "r">>, \h1FEC),
        Entry(<<"\\", "+">>, \h1FED), Entry(<<"+", "\\">>, \h1FED), Entry(<<"/", "+">>, \h1FEE),
        Entry(<<"+", "/">>, \h1FEE)}
OmegaAccentPatterns == IotaRow("w", \h1FF2)

GreekBlock == TonosPatterns \cup DialytikaPatterns
ExtendedBlock ==
  UNION {AlphaPatterns, EpsilonPatterns, EtaPatterns, IotaPatterns, OmicronPatterns,
         UpsilonPatterns, OmegaPatterns, AlphaIotaPatterns, EtaIotaPatterns,
         OmegaIotaPatterns, AlphaLengthPatterns, EtaAccentPatterns, IotaLengthPatterns,
         UpsilonLengthPatterns, OmegaAccentPatterns}
Patterns == GreekBlock \cup ExtendedBlock
Table(patterns) ==
  [lexeme \in {p.beta : p \in patterns} |-> (CHOOSE p \in patterns : p.beta = lexeme).code]
PatternCode == Table(GreekBlock) @@ Table(ExtendedBlock)
PatternLexemes == DOMAIN PatternCode

(* A grave accent on a vowel, in the rules for letters.                    *)
SmallVaria ==
  [a |-> \h1F70, e |-> \h1F72, h |-> \h1F74, i |-> \h1F76, o |-> \h1F78, u |-> \h1F7A, w |-> \h1F7C]

-----------------------------------------------------------------------------
(* The language of each rule.                                              *)
Braces == {"{", "}"}
Quotes == {"\"", "bq", "'"}
Numbers == {<<>>} \cup {<<d>> : d \in Digits} \cup {<<t, d>> : t \in {"1", "2", "3", "4"}, d \in Digits}
SelectCoptic == {<<"$", "5", "0">>, <<"&", "1", "0", "0">>}
SelectHebrew == {<<"$", "5", "3">>, <<"&", "3", "0", "0">>}
SelectLatin == {<<"&">> \o number : number \in Numbers}
SelectGreek == {<<"$">> \o number : number \in Numbers} \cup {<<"$", "7", "0">>, <<"$", "5", "1">>}
Selectors == UNION {SelectLatin, SelectGreek, SelectCoptic, SelectHebrew}
Signs == DOMAIN GreekSign \cup CommonSigns
WithFinal == {"k", "m", "n", "p", "T"}

Lower(lexeme) == [n \in DOMAIN lexeme |-> ToLower[lexeme[n]]]

(* The rule whose expression a lexeme of at most five characters matches.  *)
RuleOf(lexeme) ==
  LET first == lexeme[1]  size == Len(lexeme)  IN
  CASE size = 1 /\ first \in Quotes                            -> "quote"
    [] size = 1 /\ first \in Digits                            -> "digit"
    [] lexeme \in Selectors -> "select"
    [] size = 1 /\ first \in Signs  -> "sign"
    [] size = 2 /\ first = "*" /\ lexeme[2] \in Letters         -> "capital"
    [] size = 3 /\ first = "*" /\ lexeme[2] = "\\" /\ lexeme[3] \in Letters -> "capital"
    [] first \in Letters /\ size = 1                            -> "small"
    [] first \in Letters /\ size = 2 /\ lexeme[2] = "\\"         -> "small"
    [] first \in WithFinal /\ size = 2 /\ lexeme[2] \in {"1", "2"} -> "small"
    [] Lower(lexeme) \in PatternLexemes                     -> "pattern"
    [] OTHER                                                    -> "none"

Unread == Len(yyin) - at + 1
Lexeme(size) == SubSeq(yyin, at, at + size - 1)
LongestPlain == 5
PlainSizes == {n \in 1..Min({LongestPlain, Unread}) : RuleOf(Lexeme(n)) # "none"}

(* "{" up to the next brace, if that closes.                               *)
Closings == {n \in at + 1 .. Len(yyin) : yyin[n] \in Braces}
IsEscape == yyin[at] = "{" /\ Closings # {} /\ yyin[Min(Closings)] = "}"
(* A sigma before a character that is no letter or digit, read on its own; *)
(* the character takes part in the choice of the longest match.            *)
IsSigma ==
  /\ ToLower[yyin[at]] = "s" /\ Unread >= 2 /\ yyin[at + 1] \notin AlphaNumeric
  /\ \A n \in PlainSizes : n <= 2

(* The choice of flex: the longest match, the first rule on a tie.  What    *)
(* the states of the generated scanner accept (yy_accept) and where they   *)
(* go (yy_base, yy_def, yy_nxt, yy_chk) is here the sets of lexemes.       *)
Match ==
  CASE IsEscape           -> [rule |-> "escape", lexeme |-> Lexeme(Min(Closings) - at + 1)]
    [] IsSigma            -> [rule |-> "sigma", lexeme |-> Lexeme(1)]
    [] PlainSizes # {} /\ ~IsSigma ->
         [rule |-> RuleOf(Lexeme(Max(PlainSizes))), lexeme |-> Lexeme(Max(PlainSizes))]
    [] OTHER              -> [rule |-> "default", lexeme |-> Lexeme(1)]

-----------------------------------------------------------------------------
HexDigits == Digits \cup {"A", "B", "C", "D", "E", "F", "a", "b", "c", "d", "e", "f"}
HexValue(ch) ==
  IF ch \in Digits THEN Ascii[ch] - 48 ELSE Ascii[ToLower[ch]] - 87
HexNumber(digits) == FoldLeft(LAMBDA number, ch : 16 * number + HexValue(ch), 0, digits)

(* print_ascii: the characters as they are, but "\u" and up to six         *)
(* hexadecimal digits print the code point they name, if there is one.     *)
HexRun(chars, n) ==
  Max({k \in 0..Min({6, Len(chars) - n + 1}) : \A m \in n..n + k - 1 : chars[m] \in HexDigits})
PrintAscii(chars) ==
  LET Named(n) == n < Len(chars) /\ chars[n] = "\\" /\ chars[n + 1] = "u"
      From[n \in 1..Len(chars) + 1] ==
        IF n > Len(chars) THEN <<>>
        ELSE IF Named(n)
        THEN LET k == HexRun(chars, n + 2)
                 code == HexNumber(SubSeq(chars, n + 2, n + 1 + k))
             IN (IF code <= \h10FFFF THEN <<code>> ELSE <<>>) \o From[n + 2 + k]
        ELSE <<Ascii[chars[n]]>> \o From[n + 1]
  IN From[1]

(* print_quote: a double quotation mark opens or closes by the state of    *)
(* its style; only Hebrew has single marks of its own.                     *)
QuoteOpen  == [latin |-> \h201C, hebrew |-> \h201E, greek |-> \hAB]
QuoteClose == [latin |-> \h201D, hebrew |-> \h201E, greek |-> \hBB]
PrintQuote(ch) ==
  CASE ch = "\"" -> <<IF quote_state[doubleq_style] THEN QuoteClose[doubleq_style]
                                                    ELSE QuoteOpen[doubleq_style]>>
    [] ch = "bq" -> <<IF lang_type = "hebrew" THEN \h201A ELSE \h2BB>>
    [] ch = "'"  -> <<IF lang_type = "hebrew" THEN \h2018 ELSE \h2BC>>

Sign(ch) ==
  IF ch \in CommonSigns THEN Ascii[ch]
  ELSE CASE lang_type = "latin"  -> Ascii[ch]
         [] lang_type = "greek"  -> GreekSign[ch]
         [] lang_type = "coptic" -> IF ch = "?" THEN Ascii[ch] ELSE IF ch = "=" THEN \h301 ELSE GreekSign[ch]
         [] lang_type = "hebrew" -> IF ch = "_" THEN \h2014 ELSE Ascii[ch]

(* print_capital: the character after "*", which is the grave accent and   *)
(* not the letter when there is one.                                       *)
PrintCapital(lexeme) ==
  CASE lang_type = "latin"  -> Codes(lexeme)
    [] lang_type = "greek"  -> <<AsciiToGreekCapital(lexeme[2])>>
    [] lang_type = "coptic" -> <<AsciiToCoptic(lexeme[2])>>
    [] lang_type = "hebrew" -> <<>>

(* print_small: a letter, a letter with a grave accent, or a Hebrew letter *)
(* and the digit of its form.                                              *)
Grave(lexeme) == Len(lexeme) = 2 /\ lexeme[2] = "\\"
PrintSmall(lexeme) ==
  LET ch == lexeme[1]  IN
  CASE lang_type = "latin"  -> Codes(lexeme)
    [] lang_type = "greek"  -> IF ~Grave(lexeme) THEN <<AsciiToGreekSmall(ch)>>
                               ELSE IF ToLower[ch] \in DOMAIN SmallVaria
                               THEN <<SmallVaria[ToLower[ch]]>> ELSE Codes(lexeme)
    [] lang_type = "coptic" -> <<AsciiToCoptic(ch) + 1>> \o (IF Grave(lexeme) THEN <<\h300>> ELSE <<>>)
    [] lang_type = "hebrew" -> IF ch \in WithFinal /\ Len(lexeme) = 2 /\ lexeme[2] = "2"
                               THEN <<HebrewFinal[ch]>> ELSE <<AsciiToHebrew(ch)>>

PrintSigma(ch) ==
  CASE lang_type = "latin"  -> <<Ascii["s"]>>
    [] lang_type = "greek"  -> <<\h3C2>>
    [] lang_type = "coptic" -> <<IF ch = "S" THEN \h2CA5 ELSE \h3E3>>
    [] lang_type = "hebrew" -> <<IF ch = "S" THEN \h5E1 ELSE \h5E9>>

(* print_pattern, and the rules for iota and upsilon with dialytika, which *)
(* print the lexeme in braces in the languages that have no such letter.   *)
PrintPattern(lexeme) ==
  CASE lang_type = "latin" -> PrintAscii(lexeme)
    [] lang_type \in {"coptic", "hebrew"} /\ Lower(lexeme) \in {<<"i", "+">>, <<"u", "+">>} ->
         Codes(<<"{">> \o lexeme \o <<"}">>)
    [] OTHER -> <<PatternCode[Lower(lexeme)]>>

-----------------------------------------------------------------------------
Beta2UniInit(Texts) ==
  /\ yyin \in Texts
  /\ at = 1
  /\ lang_type = "greek"
  /\ doubleq_style = "greek"
  /\ quote_state = [style \in DOMAIN QuoteOpen |-> FALSE]
  /\ uni = <<>>

Emit(lexeme, codes) ==
  /\ at' = at + Len(lexeme)
  /\ uni' = uni \o codes
  /\ UNCHANGED yyin

UnchangedModes == UNCHANGED <<lang_type, doubleq_style, quote_state>>

Escape(lexeme) ==
  /\ Emit(lexeme, PrintAscii(SubSeq(lexeme, 2, Len(lexeme) - 1)))
  /\ UnchangedModes

Quote(lexeme) ==
  /\ Emit(lexeme, PrintQuote(lexeme[1]))
  /\ quote_state' = IF lexeme[1] = "\"" THEN [quote_state EXCEPT ![doubleq_style] = ~@]
                    ELSE quote_state
  /\ UNCHANGED <<lang_type, doubleq_style>>

(* A language is selected until the next selector: a newline does not end  *)
(* Latin text.                                                             *)
Selected(lexeme) ==
  CASE lexeme \in SelectCoptic -> "coptic"
    [] lexeme \in SelectHebrew -> "hebrew"
    [] lexeme \in SelectGreek  -> "greek"
    [] lexeme \in SelectLatin  -> "latin"
Select(lexeme) ==
  /\ Emit(lexeme, <<>>)
  /\ lang_type' = Selected(lexeme)
  /\ doubleq_style' = IF lang_type' = "coptic" THEN "greek" ELSE lang_type'
  /\ UNCHANGED quote_state

Letter(rule, lexeme) ==
  /\ Emit(lexeme, CASE rule = "sign"    -> <<Sign(lexeme[1])>>
                     [] rule = "capital" -> PrintCapital(lexeme)
                     [] rule = "small"   -> PrintSmall(lexeme)
                     [] rule = "sigma"   -> PrintSigma(lexeme[1])
                     [] rule = "pattern" -> PrintPattern(lexeme)
                     [] rule \in {"digit", "default"} -> Codes(lexeme))
  /\ UnchangedModes

Scan ==
  /\ at <= Len(yyin)
  /\ LET m == Match  IN
     \/ m.rule = "escape" /\ Escape(m.lexeme)
     \/ m.rule = "quote" /\ Quote(m.lexeme)
     \/ m.rule = "select" /\ Select(m.lexeme)
     \/ m.rule \notin {"escape", "quote", "select"} /\ Letter(m.rule, m.lexeme)

AllScanned == at > Len(yyin)
=============================================================================
