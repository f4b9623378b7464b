------------------------------- MODULE UbLib -------------------------------
(***************************************************************************)
(* libunibetacode (unibetacode-2.0.1/src/libsrc): functions that turn a    *)
(* UTF-8 string into Beta Code and back, for Greek, Coptic and Hebrew      *)
(* each.  A string ends at its first NUL.  Each step takes one letter; the *)
(* tests for the end of the arrays are left out.                           *)
(***************************************************************************)
EXTENDS Beta2Uni, Uni2Beta

VARIABLES lib_lang,    \* the language of the functions called
          utf8_string, \* the bytes to convert
          utf8_at,     \* the reading position in them
          beta_string, \* the Beta Code they give
          beta_at,     \* the reading position in it, on the way back
          open_quote,  \* quote_state: is a double quotation open?
          utf8_again   \* the bytes it gives

libVars == <<lib_lang, utf8_string, utf8_at, beta_string, beta_at, open_quote, utf8_again>>

NUL == "NUL"

-----------------------------------------------------------------------------
(* UTF-8: the number of significant bits of a code point decides on the    *)
(* number of its bytes, and so do the leading ones of the first of them.   *)
BinDigits(code) == Min({n \in 0..21 : code < 2 ^ n})   \* of a Unicode code point
CodeptToUtf8(code) ==
  LET digits == BinDigits(code)
      size == CASE digits < 8 -> 1 [] digits < 12 -> 2 [] digits < 17 -> 3 [] OTHER -> 4
      Bits(n) == (code \div 64 ^ (size - n)) % 64
  IN IF code > \h10FFFF THEN <<>>
     ELSE IF size = 1 THEN <<code>>
     ELSE [n \in 1..size |-> IF n = 1 THEN 256 - 2 ^ (8 - size) + Bits(1) ELSE 128 + Bits(n)]
CodesToUtf8(codes) == FoldLeft(LAMBDA bytes, code : bytes \o CodeptToUtf8(code), <<>>, codes)

LeadingOnes(byte) == Max({n \in 0..8 : byte >= 256 - 2 ^ (8 - n)})
Utf8ToCodept(bytes, first) ==
  LET ones == LeadingOnes(bytes[first])
      size == Max({1, ones})
      lead == bytes[first] - (256 - 2 ^ (8 - ones))
  IN [size |-> size,
      code |-> FoldLeft(LAMBDA code, n : (64 * code) + (bytes[first + n] % 64), lead, [n \in 1..size - 1 |-> n])]

-----------------------------------------------------------------------------
(* Letters that are one code point with their marks.                       *)
ComposedLetters ==
  Row("a", \h1F00, 4, 1..2, NoIota) \cup Row("e", \h1F10, 3, 1..2, NoIota)
  \cup Row("h", \h1F20, 4, 1..2, NoIota) \cup Row("i", \h1F30, 4, 1..2, NoIota)
  \cup Row("o", \h1F40, 3, 1..2, NoIota) \cup Row("u", \h1F50, 4, {2}, NoIota)
  \cup Row("w", \h1F60, 4, 1..2, NoIota)
  \cup Row("a", \h1F80, 4, 1..2, Iota) \cup Row("h", \h1F90, 4, 1..2, Iota) \cup Row("w", \h1FA0, 4, 1..2, Iota)
  \cup IotaRow("a", \h1FB2) \cup IotaRow("h", \h1FC2) \cup IotaRow("w", \h1FF2)
  \cup DialytikaRow("i", \h1FD0) \cup DialytikaRow("u", \h1FE0)
  \cup {Entry(<<"i", "+", "/">>, \h1FD3), Entry(<<"u", "+", "/">>, \h1FE3),
        Entry(<<"r", ")">>, \h1FE4), Entry(<<"r", "(">>, \h1FE5), Entry(<<"*", "(", "r">>, \h1FEC)}
  \cup {Entry(<<Vowels[n], "\\">>, \h1F6E + 2 * n) : n \in 1..7}
  \cup {Entry(<<Vowels[n], "/">>, \h1F6F + 2 * n) : n \in 1..7}
CapitalGraves == [a |-> \h1FBA, e |-> \h1FC8, h |-> \h1FCA, i |-> \h1FDA, o |-> \h1FF8, u |-> \h1FEA, w |-> \h1FFA]
ComposedCapitals ==
  UNION {{Entry(<<"*", "\\", ch>>, CapitalGraves[ch]), Entry(<<"*", "/", ch>>, CapitalGraves[ch] + 1)} :
           ch \in DOMAIN CapitalGraves}
Extended == ComposedLetters \cup ComposedCapitals

(* uni03xx_greek_betacode and uni1Fxx_greek_betacode.  What they have no   *)
(* sign for is an escape sequence, or nothing if it is not assigned.       *)
Tonos == [a |-> \h3AC, e |-> \h3AD, h |-> \h3AE, i |-> \h3AF, o |-> \h3CC, u |-> \h3CD, w |-> \h3CE]
TonosCapital == [a |-> \h386, e |-> \h388, h |-> \h389, i |-> \h38A, o |-> \h38C, u |-> \h38E, w |-> \h38F]
Modern ==
  {Entry(<<ch, "/">>, Tonos[ch]) : ch \in DOMAIN Tonos}
  \cup {Entry(<<"*", "/", ch>>, TonosCapital[ch]) : ch \in DOMAIN TonosCapital}
  \cup {Entry(<<"*", GreekOrder[n]>>, \h390 + n) : n \in Alphabet}
  \cup {Entry(<<GreekOrder[n]>>, \h3B0 + n) : n \in Alphabet \ {19}}
  \cup {Entry(<<"s", "2">>, \h3C2), Entry(<<"s", "1">>, \h3C3), Entry(<<"s", "3">>, \h3F2), Entry(<<"*", "s", "3">>, \h3F9),
        Entry(<<"i", "+", "/">>, \h390), Entry(<<"u", "+", "/">>, \h3B0), Entry(<<"*", "+", "i">>, \h3AA),
        Entry(<<"*", "+", "u">>, \h3AB), Entry(<<"+", "i">>, \h3CA), Entry(<<"+", "u">>, \h3CB),
        Entry(<<"*", "v">>, \h3DC), Entry(<<"v">>, \h3DD), Entry(<<";">>, \h37E), Entry(<<":">>, \h387)}
  \cup {Entry(<<ch>>, GreekSign[ch]) : ch \in {"\\", "/", ")", "(", "?", "=", "#"}}
Unassigned ==
  {\h1F16, \h1F17, \h1F1E, \h1F1F, \h1F46, \h1F47, \h1F4E, \h1F4F, \h1F58, \h1F5A, \h1F5C, \h1F5E, \h1F7E, \h1F7F,
   \h1FB5, \h1FC5, \h1FD4, \h1FD5, \h1FDC, \h1FF0, \h1FF1, \h1FF5, \h1FFF}
SignsElsewhere ==
  \hAB :> "\"" @@ \hBB :> "\"" @@ \hB7 :> ":" @@ \h2BC :> "'" @@ \h2010 :> "-" @@ \h2014 :> "_"
  @@ \h2039 :> "<" @@ \h203A :> ">"

TableOf(entries) == [code \in {e.code : e \in entries} |-> (CHOOSE e \in entries : e.code = code).beta] @@ <<>>
ModernBeta == TableOf(Modern)
ExtendedBeta == TableOf(Extended) @@ [code \in Unassigned |-> <<>>]
GreekBeta == ModernBeta @@ ExtendedBeta
DemoticBeta == TableOf({Entry(r.beta, r.codes[1]) : r \in DemoticRules} \cup {Entry(<<"\\">>, \h300)})
CopticBeta == DemoticBeta @@ TableOf({Entry(r.beta, r.codes[1]) : r \in CopticRules})
HebrewBeta == TableOf({Entry(HebrewOrder[n], \h5CF + n) : n \in DOMAIN HebrewOrder})
InTables ==
  [greek |-> \h300..\h3FF \cup \h1F00..\h1FFF, coptic |-> \h300..\h3FF \cup \h2C80..\h2CFF, hebrew |-> \h590..\h5FF]

Escaped(code) == <<"{", "\\", "u">> \o Hex(code) \o <<"}">>

(* ub_isgreek_alpha_03xx and ub_isgreek_alpha_1Fxx                          *)
GreekAlpha ==
  {\h386} \cup \h388..\h38A \cup {\h38C} \cup \h38E..\h3A1 \cup \h3A3..\h3CE \cup {\h3DC, \h3DD}
  \cup (\h1F00..\h1FFC \ (Unassigned \cup \h1FBD..\h1FC1 \cup \h1FCD..\h1FCF \cup \h1FDD..\h1FDF \cup \h1FED..\h1FEF))

-----------------------------------------------------------------------------
(* ub_greek2beta, ub_coptic2beta, ub_hebrew2beta: one code point.          *)
EndsIn(form) == Len(beta_string) >= 2 /\ Last(Front(beta_string)) = "s" /\ Last(beta_string) = form
WithoutForm == Front(beta_string)

Mutant_Shortened(code) ==              \* bug: before a small letter or not
  IF lib_lang = "greek" /\ (EndsIn("2") \/ EndsIn("1")) THEN WithoutForm ELSE beta_string

(* The form of a sigma is left out before text that implies it.            *)
Shortened(code) ==
  IF lib_lang = "greek" /\ \/ code < 127 /\ EndsIn("2")
                           \/ code \in GreekAlpha /\ EndsIn("1")
  THEN WithoutForm ELSE beta_string

BetaTable ==
  CASE lib_lang = "greek" -> GreekBeta [] lib_lang = "coptic" -> CopticBeta [] lib_lang = "hebrew" -> HebrewBeta
SignsOf ==
  CASE lib_lang = "greek" -> DOMAIN SignsElsewhere [] lib_lang = "coptic" -> {\hAB, \hBB} [] lib_lang = "hebrew" -> {}

(* An escape sequence written with sprintf counts for 9 characters,        *)
(* whatever its length: of one with 8 the NUL after it stays in the string. *)
Numbered(code) == SubSeq(Escaped(code) \o <<NUL>>, 1, 9)
BetaOf(code) ==
  IF code < 127 THEN <<CharOf[code]>>
  ELSE IF code \in InTables[lib_lang]
  THEN IF code \in DOMAIN BetaTable THEN BetaTable[code]
       ELSE IF code = \h1FE9 THEN Escaped(\h1FE8) ELSE Escaped(code)
  ELSE IF code \in SignsOf THEN <<SignsElsewhere[code]>> ELSE Numbered(code)

ToBeta ==
  /\ utf8_at <= Len(utf8_string)
  /\ LET letter == Utf8ToCodept(utf8_string, utf8_at)
     IN /\ beta_string' = Shortened(letter.code) \o BetaOf(letter.code)
        /\ utf8_at' = utf8_at + letter.size
  /\ UNCHANGED <<lib_lang, utf8_string, beta_at, open_quote, utf8_again>>

-----------------------------------------------------------------------------
(* ub_greek_scanchar, ub_coptic_scanchar, ub_hebrew_scanchar: the letter   *)
(* at the reading position, its form or marks, and where the next begins.  *)
At(n) == IF n > Len(beta_string) THEN NUL ELSE beta_string[n]
MarkChars == {")", "(", "\\", "/", "=", "+", "|"}
Unmarked(n) == Min({m \in n..Len(beta_string) + 1 : At(m) \notin MarkChars})
MarksAt(n) == {At(m) : m \in n..Unmarked(n) - 1}
Scanned(ch, form, marks, next) == [ch |-> ch, form |-> form, marks |-> marks, next |-> next]

GreekCapitalAt(n) ==
  LET m == Unmarked(n + 1)
      marks == MarksAt(n + 1)
  IN IF At(m) \notin Letters THEN Scanned(NUL, "", marks, m)
     ELSE IF At(m + 1) = "|" THEN Scanned(ToUpper(At(m)), "", marks \cup {"|"}, m + 2)
     ELSE Scanned(ToUpper(At(m)), "", marks, m + 1)
GreekSigmaAt(n) ==
  IF At(n + 1) \in {"1", "2", "3"} THEN Scanned("s", At(n + 1), {}, n + 2)
  ELSE Scanned("s", IF At(n + 1) \in Letters THEN "1" ELSE "2", {}, n + 1)
GreekAt(n) ==
  IF At(n) = "*" THEN GreekCapitalAt(n)
  ELSE IF At(n) \in {"s", "S"} THEN GreekSigmaAt(n)
  ELSE IF At(n) \in Letters THEN Scanned(ToLower[At(n)], "", MarksAt(n + 1), Unmarked(n + 1))
  ELSE Scanned(At(n), "", {}, n + 1)
CopticAt(n) ==
  IF At(n) = "*" /\ At(n + 1) \in Letters THEN Scanned(At(n + 1), "*", {}, n + 2)
  ELSE Scanned(At(n), "", {}, n + 1)
HebrewAt(n) ==
  IF At(n) \in {"k", "m", "n", "p", "T"} /\ At(n + 1) \in {"1", "2"} THEN Scanned(At(n), At(n + 1), {}, n + 2)
  ELSE Scanned(At(n), "", {}, n + 1)

-----------------------------------------------------------------------------
(* ub_greek_char2utf8 and ub_greek_poly2utf8.  Where no single code point  *)
(* exists the Latin letter is printed and the marks after it, those of a   *)
(* vowel or rho in another order than those of other letters, where the    *)
(* test for the dialytika stands in the place of that for the iota.        *)
AsciiToGreek(ch) ==
  IF ch = "V" THEN \h3DC ELSE IF ch \in UpperLetters THEN AsciiToGreekCapital(ch)
  ELSE IF ch \in LowerLetters THEN AsciiToGreekSmall(ch)
  ELSE IF ch = "'" THEN \h2BC
  ELSE IF ch \in DOMAIN GreekSign THEN GreekSign[ch] ELSE IF ch = NUL THEN 0 ELSE Ascii[ch]
SigmaForm == ("1" :> \h3C3) @@ ("2" :> \h3C2) @@ ("3" :> \h3F2)

LetterIn(e) == SelectSeq(e.beta, LAMBDA ch : ch \in Letters)[1]
Marking(e) == <<IF e.beta[1] = "*" THEN ToUpper(LetterIn(e)) ELSE LetterIn(e), Range(e.beta) \cap MarkChars>>
CombiningEntries ==
  Extended \cup {Entry(<<"*", "+", "i">>, \h3AA), Entry(<<"*", "+", "u">>, \h3AB),
                 Entry(<<"i", "+">>, \h3CA), Entry(<<"u", "+">>, \h3CB)}
GreekCombining ==
  [marking \in {Marking(e) : e \in CombiningEntries} |->
     (CHOOSE e \in CombiningEntries : Marking(e) = marking).code] @@ <<>>

InOrder(order, marks) == SelectSeq(order, LAMBDA ch : ch \in marks)
MarkCodesOf(order, marks) == [n \in DOMAIN InOrder(order, marks) |-> GreekSign[InOrder(order, marks)[n]]]
LatinCode(ch) == IF ch = NUL THEN 0 ELSE Ascii[ch]
GreekCodepts(c) ==
  IF c.marks = {} THEN <<IF c.ch = "s" THEN SigmaForm[c.form] ELSE AsciiToGreek(c.ch)>>
  ELSE IF <<c.ch, c.marks>> \in DOMAIN GreekCombining THEN <<GreekCombining[<<c.ch, c.marks>>]>>
  ELSE IF c.ch \in Letters /\ ToLower[c.ch] \in Range(Vowels) \cup {"r"}
  THEN <<Ascii[c.ch]>> \o MarkCodesOf(<<"+", ")", "(", "\\", "/", "=", "|">>, c.marks)
  ELSE <<LatinCode(c.ch)>> \o MarkCodesOf(<<")", "(", "\\", "/", "=", "+">>, c.marks)
       \o (IF "+" \notin c.marks THEN <<>> ELSE IF c.ch \in UpperLetters THEN <<\h1FBE>> ELSE <<\h345>>)

CopticSign == "-" :> \h2010 @@ "<" :> \h2039 @@ ">" :> \h203A @@ "\\" :> \h300 @@ "_" :> \h2014
CopticCodept(c) ==
  IF c.form = "*" THEN AsciiToCoptic(c.ch)
  ELSE IF c.ch \in Letters THEN AsciiToCoptic(c.ch) + 1
  ELSE IF c.ch \in DOMAIN CopticSign THEN CopticSign[c.ch] ELSE Ascii[c.ch]

HebrewSign == "'" :> \h2018 @@ "-" :> \h2010 @@ "_" :> \h2014 @@ "bq" :> \h201A
HebrewCodept(c) ==
  IF c.ch \in Letters THEN AsciiToHebrew(c.ch) - (IF c.form = "2" THEN 1 ELSE 0)
  ELSE IF c.ch \in DOMAIN HebrewSign THEN HebrewSign[c.ch] ELSE Ascii[c.ch]

(* ub_beta2greek, ub_beta2coptic, ub_beta2hebrew: one letter.              *)
Scanchar(n) ==
  CASE lib_lang = "greek" -> GreekAt(n) [] lib_lang = "coptic" -> CopticAt(n) [] lib_lang = "hebrew" -> HebrewAt(n)
Codepts(c) ==
  CASE lib_lang = "greek" -> GreekCodepts(c) [] lib_lang = "coptic" -> <<CopticCodept(c)>>
    [] lib_lang = "hebrew" -> <<HebrewCodept(c)>>
QuoteAt(n) == lib_lang # "hebrew" /\ At(n) = "\""

WholeBeta == utf8_at > Len(utf8_string)

FromBeta ==
  /\ WholeBeta /\ At(beta_at) # NUL
  /\ LET c == Scanchar(beta_at)
     IN /\ beta_at' = c.next
        /\ utf8_again' = utf8_again \o
             CodesToUtf8(IF QuoteAt(beta_at) THEN <<IF open_quote THEN \hBB ELSE \hAB>> ELSE Codepts(c))
  /\ open_quote' = (open_quote # QuoteAt(beta_at))
  /\ UNCHANGED <<lib_lang, utf8_string, utf8_at, beta_string>>

LibInit(language, codes) ==
  /\ lib_lang = language
  /\ utf8_string = CodesToUtf8(codes)
  /\ utf8_at = 1 /\ beta_string = <<>>
  /\ beta_at = 1 /\ open_quote = FALSE /\ utf8_again = <<>>

LibNext == ToBeta \/ FromBeta
LibDone == WholeBeta /\ At(beta_at) = NUL
-----------------------------------------------------------------------------
(* Which texts come back as they were: what is read again must be a letter *)
(* for each code point, and in Greek the letters must not run together.    *)
(* Vowels with tonos come back with oxia, the same letters.                *)
TonosToOxia ==
  [code \in {e.code : e \in {m \in Modern : \E x \in Extended : x.beta = m.beta}} |->
     (CHOOSE e \in Extended : e.beta = GreekBeta[code]).code]
  @@ \h37E :> Ascii[";"] @@ \h387 :> \hB7
Again(codes) ==
  [n \in DOMAIN codes |->
     IF lib_lang = "greek" /\ codes[n] \in DOMAIN TonosToOxia THEN TonosToOxia[codes[n]] ELSE codes[n]]

(* The dialytika stands before its letter, the lunate capital sigma has no *)
(* sign on the way back, nor has the Coptic psi.                           *)
ComesBack(code) ==
  IF code < 127
  THEN IF lib_lang = "hebrew" THEN CharOf[code] \notin Letters \cup DOMAIN HebrewSign
       ELSE /\ CharOf[code] \notin Letters \cup {"\""}
            /\ CharOf[code] \notin (IF lib_lang = "greek" THEN DOMAIN GreekSign \cup {"'", "*"} ELSE DOMAIN CopticSign)
  ELSE code \in (DOMAIN BetaTable \cup SignsOf) \ (Unassigned \cup {\h3CA, \h3CB, \h3F9, \h2CAE, \h2CAF})

SmallLetter(code) == code \in GreekAlpha \cup {\h3F2} /\ BetaOf(code)[1] \in Letters
LettersApart(codes) == \A n \in 1..Len(codes) - 1 :
  LET code == codes[n]
      next == codes[n + 1]
  IN CASE lib_lang = "greek" ->
            /\ SmallLetter(code) /\ BetaOf(code)[1] # "s" => ~\E ch \in MarkChars : BetaOf(next) = <<ch>>
            /\ code = MiddleSigma /\ next \in GreekAlpha => SmallLetter(next)
            /\ code = FinalSigma => next \notin {Ascii[ch] : ch \in {"1", "2", "3"}}
       [] lib_lang = "coptic" -> code = Ascii["*"] => BetaOf(next)[1] \notin Letters
       [] OTHER -> TRUE
QuotesPaired(codes) ==
  lib_lang # "hebrew" => \A n \in DOMAIN codes : codes[n] \in {\hAB, \hBB} =>
    (codes[n] = \hBB) = (Cardinality({m \in 1..n - 1 : codes[m] \in {\hAB, \hBB}}) % 2 = 1)

Preserved(codes) ==
  (\A n \in DOMAIN codes : ComesBack(codes[n])) /\ LettersApart(codes) /\ QuotesPaired(codes)
=============================================================================
