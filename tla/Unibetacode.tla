---------------------------- MODULE Unibetacode ----------------------------
(***************************************************************************)
(* The filters of unibetacode as pipes: uni2beta and then beta2uni on what *)
(* it printed, and unibetaprep and then beta2uni; and libunibetacode     *)
(* both ways.  A text is made of units; a unit has the text it is written  *)
(* with, code points for uni2beta and the library and characters for       *)
(* unibetaprep, and the code points it means.                              *)
(***************************************************************************)
EXTENDS UbLib, UnibetaPrep

CONSTANTS Lines,         \* the texts for uni2beta, each one line
          Preparations,  \* the texts for unibetaprep
          Strings        \* the languages and texts for the library

VARIABLES line,    \* the units of the text
          filter,  \* the first filter of the pipe, or the library
          reading  \* has beta2uni begun?

vars == <<u2bVars, prepVars, b2uVars, libVars, line, filter, reading>>

WrittenAs(units) == FoldLeft(LAMBDA chars, u : chars \o u.text, <<>>, units)
MeantBy(units) == FoldLeft(LAMBDA codes, u : codes \o u.meant, <<>>, units)

Init ==
  /\ \/ /\ filter = "uni2beta" /\ line \in Lines
        /\ Uni2BetaInit({WrittenAs(line)}) /\ PrepInit({<<>>}) /\ LibInit("greek", <<>>)
     \/ /\ filter = "unibetaprep" /\ line \in Preparations
        /\ Uni2BetaInit({<<>>}) /\ PrepInit({WrittenAs(line)}) /\ LibInit("greek", <<>>)
     \/ /\ filter = "library" /\ \E s \in Strings : line = s.text /\ LibInit(s.lang, WrittenAs(s.text))
        /\ Uni2BetaInit({<<>>}) /\ PrepInit({<<>>})
  /\ Beta2UniInit({<<>>})
  /\ reading = FALSE

Write ==
  /\ ~reading
  /\ \/ filter = "uni2beta" /\ Convert /\ UNCHANGED prepVars
     \/ filter = "unibetaprep" /\ Prepare /\ UNCHANGED u2bVars
  /\ UNCHANGED <<b2uVars, libVars, line, filter>>
  /\ reading' = FALSE

Open ==
  /\ ~reading
  /\ reading' = TRUE
  /\ \/ filter = "uni2beta" /\ Converted /\ yyin' = written
     \/ filter = "unibetaprep" /\ Prepared /\ yyin' = prep_out
  /\ UNCHANGED <<u2bVars, prepVars, at, lang_type, doubleq_style, quote_state, uni, libVars, line, filter>>

Read ==
  /\ reading
  /\ Scan
  /\ UNCHANGED <<u2bVars, prepVars, libVars, line, filter, reading>>

Call ==
  /\ filter = "library"
  /\ LibNext
  /\ UNCHANGED <<u2bVars, prepVars, b2uVars, line, filter, reading>>

Next == Write \/ Open \/ Read \/ Call
Spec == Init /\ [][Next]_vars

Done == reading /\ AllScanned

-----------------------------------------------------------------------------
TypeOK ==
  /\ lang_mode \in {"greek", "latin", "coptic", "hebrew"}
  /\ lang_type \in {"greek", "latin", "coptic", "hebrew"}
  /\ uppercase \in BOOLEAN /\ was_escaped \in BOOLEAN /\ reading \in BOOLEAN
  /\ \A n \in DOMAIN written : written[n] \in Characters
  /\ \A n \in DOMAIN uni : uni[n] \in 0..\h10FFFF
  /\ \A n \in DOMAIN prep_out : prep_out[n] \in Characters
  /\ escaped_last \in BOOLEAN /\ prep_at \in 1..Len(prep_in) + 2
  /\ pos \in 1..Len(text) + 2 /\ at \in 1..Len(yyin) + 1

-----------------------------------------------------------------------------
(* What does not survive, each for a reason of its own.                    *)
Units == DOMAIN line
Meant(n) == IF n \in Units THEN line[n].meant[1] ELSE 0
Bare == {\h3B1, \h3B9, \h3C5, \h5E2, \h2C81, \h2C93, \h2CA9, Ascii["a"], Ascii["i"], Ascii["u"],
         Ascii["A"], Ascii["I"], Ascii["U"]}
LatinCodes == AsciiCodes \ ({Ascii[Newline]} \cup {Ascii[ch] : ch \in CommonToAll})
ShiftedCodes == CopticCodes \cup HebrewCodes
LanguageAt(n) ==
  LET shifts == {m \in 1..n : Meant(m) \in LatinCodes \cup ShiftedCodes \cup GreekCodes
                               \cup {\hAB, \hBB, \hB7, \h2BB, \h2BC}}
  IN IF shifts = {} THEN "greek"
     ELSE IF Meant(Max(shifts)) \in LatinCodes THEN "latin"
     ELSE IF Meant(Max(shifts)) \in ShiftedCodes THEN LanguageOf(Meant(Max(shifts))) ELSE "greek"

(* Code points uni2beta has a wrong or an ambiguous Beta Code for: capital *)
(* eta and iota with dasia, capital eta with subscript, decomposed iota    *)
(* with macron and omega with subscript, capital digamma; and Coptic psi,  *)
(* which beta2uni has no letter for.                                       *)
Misprinted ==
  { <<\h1F29>>, <<\h1F2B>>, <<\h1F2D>>, <<\h1F2F>>, <<\h1F3B>>, <<\h1F3D>>, <<\h1F3F>>,
    <<\h3B9, \h304>>, <<\h3A9, \h345>>, <<\h3B9, \h302, \h348>>, <<\h3C5, \h302, \h348>>, <<\h3DC>>, <<\h2CAE>>, <<\h2CAF>> }
  \cup {<<code>> : code \in \h1F98..\h1F9F}
(* beta2uni prints NUL or a raw "*" for a capital letter with varia alone. *)
CapitalVaria == {\h1FBA, \h1FC8, \h1FCA, \h1FDA, \h1FEA, \h1FF8, \h1FFA}
(* Spacing marks come back as combining ones.                              *)
Spacing == {\h37A, \h384, \h385, \h1FBD, \h1FBE, \h1FBF, \h1FC0, \h1FEF, \h1FFD, \h1FFE}

SmallGreek ==
  {r.codes[1] : r \in {q \in BasicRules \cup ExtendedRules : q.lang = "greek" /\ q.beta[1] \in Letters}}
  \cup {MiddleSigma, FinalSigma}
SigmaInside == \A n \in Units : Meant(n) = MiddleSigma => Meant(n + 1) \in SmallGreek
QuotesAlternate == \A n \in Units :
  LET before == Cardinality({m \in 1..n - 1 : Meant(m) \in {\hAB, \hBB}})
  IN /\ Meant(n) = \hAB => before % 2 = 0
     /\ Meant(n) = \hBB => before % 2 = 1
(* A switch comes before a space when a letter follows it.                 *)
Ahead(n) == IF Meant(n + 1) = Ascii[" "] /\ Meant(n + 2) \in ShiftedCodes THEN n + 2 ELSE n + 1
NoMarkBySwitch == \A n \in Units : Meant(n) \in Bare =>
  /\ Meant(Ahead(n)) \in LatinCodes \cup ShiftedCodes => LanguageAt(n) = LanguageAt(Ahead(n))
  /\ Meant(n + 1) = \h2BC => LanguageOf(Meant(n)) # "greek"
NoNumberAfterSwitch == \A n \in Units :
  Meant(n) \in {Ascii[d] : d \in Digits} => LanguageAt(n - 1) = "latin"
NoLatinFinalS == \A n \in Units : Meant(n) = Ascii["S"] =>
  Meant(n + 1) \in {Ascii[ch] : ch \in AlphaNumeric}
EscapedInLatin(n) ==
  LanguageAt(n) = "latin" /\ LanguageOf(Meant(n)) = "none" /\ Meant(n) > 127
NothingInsideEscape == \A n \in Units : EscapedInLatin(n) => LanguageAt(n + 1) = "latin"

Survives ==
  /\ \A n \in Units : line[n].text \notin Misprinted /\ Meant(n) \notin CapitalVaria \cup Spacing
  /\ SigmaInside /\ QuotesAlternate /\ NoMarkBySwitch
  /\ NoNumberAfterSwitch /\ NoLatinFinalS /\ NothingInsideEscape

(* The pipe gives a text back in its canonical form, but for the contexts  *)
(* above, and for none of them.                                            *)
RoundTrip == Done /\ filter = "uni2beta" => (Survives <=> uni = MeantBy(line))

(* "Flush any pending output and set the font to LANG_GREEK at end of      *)
(* line." (uni2beta.l:795): what is read after a newline is read as Greek, *)
(* but for two cases in which uni2beta takes the line for Greek and        *)
(* beta2uni takes it for Latin.  The last switch of the line, from Latin   *)
(* to Greek, follows on an escape sequence and stands inside its braces;   *)
(* or the last switch is the & that is written for an iota with macron.    *)
ReadAsLatinFrom(n) ==
  /\ EscapedInLatin(n) \/ line[n].text = <<\h3B9, \h304>>
  /\ \A m \in n + 1..Len(line) : LanguageAt(m) = "greek"

-----------------------------------------------------------------------------
(* What unibetaprep does not prepare, each for a reason of its own.        *)
Text(n) == IF n \in Units THEN line[n].text ELSE <<>>
IsCode(n) == Text(n) \in PrepLexemes
OpenBefore(n) ==   \* an escape sequence, with newlines in it perhaps
  \E m \in 1..n - 1 : IsCode(m) /\ \A k \in m + 1 .. n - 1 : Text(k) = <<Newline>>
StartsWithHex(n) == IsCode(n) /\ EscapedText(Text(n))[1] \in HexDigits
EndsInNumber(n) == IsCode(n) /\ (Last(PrepCodes[Text(n)]) > 127 \/ Text(n) \in NamedAscii)
(* The number of a code is read with the digits after it.                  *)
NumbersEnd == \A n \in Units : IsCode(n) /\ n + 1 \in Units =>
  ~\E code \in PrepLexemes : Len(code) > Len(Text(n)) /\ IsPrefix(code, Text(n) \o Text(n + 1))
(* "%%" is printed as it is: it was written for printf.                    *)
Doubled == {<<"%", "8">>, <<"%", "1", "3", "9">>, <<"%", "1", "5", "7">>}
(* A text with a brace in an escape sequence that is open already.         *)
BracesStandAlone == \A n \in Units : Text(n) \in {r.lexeme : r \in BraceNumbers} => ~OpenBefore(n)
(* Joined sequences: the text of the next code goes on with the number.    *)
NumbersApart == \A n \in Units : EndsInNumber(n) => ~StartsWithHex(n + 1)
(* The sign of a font code is put in braces, and beta2uni prints it instead *)
(* of changing the font.                                                   *)
NoFonts == \A n \in Units : Text(n) \notin {r.lexeme : r \in FontCodes}

IsPrepared ==
  /\ \A n \in Units : Text(n) \notin Doubled
  /\ NumbersEnd /\ BracesStandAlone /\ NumbersApart

(* unibetaprep and beta2uni print what the numbered codes of a text mean,  *)
(* wherever the codes follow on each other, but for the cases above, and   *)
(* for none of them; a font code never has its effect.                     *)
CodesMeant == Done /\ filter = "unibetaprep" =>
  IF NoFonts THEN IsPrepared <=> uni = MeantBy(line)
  ELSE IsPrepared => uni # MeantBy(line)
-----------------------------------------------------------------------------
(* The functions of the library undo each other on exactly these texts; on *)
(* any other, what comes back is another text.  This is what the code does, *)
(* not what its manual promises: see SigmasUnambiguous.                    *)
LibraryRoundTrip == filter = "library" /\ LibDone =>
  (Preserved(WrittenAs(line)) <=> utf8_again = CodesToUtf8(Again(WrittenAs(line))))

(* ub_greek2beta will "convert Greek medial and final small sigma to "s" if *)
(* context will make the conversion back from Beta Code to UTF-8           *)
(* unambiguous.  If this is not the case, small sigma will be converted to *)
(* "s1" for small medial sigma or "s2" for small final sigma."             *)
(* (libunibetacode.3:152-157): in a text of Greek letters that come back,  *)
(* each small sigma comes back as the one it was.                          *)
SigmasUnambiguous ==
  LET codes == WrittenAs(line)
      UpTo(n) == CodesToUtf8(Again(SubSeq(codes, 1, n)))
  IN /\ filter = "library" /\ lib_lang = "greek" /\ LibDone
     /\ \A n \in DOMAIN codes : codes[n] \in GreekAlpha /\ ComesBack(codes[n])
     => \A n \in DOMAIN codes :
          codes[n] \in {MiddleSigma, FinalSigma} => IsPrefix(UpTo(n), utf8_again)
=============================================================================
