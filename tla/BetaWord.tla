------------------------------- MODULE BetaWord -------------------------------
(***************************************************************************)
(* The words of Morpheus and what greeklib does to them.  A word is a      *)
(* sequence of one-character strings in beta code: small letters, "*"      *)
(* before a capital, ( ) breathings, / \ = accents, | iota subscript,      *)
(* + diaeresis, _ ^ marks of length, - between stem and ending.            *)
(*                                                                         *)
(* A pointer into a word is a position, Len(w) + 1 its final NUL and 0 the *)
(* error pointer P_ERR.  A function that writes into its argument returns  *)
(* the written word.                                                       *)
(***************************************************************************)
EXTENDS Naturals, Sequences, SequencesExt, FiniteSetsExt

NUL == ""
Chars(string) == [i \in 1..Len(string) |-> SubSeq(string, i, i)]
CharSet(string) == ToSet(Chars(string))
At(w, p) == IF p \in DOMAIN w THEN w[p] ELSE NUL
From(w, p) == SubSeq(w, p, Len(w))

(***************************************************************************)
(* The classes of characters.                                              *)
(***************************************************************************)
Small == Chars("abcdefghijklmnopqrstuvwxyz")
Capital == Chars("ABCDEFGHIJKLMNOPQRSTUVWXYZ")
LowerOf(c) == IF c \in ToSet(Capital) THEN Small[SelectInSeq(Capital, LAMBDA d : d = c)] ELSE c
UpperOf(c) == IF c \in ToSet(Small) THEN Capital[SelectInSeq(Small, LAMBDA d : d = c)] ELSE c

ShortVowels == {"a", "e", "i", "o", "u", "A", "E", "I", "O", "U"}
LongVowels == {"h", "w", "H", "W"}
Vowels == ShortVowels \cup LongVowels
Consonants ==
  {"b", "c", "d", "f", "g", "k", "l", "m", "n", "p", "q", "r", "s", "t", "x", "y", "z",
   "B", "C", "D", "F", "G", "K", "L", "M", "N", "P", "Q", "R", "S", "T", "X", "Y", "Z"}
DoubleConsonants == {"c", "y", "z"}
Labials == {"p", "b", "f"}
Palatals == {"k", "g", "x", "c"}
Unaspirated == {"p", "t", "k", "b", "d", "g"}
Rough == {"f", "q", "x"}
Alphabetic == Vowels \cup Consonants \cup {"j", "v", "J", "V"}

ACUTE == "/"
GRAVE == "\\"
CIRCUMFLEX == "="
NOACCENT == " "
Accents == {ACUTE, GRAVE, CIRCUMFLEX}
Breaths == {"(", ")"}
Quantities == {"_", "^"}
DIAERESIS == "+"
SUBSCR == "|"
Diacritics == Accents \cup Breaths \cup Quantities \cup {DIAERESIS, SUBSCR}
STEMSEP == "-"
Junk == CharSet(",.:;<>[]^-") \cup {"\""}

(***************************************************************************)
(* Removing characters.  Some loops step over the character that takes the *)
(* place of the one they removed: of two in a row the second stays.        *)
(***************************************************************************)
Without(w, chars) == SelectSeq(w, LAMBDA c : c \notin chars)
Kept(w, Keep(_)) == FoldLeft(LAMBDA kept, p : IF Keep(p) THEN Append(kept, w[p]) ELSE kept,
                             <<>>, [p \in DOMAIN w |-> p])
WithoutFrom(w, chars, first) ==
  LET removed[p \in 0..Len(w)] == p >= first /\ At(w, p) \in chars /\ ~removed[p - 1]
  IN  Kept(w, LAMBDA p : ~removed[p])

stripbreath(w) == Without(w, Breaths)
stripdiaer(w) == Without(w, {DIAERESIS})
stripstemsep(w) == Without(w, {STEMSEP})
stripchar(w, c) == Without(w, {c})
stripshortmark(w) == Without(w, {"^"})
striplongmark(w) == Without(w, {"_"})
stripquant(w) == striplongmark(stripshortmark(w))
stripacute(w) == WithoutFrom(w, {ACUTE}, 1)
striphyph(w) == WithoutFrom(w, {"-"}, 1)
stripzeroend(w) == IF w # <<>> /\ Last(w) = "*" THEN Front(w) ELSE w
strsqz(w, p, n) == SubSeq(w, 1, p - 1) \o From(w, p + n)
cinsert(w, c, p) == InsertAt(w, p, c)
subchar(w, c1, c2) == [p \in DOMAIN w |-> IF w[p] = c1 THEN c2 ELSE w[p]]
standalpha(w) == Kept([p \in DOMAIN w |-> IF w[p] = "a" /\ At(w, p + 1) = "_" THEN "h" ELSE w[p]],
                      LAMBDA p : w[p] = "_" => At(w, p - 1) # "a")

hasaccent(w) == \E p \in DOMAIN w : w[p] \in Accents
has_quant(w) == \E p \in DOMAIN w : w[p] \in Quantities
has_diaeresis(w) == \E p \in DOMAIN w : w[p] = DIAERESIS
naccents(w) == Len(SelectSeq(w, LAMBDA c : c \in Accents))
getbreath(w) == LET breaths == SelectSeq(w, LAMBDA c : c \in Breaths)
                IN  IF breaths = <<>> THEN NOACCENT ELSE Head(breaths)

(***************************************************************************)
(* A breathing after the first consonant, or a second one, is extra.       *)
(* zap_rr_breath writes a)nanti/r)r(hton as a)nanti/rrhton; it does not    *)
(* look at the first character.                                            *)
(***************************************************************************)
Breathed(w, first) ==
  LET marks == {p \in first..Len(w) : w[p] \in Consonants \cup Breaths}
  IN  IF marks = {} THEN Len(w) + 1 ELSE Min(marks) + 1
zap_extra_breath(w) ==
  WithoutFrom(w, Breaths, Breathed(w, IF IsPrefix(<<"r", "(">>, w) THEN 3 ELSE 1))
has_extra_breath(w) == \E p \in Breathed(w, 1)..Len(w) : w[p] \in Breaths

zap_rr1(w) ==
  LET found == {p \in 2..Len(w) : IsPrefix(Chars("r)r("), From(w, p))}
  IN  IF found = {} THEN w ELSE SubSeq(w, 1, Min(found)) \o <<"r">> \o From(w, Min(found) + 4)
\* every rewriting takes a rough breathing away
zap_rr_breath(w) == FoldLeft(LAMBDA v, breath : zap_rr1(v), w, SelectSeq(w, LAMBDA c : c = "("))

stripmetachars(w) == zap_rr_breath(stripstemsep(stripzeroend(stripquant(w))))

(***************************************************************************)
(* The standard writing of a word read from a text: no diaeresis, no       *)
(* punctuation, one accent, acute for grave, and "*" only at the first     *)
(* place of all.                                                           *)
(***************************************************************************)
FirstAccent(w) == IF hasaccent(w) THEN SelectInSeq(w, LAMBDA c : c \in Accents) ELSE Len(w) + 1
zap2acc(w) == Kept(w, LAMBDA p : w[p] \in Accents => p = FirstAccent(w))
standword(word) ==
  LET w == zap_rr_breath(stripdiaer(word))
      kept == Kept(zap2acc(w) , LAMBDA p : /\ zap2acc(w)[p] \notin Junk
                                           /\ zap2acc(w)[p] = "*" => p = 1)
  IN  subchar(kept, GRAVE, ACUTE)

(***************************************************************************)
(* Capitals: *(/ellhn is written (/E... by neither: normucase makes it     *)
(* E(/llhn, beta_tolower e(/llhn.                                          *)
(***************************************************************************)
FirstLetter(w) == LET letters == {p \in DOMAIN w : w[p] \in Alphabetic}
                  IN  IF letters = {} THEN Len(w) + 1 ELSE Min(letters)
Recased(w, c) == <<c>> \o SubSeq(w, 2, FirstLetter(w) - 1) \o From(w, FirstLetter(w) + 1)
normucase(w) ==
  IF At(w, 1) = "*" /\ At(w, FirstLetter(w)) \in ToSet(Small)
  THEN Recased(w, UpperOf(w[FirstLetter(w)])) ELSE w
beta_tolower(w) ==
  IF At(w, 1) # "*" THEN w
  ELSE IF FirstLetter(w) > Len(w) THEN <<>> ELSE Recased(w, w[FirstLetter(w)])

(***************************************************************************)
(* Syllables are counted from the end.  A diphthong is one syllable, whose *)
(* vowel is its second letter.                                             *)
(***************************************************************************)
ULTIMA == 0
PENULT == 1
ANTEPENULT == 2
P_ERR == 0

is_diphth(w, p) ==
  /\ p > 1 /\ At(w, p + 1) # DIAERESIS
  /\ \/ At(w, p) \in {"i", "I"} /\ At(w, p - 1) \in {"a", "e", "o", "u", "A", "E", "O", "U"}
     \/ At(w, p) \in {"u", "U"} /\ At(w, p - 1) \in {"a", "e", "o", "h", "A", "E", "O", "H"}
starts_w_diphth(stem) == is_diphth(stem, 2)

Nuclei(w) == {p \in DOMAIN w : w[p] \in Vowels /\ ~is_diphth(w, p)}
nsylls(w) == Cardinality(Nuclei(w))
LastPlace(places) == IF places = {} THEN P_ERR ELSE Max(places)
getsyll(w, syll) ==
  LastPlace({p \in DOMAIN w : w[p] \in Vowels /\ Cardinality({q \in Nuclei(w) : q > p}) = syll})
FirstVowel(w, p) == IF p # P_ERR /\ is_diphth(w, p) THEN p - 1 ELSE p
getsyll2(w, syll) == IF nsylls(w) = 0 THEN 1 ELSE FirstVowel(w, getsyll(w, syll))

stripacc(w) == Without(w, Accents)
\* what stripacc returns: the number of the syllable of the last accent, 0 without one
Accented(w) ==
  LET accents == {p \in DOMAIN w : w[p] \in Accents}
  IN  IF accents = {} THEN 0 ELSE nsylls(From(w, Max(accents))) + 1

ends_in(s1, s2) == IsSuffix(stripdiaer(stripacc(s2)), stripdiaer(stripacc(s1)))
\* the position of s1 in s2, 0 when it does not occur or is empty
is_substring(s1, s2) ==
  LET found == {p \in DOMAIN s2 : IsPrefix(s1, From(s2, p))}
  IN  IF s1 = <<>> \/ found = {} THEN 0 ELSE Min(found)

(***************************************************************************)
(* Quantity.                                                               *)
(***************************************************************************)
LONG == "long"
SHORT == "short"
I_ERR == "no syllable"

long_by_isub(w, p) == \/ At(w, p + 1) = SUBSCR
                      \/ At(w, p + 1) \in Breaths /\ At(w, p + 2) = SUBSCR
Marked(c) == IF c = "_" THEN LONG ELSE SHORT
\* the vowel at p without a mark
Unmarked(w, p, is_ending, is_oblique) ==
  IF ~long_by_isub(w, p)
     /\ IF is_diphth(w, p) THEN /\ w[p] = "i" /\ w[p - 1] \in {"a", "o"}
                                /\ is_ending /\ ~is_oblique
                                /\ p = Len(w) \/ (p = Len(w) - 1 /\ Last(w) \in Accents)
                           ELSE w[p] \in ShortVowels
  THEN SHORT ELSE LONG
\* marks: the marks of length between it and the next consonant
QuantityOf(w, p, marks, is_ending, is_oblique) ==
  IF marks # {} THEN Marked(w[Min(marks)]) ELSE Unmarked(w, p, is_ending, is_oblique)
QuantityAt(w, p, is_ending, is_oblique) ==
  IF p = P_ERR THEN I_ERR
  ELSE QuantityOf(w, p, {q \in p..Len(w) : w[q] \in Quantities /\ \A r \in p..q : w[r] \notin Consonants},
                  is_ending, is_oblique)
quantprim(w, syll, is_ending, is_oblique) == QuantityAt(w, getsyll(w, syll), is_ending, is_oblique)
MarkedAt(w, p, is_ending, is_oblique) ==
  IF p # P_ERR /\ At(w, p + 1) \in Quantities THEN Marked(w[p + 1])
  ELSE QuantityAt(w, p, is_ending, is_oblique)
getquantity(w, syll, is_ending, is_oblique) == MarkedAt(w, getsyll(w, syll), is_ending, is_oblique)
\* the stop-and-liquid case tests Is_labial of a truth value and is never taken
longbyposition(w, p) ==
  LET s == Min({q \in p..Len(w) + 1 : At(w, q) \in (Alphabetic \ Vowels) \cup {NUL}})
  IN  \/ At(w, s) \in DoubleConsonants
      \/ At(w, s) \in Consonants /\ At(w, s + 1) \in Consonants

(***************************************************************************)
(* Accents and breathings of a syllable.                                   *)
(***************************************************************************)
After(w, p, chars) == Min({q \in (p + 1)..(Len(w) + 1) : At(w, q) \notin chars})
getaccp(w, syll) ==
  IF getsyll(w, syll) = P_ERR THEN P_ERR ELSE After(w, getsyll(w, syll), Breaths \cup Quantities)
C_ERR == "no syllable"
getaccent(w, syll) ==
  LET p == getaccp(w, syll)
  IN  CASE p = P_ERR -> C_ERR
        [] p # P_ERR -> IF At(w, p) \in Accents THEN w[p] ELSE NOACCENT
\* a missing syllable is not NOACCENT: an unaccented word ends with its first missing syllable
checkaccent(w) ==
  LET found == {s \in ULTIMA..ANTEPENULT : getaccent(w, s) # NOACCENT}
  IN  IF found = {} THEN [syll |-> I_ERR, acc |-> NOACCENT]
      ELSE [syll |-> Min(found), acc |-> getaccent(w, Min(found))]

addbreath(w, breath) ==
  LET p == CASE At(w, 1) \in {"a", "e", "o"} /\ At(w, 2) \in {"i", "u"} /\ At(w, 3) # DIAERESIS -> 3
             [] At(w, 1) \in {"w", "h"} /\ At(w, 2) = "u" -> 3
             [] OTHER -> IF At(w, 1) \in Vowels THEN 2 ELSE 1
  IN  IF breath \in Breaths THEN cinsert(w, breath, p) ELSE w

addaccent(w, accent, p) ==
  LET q == After(w, p, Breaths \cup Quantities)
  IN  IF /\ At(w, 1) = "*" /\ At(w, 2) \in Breaths
         /\ p = 3 \/ (p = 4 /\ is_diphth(w, p))
      THEN cinsert(w, accent, 3)
      ELSE IF accent = CIRCUMFLEX /\ w[q - 1] = "_"
           THEN cinsert(strsqz(w, q - 1, 1), accent, q - 1)
           ELSE cinsert(w, accent, q)

(***************************************************************************)
(* Changes of sound at one place.                                          *)
(***************************************************************************)
Aspirated(c) == CASE c \in {"t", "d"} -> "q" [] c \in {"p", "b"} -> "f"
                  [] c \in {"k", "g"} -> "x" [] OTHER -> c
aspirate(w, p) == IF p \in DOMAIN w THEN [w EXCEPT ![p] = Aspirated(w[p])] ELSE w
shortanalog(w, p) == [w EXCEPT ![p] = CASE @ = "h" -> "e" [] @ = "w" -> "o" [] OTHER -> @]
Deaspirated(c) == CASE c = "q" -> "t" [] c = "x" -> "k" [] c = "f" -> "p"

next_cons(w, p) == After(w, After(w, p - 1, Consonants \cup Accents) - 1, Vowels \cup Accents)
next_cons_rough(w, p) ==
  LET next == next_cons(w, p)
  IN  \/ At(w, next) \in Rough
      \/ At(w, next) = "s" /\ At(w, next + 1) \in Rough
\* Grassmann's law; a first aorist passive stem ending in an aspirate keeps both
do_dissim(w, pp_ap) ==
  LET found == {p \in DOMAIN w : w[p] \in Rough /\ next_cons_rough(w, p)}
  IN  IF found = {} \/ (pp_ap /\ Last(w) \in Rough) THEN w
      ELSE [w EXCEPT ![Min(found)] = Deaspirated(@)]
=============================================================================
