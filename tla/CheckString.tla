------------------------------ MODULE CheckString ------------------------------
(***************************************************************************)
(* The spellings under which the analyser looks a word up: as it stands,   *)
(* without its capital, with ss for tt, with the vowel an apostrophe took, *)
(* without an enclitic, as two words in crasis, without the augment that   *)
(* epic leaves off; in Latin with v for u and j for i, in Italian with v   *)
(* for u.  Every attempt writes the word in place and what it finds is     *)
(* added to the analyses of the one gk_word.                               *)
(*                                                                         *)
(* A gk_word is a record: rawword, the word as read, and workword, as it   *)
(* is looked up now; crasis; lang; prntflags; dialect, flags and region;   *)
(* stem_gstr, the grammar of the stem looked for; anals, the analyses      *)
(* found, and crases, what each place of their array that was ever used    *)
(* has for a crasis, empty while there is no array; leftover, the          *)
(* character behind the end of the buffers a word is copied to.  rval is   *)
(* what the last function returned, and returned says that the function    *)
(* under way has returned.                                                 *)
(***************************************************************************)
EXTENDS CheckWord, Crasis

LOCAL IONIC == {"ionic"}
LOCAL EPIC == {"homeric", "non_homeric_epic"}
LOCAL PROSE == {"prose"}

As(g, word) == [g EXCEPT !.workword = word]
\* look another word up, and restore the word; the second adds to what was returned before
Trying(g, word, Check(_)) == As(Check(As(g, word)), g.workword)
AlsoTrying(g, word, Check(_)) == Sum(Trying(g, word, Check), g.rval)
\* if( rval ) return(rval);
Return(g) == [g EXCEPT !.returned = g.rval > 0]
Chain(g, steps, Do(_, _)) ==
  FoldLeft(LAMBDA r, step : IF r.returned THEN r ELSE Do(r, step), g, steps)

\* the first c1 c2 of the word becomes d1 d2
Respelt(w, c1, c2, d1, d2) ==
  LET found == {p \in DOMAIN w : w[p] = c1 /\ At(w, p + 1) = c2}
  IN  IF found = {} THEN w ELSE [w EXCEPT ![Min(found)] = d1, ![Min(found) + 1] = d2]
has_cun(w) == Respelt(w, "c", "u", "s", "u")
has_tt(w) == Respelt(w, "t", "t", "s", "s")
\* the stem is not empty
cmpend(w, ending) == IsSuffix(ending, w) /\ Len(w) > Len(ending)
Dropped(w, n) == SubSeq(w, 1, Len(w) - n)

(***************************************************************************)
(* The word as it stands, nominal stems with cu- for su-, ss for tt.       *)
(***************************************************************************)
RECURSIVE checkstring4(_)
WithSigmas(w, how) == CASE how = "cun" -> has_cun(w) [] how = "tt" -> has_tt(w) [] OTHER -> w
LookedUp(g, how) == IF how = "tt" THEN checkstring4(g) ELSE checkparts(g, how = "cun")
checkstring4(g) ==
  FoldLeft(LAMBDA r, how : IF r.rval > 0 \/ (how # "word" /\ WithSigmas(r.workword, how) = r.workword) THEN r
                           ELSE As(LookedUp(As(r, WithSigmas(r.workword, how)), how), r.workword),
           Returns(g, 0), IF g.lang = "greek" THEN <<"word", "cun", "tt">> ELSE <<"word">>)

(***************************************************************************)
(* A word with a capital may begin a sentence.  Latin capitals: the loop   *)
(* that lowers them looks at the next letter before it is lowered.         *)
(***************************************************************************)
LatinVowels == {"a", "e", "i", "o", "u"}
LatVow == LatinVowels \cup {"A", "E", "I", "O", "U", NUL}
IsCapital(w) == At(w, 1) \in ToSet(Capital) \cup {"*"}
LowerFirst(w) == [w EXCEPT ![1] = IF w[1] \in {"v", "V"} /\ At(w, 2) \in Alphabetic THEN "u"
                                  ELSE LowerOf(@)]
LowerAll(w) == [p \in DOMAIN w |-> IF LowerOf(w[p]) = "v" /\ At(w, p + 1) \notin LatinVowels \cup {NUL}
                                   THEN "u" ELSE LowerOf(w[p])]
UpperFirst(w) == [w EXCEPT ![1] = UpperOf(@)]
Lowered(lang, w) ==
  IF lang = "greek" THEN <<beta_tolower(w)>>
  ELSE LET low == LowerAll(LowerFirst(w)) IN <<LowerFirst(w), low, UpperFirst(low)>>
Capitals(g) ==
  IF ~IsCapital(g.workword) \/ "STRICT_CASE" \in g.prntflags THEN <<>> ELSE Lowered(g.lang, g.workword)
\* found or not, a word with a capital is looked up without it
WithCapitals(g) ==
  LET words == <<g.workword>> \o Capitals(g)
      Found(r, n) == IF n = 1 THEN r ELSE Return(r)
  IN  Chain(g, [n \in DOMAIN words |-> n], LAMBDA r, n : Found(Trying(r, words[n], checkstring4), n))

(***************************************************************************)
(* Enclitics, and the types of words they join: none for any.  The bits of *)
(* a pronoun that -met asks for are those of the numbers of many types.    *)
(***************************************************************************)
EncliticWords(strings, stemtype) ==
  [i \in DOMAIN strings |-> [enclitic |-> Chars(strings[i]), stemtype |-> stemtype]]
PronounTypes == {"t" \o ToString(n) : n \in {k \in 0..63 : k % 16 \notin {0, 1}}}
GreekSuff == EncliticWords(<<"per">>, {"NOUNSTEM", "ADJSTEM"})
LatinSuff ==
  EncliticWords(<<"que", "cumque", "cunque", "ne", "ve", "ue", "libet", "vis", "piam", "dem", "dum">>,
                {}) \o EncliticWords(<<"met">>, PronounTypes)
ItalianSuff ==
  EncliticWords(<<"glie", "gli", "mi", "me", "ci", "ce", "ti", "te", "vi", "ve", "lo", "li", "la",
                  "le", "loro", "ne", "si", "se">>, VerbTypes)
EnclitArr(lang) ==
  CASE lang = "latin" -> LatinSuff [] lang = "italian" -> ItalianSuff [] OTHER -> GreekSuff
\* moved down in their array
MovedDown(g, anals) ==
  [g EXCEPT !.anals = anals,
            !.crases = [i \in DOMAIN @ |-> IF i \in DOMAIN anals THEN anals[i].crasis ELSE @[i]]]
OfTypes(g, stemtypes) ==
  IF stemtypes = {} THEN g
  ELSE MovedDown(g, SelectSeq(g.anals, LAMBDA a : a.stemtype \cap stemtypes # {}))

(***************************************************************************)
(* Latin and Italian letters.                                              *)
(***************************************************************************)
\* consonant u: at the beginning, between vowels, after a preverb (their table has been
\* read when the word was looked up as it stands), before an ending
ConsonantU(w, p) ==
  /\ w[p] = "u" \/ (p = 1 /\ w[p] = "U")
  /\ At(w, p + 1) \in LatVow
  /\ \/ p = 1
     \/ w[p - 1] \in LatVow
     \/ is_rawpreverb(SubSeq(w, 1, p - 1))
     \/ chckend(From(w, p + 1))
VofU(c) == IF c = "U" THEN "V" ELSE "v"
\* from left to right: the letters before p are those already written
u2v(word) == FoldLeft(LAMBDA w, p : IF ConsonantU(w, p) THEN [w EXCEPT ![p] = VofU(@)] ELSE w,
                      word, [p \in DOMAIN word |-> p])
AllV(w) == [p \in DOMAIN w |-> IF w[p] \in {"u", "U"} THEN VofU(w[p]) ELSE w[p]]
JofI(w) == IF At(w, 1) = "I" THEN [w EXCEPT ![1] = "J"] ELSE w
\* an i before a vowel that is not the last letter, and a last i in front of a leftover
Glides(w, leftover) ==
  SelectSeq([p \in DOMAIN w |-> p],
            LAMBDA p : /\ w[p] = "i"
                       /\ \/ p + 2 \in DOMAIN w /\ w[p + 1] \in LatinVowels
                          \/ p = Len(w) /\ leftover # NUL)
\* exspecto for expecto; the move leaves the final NUL behind
Exs(w, leftover) ==
  IF IsPrefix(Chars("ex"), w) /\ At(w, 3) \in {"c", "p", "t"}
  THEN cinsert(w, "s", 3) \o (IF leftover = NUL THEN <<>> ELSE <<leftover>>) ELSE w

(***************************************************************************)
(* checkstring3 and the functions it calls itself through.                 *)
(***************************************************************************)
RECURSIVE checkstring3(_)

Enclitic(g, suffix) ==
  IF g.anals # <<>> \/ ~cmpend(g.workword, suffix.enclitic) THEN g
  ELSE Return(OfTypes(AlsoTrying(g, Dropped(g.workword, Len(suffix.enclitic)), checkstring3),
                      suffix.stemtype))

\* prodelision of est: what is returned takes the place of what was returned before, or is
\* added to it; a trimmed word that is not found stays for the next trim
Ends(g, endings) == \E e \in endings : cmpend(g.workword, Chars(e))
LookUp(g, word) == Return(checkstring3(As(g, word)))
LookUpToo(g, word) == Sum(checkstring3(As(g, word)), g.rval)
Prodelided(g, ending) ==
  LET w == g.workword
  IN  CASE ending = "est" -> IF Ends(g, {"ast", "est", "umst", "amst", "emst", "omst"})
                             THEN LookUp(g, Dropped(w, 2)) ELSE g
        [] ending = "ust" -> IF Ends(g, {"ust"}) THEN LookUp(g, Dropped(w, 1)) ELSE g
        [] ending = "ist" -> IF Ends(g, {"ist", "ost"})
                             THEN Return(LookUpToo(LookUpToo(g, Dropped(w, 1)), Dropped(w, 2))) ELSE g
        [] ending = "n" -> IF g.anals = <<>> /\ Ends(g, {"n"})
                           THEN Return(LookUpToo(LookUpToo(g, WithLast(w, "s")), Dropped(w, 1))) ELSE g

\* a spelling that is not found stays too, but for those that start from the word as it was
Spelt(g, spelling, saveword) ==
  LET Spelling(old, word) == IF word = old THEN g ELSE LookUp(g, word)
      WithJ(p) == [JofI(saveword) EXCEPT ![p] = "j"]
  IN  CASE spelling = "u2v" -> Spelling(saveword, u2v(saveword))
        [] spelling = "J" -> Spelling(saveword, JofI(saveword))
        [] spelling = "j" -> Chain(g, Glides(saveword, g.leftover), LAMBDA r, p : LookUp(r, WithJ(p)))
        [] spelling = "exs" -> Spelling(g.workword, Exs(g.workword, g.leftover))
        [] spelling = "v" -> IF g.anals # <<>> \/ AllV(saveword) = saveword THEN g
                             ELSE Return(LookUpToo(g, AllV(saveword)))

add_apostrvowel(w, vowel) ==
  LET full == Dropped(w, 1) \o vowel
  IN  full \o (IF hasaccent(full) THEN <<>> ELSE <<"/">>)
           \o (IF vowel[1] \in {"u", "i", "a"} THEN <<"^">> ELSE <<>>)
\* before a rough breathing: q x f for t k p
Unroughened(w, p) ==
  [i \in DOMAIN w |-> CASE i = p /\ w[p] = "q" -> "t"
                        [] (i = p \/ (i = p - 1 /\ w[p] = "q")) /\ w[i] = "x" -> "k"
                        [] i = p /\ w[p] = "f" -> "p"
                        [] OTHER -> w[i]]
\* a word of one syllable drops no vowel but e
ApostrVowels(w) == IF nsylls(w) >= 1 THEN <<"a", "i", "o", "e", "ai">> ELSE <<"e">>
ApostrVowel(g, vowel) ==
  LET word == add_apostrvowel(g.workword, Chars(vowel))
  IN  IF vowel # "ai" THEN AlsoTrying(g, word, checkstring3)
      ELSE [AlsoTrying(Add(g, {"POETIC"}), word, checkstring3) EXCEPT !.flags = g.flags]
RECURSIVE checkapostr(_)
Roughened(g, w) == IF Len(w) > 1 /\ w[Len(w) - 1] \in {"q", "x", "f"}
                   THEN As(checkapostr(As(g, Unroughened(w, Len(w) - 1))), w) ELSE g
Unaccented(g, w) == IF g.rval = 0 /\ checkaccent(w).acc \notin {NOACCENT, C_ERR} /\ checkaccent(w).syll = ULTIMA
                    THEN As(checkapostr(As(g, stripacc(w))), w) ELSE g
Completed(g, how) == CASE how = "rough" -> Roughened(g, g.workword)
                       [] how = "unaccented" -> Unaccented(g, g.workword)
                       [] OTHER -> ApostrVowel(g, how)
checkapostr(g) ==
  IF At(g.workword, Len(g.workword)) # "'" THEN Returns(g, 0)
  ELSE Chain(Returns(g, 0), <<"rough">> \o ApostrVowels(g.workword) \o <<"unaccented">>, Completed)
Apostrophe(g) ==
  IF At(g.workword, Len(g.workword)) # "'" THEN g ELSE Return(Sum(checkapostr(g), g.rval))

Endings1(lang) == IF lang = "latin" THEN <<"est", "ust", "ist", "n">> ELSE <<>>
Spellings(lang) == CASE lang = "latin" -> <<"u2v", "J", "j", "exs">>
                     [] lang = "italian" -> <<"v">> [] OTHER -> <<>>
Stage(g, stage, saveword) ==
  CASE stage = "capitals" -> WithCapitals(g)
    [] stage = "apostrophe" -> Apostrophe(g)
    [] stage = "enclitics" -> Chain(g, EnclitArr(g.lang), Enclitic)
    [] stage = "endings" -> Chain(g, Endings1(g.lang), Prodelided)
    [] stage = "spellings" -> Chain(g, Spellings(g.lang), LAMBDA r, spelling : Spelt(r, spelling, saveword))
checkstring3(g) ==
  [Chain(g, <<"capitals", "apostrophe", "enclitics", "endings", "spellings">>,
         LAMBDA r, stage : Stage(r, stage, g.workword)) EXCEPT !.workword = g.workword, !.returned = FALSE]

(***************************************************************************)
(* Crasis.  The analyses are kept in one array: a failed attempt leaves    *)
(* what it merged into those that were there, a successful one puts the    *)
(* dialect of its contraction on all of them.                              *)
(***************************************************************************)
WithContraction(g, row, found) ==
  LET anals == IF found.rval = 0 THEN SubSeq(found.anals, 1, Len(g.anals))
               ELSE [i \in DOMAIN found.anals |-> [found.anals[i] EXCEPT !.dialect = @ \cup possdial(row)]]
  IN  [g EXCEPT !.anals = anals, !.crases = Crases(g, found), !.rval = @ + found.rval]
testcrasis(g, row) ==
  WithContraction(g, row, checkstring3([As(g, Uncontracted(row, g.workword)) EXCEPT
                                          !.crasis = Chars(row[3]), !.dialect = @ \cup possdial(row),
                                          !.stem_gstr.dialect = @ \cup possdial(row)]))
\* Latin is lowered for good
checkcrasis(g) ==
  LET low == [p \in DOMAIN g.workword |-> LowerOf(g.workword[p])]
      latin == g.lang = "latin"
  IN  FoldLeft(testcrasis, As(Returns(g, 0), IF latin THEN low ELSE g.workword),
               IF latin THEN LatinCrases(low) ELSE GreekCrases(g.workword))

(***************************************************************************)
(* The word, then its unaugmented forms of epic and Ionic, then            *)
(* unaugmented forms of other poetry when there were none.                 *)
(***************************************************************************)
OrCrasis(g) == IF g.rval = 0 /\ g.anals = <<>> THEN checkcrasis(g) ELSE g
Unaugmented(g, how) ==
  CASE how = "augmented" -> g
    [] how = "epic" -> [g EXCEPT !.flags = @ \cup {"UNAUGMENTED"}, !.stem_gstr.flags = @ \cup {"UNAUGMENTED"},
                                 !.dialect = @ \cup IONIC \cup EPIC]
    [] how = "poetic" -> [g EXCEPT !.flags = @ \cup {"UNAUGMENTED", "POETIC"},
                                   !.stem_gstr.flags = @ \cup {"UNAUGMENTED"}]
\* the flags of the stem become those of the word
Restored(r, g, how) ==
  IF how = "augmented" THEN r
  ELSE [r EXCEPT !.dialect = g.dialect, !.flags = g.flags, !.stem_gstr.flags = g.flags]
TryUnaugmented(g, how) == Restored(OrCrasis(checkstring3(Unaugmented(g, how))), g, how)
MayLack(g) == /\ g.lang # "latin"
              /\ Compatible(g.dialect, {"homeric"} \cup IONIC) \/ g.dialect \cap PROSE = {}
CountAnals(g) == Returns(g, Len(g.anals))
checkstring2(g) ==
  LET ways == <<"augmented">> \o (IF MayLack(g) THEN <<"epic">> ELSE <<>>)
               \o (IF MayLack(g) /\ g.dialect \cap (IONIC \cup PROSE) = {} THEN <<"poetic">> ELSE <<>>)
  IN  CountAnals(FoldLeft(LAMBDA r, how : IF how = "poetic" /\ r.rval > 0 THEN r ELSE TryUnaugmented(r, how),
                          g, ways))

\* prodelision: an e or a was lost at the beginning
checkstring1(g) ==
  LET w == g.workword
      Begun(string, rest, or) == [word |-> Chars(string) \o Tail(rest), or |-> or]
      words == IF At(w, 1) # "'" THEN <<[word |-> w, or |-> FALSE]>>
               ELSE <<Begun("e)", w, FALSE), Begun("e)/", stripacc(w), TRUE), Begun("a)", w, FALSE)>>
                    \o (IF hasaccent(w) THEN <<>> ELSE <<Begun("a)/", w, TRUE)>>)
  IN  FoldLeft(LAMBDA r, s : IF s.or /\ r.rval > 0 THEN r ELSE checkstring2(As(r, s.word)), g, words)

(***************************************************************************)
(* A string that is neither blank nor too long is put in standard writing  *)
(* and looked up.  Lemmas in composition are not counted.                  *)
(***************************************************************************)
CONSTANTS MAXWORDSIZE, WantDialects
is_blank(string) == \A p \in DOMAIN string : string[p] = " "
CreatGkword(string, lang, prntflags, leftover) ==
  LET word == IF lang = "italian" THEN string ELSE standword(string)
      phonetic == stand_phonetics(word)
  IN  [BlankGkword EXCEPT !.rawword = string, !.workword = phonetic.word, !.lang = lang,
                          !.prntflags = prntflags, !.dialect = WantDialects,
                          !.flags = IF phonetic.laconian THEN {"INTERV_S_TO_H"} ELSE {},
                          !.region = IF phonetic.laconian THEN {"laconia"} ELSE {}]
      @@ [leftover |-> leftover, returned |-> FALSE]
cntlems(g) ==
  LET lemmas == SelectSeq([i \in DOMAIN g.anals |-> g.anals[i].lemma], LAMBDA l : ~Contains(l, "-"))
  IN  Cardinality({i \in DOMAIN lemmas : lemmas[i] # IF i = 1 THEN <<>> ELSE lemmas[i - 1]})
\* nothing is analysed without flags: the analyses are counted, and printed, only with some
Counted(g, prntflags) ==
  Returns(g, CASE "LEMCOUNT" \in prntflags -> cntlems(g)
               [] "LEMCOUNT" \notin prntflags /\ prntflags # {} -> Len(g.anals)
               [] OTHER -> 0)
checkstring(string, lang, prntflags, leftover) ==
  IF is_blank(string) \/ Len(string) >= MAXWORDSIZE THEN CreatGkword(<<>>, lang, prntflags, leftover)
  ELSE Counted(checkstring1(CreatGkword(string, lang, prntflags, leftover)), prntflags)
=============================================================================
