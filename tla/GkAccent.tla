------------------------------- MODULE GkAccent -------------------------------
(***************************************************************************)
(* The grammar a Morpheus string carries (gk_string) and where the accent  *)
(* of a form goes: FixRecAcc throws it back as far as the last syllable    *)
(* allows, FixPersAcc keeps it on the syllable of the stem or the ending   *)
(* that the flags of the stem name, AccComposForm accents an ending on its *)
(* own.                                                                    *)
(*                                                                         *)
(* A gk_string is a record: gkstring, the word; flags, its morphological   *)
(* flags; stemtype, the set of the bits and the name of its type; form,    *)
(* the values of its grammatical categories; dialect and region, sets that *)
(* are empty when nothing is said.                                         *)
(***************************************************************************)
EXTENDS BetaWord

CONSTANT Latinate       \* cur_lang() is LATIN or ITALIAN: nothing is accented

NoForm == [voice |-> {}, mood |-> "", tense |-> "", person |-> {}, number |-> {},
           degree |-> "", case |-> {}, gender |-> {}]
BlankGstr == [gkstring |-> <<>>, flags |-> {}, stemtype |-> {}, derivtype |-> "", form |-> NoForm,
              dialect |-> {}, region |-> {}]

VerbTypes == {"PP_PR", "PP_FU", "PP_AO", "PP_PF", "PP_PP", "PP_AP", "PP_FP"}
Is_verbform(g) == g.stemtype \cap VerbTypes # {}
Is_adjform(g) == "ADJSTEM" \in g.stemtype
Is_nounform(g) == "NOUNSTEM" \in g.stemtype
Is_participle(g) == g.form.mood = "participle"

\* two sets of dialects go together when one is empty or they meet; the empty one yields
Compatible(dial1, dial2) == dial1 = {} \/ dial2 = {} \/ dial1 \cap dial2 # {}
AndDialect(dial1, dial2) == IF dial1 = {} THEN dial2 ELSE IF dial2 = {} THEN dial1 ELSE dial1 \cap dial2

Zap(g, flags) == [g EXCEPT !.flags = @ \ flags]
Add(g, flags) == [g EXCEPT !.flags = @ \cup flags]
AddIf(g, condition, flag) == IF condition THEN Add(g, {flag}) ELSE g
PrvbFlags == {"DISSIMILATION", "PREVB_AUGMENT", "ELIDE_PREVERB", "ROOT_PREVERB", "RAW_PREVERB",
              "UNASP_PREVERB", "APOCOPE", "DOUBLED_CONS"}
xfer_prvbflags(word_mf, prvb_mf) ==
  [word |-> word_mf \ PrvbFlags, prvb |-> prvb_mf \cup (word_mf \cap PrvbFlags)]

(***************************************************************************)
(* The forms that fix the accent.                                          *)
(***************************************************************************)
penult_form(g, form) ==
  /\ ~(/\ form.case = {"voc"} /\ form.number = {"sg"}
       /\ "DECL3" \in g.stemtype /\ "PERS_NAME" \in g.flags)
  /\ \/ "STEM_ACC" \in g.flags
     \/ /\ form.voice = {"active"} /\ form.mood = "participle" /\ form.gender = {"neut"}
        /\ form.number = {"sg"} /\ form.case \in {{"nom"}, {"acc"}}
     \/ /\ form.voice \cap {"middle", "passive"} # {}
        /\ form.mood = "infinitive" /\ form.tense = "perfect"
antepen_form(g) == "ANT_ACC" \in g.flags
ultima_form(g) == "SUFF_ACC" \in g.flags

ulttakescirc(g, form) ==
  /\ "NO_CIRCUMFLEX" \notin g.flags
  /\ \/ "CONTRACTED" \in g.flags
     \/ "ENCLITIC" \notin g.flags /\ form.case \cap {"acc", "nom"} = {}

is_mono_stem(stem, ending) == nsylls(stem) + nsylls(ending) = 2
poss_thirdmono(stemtype, stem, ending) ==
  /\ "DECL3" \in stemtype
  /\ getsyll(stem, PENULT) = P_ERR /\ getsyll(ending, PENULT) = P_ERR
diphth_end(stem, ending) ==
  LET w == stem \o ending
      p == getsyll(w, ULTIMA)
  IN  p > 1 /\ w[p - 1] \in Vowels /\ nsylls(SubSeq(w, 1, p - 2)) # 0
\* genitives and datives of the third declension with one syllable in the stem
is_thirdmono(stemg, endg, stem, ending, form, is_ending) ==
  /\ ~(is_ending /\ stem = <<>>)
  /\ {"NOUNSTEM", "DECL3"} \subseteq stemg.stemtype
  /\ is_mono_stem(stem, ending)
  /\ "CONTRACTED" \notin stemg.flags \cup endg.flags
  /\ diphth_end(stem, ending) => form.number = {"dual"}
  /\ form.case \cap {"gen", "dat"} # {}

(***************************************************************************)
(* The recessive accent.  A word that has an accent, or no vowel, stays as *)
(* it is; an optional accent is put on the antepenult and on a penult      *)
(* before a long ultima only.                                              *)
(***************************************************************************)
FixRecAcc(ends, form, flags, w) ==
  LET ultima == getsyll(w, ULTIMA)
      penult == getsyll(w, PENULT)
      antepenult == getsyll(w, ANTEPENULT)
      long == getquantity(w, ULTIMA, TRUE, FALSE) = LONG
      optional == "ACCENT_OPTIONAL" \in flags
  IN  CASE Latinate \/ hasaccent(w) \/ ultima = P_ERR -> w
        [] OTHER ->
             IF long
             THEN IF penult # P_ERR THEN addaccent(w, ACUTE, penult)
                  ELSE IF optional THEN w
                  ELSE addaccent(w, IF ulttakescirc(ends, ends.form) THEN CIRCUMFLEX ELSE ACUTE, ultima)
             ELSE IF antepenult # P_ERR /\ ~penult_form(ends, form) THEN addaccent(w, ACUTE, antepenult)
                  ELSE IF optional THEN w
                  ELSE addaccent(w, IF getquantity(w, PENULT, TRUE, FALSE) = LONG /\ "ENCLITIC" \notin flags
                                    THEN CIRCUMFLEX ELSE ACUTE,
                                 IF penult # P_ERR THEN penult ELSE ultima)
putsimpleacc(w) == FixRecAcc(BlankGstr, NoForm, {}, w)

\* the same for a part of a word, its syllables counted in that part
fixnacc2(w, g, form, is_oblique) ==
  LET ultima == getsyll(w, ULTIMA)
      penult == getsyll(w, PENULT)
      antepenult == getsyll(w, ANTEPENULT)
      is_contr == "CONTRACTED" \in g.flags
      long == getquantity(w, ULTIMA, TRUE, is_oblique) = LONG \/ (nsylls(w) = 1 /\ is_contr)
      optional == "ACCENT_OPTIONAL" \in g.flags
  IN  CASE Latinate \/ hasaccent(w) -> w
        [] OTHER ->
             IF long
             THEN IF penult # P_ERR THEN addaccent(w, ACUTE, penult)
                  ELSE IF optional THEN w
                  ELSE addaccent(w, IF ulttakescirc(g, form) THEN CIRCUMFLEX ELSE ACUTE, ultima)
             ELSE IF antepenult # P_ERR THEN addaccent(w, ACUTE, antepenult)
                  ELSE IF optional THEN w
                  ELSE addaccent(w, IF getquantity(w, PENULT, TRUE, is_oblique /\ ~is_contr) = LONG
                                       /\ "ENCLITIC" \notin g.flags
                                    THEN CIRCUMFLEX ELSE ACUTE,
                                 IF penult # P_ERR THEN penult ELSE ultima)

(***************************************************************************)
(* The persistent accent: g the ending with its flags, stemg the stem.     *)
(***************************************************************************)
\* the accent on the last syllable of the stem, or the one before it
OnStem(g, stemg, ending, flags, is_oblique) ==
  LET stem == stemg.gkstring
      p == getsyll(stem, ULTIMA)
      stemLong == quantprim(stem, ULTIMA, FALSE, is_oblique) = LONG
      last == quantprim(ending, ULTIMA, TRUE, is_oblique)
  IN  CASE nsylls(ending) = 1 /\ stemLong /\ last = SHORT /\ "ENCLITIC" \notin flags ->
             IF "ACCENT_OPTIONAL" \in flags THEN stem ELSE addaccent(stem, CIRCUMFLEX, p)
        [] OTHER ->
             addaccent(stem, IF /\ last # LONG /\ nsylls(ending) # 2
                                /\ stemLong /\ "CONTRACTED" \in stemg.flags
                             THEN CIRCUMFLEX ELSE ACUTE, p)
BeforeLast(stemg, ending, flags, is_oblique) ==
  LET stem == stemg.gkstring
      penult == getsyll(stem, PENULT)
      Long(w, syll, is_ending) == getquantity(w, syll, is_ending, is_oblique) = LONG
      properispomenon == /\ nsylls(ending) = 0 /\ Long(stem, PENULT, FALSE)
                         /\ getquantity(stem, ULTIMA, FALSE, is_oblique) = SHORT /\ "ENCLITIC" \notin flags
  IN  CASE properispomenon -> addaccent(stem, CIRCUMFLEX, penult)
        [] OTHER -> addaccent(stem, ACUTE, IF nsylls(ending) > 1 \/ Long(ending, ULTIMA, TRUE)
                                           THEN getsyll(stem, ULTIMA) ELSE penult)

FixPersAcc2(g, flags, stemg, ending, form, is_ending) ==
  LET stem == stemg.gkstring
      plain == stem \o ending
      is_oblique == form.case \in {{"gen"}, {"dat"}}
      thirdmono == is_thirdmono(stemg, g, stem, ending, form, is_ending)
      \* the part of w from position p on accented by itself
      Accent(w, p) == SubSeq(w, 1, p - 1) \o fixnacc2(From(w, p), g, form, is_oblique)
  IN  CASE Latinate \/ (nsylls(stem) = 0 /\ nsylls(ending) = 0) -> plain
        [] OTHER ->
             IF "PROCLITIC" \in flags THEN stem
             ELSE IF hasaccent(plain) \/ {"ACCENT_OPTIONAL", "ENCLITIC"} \subseteq flags THEN plain
             ELSE IF thirdmono /\ nsylls(ending) = 2
             THEN IF "ACCENT_OPTIONAL" \in flags THEN plain
                  ELSE stem \o Accent(ending, getsyll2(ending, ULTIMA))
             ELSE IF "SUFF_ACC" \in stemg.flags \/ thirdmono \/ nsylls(stem) = 0
             THEN IF nsylls(ending) >= 1 THEN stem \o Accent(ending, 1)
                  ELSE Accent(plain, getsyll2(plain, ULTIMA))
             ELSE IF penult_form(stemg, form) \/ "STEM_ACC" \in g.flags \/ nsylls(stem) = 1
             THEN OnStem(g, stemg, ending, flags, is_oblique) \o ending
             ELSE IF antepen_form(stemg) THEN BeforeLast(stemg, ending, flags, is_oblique) \o ending
             ELSE Accent(plain, 1)
FixPersAcc(g, flags, stemg, ending, form, is_ending) ==
  stripzeroend(FixPersAcc2(g, flags, stemg, ending, form, is_ending))

(***************************************************************************)
(* An ending, or a word built from endings, accented on its own: what      *)
(* stands before a "!" does not count.  The test for forms that take a     *)
(* persistent accent or's a bit into the stem type and always holds, so    *)
(* FixRecAcc is never called here.  A proclitic's string is lost.          *)
(***************************************************************************)
Settled(done) ==
  Zap(done, {"ACCENT_OPTIONAL", "NEEDS_ACCENT"}
            \cup IF hasaccent(done.gkstring) \/ nsylls(done.gkstring) > 1 THEN {"STEM_ACC"} ELSE {})
AfterBang(w, bang, word) == IF word = <<>> THEN <<>> ELSE SubSeq(w, 1, bang) \o word
AccComposForm(g) ==
  LET bang == SelectInSeq(g.gkstring, LAMBDA c : c = "!")
      marked == IF bang = 0 THEN g ELSE Zap(Add(g, {"NEEDS_ACCENT"}), {"ACCENT_OPTIONAL"})
      hidden == IF "INDECLFORM" \in g.flags THEN {} ELSE g.flags \cap {"STEM_ACC", "SUFF_ACC"}
      bare == [Zap(marked, hidden) EXCEPT !.gkstring = <<>>]
      word == FixPersAcc(bare, bare.flags, bare, From(g.gkstring, bang + 1), g.form,
                         "INDECLFORM" \notin g.flags)
  IN  Settled(IF "ENCLITIC" \in g.flags THEN g
              ELSE [Add(bare, hidden) EXCEPT !.gkstring = AfterBang(g.gkstring, bang, word)])
skip_to_syll(w) == CASE nsylls(w) = 3 -> getsyll2(w, PENULT)
                     [] nsylls(w) = 2 -> getsyll2(w, ULTIMA)
                     [] OTHER -> 1

(***************************************************************************)
(* Marks a stem bears for its endings, and the movable n.                  *)
(***************************************************************************)
markstem(stem, g) ==
  LET letters == {p \in DOMAIN stem : stem[p] \in Alphabetic}
      last == IF letters = {} THEN At(stem, 1) ELSE stem[Max(letters)]
      nominal == Is_nounform(g) \/ Is_adjform(g) \/ Is_participle(g) \/ "IS_DERIV" \in g.flags
      rei == AddIf(g, nominal /\ last \in {"r", "i", "e"} /\ "ENDS_IN_DIGAMMA" \notin g.flags, "R_E_I_ALPHA")
      quant == getquantity(stem, ULTIMA, FALSE, FALSE)
      long == \/ quant = LONG \/ longbyposition(stem, getsyll(stem, ULTIMA))
              \/ ends_in(stem, Chars("hi"))
  IN  IF Is_adjform(g) /\ quant # I_ERR THEN Add(rei, {IF long THEN "LONG_PEN" ELSE "SHORT_PEN"}) ELSE rei

takes_nu_movable(g) ==
  LET w == stripacc(g.gkstring)
  IN  \/ \E e \in {"si", "ci", "yi"} : ends_in(w, Chars(e))
      \/ ends_in(w, <<"e">>) /\ g.form.person = {"3rd"}
add_numovable(g) == [Add(g, {"NU_MOVABLE"}) EXCEPT !.gkstring = Append(@, "n")]

\* ma- q- becomes manq-: the nasal suits the character after the only syllable
addninfix(w) ==
  LET p == getaccp(w, ULTIMA)
  IN  IF nsylls(w) > 1 \/ p = P_ERR THEN w
      ELSE cinsert(w, IF At(w, p) \in Labials THEN "m" ELSE IF At(w, p) \in Palatals THEN "g" ELSE "n", p)

\* "!" between vowels stands for a Laconian s, elsewhere it and "%" for a rough breathing
PhoneticStep(s) ==
  LET rest == addbreath(From(s.word, s.p + 1), "(")
      before == SubSeq(s.word, 1, s.p - 1)
      between == s.lastc \in Vowels /\ At(s.word, s.p + 1) \in Vowels
  IN  CASE At(s.word, s.p) = NUL -> s
        [] At(s.word, s.p) = "!" /\ between -> [s EXCEPT !.word[s.p] = "s", !.p = @ + 1, !.laconian = TRUE]
        [] At(s.word, s.p) = "!" /\ ~between -> [s EXCEPT !.word = before \o rest, !.p = @ + 1]
        [] At(s.word, s.p) = "%" -> [s EXCEPT !.word = before \o <<UpperOf(rest[1])>> \o Tail(rest)]
        [] OTHER -> [s EXCEPT !.p = @ + 1, !.lastc = IF s.word[s.p] \in Alphabetic THEN s.word[s.p] ELSE @]
\* "%" is looked at again as what it became, so that a word takes twice its length in steps at most
stand_phonetics(w) ==
  FoldLeft(LAMBDA s, c : PhoneticStep(s), [word |-> w, p |-> 1, lastc |-> NUL, laconian |-> FALSE], w \o w)
=============================================================================
