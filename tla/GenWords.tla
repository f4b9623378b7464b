------------------------------- MODULE GenWords -------------------------------
(***************************************************************************)
(* The forms of a stem.  The keys of a stem say what it wants; each ending *)
(* it takes is joined to it and gives a form, or several when there are    *)
(* several ways to augment it: with the accent that belongs to a noun, a   *)
(* participle or an infinitive, or with the recessive accent of a verb,    *)
(* and with the preverb in front of it.  An irregular form is one that is  *)
(* listed whole; only its preverb and its accent are added.                *)
(***************************************************************************)
EXTENDS Preverb

\* the endings of a type of stem, in the order of their table
CONSTANT endlist(_)

(***************************************************************************)
(* The keys of a stem: want gathers its grammar, the gk_word takes its     *)
(* parts.  The keys that say what is to be avoided are for the endings.    *)
(* What is said of the preverb becomes a flag of the preverb.              *)
(***************************************************************************)
AddWordKey(g, key) ==
  LET field == key[1]
  IN  CASE field \in {"pb", "rpb"} -> [g EXCEPT !.prvb_gstr.gkstring = key[2]]
        [] field = "end" -> [g EXCEPT !.ends_gstr.gkstring = key[2]]
        [] field \in {"le", "crasis"} -> [g EXCEPT ![IF field = "le" THEN "lemma" ELSE field] = key[2]]
        [] OTHER -> g
WantedKeys(keys) ==
  IF \E i \in DOMAIN keys : keys[i] = NOT
  THEN SubSeq(keys, 1, SelectInSeq(keys, LAMBDA k : k = NOT) - 1) ELSE keys
Rooted(flags, root) == IF root THEN (flags \cup {"ROOT_PREVERB"}) \ {"HAS_PREVERB"}
                       ELSE (flags \ {"ROOT_PREVERB"}) \cup {"HAS_PREVERB"}
Rearranged(g, want) ==
  [word |-> [g EXCEPT !.flags = @ \ PrvbFlags,
                      !.prvb_gstr.flags = @ \cup ((g.flags \cup want.flags) \cap PrvbFlags)],
   want |-> Zap(want, PrvbFlags)]
PreverbMarked(g, want) ==
  LET root == "ROOT_PREVERB" \in want.flags
  IN  IF g.prvb_gstr.gkstring = <<>> THEN Rearranged(g, want)
      ELSE Rearranged([g EXCEPT !.flags = Rooted(@, root), !.stem_gstr.flags = Rooted(@, root)],
                      IF root THEN Zap(want, {"HAS_PREVERB"}) ELSE want)
ScanStemKeys(g, keys, want) ==
  PreverbMarked(FoldLeft(AddWordKey, g, WantedKeys(keys)), FoldLeft(AddMorphKey, want, WantedKeys(keys)))
\* the grammar gathered in the stem itself
InStem(scan) ==
  [scan.word EXCEPT !.stem_gstr = Add(scan.want, scan.word.stem_gstr.flags \cap {"HAS_PREVERB"})]
ScanStem(g, keys) == InStem(ScanStemKeys(g, keys, g.stem_gstr))

(***************************************************************************)
(* A form with its accent and its preverb: which of them comes first says  *)
(* where the accent may go.  No accent goes in front of an augment, unless *)
(* the preverb is augmented too ("augmented"); nor does the preverb draw   *)
(* the accent of a perfect that begins with a vowel.  Only the first form  *)
(* of several loses its separator.  Of the imperatives of one syllable     *)
(* some keep the accent on the verb ("kept"): prodou=, but kata/qou.       *)
(***************************************************************************)
PrvbWord(f, restored) == [f EXCEPT !.workword = restored.word, !.prvb_gstr.flags = restored.flags]
Restored1(f, pb) == PrvbWord(f, rstprevb(f.workword, pb, f.prvb_gstr.flags))
WithAccent(f, flags) == [f EXCEPT !.workword = FixRecAcc(f.ends_gstr, f.form, flags, @)]
EndsAccent(f) == WithAccent(f, f.ends_gstr.flags)
StemAccent(f) == EndsAccent([f EXCEPT !.ends_gstr.flags = @ \cup {"STEM_ACC"}])
Unseparated(f) == [f EXCEPT !.workword = stripstemsep(@)]
AccentBefore(f, how) ==
  CASE how = "first" -> Unseparated(EndsAccent(f)) [] how \in {"later", "kept"} -> EndsAccent(f) [] OTHER -> f
AccentAfter(f, how) ==
  CASE how = "augmented" -> Unseparated(EndsAccent(f))
    [] how = "plain" -> Unseparated(WithAccent(f, f.stem_gstr.flags))
    [] how = "moved" -> Unseparated(StemAccent(f))
    [] how = "kept" -> Unseparated(f)
    [] OTHER -> f
\* an augmented preverb is restored also when there is none
WithPreverb(f, pb, how) ==
  AccentAfter(IF pb = <<>> /\ how # "augmented" THEN AccentBefore(f, how)
              ELSE Restored1(AccentBefore(f, how), pb), how)
MonoSyllVb(f, winfo, pb) ==
  IF /\ winfo.mood = "imperative" /\ winfo.tense = "aorist" /\ "middle" \in winfo.voice
     /\ nsylls(pb) = 1 \/ At(f.workword, 1) \in Vowels
  THEN "kept" ELSE "moved"

BuildANoun(g, ending, form) ==
  LET declined == \/ Is_nounform(g) \/ Is_adjform(g)
                  \/ ending.form.mood \in {"participle", "infinitive"}
      Written(word) == IF "ENCLITIC" \in g.stem_gstr.flags THEN stripacute(word) ELSE word
  IN  [form EXCEPT !.workword =
         Written(IF declined
                 THEN FixPersAcc(ending, ending.flags, form.stem_gstr, ending.gkstring, ending.form, TRUE)
                 ELSE g.stem_gstr.gkstring)]

\* an irregular form: its flags are those of a stem; it has its augment already
PrvbStem(f, restored) == [f EXCEPT !.workword = restored.word,
                                   !.stem_gstr.flags = restored.flags \ {"PREVB_AUGMENT"}]
ConjugatedPrvb(whole, winfo, pb) ==
  IF pb = <<>> THEN whole
  ELSE IF nsylls(whole.workword) = 1 THEN WithPreverb(whole, pb, MonoSyllVb(whole, winfo, pb))
  ELSE PrvbStem(whole, rstprevb(whole.workword, pb, whole.stem_gstr.flags
                                                   \cup (whole.prvb_gstr.flags \cap {"PREVB_AUGMENT"})))
ConjugatedAccent(f, pb) ==
  LET stem == f.stem_gstr.flags
  IN  IF "ENCLITIC" \in stem /\ pb = <<>> THEN [f EXCEPT !.workword = stripacc(@)]
      ELSE WithAccent([f EXCEPT !.ends_gstr.flags = @ \cup (stem \cap {"NO_CIRCUMFLEX"})], stem)
Conjugated(f, ending, pb) ==
  Unseparated(ConjugatedAccent(
    ConjugatedPrvb([OnStemFlags(f, ending.flags) EXCEPT !.ends_gstr.flags = {}, !.flags = {}],
                   ending.form, pb), pb))

\* the forms of a verb, each with the way it gets its accent
FiniteForms(augs, forms, plain, pb) ==
  LET perfect == /\ At(plain.workword, 1) \in Vowels
                 /\ plain.form.tense \in {"perfect", "pluperfect", "futperf"}
      How(f, i) == IF "PREVB_AUGMENT" \in f.prvb_gstr.flags THEN "augmented"
                   ELSE IF i = 1 THEN "first" ELSE "later"
  IN  IF augs > 0 \/ perfect
      THEN [i \in 1..Max({augs, 1}) |-> [form |-> forms[i], how |-> How(forms[i], i)]]
      ELSE IF nsylls(plain.workword) = 1 /\ pb # <<>>
      THEN <<[form |-> plain, how |-> MonoSyllVb(plain, plain.form, pb)]>>
      ELSE <<[form |-> plain, how |-> "plain"]>>
OfAugmented(augmented, pb) ==
  FiniteForms(augmented.augs, augmented.forms, augmented.forms[1], pb)
WithPreverbs(ways, pb) == [i \in DOMAIN ways |-> WithPreverb(ways[i].form, pb, ways[i].how)]

BuildAVerb(g, ending, form) ==
  LET pb == IF "HAS_PREVERB" \in g.stem_gstr.flags THEN stripacc(g.prvb_gstr.gkstring) ELSE <<>>
      endstring == ending.gkstring
      zero == endstring = <<>> \/ At(endstring, 1) = "*"
      joined == [form EXCEPT !.workword = g.stem_gstr.gkstring
                                          \o (IF zero THEN <<>> ELSE <<STEMSEP>> \o endstring)]
      nominal == form.form.mood \in {"participle", "infinitive"}
      unaugmented == [form EXCEPT !.stem_gstr.flags = @ \ {"SYLL_AUGMENT"}]
  IN  IF ~nominal /\ endstring = <<>> THEN <<Conjugated(joined, ending, pb)>>
      ELSE IF ~nominal /\ "ENCLITIC" \in form.stem_gstr.flags THEN <<joined>>
      ELSE WithPreverbs(IF nominal THEN <<[form |-> BuildANoun(g, ending, unaugmented), how |-> "noun"]>>
                        ELSE OfAugmented(add_augment(joined), pb), pb)

BuildAWord(g, ending) ==
  LET form == OnStemFlags([g EXCEPT !.ends_gstr = ending], g.flags)
  IN  IF ~Compatible(ending.dialect, g.dialect) THEN <<>>
      ELSE IF Is_verbform(g) THEN BuildAVerb(g, ending, form)
      ELSE <<BuildANoun(g, ending, form)>>

(***************************************************************************)
(* All the forms.  Only what would be augmented is built without augment   *)
(* or with an augmented preverb; a stem whose augment was taken away keeps *)
(* to the mood that has one.                                               *)
(***************************************************************************)
Skipped(g, ending) ==
  \/ /\ ~needs_augment(ending)
     /\ \/ "PREVB_AUGMENT" \in g.prvb_gstr.flags
        \/ "UNAUGMENTED" \in g.stem_gstr.flags \cup g.flags \cup ending.flags
  \/ g.stem_gstr.form.mood \notin {"", ending.form.mood}
WithEnding(g, ending) ==
  IF Skipped(g, ending) THEN <<>>
  ELSE BuildAWord([g EXCEPT !.ends_gstr.gkstring = ending.gkstring, !.form = ending.form],
                  [ending EXCEPT !.stemtype = g.stemtype])
AddWdEndings(g, endings) == FoldLeft(LAMBDA forms, ending : forms \o WithEnding(g, ending), <<>>, endings)

OfStemtype(wanted) == RetrCompEnds(wanted, endlist(wanted.want.stemtype))
chckendings(g, keys) ==
  OfStemtype(WantedEnd(g.ends_gstr.gkstring, keys, g.stem_gstr.gkstring,
                       g.prvb_gstr.gkstring # <<>>, g.dialect))
NoForms == [ok |-> FALSE, forms |-> <<>>]
FormsWith(g, endings) ==
  IF endings = <<>> THEN NoForms ELSE [ok |-> TRUE, forms |-> AddWdEndings(g, endings)]
OfScanned(g, keys, s) ==
  LET typed == [s EXCEPT !.stemtype = s.stem_gstr.stemtype, !.derivtype = s.stem_gstr.derivtype]
      old == g.prvb_gstr.gkstring
  IN  IF \/ s.stem_gstr.stemtype = {}
         \/ "SYLL_AUGMENT" \in g.flags \ s.stem_gstr.flags
         \/ old \notin {<<>>, s.prvb_gstr.gkstring}
         \/ ~Compatible(s.dialect, s.stem_gstr.dialect)
      THEN NoForms
      ELSE FormsWith(typed, chckendings(typed, keys))
GenStemForms(g, keys) == OfScanned(g, keys, ScanStem(g, keys))

\* the gk_word keeps what was written into it, also when there is no form
IrregForms(g, scan, indecl) ==
  LET marks == {"IRREGFORM"} \cup (IF indecl THEN {"INDECLFORM"} ELSE {})
      word == OnStemFlags(scan.word, scan.want.flags)
      marked == [Add(word, marks) EXCEPT !.ends_gstr.gkstring = <<>>, !.stemtype = scan.want.stemtype]
      compatible == Compatible(scan.want.dialect, g.dialect)
      want == [Add(scan.want, marks) EXCEPT !.dialect = IF @ = {} THEN @ ELSE AndDialect(@, g.dialect)]
      formed == [marked EXCEPT !.form = want.form]
      Fails(r) == [ok |-> FALSE, word |-> r, forms |-> <<>>]
  IN  IF scan.want.stemtype = {} THEN Fails(scan.word)
      ELSE IF ~compatible THEN Fails(marked)
      ELSE IF skip_augment(formed.stem_gstr) /\ ~needs_augment(want) THEN Fails(formed)
      ELSE [ok |-> TRUE, word |-> Zap([formed EXCEPT !.stem_gstr.flags = {}], {"INDECLFORM"}),
            forms |-> BuildAWord(formed, want)]
GenIrregForm(g, keys, indecl) == IrregForms(g, ScanStemKeys(g, keys, BlankGstr), indecl)
=============================================================================
