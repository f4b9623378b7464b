-------------------------------- MODULE Augment --------------------------------
(***************************************************************************)
(* The augment of past tenses: added to a stem when a form is built, taken *)
(* away from one when a form is analysed.  A stem that begins with a vowel *)
(* has the rows of a table for it: what it begins with, what it begins     *)
(* with when it is augmented, and, for some, the dialects that do so; the  *)
(* row of four parts is the last one that is tried.  Several rows may      *)
(* begin like a stem; each gives a form of its own.                        *)
(*                                                                         *)
(* A gk_word is a record with the fields of a gk_string and more: the      *)
(* gk_strings prvb_gstr, aug1_gstr, stem_gstr and ends_gstr of its parts,  *)
(* workword, the form that is being built, and others (see Blank).         *)
(***************************************************************************)
EXTENDS GkMatch

LOCAL EPIC == {"homeric", "non_homeric_epic"}
LOCAL LENGTHENED == {"attic", "ionic"} \cup EPIC
LOCAL DORIC == {"doric"}
LOCAL DORIC_AEOLIC == {"doric", "aeolic"}

BlankGkword ==
  BlankGstr @@ [lemma |-> <<>>, prvb_gstr |-> BlankGstr, aug1_gstr |-> BlankGstr,
                stem_gstr |-> BlankGstr, ends_gstr |-> BlankGstr, rawprvb |-> <<>>,
                rawword |-> <<>>, workword |-> <<>>, crasis |-> <<>>, prntflags |-> {},
                lang |-> "greek", anals |-> <<>>, crases |-> <<>>, rval |-> 0]
\* the place of the members of a table, the rough form of a row beside the smooth one
TempAugments == <<
  <<"ai)", "h)|">>, <<"ai(", "h(|">>, <<"ei)", "h)|">>, <<"ei(", "h(|">>,
  <<"oi)", "w)|">>, <<"oi(", "w(|">>, <<"oi)", "w)|">>, <<"oi(", "w(|">>,
  <<"au)", "hu)">>, <<"au(", "hu(">>, <<"au)", "au)", DORIC>>, <<"au(", "au(", DORIC>>,
  <<"eu)", "hu)">>, <<"eu(", "hu(">>,
  <<"e)e", "e)e", EPIC, "unique">>, <<"e(e", "e(e", EPIC, "unique">>,
  <<"a)", "h)", LENGTHENED>>, <<"a(", "h(", LENGTHENED>>,
  <<"a)", "a_)", DORIC_AEOLIC>>, <<"a(", "a_(", DORIC_AEOLIC>>,
  <<"e)", "h)">>, <<"e(", "h(">>, <<"h(", "h(">>, <<"h)", "h)">>, <<"i(", "i_(">>, <<"i)", "i_)">>,
  <<"o)", "w)">>, <<"o(", "w(">>, <<"w)", "w)">>, <<"w(", "w(">>, <<"u)", "u_)">>, <<"u(", "u_(">>,
  <<"ou)", "ou)">>, <<"ou(", "ou(">>>>
SyllAugments == <<
  <<"i)", "ei)">>, <<"i(", "ei(">>, <<"i)", "e)i">>, <<"i(", "e(i">>, <<"oi)w", "oi)w">>,
  <<"e)oi", "e)w|", {}, "unique">>, <<"e(oi", "e(w|", {}, "unique">>,
  <<"oi)", "e)w|">>, <<"oi(", "e(w|">>, <<"ei(", "ei(">>, <<"ei)", "ei)">>,
  <<"e)", "ei)">>, <<"e(", "ei(">>, <<"a)", "e)a">>, <<"a(", "e(a">>, <<"h)", "e)h">>, <<"h(", "e(h">>,
  <<"w)", "e)w">>, <<"w(", "e(w">>, <<"o)", "e)w">>, <<"o(", "e(w">>, <<"e)", "ei)">>, <<"e(", "ei(">>,
  <<"eu)", "eu)">>, <<"eu(", "eu(">>, <<"ou)", "e)ou">>, <<"ou(", "e(ou">>>>
Augtable(rows) ==
  [i \in DOMAIN rows |-> [noaug |-> Chars(rows[i][1]), withaug |-> Chars(rows[i][2]),
                          augdial |-> IF Len(rows[i]) > 2 THEN rows[i][3] ELSE {},
                          uniqueflag |-> Len(rows[i]) = 4]]
Temp == Augtable(TempAugments)
Syll == Augtable(SyllAugments)

(***************************************************************************)
(* Augmenting a gk_word: the forms, and how many of them count; with none  *)
(* there is still the word itself.  No stem has as many forms as maxaugs.  *)
(* A row of other dialects after those that count leaves a copy of the     *)
(* word behind the forms; AddWdEndings copies only those that count, so    *)
(* that nothing reads it, and it is left out.                              *)
(***************************************************************************)
None(g) == [augs |-> 0, forms |-> <<g>>]
Forms(g, forms) == IF forms = <<>> THEN None(g) ELSE [augs |-> Len(forms), forms |-> forms]
AugmentForm(g, stem, row) ==
  LET rest == From(stem, Len(row.noaug) + 1)
  IN  [g EXCEPT !.dialect = AndDialect(@, row.augdial),
                !.workword = row.withaug \o (IF At(rest, 1) = "^" THEN Tail(rest) ELSE rest),
                !.aug1_gstr.gkstring = row.noaug \o <<">">> \o row.withaug,
                !.aug1_gstr.dialect = row.augdial]
UpToUnique(rows) ==
  LET unique == {i \in DOMAIN rows : rows[i].uniqueflag}
  IN  IF unique = {} THEN rows ELSE SubSeq(rows, 1, Min(unique))
Augmentations(g, stem, table) ==
  LET rows == UpToUnique(SelectSeq(table, LAMBDA row : /\ IsPrefix(row.noaug, stem)
                                                       /\ Compatible(g.dialect, row.augdial)))
  IN  [i \in DOMAIN rows |-> AugmentForm(g, stem, rows[i])]
do_tempaug(g) == Forms(g, Augmentations(g, striphyph(g.workword), Temp))
Syllabic(forms) == [i \in DOMAIN forms |-> [forms[i] EXCEPT !.aug1_gstr.flags = @ \cup {"SYLL_AUGMENT"},
                                                            !.stem_gstr.flags = @ \ {"SYLL_AUGMENT"}]]
do_syllaug(g) == Forms(g, Syllabic(Augmentations(g, striphyph(g.workword), Syll)))

\* a consonant takes e-; an r is doubled, or was not doubled in the stem either
ConsonantAugment(s, flags) ==
  LET c == s[1]
  IN  CASE IsPrefix(Chars("r("), s) ->
             [word |-> IF "RAW_SONANT" \in flags THEN stripbreath(s) ELSE [s EXCEPT ![2] = "r"],
              aug1 |-> Chars("r(>e)rr")]
        [] ~IsPrefix(Chars("r("), s) /\ "SYLL_AUGMENT" \in flags ->
             [word |-> <<c>> \o s, aug1 |-> <<c, ">", "e", ")", c, c>>]
        [] OTHER -> [word |-> s, aug1 |-> <<>>]
WithConsonant(g, aug) ==
  LET before == IF aug.aug1 = <<>> THEN g.aug1_gstr.gkstring ELSE aug.aug1
  IN  Forms(g, <<[g EXCEPT !.workword = Chars("e)") \o aug.word,
                           !.aug1_gstr.gkstring = IF before = <<>> THEN Chars("e)") ELSE before]>>)
AugmentConsonant(g) == WithConsonant(g, ConsonantAugment(g.workword, g.stem_gstr.flags))
augmentit(g, syllabic) ==
  IF At(g.workword, 1) \in Consonants THEN AugmentConsonant(g)
  ELSE IF syllabic THEN do_syllaug(g) ELSE do_tempaug(g)
simpleaugment(s, syllabic) == augmentit([BlankGkword EXCEPT !.workword = s], syllabic).forms[1].workword

(***************************************************************************)
(* Which forms have an augment, and the forms of one that has.             *)
(***************************************************************************)
needs_augment2(stemflags, form, stem) ==
  /\ "HAS_AUGMENT" \notin stemflags
  /\ form.mood = "indicative"
  /\ \/ form.tense \in {"imperfect", "aorist"}
     \/ /\ form.tense = "pluperfect"
        /\ "ATTIC_REDUPL" \in stemflags \/ At(stem, 1) \notin {"e", "h"}
needs_augment(gstr) == needs_augment2(gstr.flags, gstr.form, <<>>)
skip_augment(g) == "UNAUGMENTED" \in g.flags
OnStemFlags(g, flags) == [g EXCEPT !.stem_gstr.flags = @ \cup flags]
\* of several forms only the first is marked
add_augment(g) ==
  LET syllabic == "SYLL_AUGMENT" \in g.stem_gstr.flags
      unmarked == [g EXCEPT !.stem_gstr.flags = @ \ {"SYLL_AUGMENT"}]
      MarkFirst(augmented) == [augmented EXCEPT !.forms[1] = OnStemFlags(@, {"HAS_AUGMENT"})]
  IN  CASE skip_augment(g.stem_gstr) \/ skip_augment(g.ends_gstr) -> None(OnStemFlags(g, {"UNAUGMENTED"}))
        [] OTHER ->
             IF Latinate THEN None(g)
             ELSE IF ~needs_augment2(g.stem_gstr.flags, g.form, g.workword)
             THEN IF "HAS_AUGMENT" \in g.stem_gstr.flags THEN Forms(g, <<unmarked>>) ELSE None(unmarked)
             ELSE MarkFirst(augmentit(g, syllabic))

(***************************************************************************)
(* Taking the augment away: the stems that may have been augmented to s,   *)
(* as gk_strings.  Length is not written in s, an iota subscript may be    *)
(* written as an i.  Most are good for an indicative only.                 *)
(***************************************************************************)
morphstrncmp(prefix, s) == ~IsPrefix(subchar(prefix, SUBSCR, "i"), subchar(s, SUBSCR, "i"))
Unaugmented1(string, mood, flags, dialect) ==
  [BlankGstr EXCEPT !.gkstring = string, !.form.mood = mood, !.flags = flags, !.dialect = dialect]
Indicative(string, flags, dialect) == Unaugmented1(string, "indicative", flags, dialect)
UnaugmentBy(s, table, flags) ==
  LET rows == SelectSeq(table, LAMBDA row : ~morphstrncmp(stripquant(row.withaug), s))
      plain(row) == stripquant(row.withaug)
      dialect(row) == IF flags # {} \/ plain(row) # row.withaug THEN row.augdial ELSE {}
  IN  [i \in DOMAIN rows |-> Indicative(rows[i].noaug \o From(s, Len(plain(rows[i])) + 1),
                                        flags, dialect(rows[i]))]
unaugment(s) ==
  IF IsPrefix(Chars("e)rr"), s) THEN <<Indicative(Chars("r(") \o From(s, 5), {}, {})>>
  ELSE IF IsPrefix(Chars("e)r"), s) THEN <<Indicative(Chars("r(") \o From(s, 4), {"RAW_SONANT"}, {})>>
  ELSE IF IsPrefix(Chars("e)"), s) /\ At(s, 3) \in Consonants
  THEN <<Indicative(From(s, 3), {}, {})>>
       \o IF At(s, 4) = s[3] THEN <<Unaugmented1(From(s, 4), "", {"SYLL_AUGMENT"}, {})>> ELSE <<>>
  ELSE UnaugmentBy(s, Temp, {}) \o UnaugmentBy(s, Syll, {"SYLL_AUGMENT"})
=============================================================================
