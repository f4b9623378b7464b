------------------------------- MODULE MCLexicon -------------------------------
(***************************************************************************)
(* A dictionary of a few words: two nouns, a verb with two stems, a verb   *)
(* that begins with a vowel, words without inflection, an irregular form,  *)
(* a few preverbs.  The indexes and the forms are tables of their own, so  *)
(* that they are made only once.                                           *)
(***************************************************************************)
EXTENDS CheckString

(***************************************************************************)
(* The dictionary, with rows of the tables of the stem library.            *)
(***************************************************************************)
DECL2 == {"NOUNSTEM", "DECL2", "t1"}
PRESENT == {"PP_PR", "t1"}
AORIST2 == {"PP_AO", "t27"}
Noun(string, number, case, gender) ==
  [BlankGstr EXCEPT !.gkstring = Chars(string), !.stemtype = DECL2,
                    !.form = [NoForm EXCEPT !.number = {number}, !.case = case, !.gender = gender]]
Verb(string, stemtype, tense, mood, person, number) ==
  [BlankGstr EXCEPT !.gkstring = Chars(string), !.stemtype = stemtype,
                    !.form = [NoForm EXCEPT !.voice = {"active"}, !.tense = tense, !.mood = mood,
                                            !.person = person, !.number = number]]
Infinitive(string, stemtype, tense) ==
  [Verb(string, stemtype, tense, "infinitive", {}, {}) EXCEPT !.flags = {"CONTRACTED"},
                                                   !.dialect = {"attic", "homeric", "non_homeric_epic"}]
os_ou == <<Noun("on", "sg", {"acc"}, {"masc", "fem"}), Noun("os", "sg", {"nom"}, {"masc", "fem"}),
           Noun("ou", "sg", {"gen"}, {"masc", "fem", "neut"}),
           Noun("w|", "sg", {"dat"}, {"masc", "fem", "neut"})>>
w_stem == <<Verb("e", PRESENT, "imperfect", "indicative", {"3rd"}, {"sg"}),
            Verb("e", PRESENT, "present", "imperative", {"2nd"}, {"sg"}),
            Infinitive("ein", PRESENT, "present"),
            [Verb("o/ma_n", PRESENT, "imperfect", "indicative", {"1st"}, {"sg"})
               EXCEPT !.form.voice = {"middle", "passive"}, !.dialect = {"doric", "aeolic"}],
            Verb("on", PRESENT, "imperfect", "indicative", {"1st"}, {"sg"}),
            Verb("w", PRESENT, "present", "indicative", {"1st"}, {"sg"})>>
aor2 == <<Verb("e", AORIST2, "aorist", "indicative", {"3rd"}, {"sg"}),
          Infinitive("ei=n", AORIST2, "aorist"),
          Verb("on", AORIST2, "aorist", "indicative", {"1st"}, {"sg"})>>
Tables == [os_ou |-> os_ou, w_stem |-> w_stem, aor2 |-> aor2]
MCendlist(stemtype) == CASE stemtype = DECL2 -> os_ou [] stemtype = PRESENT -> w_stem
                         [] stemtype = AORIST2 -> aor2 [] OTHER -> <<>>
EndingNames(names) ==
  LET Bare(g) == stripquant(stripacc(g.gkstring))
      strings == UNION {{Bare(Tables[n][i]) : i \in DOMAIN Tables[n]} : n \in names}
  IN  [s \in {Tag(w) : w \in strings} |->
         {Chars(n) : n \in {m \in names : \E i \in DOMAIN Tables[m] : Tag(Bare(Tables[m][i])) = s}}]
VerbEndings == EndingNames({"w_stem", "aor2"}) @@ <<>>
NounEndings == EndingNames({"os_ou"}) @@ <<>>
Find(table, w, none) == IF w \in DOMAIN table THEN table[w] ELSE none
MCvends(w) == Find(VerbEndings, w, {})
MCnends(w) == Find(NounEndings, w, {})

Entry(stem, lemma, type, stemtype, keys) ==
  [stem |-> Chars(stem), lemma |-> Chars(lemma), type |-> Chars(type),
   keys |-> <<<<"stemtype", stemtype>>>> \o keys]
MCvstems(w) ==
  CASE w = Chars("leip") -> <<Entry("", "lei/pw", "w_stem", PRESENT, <<>>)>>
    [] w = Chars("lip") -> <<Entry("", "lei/pw", "aor2", AORIST2, <<>>)>>
    [] w = Chars("a)g") -> <<Entry("", "a)/gw", "w_stem", PRESENT, <<>>)>>
    [] OTHER -> <<>>
MCnstems(w) ==
  CASE w = Chars("log") -> <<Entry("", "lo/gos", "os_ou", DECL2, <<<<"gender", "masc">>>>)>>
    [] w = Chars("a)nqrwp") -> <<Entry("", "a)/nqrwpos", "os_ou", DECL2, <<<<"gender", "masc">>>>)>>
    [] OTHER -> <<>>
Particle(word) == <<Entry(word, word, "particle", {"ADJSTEM", "t11"}, <<>>)>>
MCindecls(w) ==
  CASE w = Chars("a)lla") -> Particle("a)lla/") [] w = Chars("de") -> Particle("de/") [] OTHER -> <<>>
estin == <<<<"mood", "indicative">>, <<"tense", "present">>, <<"voice", {"active"}>>, <<"person", "3rd">>,
           <<"number", "sg">>>>
MCirrverbs(w) ==
  CASE w = Chars("e)sti") -> <<Entry("", "ei)mi/", "irreg_mi", {"PP_PR", "t13"},
                                     estin \o <<<<"flags", "ENCLITIC">>>>)>>
    [] OTHER -> <<>>
MCcmpvbs(w) == IF w = Chars("kata/-lei/pw") THEN Chars("katalei/pw") ELSE <<>>
Preverb(raw, pblemma, marks) ==
  [raw |-> Chars(raw), pblemma |-> Chars(pblemma), dialect |-> {}, flags |-> marks]
MCPrevbTable == <<Preverb("kata", "kata/", {}), Preverb("kat", "kata/", {}),
                  Preverb("kal", "kata/", {"APOCOPE", "POETIC"}),
                  Preverb("par", "para/", {}), Preverb("a)po", "a)po/", {}), Preverb("a)p", "a)po/", {})>>
MCAllDialects == {"attic", "ionic", "aeolic", "homeric", "doric", "non_homeric_epic", "prose"}

(***************************************************************************)
(* The forms of the dictionary: what is built for a stem with each of its  *)
(* endings.                                                                *)
(***************************************************************************)
WordForms(f) == [lemma |-> CompoundLemma(f), word |-> stripquant(stripstemsep(f.workword))]
AllEndings(s) ==
  LET typed == [s EXCEPT !.stemtype = s.stem_gstr.stemtype]
  IN  {WordForms(f) : f \in ToSet(AddWdEndings(typed, MCendlist(typed.stemtype)))}
Built(stem, entry, preverbs, flags) ==
  AllEndings(ScanStem([BlankGkword EXCEPT !.stem_gstr.gkstring = stem, !.stem_gstr.flags = flags,
                                          !.lemma = entry.lemma],
                      IF preverbs = "" THEN entry.keys ELSE Append(entry.keys, <<"pb", Chars(preverbs)>>)))
VerbStems == {Chars("leip"), Chars("lip"), Chars("a)g")}
NounStems == {Chars("log"), Chars("a)nqrwp")}
Stems == {<<s, MCnstems(s)[1], "">> : s \in NounStems}
         \cup {<<s, MCvstems(s)[1], p>> : s \in VerbStems, p \in {"", "kata/", "a)po/"}}
\* past tenses are also built without their augment: those on -oma_n, neither epic nor Ionic,
\* are found only when the search for these two has failed
Forms0 == UNION {Built(s[1], s[2], s[3], flags) : s \in Stems, flags \in {{}, {"UNAUGMENTED"}}}
NounLemmas == {Chars("lo/gos"), Chars("a)/nqrwpos")}
\* the lemmas of every word that is one of these forms
LemmaTable(forms) == [w \in {f.word : f \in forms} |-> {f.lemma : f \in {g \in forms : g.word = w}}]
Lexicon == LemmaTable(Forms0) @@ <<>>
================================================================================
