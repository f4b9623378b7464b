------------------------------- MODULE CheckWord -------------------------------
(***************************************************************************)
(* One spelling of a word looked up: as an indeclinable, as a noun, as a   *)
(* verb.  The word is cut into a stem and an ending everywhere, a stem     *)
(* into preverbs and a stem; for each stem of the dictionary that takes    *)
(* such an ending the forms are built, and those that are the word become  *)
(* its analyses.                                                           *)
(*                                                                         *)
(* The functions write into the gk_word they are given, and give it back   *)
(* as it was only here and there; rval is what the last one returned.  Of  *)
(* a count only whether it is 0 is used and modelled.  The search for all  *)
(* possibilities is modelled: quickflag is off.                            *)
(***************************************************************************)
EXTENDS GenWords

(***************************************************************************)
(* The indexes.  An entry of a stem is a record: stem, empty when it is    *)
(* spelt as it was looked up; lemma; type, the name of its type of stem;   *)
(* keys.  An ending has the names of the types that have it.               *)
(***************************************************************************)
CONSTANTS
  vstems(_), nstems(_), irrverbs(_), indecls(_),    \* sequences of entries
  vends(_), nends(_),                               \* sets of names
  cmpvbs(_),                                        \* the lemma of a compound, or empty
  MAXANALYSES, AllDialects

LOCAL IONIC == {"ionic"}
LOCAL EPIC == {"homeric", "non_homeric_epic"}
Returns(g, rval) == [g EXCEPT !.rval = rval]
Sum(r, rval) == [r EXCEPT !.rval = @ + rval]
\* the items one after the other in the same gk_word
Through(g, items, Do(_, _)) ==
  FoldLeft(LAMBDA r, item : Sum(Do(r, item), r.rval), Returns(g, 0), items)
StemTo(g, stem) == [g EXCEPT !.stem_gstr.gkstring = stem]
EndTo(g, ending) == [g EXCEPT !.ends_gstr.gkstring = ending]
\* only what was added to the analyses is kept; an array made by an attempt that found
\* nothing is lost with the copy of the gk_word that was used for it
Crases(g, r) == IF g.crases = <<>> /\ r.rval = 0 THEN <<>> ELSE r.crases
Kept1(g, r) == [g EXCEPT !.anals = r.anals, !.crases = Crases(g, r), !.rval = r.rval]

\* the indexes do not tell an iota subscript from an i
Tag(w) == subchar(w, SUBSCR, "i")
morphstrcmp(v, w) == Tag(v) # Tag(w)
Plain(stem) == stripdiaer(stripquant(stem))
chckvend(ending) == vends(Tag(stripquant(stripacc(ending))))
chcknend(ending) == nends(Tag(stripquant(ending)))
chckend(ending) == vends(Tag(ending)) # {} \/ chcknend(ending) # {}
chckstem(stem, is_nom) == IF is_nom THEN IF stem = <<>> THEN <<>> ELSE nstems(Tag(stem))
                          ELSE vstems(Tag(stem))
chckirrverb(form) == irrverbs(Tag(stripacc(stripmetachars(form))))
chckindecl(word) == indecls(Tag(stripacc(Plain(word))))
\* a type is wanted when its name is part of the name of a type that has the ending
wantcurstemtype(type, endtypes) == \E t \in endtypes : is_substring(type, t) # 0
Or(stem, lookedup) == IF stem = <<>> THEN lookedup ELSE stem
stemexists(stem, endtypes, is_nom) ==
  LET wanted == SelectSeq(chckstem(stem, is_nom), LAMBDA e : wantcurstemtype(e.type, endtypes))
  IN  [i \in DOMAIN wanted |-> [wanted[i] EXCEPT !.stem = Or(@, stem)]]

(***************************************************************************)
(* The forms that are the word.  Breathings that are not needed, marks of  *)
(* length and diaereses do not count, and the acute accent of an enclitic. *)
(***************************************************************************)
Lookedup(g, enclitic) ==
  LET accword == stripquant(stripdiaer(zap_extra_breath(g.workword)))
  IN  IF "IGNORE_ACCENTS" \in g.prntflags THEN stripacc(stripacute(accword))
      ELSE IF enclitic THEN stripacute(accword) ELSE accword
Mutant_IsTheWord(g, f, preverb) ==     \* bug: compares the form as it was built
  ~morphstrcmp(f.workword, Lookedup(g, "ENCLITIC" \in f.stem_gstr.flags /\ preverb = <<>>))
IsTheWord(g, f, preverb) ==
  LET form == IF "IGNORE_ACCENTS" \in g.prntflags THEN stripacc(f.workword) ELSE f.workword
      curform == zap2acc(zap_extra_breath(form))
      enclitic == "ENCLITIC" \in f.stem_gstr.flags /\ preverb = <<>>
  IN  /\ ~(LastOf(curform) = "_" /\ LastOf(g.workword) = "^")
      /\ ~morphstrcmp(stripmetachars(stripdiaer(curform)), Lookedup(g, enclitic))
InPlace(f, preverb) == IF preverb = <<>> THEN "COMP_ONLY" \notin f.stem_gstr.flags
                       ELSE "NOT_IN_COMPOSITION" \notin f.stem_gstr.flags

\* the longest end of the list of preverbs that makes a compound of the dictionary
CompoundLemma(f) ==
  LET full == f.prvb_gstr.gkstring \o <<"-">> \o f.lemma
      Cmplem(p) == cmpvbs(stripquant(From(full, p)))
      starts == {p \in 1..Len(full) : (p = 1 \/ full[p - 1] = ",") /\ Cmplem(p) # <<>>}
      first == Min(starts)
  IN  IF f.prvb_gstr.gkstring = <<>> THEN f.lemma
      ELSE IF starts = {} THEN full
      ELSE IF first = 1 THEN Cmplem(1)
      ELSE SubSeq(full, 1, first - 2) \o <<"-">> \o Cmplem(first)

\* what is unaspirated is Ionic, with or against its parts; what is unaugmented is
\* Ionic or epic
Unaspirated1(f) == "UNASP_PREVERB" \in f.prvb_gstr.flags /\ getbreath(f.stem_gstr.gkstring) = "("
Augmentless1(g, f) == g.lang # "latin" /\ "UNAUGMENTED" \in f.stem_gstr.flags
Mutant_AnalysisDialect(g, f) ==     \* bug: nothing is inferred from a missing augment
  f.prvb_gstr.dialect \cup f.aug1_gstr.dialect \cup f.stem_gstr.dialect \cup f.ends_gstr.dialect
AnalysisDialect(g, f) ==
  LET parts == f.prvb_gstr.dialect \cup f.aug1_gstr.dialect \cup f.stem_gstr.dialect
                                   \cup f.ends_gstr.dialect
      dialect == parts \cup IF "APOCOPE" \in f.prvb_gstr.flags THEN g.dialect \cap {"homeric"} ELSE {}
      ionic == IF Compatible(dialect, IONIC) THEN AndDialect(dialect, IONIC) ELSE AllDialects
      asp == IF Unaspirated1(f) THEN ionic ELSE dialect
  IN  IF Augmentless1(g, f) /\ asp = {} THEN {"homeric"} \cup IONIC ELSE asp
\* the analysis is written behind those of the array; an empty crasis is not, so that of a
\* refused or equivalent analysis stays
CrasisOf(g, f) == IF f.crasis # <<>> \/ Len(g.crases) = Len(g.anals) THEN f.crasis
                  ELSE g.crases[Len(g.anals) + 1]
Analysis(g, f) ==
  [lemma |-> CompoundLemma(f), crasis |-> CrasisOf(g, f), workword |-> f.workword,
   prvb_gstr |-> f.prvb_gstr, aug1_gstr |-> f.aug1_gstr, stem_gstr |-> f.stem_gstr,
   ends_gstr |-> f.ends_gstr, form |-> f.form, region |-> f.region,
   stemtype |-> f.stemtype, derivtype |-> f.derivtype, dialect |-> AnalysisDialect(g, f),
   flags |-> f.flags \cup f.prvb_gstr.flags \cup f.stem_gstr.flags \cup f.ends_gstr.flags]
equiv_anal(a, b) ==
  /\ \A field \in {"lemma", "workword", "form", "stemtype"} : a[field] = b[field]
  /\ \A gstr \in {"aug1_gstr", "prvb_gstr", "ends_gstr"} : a[gstr].gkstring = b[gstr].gkstring
  /\ "R_E_I_ALPHA" \in a.stem_gstr.flags <=> "R_E_I_ALPHA" \in b.stem_gstr.flags
Refused(g, f) == \/ Unaspirated1(f) /\ ~Compatible(f.prvb_gstr.dialect, IONIC)
                 \/ Augmentless1(g, f) /\ f.form.mood # "indicative"
\* the first equivalent one takes over the dialects, if it has any
Merged(g, a) ==
  LET same == {i \in DOMAIN g.anals : equiv_anal(a, g.anals[i])}
      first == Min(same)
  IN  IF same = {} THEN Returns([g EXCEPT !.anals = Append(@, a)], 1)
      ELSE Returns([g EXCEPT !.anals[first].dialect = IF @ = {} THEN @ ELSE @ \cup a.dialect], 0)
\* the place behind the analyses is written to even when the analysis is then refused
WrittenTo(g, f) ==
  LET n == Len(g.anals)
  IN  [g EXCEPT !.crases = Append(SubSeq(@, 1, n), CrasisOf(g, f)) \o From(@, n + 2)]
AddAnalysis(g, f) ==
  IF Len(g.anals) >= MAXANALYSES THEN Returns(g, 0)
  ELSE IF Refused(g, f) THEN Returns(WrittenTo(g, f), 0)
  ELSE Merged(WrittenTo(g, f), Analysis(g, f))

\* the list of the forms ends where one is empty
CheckGenWords(g, forms) ==
  LET empty == {i \in DOMAIN forms : forms[i].workword = <<>>}
      read == IF empty = {} THEN forms ELSE SubSeq(forms, 1, Min(empty) - 1)
      preverb == IF read = <<>> THEN <<>> ELSE read[1].prvb_gstr.gkstring
  IN  Through(g, SelectSeq(read, LAMBDA f : IsTheWord(g, f, preverb) /\ InPlace(f, preverb)), AddAnalysis)

(***************************************************************************)
(* A stem of the dictionary.  The names of its preverbs must end those     *)
(* that were found.  An accent on the ending is given up where it may have *)
(* moved there.                                                            *)
(***************************************************************************)
MayHaveMoved(g) == \/ "SUFF_ACC" \in g.flags \/ nsylls(g.stem_gstr.gkstring) = 0
                   \/ poss_thirdmono(g.stemtype, g.stem_gstr.gkstring, g.ends_gstr.gkstring)
PartsOf(r, g) == [r EXCEPT !.prvb_gstr = g.prvb_gstr, !.aug1_gstr = g.aug1_gstr,
                           !.stem_gstr = g.stem_gstr, !.ends_gstr = g.ends_gstr]
Generated(r, gen, g) == IF gen.ok THEN PartsOf(CheckGenWords(r, gen.forms), g) ELSE Returns(g, 0)
Generating(r, g, keys) ==
  LET bare == EndTo(r, stripacc(r.ends_gstr.gkstring))
  IN  Generated(r, FoldLeft(LAMBDA gen, word : IF gen.ok THEN gen ELSE GenStemForms(word, keys), NoForms,
                            IF MayHaveMoved(r) THEN <<r, bare>> ELSE <<r>>), g)
checkdict(g, stem, entry) ==
  LET pbs == SelectSeq(entry.keys, LAMBDA k : k[1] \in {"pb", "rpb"})
      haspb == pbs # <<>> /\ Head(pbs)[1] = "pb"
      prevb == g.prvb_gstr.gkstring
      keys == IF prevb = <<>> THEN entry.keys ELSE Append(entry.keys, <<"pb", prevb>>)
      r == [g EXCEPT !.stem_gstr = [Zap(stem, {"SYLL_AUGMENT"}) EXCEPT !.gkstring = entry.stem],
                     !.flags = (@ \ {"SYLL_AUGMENT"}) \cup (stem.flags \cap {"SYLL_AUGMENT"}),
                     !.lemma = entry.lemma]
  IN  IF haspb /\ prevb = <<>> THEN Returns(r, 0)
      ELSE IF haspb /\ (Last(entry.keys) # Head(pbs) \/ ~IsSuffix(Head(pbs)[2], prevb))
      THEN PartsOf(Returns(r, 0), g)
      ELSE Generating(r, g, keys)
StemWorks(g, stem, entries) == Through(g, entries, LAMBDA r, entry : checkdict(r, stem, entry))

(***************************************************************************)
(* A stem in front of an ending: as it is and without its augment, with    *)
(* the breathing it may have lost behind a preverb, with a diaeresis.      *)
(***************************************************************************)
WithPlain(stem) == [stem EXCEPT !.gkstring = Plain(@)]
Found1(r, stem) == IF r.rval > 0 THEN Returns(r, 1) ELSE StemTo(r, stem)
\* the stems of the dictionary among the stem itself and what it may be the augmented form of
checkstem(poss_stem, endkeys) ==
  SelectSeq(<<[BlankGstr EXCEPT !.gkstring = poss_stem]>>
            \o (IF At(poss_stem, 1) \in Consonants THEN <<>> ELSE unaugment(poss_stem)),
            LAMBDA s : stemexists(Plain(s.gkstring), endkeys, FALSE) # <<>>)
checkhalf2(g, endtypes) ==
  LET stem == Plain(g.stem_gstr.gkstring)
  IN  Found1(Through(StemTo(g, stem), checkstem(stem, endtypes), LAMBDA r, s :
               LET entries == stemexists(Plain(s.gkstring), endtypes, FALSE)
               IN  StemWorks(r, WithPlain(s), entries)), stem)

(***************************************************************************)
(* What checkhalf1 looks up: first the stem, or, when it lacks a breathing,*)
(* with one; if nothing is found, with a diphthong taken apart, the        *)
(* diaeresis on its first letter unless the breathing was lacking; then,   *)
(* for Ionic, with a rough breathing instead of a smooth one.  unasp says  *)
(* of UNASP_PREVERB what is done with it meanwhile: a preverb in front of  *)
(* a smooth breathing that was lacking is not unaspirated.                 *)
(***************************************************************************)
Half(stem, unasp) == [stem |-> stem, unasp |-> unasp]
BothHalves(stem) == <<Half(addbreath(stem, "("), "kept"), Half(addbreath(stem, ")"), "without")>>
Breathless(g, stem) == g.lang = "greek" /\ getbreath(stem) = NOACCENT /\ At(stem, 1) \in Vowels \cup {"r"}
AsItIs(g, stem) ==
  IF ~Breathless(g, stem) THEN <<Half(stem, "kept")>>
  ELSE IF At(stem, 1) = "r" THEN <<Half(Chars("r(") \o Tail(stem), "kept")>>
  ELSE BothHalves(stem)
Apart(r, savestem) ==
  LET stem == r.stem_gstr.gkstring
      w == stripbreath(stem)
  IN  IF r.rval > 0 \/ ~starts_w_diphth(stem) THEN <<>>
      ELSE IF Breathless(r, savestem)
      THEN BothHalves(stripdiaer(SubSeq(savestem, 1, 2)) \o <<DIAERESIS>> \o From(savestem, 3))
      ELSE IF r.lang = "latin" \/ r.rawprvb = <<>> THEN <<>>
      ELSE <<Half(addbreath(<<w[1], DIAERESIS>> \o Tail(w), getbreath(stem)), "kept")>>
Ionic(r, savestem) ==
  IF /\ r.rval = 0 /\ r.prvb_gstr.gkstring # <<>> /\ getbreath(savestem) = ")"
     /\ r.lang # "latin" /\ Compatible(r.dialect, IONIC)
  THEN <<Half(addbreath(stripbreath(savestem), "("), "with")>> ELSE <<>>
Unasp(r, unasp) ==
  CASE unasp = "without" -> [r EXCEPT !.prvb_gstr.flags = @ \ {"UNASP_PREVERB"}]
    [] unasp = "with" -> Add(r, {"UNASP_PREVERB"})
    [] OTHER -> r
UnaspBack(r, g, unasp) ==
  CASE unasp = "without" -> [r EXCEPT !.prvb_gstr.flags = @ \cup (g.prvb_gstr.flags \cap {"UNASP_PREVERB"})]
    [] unasp = "with" -> Zap(r, {"UNASP_PREVERB"})
    [] OTHER -> r
Halves(g, halves, endtypes) ==
  FoldLeft(LAMBDA r, half : UnaspBack(Sum(checkhalf2(StemTo(Unasp(r, half.unasp), half.stem), endtypes),
                                          r.rval), r, half.unasp), g, halves)
\* the stem is put back after each attempt but the first
checkhalf1(g, endtypes) ==
  LET stem == g.stem_gstr.gkstring
      ToTry(r, how) == CASE how = "as it is" -> AsItIs(r, stem)
                         [] how = "apart" -> Apart(r, stem)
                         [] how = "ionic" -> Ionic(r, stem)
      PutBack(r, left) == IF left THEN r ELSE StemTo(r, stem)
  IN  FoldLeft(LAMBDA r, how : PutBack(Halves(r, ToTry(r, how), endtypes),
                                       how = "as it is" \/ ToTry(r, how) = <<>>),
               Returns(g, 0), <<"as it is", "apart", "ionic">>)

(***************************************************************************)
(* Preverbs in front of the stem, wherever one could end.  Epic doubles    *)
(* the consonant after one.                                                *)
(***************************************************************************)
doubled_cons(w) == /\ At(w, 1) \in Consonants \ {"r"} /\ At(w, 3) \notin Consonants
                   /\ At(w, 1) = At(w, 2)
WithPrvb(g, pb) == [g EXCEPT !.prvb_gstr = [pb.gstr EXCEPT !.gkstring = pb.fullpb]]
Combined(g, comb) == [StemTo(g, comb.rest) EXCEPT !.prvb_gstr.flags = comb.flags]
Prose(g) == "prose" \in g.dialect
\* what the stem gets here is lost when a stem of the dictionary takes its place
Undoubled(w) ==
  LET stem == w.stem_gstr.gkstring
  IN  IF "APOCOPE" \in w.prvb_gstr.flags /\ Prose(w) THEN <<>>
      ELSE IF ~doubled_cons(stem) THEN <<w>>
      ELSE IF ~Compatible(w.dialect, EPIC) \/ Prose(w) THEN <<>>
      ELSE <<[StemTo(w, Tail(stem)) EXCEPT !.prvb_gstr.flags = @ \cup {"DOUBLED_CONS"}]>>
CombinedWith(w, pb) == CombPbStem(w.rawprvb, w.stem_gstr.gkstring, w.dialect, pb.gstr.flags)
PrefixedBy(w, pb, comb) ==
  IF pb.ok /\ w.stem_gstr.gkstring # <<>> /\ comb.ok THEN Undoubled(Combined(WithPrvb(w, pb), comb)) ELSE <<>>
Prefixed(w, pb) == PrefixedBy(w, pb, CombinedWith(w, pb))
\* the stem after n letters of curstem; its accents are gone
StripAt(g, curstem, n, endtypes) ==
  LET w == [StemTo(g, From(curstem, n + 1)) EXCEPT !.rawprvb = SubSeq(curstem, 1, n)]
  IN  Kept1(w, Through(w, Prefixed(w, is_preverb(w.rawprvb, w.prvb_gstr)),
                       LAMBDA r, s : checkhalf1(s, endtypes)))
Stripped(alone, curstem, endtypes) ==
  Sum(Through(alone, [n \in DOMAIN curstem |-> n], LAMBDA r, n : StripAt(r, curstem, n, endtypes)),
      alone.rval)
StrippedBehind(alone, endtypes) == Stripped(alone, alone.stem_gstr.gkstring, endtypes)
strippreverb(g, endtypes) == StrippedBehind(checkhalf1(g, endtypes), endtypes)

(***************************************************************************)
(* Irregular forms of verbs, listed whole, behind a preverb too.           *)
(***************************************************************************)
IrregWorks(g, gen) == IF gen.ok THEN CheckGenWords(g, gen.forms) ELSE Returns(g, 0)
CheckIrregForm(g, stem, keys) ==
  LET prevb == g.prvb_gstr.gkstring
  IN  IrregWorks(g, GenIrregForm(StemTo(g, stem),
                                 IF prevb = <<>> THEN keys ELSE Append(keys, <<"pb", prevb>>), FALSE))
\* shared: the stem of the gk_word is the place the forms are copied to
IrrLemm(r, entry, shared) ==
  LET form == Or(entry.stem, Plain(stripacc(r.stem_gstr.gkstring)))
  IN  Kept1(IF shared THEN StemTo(r, form) ELSE r,
            CheckIrregForm([r EXCEPT !.lemma = entry.lemma], form, entry.keys))
ChckIrrLemms(g, entries, shared) == Through(g, entries, LAMBDA r, entry : IrrLemm(r, entry, shared))
\* with a rough breathing, then with a smooth one or the one it has
IrrVowel(w) ==
  LET stem == w.stem_gstr.gkstring
      last == LastOf(w.rawprvb)
      breathless == getbreath(stem) = NOACCENT
      smooth == /\ breathless
                /\ (w.lang # "latin" /\ last \notin Rough) \/ EndsLike(w.rawprvb, "mf")
      rough == breathless /\ w.lang = "greek" /\ w.rawprvb # <<>>
      Entries(wanted, form) == IF wanted THEN chckirrverb(form) ELSE <<>>
  IN  IF At(stem, 1) \notin Vowels THEN <<>>
      ELSE Entries(rough, addbreath(stem, "("))
           \o Entries(smooth \/ ~breathless, IF smooth THEN addbreath(stem, ")") ELSE stem)
IrrForm(w) ==
  LET stem == w.stem_gstr.gkstring
      asis == w.rawprvb = <<>> \/ At(stem, 1) \in Consonants \/ w.lang = "latin"
      entries == IF asis THEN chckirrverb(stem) ELSE <<>>
  IN  ChckIrrLemms(w, IF entries # <<>> THEN entries ELSE IrrVowel(w), entries # <<>>)
IrrPrefixed(w, pb, comb) ==
  IF pb.ok /\ ~("APOCOPE" \in pb.gstr.flags /\ Compatible(w.dialect, {"prose"})) /\ comb.ok
  THEN <<OnStemFlags(Combined(WithPrvb(w, pb), comb), {"HAS_PREVERB"} \cup comb.flags)>> ELSE <<>>
IrrCompound(w, pb) == IrrPrefixed(w, pb, CombinedWith(w, pb))
try_irregvb(g) ==
  LET w == [g EXCEPT !.prvb_gstr.gkstring = <<>>, !.prvb_gstr.flags = {}]
  IN  Kept1(g, Through(w, IF g.rawprvb = <<>> THEN <<w>> ELSE IrrCompound(w, is_preverb(w.rawprvb, w.prvb_gstr)),
                       LAMBDA r, word : IrrForm(word)))

(***************************************************************************)
(* The parts of speech.                                                    *)
(***************************************************************************)
analyzed_verb(g) ==
  LET endtypes == chckvend(g.ends_gstr.gkstring)
  IN  IF endtypes = {} THEN Returns(g, 0)
      ELSE Kept1(g, strippreverb(StemTo(g, stripacc(g.stem_gstr.gkstring)), endtypes))
\* marks other than breathings are lost from what is in front
Places(w) == SelectSeq([p \in DOMAIN w |-> p],
                       LAMBDA p : p = 1 \/ w[p] \in Alphabetic \cup Breaths \cup {SUBSCR})
\* cut at each place; if that gives nothing, the whole word as a stem
VerbCuts(w, places) ==
  [k \in DOMAIN places |-> [half1 |-> [i \in 1..(k - 1) |-> w[places[i]]],
                            half2 |-> From(w, places[k]), whole |-> FALSE]]
  \o <<[half1 |-> w, half2 |-> <<"*">>, whole |-> TRUE]>>
Irreg(r, cut) == try_irregvb([StemTo(r, cut.half2) EXCEPT !.rawprvb = cut.half1])
Regular(r, cut) == Sum(analyzed_verb([EndTo(StemTo(r, cut.half1), cut.half2) EXCEPT
                                        !.prvb_gstr.gkstring = <<>>, !.rawprvb = <<>>]), r.rval)
CutVerb(r, cut) ==
  IF cut.whole /\ r.rval > 0 THEN Returns(r, 0) ELSE Regular(IF cut.whole THEN r ELSE Irreg(r, cut), cut)
checkverb(g) == Through(g, VerbCuts(g.workword, Places(g.workword)), CutVerb)

gotnom(g) ==
  LET ends == stripacc(g.ends_gstr.gkstring)
      curstem == Plain(stripacc(g.stem_gstr.gkstring))
      entries == stemexists(curstem, chcknend(ends), TRUE)
  IN  StemWorks(EndTo(g, ends), [BlankGstr EXCEPT !.gkstring = curstem], entries)
checknom(g) ==
  LET w == g.workword
      CutAt(r, p) == IF p = 0 THEN EndTo(StemTo(r, w), <<"*">>)
                     ELSE EndTo(StemTo(r, SubSeq(w, 1, p - 1)), From(w, p))
  IN  IF "VERBS_ONLY" \in g.prntflags THEN Returns(g, 0)
      ELSE Through(g, [i \in 1..(Len(w) + 1) |-> i - 1], LAMBDA r, p : gotnom(CutAt(r, p)))

IndeclWorks(gen) == IF gen.ok THEN CheckGenWords(gen.word, gen.forms) ELSE Returns(gen.word, 0)
Indecl(r, word, entry) ==
  IndeclWorks(GenIrregForm(StemTo([r EXCEPT !.lemma = entry.lemma], Or(entry.stem, word)), entry.keys, TRUE))
checkindecl(g) ==
  LET w == g.workword
  IN  IF "VERBS_ONLY" \in g.prntflags THEN Returns(g, 0)
      ELSE Through(g, chckindecl(w), LAMBDA r, entry : Indecl(r, w, entry))

\* without augment there are only verbs; the test is made again after each part
checkpart(r, part, nominal) ==
  IF part # "verb" /\ ~nominal /\ "UNAUGMENTED" \in r.stem_gstr.flags THEN Returns(r, 0)
  ELSE CASE part = "indecl" -> checkindecl(r) [] part = "nom" -> checknom(r) [] part = "verb" -> checkverb(r)
checkparts(g, nominal) ==
  Through(g, <<"indecl", "nom">> \o (IF nominal THEN <<>> ELSE <<"verb">>),
          LAMBDA r, part : checkpart(r, part, nominal))
checkword(g) == checkparts(g, FALSE)
=============================================================================
