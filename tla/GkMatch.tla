-------------------------------- MODULE GkMatch --------------------------------
(***************************************************************************)
(* Which endings a stem takes.  The keys of a line of a table build up the *)
(* grammar of a gk_string; WantGkEnd compares the grammar a stem wants     *)
(* with the grammar an ending has, and an ending that is taken may take    *)
(* over what the stem says.  What is compared is not always what is tested *)
(* alone: EuphEnd takes the flag for a long a after r, e, i away from the  *)
(* stem that wants the ending, for all the endings after it.               *)
(*                                                                         *)
(* Latinate stands for Latin here; the tests for Italian are left out.     *)
(***************************************************************************)
EXTENDS GkAccent

(***************************************************************************)
(* The keys: a pair of the name of a field and a value.  A key "not" turns *)
(* the ones after it to what is to be avoided; flags that belong to a      *)
(* preverb leave the ending.                                               *)
(***************************************************************************)
MEDIO_PASS == {"middle", "passive"}
new_voice(voice, val) ==
  IF \/ val = {"active"} /\ voice \cap MEDIO_PASS # {}
     \/ val \cap MEDIO_PASS # {} /\ voice = {"active"}
  THEN val ELSE voice \cup val
AddMorphKey(g, key) ==
  LET field == key[1]
      val == key[2]
  IN  CASE field \in {"mood", "tense", "degree"} -> [g EXCEPT !.form[field] = val]
        [] field \in {"person", "number"} -> [g EXCEPT !.form[field] = {val}]
        [] field \in {"case", "gender"} -> [g EXCEPT !.form[field] = @ \cup {val}]
        [] field = "voice" -> [g EXCEPT !.form.voice = new_voice(@, val)]
        [] field \in {"stemtype", "derivtype"} -> [g EXCEPT ![field] = val]
        [] field \in {"dialect", "region"} -> [g EXCEPT ![field] = @ \cup val]
        [] field = "flags" -> Add(g, {val})
        [] field = "pb" -> Add(Zap(g, {"ROOT_PREVERB"}), {"HAS_PREVERB"})
        [] field = "rpb" -> Add(Zap(g, {"HAS_PREVERB"}), {"ROOT_PREVERB"})
        [] field \in {"end", "le", "crasis"} -> g
NOT == <<"not">>
ScanAsciiKeys(keys, want, avoid) ==
  LET not == IF \E i \in DOMAIN keys : keys[i] = NOT
             THEN SelectInSeq(keys, LAMBDA k : k = NOT) ELSE Len(keys) + 1
      With(g, some) == FoldLeft(AddMorphKey, g, SelectSeq(some, LAMBDA k : k # NOT))
  IN  [want |-> Zap(With(want, SubSeq(keys, 1, not - 1)), PrvbFlags),
       avoid |-> With(avoid, SubSeq(keys, not, Len(keys)))]

(***************************************************************************)
(* Endings in the order of the dictionary: only letters, the iota          *)
(* subscript as an i, and marks of length count.                           *)
(***************************************************************************)
Order == Capital \o <<"_">> \o Small
DictWord(w) == subchar(SelectSeq(w, LAMBDA c : c \in Alphabetic \cup {SUBSCR, "_"}), SUBSCR, "i")
RankIn(order, c) == IF c = NUL THEN 0 ELSE SelectInSeq(order, LAMBDA d : d = c)
\* -1, 0 or 1: v before w, like it, after it
Compared(c, d) == IF c = d THEN 0 ELSE IF RankIn(Order, c) < RankIn(Order, d) THEN 0 - 1 ELSE 1
CompareAt(a, b, differ) == IF differ = {} THEN 0 ELSE Compared(At(a, Min(differ)), At(b, Min(differ)))
CompareWords(a, b) == CompareAt(a, b, {i \in 1..(Len(a) + Len(b)) : At(a, i) # At(b, i)})
dictstrcmp(v, w) == CompareWords(DictWord(v), DictWord(w))
stripquantacc(w) == stripacc(stripquant(w))
noaccstrcmp(v, w) == stripquantacc(v) # stripquantacc(w)
has_quantacc(w) == <<has_quant(w), hasaccent(w)>>
\* no accent, and no short mark at the end, is looked for.  A "-" at the end of
\* what is looked for asks for all the endings that start with it (start_match);
\* that search, which reads on past the end of a shorter ending, is left out, and
\* Wanted has no such string
setwendstr(w) == stripacc(IF w # <<>> /\ Last(w) = "^" THEN Front(w) ELSE w)

(***************************************************************************)
(* The sounds where stem and ending meet.                                  *)
(***************************************************************************)
RHO_ETA_DIAL == {"homeric", "non_homeric_epic", "ionic"}
RHO_ALPHA_DIAL == {"attic", "doric", "aeolic"}
EuphEnd(want, have, strict) ==
  LET w == want.flags
      h == have.flags
      cur == have.gkstring
      eta == /\ At(cur, 1) = "h" /\ "ENDS_IN_DIGAMMA" \notin w
             /\ \/ have.stemtype \cap {"DECL1", "DECL2"} # {}
                \/ Is_participle(have) \/ "IS_DERIV" \in w
      rhoEta == eta /\ "R_E_I_ALPHA" \in w
      clash == rhoEta /\ ~Compatible(want.dialect, RHO_ETA_DIAL)
      taken == rhoEta /\ ~clash
      failed == [ok |-> FALSE, want |-> want, have |-> have]
      others == /\ \A d \in {"comparative", "superlative"} :
                     want.form.degree = d /\ have.form.degree # d => ~strict
                /\ "LONG_PEN" \in h => "LONG_PEN" \in w
                /\ "SHORT_PEN" \in h => "SHORT_PEN" \in w
  IN  IF \/ strict /\ "ITERATIVE" \in w \ h
         \/ "UNCONTR_END" \in w /\ "CONTRACTED" \in h
         \/ "NU_MOVABLE" \in w \ h /\ "IS_DERIV" \notin w
      THEN failed
      ELSE IF clash THEN [failed EXCEPT !.ok = Is_verbform(want) /\ "IS_DERIV" \notin w]
      ELSE IF /\ ~eta /\ IsPrefix(<<"a", "_">>, cur) /\ "R_E_I_ALPHA" \in h
              /\ "R_E_I_ALPHA" \notin w \/ "ENDS_IN_DIGAMMA" \in w
      THEN failed
      ELSE [ok |-> others,
            want |-> IF taken THEN Zap(want, {"R_E_I_ALPHA"}) ELSE want,
            have |-> IF taken THEN [have EXCEPT !.dialect = RHO_ETA_DIAL] ELSE have]

\* no comparative of an irregular one; endings for compounds only, or never for them
RightMorphflags(want, have) ==
  /\ want.flags \cap {"IRREG_COMP", "IRREG_SUPERL", "NO_COMP"} # {}
       => have.form.degree \notin {"superlative", "comparative"}
  /\ "IS_DERIV" \notin want.flags =>
       /\ "COMP_ONLY" \in have.flags => "HAS_PREVERB" \in want.flags
       /\ "NOT_IN_COMPOSITION" \in have.flags => "HAS_PREVERB" \notin want.flags

(***************************************************************************)
(* The comparison itself: checks in their order, each with the ending as   *)
(* it is when the check is made.  code is 1 for an ending that is wanted,  *)
(* 0 for one that is not and -1 for one that is past the one looked for.   *)
(* A category is not wanted when it differs from what is wanted; one that  *)
(* the ending does not have counts as different in a strict comparison.    *)
(***************************************************************************)
Differs(w, h, none, strict) == w # none /\ h # w /\ (h # none \/ strict)
Disjoint(w, h, strict) == w # {} /\ w \cap h = {} /\ (h # {} \/ strict)

StringVerdict(compval, wend, hend) ==
  CASE compval = 0 -> 1
    [] compval # 0 -> IF compval < 0 /\ noaccstrcmp(wend, hend) THEN 0 - 1
                      ELSE IF /\ has_quantacc(wend) # has_quantacc(hend)
                              /\ dictstrcmp(wend, stripquantacc(hend)) = 0 THEN 1 ELSE 0
StringCode(wend, hend) == StringVerdict(dictstrcmp(wend, hend), wend, hend)

\* s: the code so far, and what is wanted and the ending as they are by then
Fail(s, fails) == IF s.code = 1 /\ fails THEN [s EXCEPT !.code = 0] ELSE s
MoodCheck(s, strict) == Fail(s, Differs(s.want.form.mood, s.have.form.mood, "", strict))
WantedVoice(want) == IF "PP_PF" \in want.stemtype THEN {"active"} ELSE want.form.voice
\* wvoice: the voice that is wanted; deponent: it is that of a deponent
VoiceCheck(s, wvoice, deponent, write, strict) ==
  LET h == s.have.form
      fails == IF deponent THEN h.voice = {"active"} /\ h.mood \notin {"participle", "gerundive"}
               ELSE Disjoint(wvoice, h.voice, strict)
      takes == IF deponent THEN "PP_AP" \in s.want.stemtype ELSE write /\ wvoice \cap h.voice # {}
  IN  IF s.code # 1 THEN s ELSE Fail(IF takes THEN [s EXCEPT !.have.form.voice = wvoice] ELSE s, fails)
TenseCheck(s, strict) == Fail(s, Differs(s.want.form.tense, s.have.form.tense, "", strict))
GenderCheck(s, gender, write) ==
  CASE s.code # 1 -> s
    [] s.code = 1 ->
         IF Disjoint(gender, s.have.form.gender, FALSE) THEN [s EXCEPT !.code = 0]
         ELSE IF ~write \/ gender = {} THEN s
         ELSE [s EXCEPT !.have.form.gender = IF @ = {} THEN gender ELSE gender \cap @]
CaseCheck(s, case, write, strict) ==
  CASE s.code # 1 -> s
    [] s.code = 1 ->
         IF Disjoint(case, s.have.form.case, strict) THEN [s EXCEPT !.code = 0]
         ELSE IF ~write \/ case = {} THEN s ELSE [s EXCEPT !.have.form.case = case \cap @]
NumberCheck(s, strict) ==
  Fail(s, \/ Differs(s.want.form.person, s.have.form.person, {}, strict)
          \/ Differs(s.want.form.number, s.have.form.number, {}, strict))
StringCheck(s, wend, strict) ==
  IF s.code = 1 /\ wend # <<>> /\ strict THEN [s EXCEPT !.code = StringCode(wend, s.have.gkstring)] ELSE s
EuphCheck(s, euph) ==
  CASE s.code # 1 -> s
    [] s.code = 1 -> Fail([s EXCEPT !.want = euph.want, !.have = euph.have], ~euph.ok)
DialectCheck(s) == Fail(s, ~Compatible(s.have.dialect, s.want.dialect))
DegreeCheck(s, degree, write, strict) ==
  LET fails == degree # "" /\ s.have.form.degree # "" /\ degree # s.have.form.degree /\ strict
  IN  IF s.code = 1 /\ ~fails /\ write /\ degree # "" THEN [s EXCEPT !.have.form.degree = degree]
      ELSE Fail(s, fails)
FlagsCheck(s) == Fail(s, ~RightMorphflags(s.want, s.have))

GrammarChecked(want, have, wvoice, write, strict) ==
  NumberCheck(CaseCheck(GenderCheck(TenseCheck(
    VoiceCheck(MoodCheck([code |-> 1, want |-> want, have |-> have], strict),
               wvoice, Latinate /\ wvoice = {"middle", "active"}, write, strict),
    strict), want.form.gender, write), want.form.case, write, strict), strict)
Sounding(s, strict) == EuphCheck(s, EuphEnd(s.want, s.have, strict))
WantGkEnd(want, have, write, strict) ==
  FlagsCheck(DegreeCheck(DialectCheck(
    Sounding(StringCheck(GrammarChecked(want, have, WantedVoice(want), write, strict),
                         setwendstr(want.gkstring), strict),
             strict)), want.form.degree, write, strict))

\* a mutant for the runs: what a line says its endings are not is forgotten
NoWantGkEnd(skip, have, strict) ==
  IF skip.dialect # {} /\ have.dialect = {} THEN FALSE
  ELSE \/ skip.dialect \cap have.dialect # {}
       \/ /\ [skip EXCEPT !.dialect = {}, !.region = {}, !.form.degree = "", !.derivtype = ""] # BlankGstr
          /\ WantGkEnd(skip, have, FALSE, strict).code > 0

(***************************************************************************)
(* A line of a table joined to what has been found so far: ok when it is   *)
(* wanted, have with the narrower grammar, avoid with what the line avoids *)
(* in addition.                                                            *)
(***************************************************************************)
Narrowed(old, new) == IF old \cap new # {} THEN old \cap new ELSE IF old = {} THEN new ELSE old
Set(old, new) == IF new = {} THEN old ELSE new
JoinedForm(old, new) ==
  [old EXCEPT !.voice = Set(@, new.voice), !.case = Narrowed(@, new.case),
              !.number = Set(@, new.number), !.person = Set(@, new.person),
              !.gender = Narrowed(@, new.gender)]
JoinedEnd(want, have) ==
  [Add(want, have.flags) EXCEPT !.form = JoinedForm(@, have.form), !.dialect = Narrowed(@, have.dialect)]
Judged(want, avoid) ==
  LET good == want.code > 0 /\ ~NoWantGkEnd(avoid, want.have, TRUE)
  IN  [ok |-> good, have |-> IF good THEN JoinedEnd(want.want, want.have) ELSE want.want, avoid |-> avoid]
EndingOk(keys, gstr, avoid, wantderiv) ==
  LET scan == ScanAsciiKeys(keys, BlankGstr, avoid)
  IN  IF wantderiv /\ (gstr.derivtype = "" \/ gstr.derivtype # scan.want.derivtype)
      THEN [ok |-> FALSE, have |-> gstr, avoid |-> scan.avoid]
      ELSE Judged(WantGkEnd(gstr, scan.want, FALSE, FALSE), scan.avoid)

\* the keys of a stem and of a derivation; the derivation's tense, mood and voice prevail
Prevailing(joined, n) ==
  IF joined.ok
  THEN [joined EXCEPT !.have.form = [@ EXCEPT !.tense = IF n.tense = "" THEN @ ELSE n.tense,
                                              !.mood = IF n.mood = "" THEN @ ELSE n.mood,
                                              !.voice = Set(@, n.voice)]]
  ELSE joined
CompatKeys(keys1, keys2, is_deriv) ==
  LET gstr == ScanAsciiKeys(keys1, IF is_deriv THEN Add(BlankGstr, {"IS_DERIV"}) ELSE BlankGstr, BlankGstr).want
  IN  Prevailing(EndingOk(keys2, gstr, BlankGstr, TRUE), ScanAsciiKeys(keys2, BlankGstr, BlankGstr).want.form)

(***************************************************************************)
(* The order of a paradigm.  A category counts only when both have it, so  *)
(* that this is no order of all forms; a form without gender has what      *)
(* low_bit_of leaves when it falls off its end, 0.                         *)
(***************************************************************************)
Tenses == <<"present", "", "future", "", "perfect", "pluperfect", "", "", "", "imperfect", "", "aorist",
            "", "", "futperf">>
Moods == <<"indicative", "subjunctive", "optative", "imperative", "infinitive", "participle",
           "gerundive", "supine">>
Degrees == <<"comparative", "superlative">>
Bits(names, set) == FoldLeft(LAMBDA sum, i : sum + (IF names[i] \in set THEN 2^(i - 1) ELSE 0),
                             0, [i \in DOMAIN names |-> i])
Voices == <<"active", "middle", "passive">>
Persons == <<"1st", "2nd", "3rd">>
Numbers == <<"sg", "dual", "pl">>
Cases == <<"nom", "gen", "dat", "acc", "voc", "ablative">>
Genders == <<"masc", "fem", "neut", "adverbial">>
Dialects == <<"", "attic", "", "ionic", "aeolic", "lesbian", "homeric", "doric", "paradigm",
              "", "non_homeric_epic", "prose">>
LowBit(names, set) == LET found == {i \in DOMAIN names : names[i] \in set}
                      IN  IF found = {} THEN 0 ELSE 2^(Min(found) - 1)
FirstDeciding(criteria) ==
  LET deciding == {i \in DOMAIN criteria : criteria[i][1] # criteria[i][2]}
  IN  IF deciding = {} THEN <<0, 0>> ELSE criteria[Min(deciding)]
\* the two numbers the first deciding criterion compares, as a pair
CompGkString(g1, g2) ==
  LET f1 == g1.form
      f2 == g2.form
      Has(g, flag) == IF flag \in g.flags THEN 1 ELSE 0
      CaseOf(f) == 1000 * Bits(Numbers, f.number) + 10 * LowBit(Cases, f.case) + LowBit(Genders, f.gender)
      PersonOf(f) == 10 * Bits(Numbers, f.number) + Bits(Persons, f.person)
      Both(field) == f1[field] # {} /\ f2[field] # {}
      Says(g, dialect) == IF dialect \in g.dialect THEN 1 ELSE 0
      criteria == <<
        <<Has(g1, "ITERATIVE"), Has(g2, "ITERATIVE")>>,
        <<RankIn(Tenses, f1.tense), RankIn(Tenses, f2.tense)>>,
        <<Bits(Voices, f1.voice), Bits(Voices, f2.voice)>>,
        <<RankIn(Moods, f1.mood), RankIn(Moods, f2.mood)>>,
        <<RankIn(Degrees, f1.degree), RankIn(Degrees, f2.degree)>>,
        IF Both("case") THEN <<CaseOf(f1), CaseOf(f2)>> ELSE <<0, 0>>,
        IF Both("gender") THEN <<LowBit(Genders, f1.gender), LowBit(Genders, f2.gender)>> ELSE <<0, 0>>,
        <<Has(g1, "UNAUGMENTED"), Has(g2, "UNAUGMENTED")>>,
        IF Both("person") THEN <<PersonOf(f1), PersonOf(f2)>> ELSE <<0, 0>>,
        IF Both("number") THEN <<LowBit(Numbers, f2.number), LowBit(Numbers, f1.number)>> ELSE <<0, 0>>,
        <<Says(g2, "paradigm"), Says(g1, "paradigm")>>,
        <<Says(g2, "attic"), Says(g1, "attic")>>,
        <<Bits(Dialects, g1.dialect), Bits(Dialects, g2.dialect)>>>>
  IN  FirstDeciding(criteria)
More(pair) == pair[1] > pair[2]
Later(g1, g2) == More(CompGkString(g1, g2))

\* a new ending goes before the first of the endings at the end that are not after it
AddAfter(list, new, after) == InsertAt(list, IF after = {} THEN 1 ELSE Max(after) + 1, new)
AddNewEnd(list, new) == AddAfter(list, new, {i \in DOMAIN list : Later(list[i], new)})

(***************************************************************************)
(* What a stem wants, and all its endings from the list of its type: the   *)
(* list is left at an ending past the one looked for, and at one that is   *)
(* to be avoided.                                                          *)
(***************************************************************************)
Numbered(g, flag, number) ==
  IF flag \in g.flags /\ g.form.number = {} THEN [g EXCEPT !.form.number = {number}] ELSE g
Marked1(marked, avoid, has_preverb) ==
  LET preverb == AddIf(marked, has_preverb, "HAS_PREVERB")
  IN  [want |-> Numbered(Numbered(preverb, "PERS_NAME", "sg"), "GROUP_NAME", "pl"), avoid |-> avoid]
Scanned(scan, endstr, stem, has_preverb, dial) ==
  Marked1([markstem(stem, [scan.want EXCEPT !.gkstring = endstr]) EXCEPT
            !.dialect = IF dial = {} THEN {} ELSE @ \cup dial], scan.avoid, has_preverb)
WantedEnd(endstr, keys, stem, has_preverb, dial) ==
  Scanned(ScanAsciiKeys(keys, BlankGstr, BlankGstr), endstr, stem, has_preverb, dial)

Taken(found, want, avoid) ==
  [found EXCEPT !.want = want.want,
                !.left = want.code < 0 \/ avoid,
                !.ends = IF want.code > 0 /\ ~avoid
                         THEN AddNewEnd(@, [want.have EXCEPT !.stemtype = found.want.stemtype])
                         ELSE @]
Offered(found, want) == Taken(found, want, NoWantGkEnd(found.avoid, want.have, FALSE))
RetrStep(found, have) ==
  IF found.left THEN found ELSE Offered(found, WantGkEnd(found.want, have, TRUE, TRUE))
RetrCompEnds(wanted, list) ==
  FoldLeft(RetrStep, [want |-> wanted.want, avoid |-> wanted.avoid, left |-> FALSE, ends |-> <<>>], list).ends
=============================================================================
