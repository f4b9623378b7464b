-------------------------------- MODULE Preverb --------------------------------
(***************************************************************************)
(* Preverbs.  A table lists the spellings a preverb has in front of a verb *)
(* and its own name; a string that consists of such spellings is expanded  *)
(* into the names.  CombPbStem says whether a spelling and what follows it *)
(* go together, and rstprevb puts the names in front of a word again.      *)
(*                                                                         *)
(* The flags of a preverb (oddpb) say how it was spelt: kept as it is, not *)
(* aspirated, elided, with its last vowel lost, augmented itself.  A list  *)
(* of names is a word with commas in it.                                   *)
(***************************************************************************)
EXTENDS Augment

\* the table in its order, longer spellings first: records of raw, pblemma, flags and dialect
CONSTANT PrevbTable

LOCAL AEOLIC_IONIC == {"aeolic", "ionic"}
Is(w, string) == w = Chars(string)
EndsLike(w, string) == IsSuffix(Chars(string), w)
LastOf(w) == At(w, Len(w))
LessLast(w, n) == SubSeq(w, 1, Len(w) - n)
WithLast(w, c) == Append(LessLast(w, 1), c)

(***************************************************************************)
(* A preverb and the rest of the string: whether they go together, the     *)
(* rest with the breathing it must have, and the flags this gives the      *)
(* preverb.                                                                *)
(***************************************************************************)
Verdict(ok, rest, pbflags) == [ok |-> ok, rest |-> rest, flags |-> pbflags]
No == Verdict(FALSE, <<>>, {})

\* an r after a vowel is doubled or has its breathing; other vowels meet in poetry
Meeting(lastc, lastc2, lastc3, restofs, pbflags) ==
  LET first == At(restofs, 1)
      hiatus == lastc \in Vowels /\ first \in Vowels /\ ~(lastc2 = "d" /\ lastc = "i")
      raw == pbflags \cup {"RAW_PREVERB"}
  IN  CASE hiatus -> Verdict(TRUE, restofs, raw \cup IF lastc3 # "p" /\ lastc2 # "r" THEN {"POETIC"} ELSE {})
        [] ~hiatus /\ lastc \in Vowels /\ first = "r" ->
             IF At(restofs, 2) = "r" THEN Verdict(TRUE, [restofs EXCEPT ![2] = "("], pbflags)
             ELSE Verdict(TRUE, Chars("r(") \o From(restofs, 2), raw \cup {"POETIC"})
        [] OTHER -> Verdict(TRUE, restofs, pbflags)
\* the last consonant of sun-, en- and others is like the first one of the rest
Assimilated(lastc, lastc2, first) ==
  CASE lastc = "g" -> first \in Palatals
    [] lastc = "m" -> first \in Labials \cup {"y", "m"}
    [] lastc = "l" -> first = "l"
    [] lastc = "r" -> first = "r" \/ (lastc2 # "u" /\ first \in Vowels)
    [] OTHER -> TRUE
Joining(lastc, lastc2, lastc3, restofs, pbflags) ==
  LET first == At(restofs, 1)
  IN  IF lastc = "n" /\ first \in Palatals \cup Labials \cup {"y", "l", "r", "m"}
      THEN Verdict(TRUE, restofs, pbflags \cup {"RAW_PREVERB", "POETIC"})
      ELSE IF \/ lastc = "i" /\ lastc2 = "d" /\ first \notin Vowels
              \/ lastc = "g" /\ first \notin Palatals
      THEN No
      ELSE IF lastc2 = "u" \/ (lastc2 = "e" /\ lastc3 # "p")
      THEN Verdict(Assimilated(lastc, lastc2, first), restofs, pbflags)
      ELSE Meeting(lastc, lastc2, lastc3, restofs, pbflags)

Apocopated(lastc, lastc2, lastc3, first) ==
  /\ lastc \in Consonants \ {"s"} /\ lastc2 \notin {"e", "u"} /\ lastc3 # "s" /\ first \in Consonants
CombPbStemG(curpb, restofs, dial, pbflags) ==
  LET pb == stripbreath(stripacc(curpb))
      lastc == LastOf(pb)
      lastc2 == At(pb, Len(pb) - 1)
      lastc3 == At(pb, Len(pb) - 2)
      first == At(restofs, 1)
      breath == getbreath(restofs)
      flags == pbflags \cup IF Apocopated(lastc, lastc2, lastc3, first) THEN {"APOCOPE"} ELSE {}
      Go(rest, mf) == Joining(lastc, lastc2, lastc3, rest, mf)
  IN  IF "DISSIMILATION" \in pbflags /\ ~next_cons_rough(restofs, 1) THEN No
      ELSE IF lastc \in {"q", "f"}
      THEN IF first \notin Vowels THEN No
           ELSE IF lastc = "f" /\ At(curpb, Len(curpb) - 1) = "m"
           THEN Verdict(TRUE, restofs, flags \cup {"ELIDE_PREVERB"})
           ELSE IF breath = ")" THEN No
           ELSE Go(IF breath = NOACCENT THEN addbreath(restofs, "(") ELSE restofs,
                   flags \ {"UNASP_PREVERB"})
      ELSE IF lastc \in {"t", "p"} /\ first \in Vowels /\ breath # ")"
      THEN IF Compatible(dial, AEOLIC_IONIC) THEN Verdict(TRUE, restofs, flags \cup {"UNASP_PREVERB"})
           ELSE Verdict(breath = NOACCENT, restofs, flags)
      ELSE IF (lastc = "c" /\ first \notin Vowels) \/ (lastc = "u" /\ first \notin {"s", "z"}) THEN No
      ELSE Go(restofs, flags)

\* in Latin the spelling in the table is kept before these letters
KeptBefore(curpb, restofs) ==
  LET Among(string) == At(restofs, 1) \in CharSet(string)
  IN  CASE Is(curpb, "circum") -> Among("i")
        [] Is(curpb, "sub") -> Among("cfgpmr")
        [] Is(curpb, "ob") -> Among("cfgp")
        [] Is(curpb, "ex") \/ Is(curpb, "ec") -> ~Among("aeioucpqtf")
        [] Is(curpb, "trans") -> Among("ijdlmns")
        [] Is(curpb, "dis") -> ~IsPrefix(Chars("di"), restofs) /\ Among("bdglmnrvf")
        [] Is(curpb, "in") -> Among("blpm")
        [] Is(curpb, "con") -> Among("bpmrln")
        [] Is(curpb, "ad") -> Among("cfglnprst")
        [] OTHER -> FALSE
CombPbStemL(curpb, restofs, pbflags) ==
  Verdict(~(Is(curpb, "amb") /\ At(restofs, 1) \notin CharSet("aeiou")), restofs,
          pbflags \cup (IF KeptBefore(curpb, restofs) THEN {"RAW_PREVERB"} ELSE {})
                  \cup (IF Is(curpb, "red") \/ Is(curpb, "prod") THEN {"D_PREVB"} ELSE {}))
CombPbStem(curpb, restofs, dial, pbflags) ==
  CASE restofs = <<>> -> Verdict(TRUE, restofs, pbflags)
    [] OTHER -> IF Latinate THEN CombPbStemL(curpb, restofs, pbflags)
                ELSE CombPbStemG(curpb, restofs, dial, pbflags)

(***************************************************************************)
(* Expanding a string of preverbs.  The next spelling in the table after   *)
(* the last one tried; one that would keep its spelling beside a preverb   *)
(* that keeps its own is passed over, but the string is cut all the same.  *)
(***************************************************************************)
has_rawpreverb(w, row) == IsPrefix(row.raw, w)
FirstRow(w, i) ==
  LET rows == {j \in i..Len(PrevbTable) : has_rawpreverb(w, PrevbTable[j])}
  IN  IF rows = {} THEN Len(PrevbTable) + 1 ELSE Min(rows)
RECURSIVE PreverbFrom(_, _, _)
PreverbOf(w, j, row, gstr) ==
  LET rest == From(w, Len(row.raw) + 1)
  IN  IF "RAW_PREVERB" \in gstr.flags /\ gstr.flags \cap row.flags # {} THEN PreverbFrom(rest, j + 1, gstr)
      ELSE [found |-> TRUE, preverb |-> row.raw, word |-> rest, pblemma |-> row.pblemma,
            gstr |-> [Add(gstr, row.flags) EXCEPT !.dialect = IF row.dialect = {} THEN @ ELSE row.dialect]]
PreverbAt(w, j, gstr) ==
  IF j > Len(PrevbTable) THEN [found |-> FALSE] ELSE PreverbOf(w, j, PrevbTable[j], gstr)
PreverbFrom(w, i, gstr) == PreverbAt(w, FirstRow(w, i), gstr)
nextpreverb(w, oldprevb, gstr) ==
  PreverbFrom(w, IF oldprevb = <<>> THEN 1 ELSE FirstRow(oldprevb, 1) + 1, gstr)
is_rawpreverb(s) == \E j \in DOMAIN PrevbTable : PrevbTable[j].raw = s

\* a spelling whose rest cannot be expanded is given up for the next one, but the first
\* spelling that does not go together with its rest ends the search, its name in full
RECURSIVE exp_prevb2(_, _, _, _, _)
Expansion(ok, fullpb, gstr) == [ok |-> ok, fullpb |-> fullpb, gstr |-> gstr]
Named(fullpb, pblemma) == fullpb \o (IF fullpb = <<>> THEN <<>> ELSE <<",">>) \o pblemma
ExpandedRest(str, fullpb, gstr, next, comb, rest) ==
  IF rest.ok THEN [rest EXCEPT !.gstr.flags = @ \cup (comb.flags \cap {"UNASP_PREVERB"})]
  ELSE exp_prevb2(str, fullpb, gstr, next.preverb, comb.flags)
ExpandedWith(str, fullpb, gstr, next, comb) ==
  IF ~comb.ok THEN Expansion(FALSE, Named(fullpb, next.pblemma), gstr)
  ELSE ExpandedRest(str, fullpb, gstr, next, comb,
                    exp_prevb2(comb.rest, Named(fullpb, next.pblemma), next.gstr, <<>>, {}))
ExpandedNext(str, fullpb, gstr, pbflags, next) ==
  IF ~next.found THEN Expansion(FALSE, fullpb, gstr)
  ELSE ExpandedWith(str, fullpb, gstr, next, CombPbStem(next.preverb, next.word, {}, pbflags))
exp_prevb2(str, fullpb, gstr, oldprevb, pbflags) ==
  IF str = <<>> THEN Expansion(TRUE, fullpb, gstr)
  ELSE ExpandedNext(str, fullpb, gstr, pbflags, nextpreverb(str, oldprevb, gstr))
exp_preverb(rawpb, gstr) ==
  IF rawpb = <<>> \/ Contains(rawpb, ",")
  THEN [ok |-> rawpb # <<>>, fullpb |-> rawpb, gstr |-> gstr]
  ELSE exp_prevb2(stripacc(rawpb), <<>>, gstr, <<>>, {})
is_preverb(rawpb, gstr) == exp_preverb(rawpb, IF rawpb = <<>> THEN gstr ELSE [gstr EXCEPT !.flags = {}])

(***************************************************************************)
(* Other dialects' spellings of a preverb.                                 *)
(***************************************************************************)
Shift(w, changes, kept) ==
  LET Fits(p, c) == /\ IsPrefix(Chars(c[1]), From(w, p))
                    /\ ~(kept /\ IsPrefix(Chars(c[2]), From(w, p)))
      places == {p \in DOMAIN w : \E c \in changes : Fits(p, c)}
      p == Min(places)
      change == CHOOSE c \in changes : Fits(p, c)
  IN  IF places = {} THEN w
      ELSE SubSeq(w, 1, p - 1) \o Chars(change[2]) \o From(w, p + Len(change[1]))
shift_su_to_cu(w) == [p \in DOMAIN w |-> IF w[p] = "s" /\ At(w, p + 1) = "u" THEN "c" ELSE w[p]]
Shifts == <<
  [flag |-> "SHORT_EIS", changes |-> {<<"eis", "es">>, <<"ei)s", "e)s">>}],
  [flag |-> "PROS_TO_POTI", changes |-> {<<"pros", "poti">>}],
  [flag |-> "PROS_TO_PROTI", changes |-> {<<"pros", "proti">>}],
  [flag |-> "META_TO_PEDA", changes |-> {<<"meta", "peda">>}],
  [flag |-> "UPO_TO_UPAI", changes |-> {<<"upo", "upai">>, <<"u(po", "u(pai">>}],
  [flag |-> "PARA_TO_PARAI", changes |-> {<<"para", "parai">>}],
  [flag |-> "UPER_TO_UPEIR", changes |-> {<<"uper", "upeir">>, <<"u(per", "u(peir">>}],
  [flag |-> "EN_TO_ENI", changes |-> {<<"en", "eni">>, <<"e)n", "e)ni">>}]>>
set_odd_prvb(oddpb, work) ==
  FoldLeft(LAMBDA w, s : IF s.flag \in oddpb THEN Shift(w, s.changes, s.flag = "EN_TO_ENI") ELSE w,
           IF "SIG_TO_CI" \in oddpb THEN shift_su_to_cu(work) ELSE work, Shifts)

(***************************************************************************)
(* The spelling of a preverb in front of a word: amfi- and anti- lose      *)
(* their vowel, other vowels are lost before vowels, the last consonant is *)
(* aspirated or made like the first one of the word, an r is doubled.      *)
(***************************************************************************)
AmfiBefore(prevb, first, rough, oddpb) ==
  LET ampi == LessLast(prevb, 2) \o <<"p", "i">>
      amp == IF first \in Vowels THEN LessLast(ampi, 1) ELSE ampi
  IN  CASE "DISSIMILATION" \in oddpb -> IF rough THEN WithLast(amp, "f") ELSE amp
        [] OTHER -> IF first = "i" \/ "ELIDE_PREVERB" \in oddpb THEN LessLast(prevb, 1) ELSE prevb
AntiBefore(prevb, first, rough, oddpb) ==
  LET ant == IF first # "o" \/ "ELIDE_PREVERB" \in oddpb THEN LessLast(prevb, 1) ELSE prevb
  IN  IF LastOf(ant) = "t" /\ rough /\ "UNASP_PREVERB" \notin oddpb THEN WithLast(ant, "q") ELSE ant
BeforeVowel(prevb, rough, oddpb) ==
  LET lost == LastOf(prevb) \in Vowels /\ ~EndsLike(prevb, "di")
      elided == IF lost THEN LessLast(prevb, 1) ELSE prevb
  IN  IF EndsLike(prevb, "pro") \/ EndsLike(prevb, "peri") \/ EndsLike(prevb, "proti")
      THEN Append(prevb, "+")
      ELSE IF LastOf(elided) = "k" THEN WithLast(elided, "c")
      ELSE IF LastOf(elided) \in Unaspirated /\ rough /\ "UNASP_PREVERB" \notin oddpb
      THEN aspirate(elided, Len(elided)) ELSE elided
BeforeConsonant(prevb, first, second) ==
  LET last == LastOf(prevb)
  IN  CASE last = "t" -> IF first = "s" THEN LessLast(prevb, 1)
                         ELSE IF first \in Labials \cup {"d", "n", "l", "r", "k"} THEN WithLast(prevb, first)
                         ELSE prevb
        [] last = "p" /\ first = "b" -> WithLast(prevb, "b")
        [] last = "n" ->
             IF first \in Labials \cup {"m", "y"} THEN WithLast(prevb, "m")
             ELSE IF first \in Palatals THEN WithLast(prevb, "g")
             ELSE IF first \in {"r", "l"} THEN WithLast(prevb, first)
             ELSE IF first \in {"s", "z"} /\ At(prevb, Len(prevb) - 1) = "u"
             THEN IF first = "z" \/ second \in Unaspirated \cup Rough THEN LessLast(prevb, 1)
                  ELSE WithLast(prevb, "s")
             ELSE prevb
        [] OTHER -> prevb
getprvbform(word, preverb, oddpb) ==
  LET prevb == stripacc(preverb)
      first == At(word, 1)
      rough == getbreath(word) = "("
      Form(pb) == [prevb |-> pb, word |-> stripbreath(word), flags |-> oddpb]
      dissimilated == "DISSIMILATION" \in oddpb /\ rough
      doubled == /\ first = "r" /\ LastOf(prevb) \in Vowels /\ "RAW_PREVERB" \notin oddpb
  IN  IF (EndsLike(prevb, "peri") \/ EndsLike(prevb, "proti")) /\ "ELIDE_PREVERB" \in oddpb
      THEN Form(LessLast(prevb, 1))
      ELSE IF EndsLike(prevb, "mfi")
      THEN [Form(AmfiBefore(prevb, first, rough, oddpb)) EXCEPT
             !.flags = IF dissimilated THEN @ \ {"DISSIMILATION"} ELSE @]
      ELSE IF EndsLike(prevb, "nti") /\ first \in Vowels THEN Form(AntiBefore(prevb, first, rough, oddpb))
      ELSE IF first \in Vowels THEN Form(BeforeVowel(prevb, rough, oddpb))
      ELSE IF doubled THEN [Form(prevb) EXCEPT !.word = <<"r">> \o @]
      ELSE Form(BeforeConsonant(prevb, first, At(word, 2)))

\* what a Latin preverb is in front of a letter; a d or a t of its own (re- and pro-) comes back
LatinBefore(prevb, word) ==
  LET c == At(word, 1)
      Among(string) == c \in CharSet(string)
      lost == LessLast(prevb, 1)
      like == Append(lost, c)
  IN  CASE Is(prevb, "circum") /\ c = "i" -> lost
        [] Is(prevb, "sub") -> IF Among("cfgprm") THEN like ELSE IF c = "s" THEN lost ELSE prevb
        [] Is(prevb, "ob") /\ Among("cfgp") -> like
        [] Is(prevb, "ex") /\ c # NUL /\ ~Among("aeioucpqt") -> IF c = "f" THEN like ELSE Append(lost, "_")
        [] Is(prevb, "trans") -> IF Among("ijdlmn") THEN LessLast(prevb, 2) ELSE IF c = "s" THEN lost ELSE prevb
        [] Is(prevb, "dis") /\ ~IsPrefix(Chars("di"), word) ->
             IF Among("bdglmnrv") THEN lost ELSE IF c = "f" THEN like ELSE prevb
        [] Is(prevb, "in") -> IF c = "l" THEN like ELSE IF Among("bpm") THEN Append(lost, "m") ELSE prevb
        [] Is(prevb, "con") -> IF Among("bpm") THEN Append(lost, "m") ELSE IF Among("rl") THEN like
                               ELSE IF c = "n" THEN Append(lost, "_") ELSE prevb
        [] Is(prevb, "ad") -> IF Among("cflnpst") THEN like ELSE IF c = "g" THEN lost ELSE prevb
        [] OTHER -> prevb
LatinPreverb(prevb, word, oddpb) ==
  CASE "T_PREVB" \in oddpb /\ Is(prevb, "re") -> Chars("ret")
    [] OTHER -> IF "D_PREVB" \in oddpb THEN Append(prevb, "d") ELSE LatinBefore(prevb, word)

(***************************************************************************)
(* The preverb restored to a word, several names of preverbs one after the *)
(* other; the last of them may be augmented, and the flags say so.  With a *)
(* doubled consonant what is in front of the consonant stays in front of   *)
(* the preverb too.                                                        *)
(***************************************************************************)
Raw(work, word) == IF LastOf(work) \in Vowels /\ At(word, 1) \in Vowels THEN Append(work, "+") ELSE work
Shortened(work, oddpb) ==
  LET apocope == IF "APOCOPE" \in oddpb /\ LastOf(work) \in {"a", "o"} THEN LessLast(work, 1) ELSE work
  IN  IF "IOTA_INTENS" \in oddpb /\ LastOf(apocope) = "n" THEN Append(apocope, "i") ELSE apocope
DoubleAugmented(pb, oddpb) ==
  IF "PREVB_AUGMENT" \in oddpb /\ ~Contains(pb, ",") THEN simpleaugment(pb, FALSE) ELSE pb
RECURSIVE rstprevb(_, _, _), Composed(_, _, _)
\* pb up to its first comma is restored to what follows
RestComposed(joined, oddpb) == Composed(joined.word, joined.flags, oddpb)
Composed(pb, gflags, oddpb) ==
  LET comma == SelectInSeq(pb, LAMBDA c : c = ",")
  IN  IF comma = 0 THEN pb
      ELSE RestComposed(rstprevb(DoubleAugmented(From(pb, comma + 1), oddpb), SubSeq(pb, 1, comma - 1),
                                 gflags), oddpb)
comp_preverb(pb, unasp, oddpb) ==
  [word |-> Composed(DoubleAugmented(pb, oddpb),
                     {"HAS_PREVERB"} \cup (IF unasp THEN {"UNASP_PREVERB"} ELSE {})
                                     \cup (oddpb \cap {"EN_TO_ENI"}), oddpb),
   flags |-> oddpb \cup IF "PREVB_AUGMENT" \in oddpb THEN {"HAS_AUGMENT"} ELSE {}]
WithRaw(tmpword, word, comp) ==
  [word |-> set_odd_prvb(comp.flags, Raw(comp.word, word)) \o stripbreath(tmpword),
   flags |-> comp.flags]
WithForm(form) == [word |-> form.prevb \o form.word, flags |-> form.flags]
WithFull(tmpword, comp) ==
  WithForm(getprvbform(tmpword, set_odd_prvb(comp.flags, comp.word), comp.flags))
With(tmpword, word, raw, comp) == IF raw THEN WithRaw(tmpword, word, comp) ELSE WithFull(tmpword, comp)
FullName(prevb, full) == stripacc(IF full = <<>> THEN prevb ELSE full)
\* a raw preverb is as it is written, the name of another is looked up
RestoreTo(tmpword, word, prevb, oddpb) ==
  LET raw == "RAW_PREVERB" \in oddpb
  IN  With(tmpword, word, raw, comp_preverb(IF raw THEN prevb
                                           ELSE Shortened(FullName(prevb, exp_preverb(prevb, BlankGstr).fullpb),
                                                          oddpb),
                                           ~raw /\ "UNASP_PREVERB" \in oddpb, oddpb))
Behind(letters, restored) == [restored EXCEPT !.word = letters \o @]
rstprevb(word, prevb, oddpb) ==
  LET doubled == "DOUBLED_CONS" \in oddpb
      cons == Min({p \in DOMAIN word : word[p] \in Consonants} \cup {Len(word) + 1})
      rest == IF doubled THEN From(word, cons) ELSE word
      tmpword == IF doubled /\ rest # <<>> THEN SubSeq(word, 1, cons) \o rest ELSE word
  IN  IF "INDECLFORM" \in oddpb THEN [word |-> word, flags |-> oddpb]
      ELSE IF Latinate /\ "RAW_PREVERB" \notin oddpb
      THEN [word |-> LatinPreverb(prevb, word, oddpb) \o word, flags |-> oddpb]
      ELSE Behind(IF doubled THEN SubSeq(word, 1, cons - 1) ELSE <<>>,
                  RestoreTo(tmpword, rest, prevb, oddpb))
=============================================================================
