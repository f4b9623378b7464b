-------------------------------- MODULE Endings --------------------------------
(***************************************************************************)
(* How a line of a table of endings becomes endings (gkends): "@" stands   *)
(* for the rows of a basic table, h after e, i, r becomes a long a, the    *)
(* consonants where the parts meet change, vowels contract, and the forms  *)
(* that take one get a movable n.  Every form a rule makes goes through    *)
(* all of it again, so that one line is a tree of forms: Calls takes the   *)
(* call that is next to the calls it makes, which come first.              *)
(*                                                                         *)
(* A rule of a table of sounds is a record: raw, what is replaced, cooked, *)
(* what it becomes, and the dialect, region and flags of the new form.     *)
(***************************************************************************)
EXTENDS GkMatch

CONSTANTS
  Vow_contr,      \* the contractions, in the order of their table
  Cons_euph,      \* the changes of consonants
  Basics          \* the basic tables by their name: rows [endstr, keys]

ASSUME SoundsAssumption ==
  /\ Vow_contr \in Seq(ToSet(Vow_contr)) /\ Cons_euph \in Seq(ToSet(Cons_euph))
  /\ \A name \in DOMAIN Basics : Basics[name] \in Seq(ToSet(Basics[name]))

MAXCONTRACTS == 10
MAXEUPHS == 5

\* a mutant for the runs: a rule that applies to its own result stays as it is
Mutant_load_euph(rule) == rule
\* a rule as it is loaded: one that would apply to its own result gets a diaeresis
load_euph(rule) ==
  IF Len(rule.raw) > 1 /\ IsPrefix(rule.raw, rule.cooked)
  THEN [rule EXCEPT !.cooked = <<@[1], DIAERESIS>> \o Tail(@)] ELSE rule
load_euph_tab(table) == [i \in DOMAIN table |-> load_euph(table[i])]
Contractions == load_euph_tab(Vow_contr)
Euphony == load_euph_tab(Cons_euph)

\* "|" before an acute changes places with it, and takes away a long mark
IotaLast(cooked, rest) ==
  IF cooked # <<>> /\ Last(cooked) = SUBSCR /\ At(rest, 1) = ACUTE
  THEN Front(cooked) \o <<ACUTE, SUBSCR>> \o From(rest, IF At(rest, 2) = "_" THEN 3 ELSE 2)
  ELSE cooked \o rest
\* the character after "|_" is not looked at
IotaShort(w) ==
  LET drop[p \in 0..Len(w)] == /\ p > 1 /\ w[p] = "_" /\ w[p - 1] = SUBSCR
                               /\ ~(p > 2 /\ drop[p - 2])
  IN  Kept(w, LAMBDA p : ~drop[p])

(***************************************************************************)
(* One rule at position p of the word: the form it makes, if it applies.   *)
(* A breathing does not keep it from applying; an accent does not either,  *)
(* but then the new form is accented again.                                *)
(***************************************************************************)
NoSub == [ok |-> FALSE]
\* a form that lost its accent, accented again
Reaccented(lost) ==
  LET recessive == Is_verbform(lost) /\ ~Is_participle(lost) /\ "!" \notin ToSet(lost.gkstring)
      word == FixRecAcc(BlankGstr, lost.form, lost.flags, lost.gkstring)
  IN  IF recessive THEN [lost EXCEPT !.gkstring = word] ELSE AccComposForm(lost)
LostAccent(lost, syll) ==
  IF "IS_DERIV" \in lost.flags THEN lost
  ELSE Zap(Reaccented(Add(AddIf(lost, syll = nsylls(lost.gkstring) - 1, "SUFF_ACC"), {"LOST_ACC"})), {"LOST_ACC"})
needs_sub(g, skipdial, rule, p) ==
  LET seen == SubSeq(g.gkstring, 1, p - 1)
      cur == stripbreath(From(g.gkstring, p))
      breath == getbreath(From(g.gkstring, p))
      bare == stripacc(cur)
      Rest(w) == From(w, Len(rule.raw) + 1)
      Rebreathed(w) == IF Latinate THEN w ELSE addbreath(w, breath)
      Made(w) == [Add(g, rule.flags) EXCEPT !.gkstring = w,
                    !.dialect = AndDialect(@, rule.dialect), !.region = @ \cup rule.region]
      lost == Made(Rebreathed(IotaShort(seen \o rule.cooked \o Rest(bare))))
  IN  CASE skipdial \cap rule.dialect # {} \/ ~Compatible(g.dialect, rule.dialect) -> NoSub
        [] OTHER ->
             IF IsPrefix(rule.raw, cur)
             THEN [ok |-> TRUE, gstr |-> Made(Rebreathed(seen \o IotaLast(rule.cooked, Rest(cur))))]
             ELSE IF hasaccent(cur) /\ IsPrefix(rule.raw, bare)
             THEN [ok |-> TRUE, gstr |-> LostAccent(lost, Accented(cur))]
             ELSE NoSub

(***************************************************************************)
(* The first position at which a rule applies, and the first rule there:   *)
(* the rules after it count as long as they replace the same.              *)
(***************************************************************************)
SameRaw(table, first, i) == \A j \in first..i : table[j].raw = table[first].raw
\* a set of places in a list, the first one first
InOrder(places) ==
  [i \in 1..Cardinality(places) |-> CHOOSE p \in places : Cardinality({q \in places : q < p}) = i - 1]
\* subs: what the rules make at one place, of which one or more apply
FormsAt(subs, possno, table) ==
  LET ok == {i \in DOMAIN table : subs[i].ok}
      same == {i \in ok : SameRaw(table, Min(ok), i)}
      hits == InOrder(same)
  IN  [i \in 1..Min({Cardinality(same), possno}) |-> subs[hits[i]].gstr]
\* subs: the same at every place
FirstForms(subs, possno, table) ==
  LET places == {p \in DOMAIN subs : \E i \in DOMAIN table : subs[p][i].ok}
  IN  IF places = {} THEN <<>> ELSE FormsAt(subs[Min(places)], possno, table)
sub_for_euph(g, skipdial, possno, table) ==
  FirstForms([p \in DOMAIN g.gkstring |-> [i \in DOMAIN table |-> needs_sub(g, skipdial, table[i], p)]],
             possno, table)
poss_contracts(g, skipdial) == sub_for_euph(g, skipdial, MAXCONTRACTS, Contractions)
do_euph(g, skipdial) == sub_for_euph(g, skipdial, MAXEUPHS, Euphony)

(***************************************************************************)
(* The long a of Attic: a form of its own; when the vowel stands inside    *)
(* the ending the form it is made from is no longer Attic, and one that    *)
(* was Attic only is of every dialect from then on.                        *)
(***************************************************************************)
EtaPlaces == <<"rh", "ih", "i!h", "i_h", "i/h", "i_/h", "e/-h">>
fix_eta(g) ==
  LET w == g.gkstring
      declined == g.stemtype \cap {"DECL1", "DECL2"} # {} \/ g.form.degree # "" \/ Is_participle(g)
      initial == /\ At(w, 1) = "h" /\ "INDECLFORM" \notin g.flags /\ (declined \/ "IS_DERIV" \in g.flags)
                 /\ Compatible(g.dialect, RHO_ALPHA_DIAL)
      places == {i \in DOMAIN EtaPlaces : is_substring(Chars(EtaPlaces[i]), w) # 0}
      inside == g.dialect # RHO_ETA_DIAL /\ declined /\ places # {}
      which == Chars(EtaPlaces[Min(places)])
      p == is_substring(which, w)
      rest == From(w, p + Len(which))
      long == IF which = Chars("i!h") /\ At(rest, 1) = "=" THEN <<"a">> ELSE <<"a", "_">>
      Attic(word) == [g EXCEPT !.gkstring = word, !.dialect = {"attic"}]
  IN  IF initial THEN [variants |-> <<Add(Attic(<<"a", "_">> \o Tail(w)), {"R_E_I_ALPHA"})>>, have |-> g]
      ELSE IF inside
      THEN [variants |-> <<Attic(SubSeq(w, 1, p - 1) \o Front(which) \o long \o rest)>>,
            have |-> [g EXCEPT !.dialect = @ \ {"attic"}]]
      ELSE [variants |-> <<>>, have |-> g]

(***************************************************************************)
(* Stem and ending joined.                                                 *)
(***************************************************************************)
zap_extra_lmarks(w) ==
  LET extra[p \in 0..Len(w)] == p > 1 /\ w[p] = "_" /\ ~extra[p - 1] /\ w[p - 1] \in LongVowels
  IN  Kept(w, LAMBDA p : ~extra[p])
CompStemEnd(stem, endstr) ==
  LET swap == ~Latinate /\ stem # <<>> /\ Last(stem) \in Breaths /\ At(endstr, 1) = "_"
      stem1 == IF swap THEN Append(Front(stem), "_") ELSE stem
      \* the vowel before the end, and whether a long mark follows it
      vowel == IF swap THEN At(stem, Len(stem) - 1) ELSE At(stem, Len(stem))
      raised == IF vowel = "e" THEN "i" ELSE "u"
      lengthen == ~Latinate /\ vowel \in {"e", "o"} /\ (swap \/ At(endstr, 1) = "_")
      stem2 == zap_extra_lmarks(IF swap /\ lengthen THEN Append(Front(stem1), raised) ELSE stem1)
      end1 == IF swap THEN <<Last(stem)>> \o Tail(endstr)
              ELSE IF lengthen THEN <<raised>> \o Tail(endstr) ELSE endstr
  IN  stem2 \o IF stem2 # <<>> /\ Last(stem2) \in LongVowels /\ At(end1, 1) = "_" THEN Tail(end1) ELSE end1

CheckForBreathing(g) ==
  LET w == g.gkstring
  IN  IF Latinate THEN g
      ELSE [Zap(g, {"NEEDS_RBREATH"}) EXCEPT
             !.gkstring = IF At(w, 1) \in Vowels /\ getbreath(w) \notin Breaths
                          THEN addbreath(w, IF "NEEDS_RBREATH" \in g.flags THEN "(" ELSE ")") ELSE w]
WithoutOptional(g) == IF At(g.gkstring, 1) = "*" THEN Zap(g, {"ACCENT_OPTIONAL"}) ELSE g
WithBreathing(g) == IF "INDECLFORM" \in g.flags THEN CheckForBreathing(g) ELSE g
join_end(g) ==
  LET proper == At(g.gkstring, 1) = "*"
      short == g.flags \cap {"NEEDS_ACCENT", "SUFF_ACC", "HAS_AUGMENT"} = {} /\ nsylls(g.gkstring) < 3
      optional == AddIf(g, short, "ACCENT_OPTIONAL")
      accented == IF "IS_DERIV" \notin g.flags /\ ~proper THEN AccComposForm(optional) ELSE optional
  IN  WithBreathing(WithoutOptional(accented))

\* "a-i" is "ai+" without the hyphen; of two hyphens the second stays
hyphtodiaer(w) ==
  LET gone[p \in 0..Len(w)] == At(w, p) = "-" /\ ~gone[p - 1]
      Joined(v, p) == Append(v, w[p]) \o
        (IF gone[p - 1] /\ is_diphth(Append(v, w[p]) \o From(w, p + 1), Len(v) + 1) THEN <<DIAERESIS>> ELSE <<>>)
  IN  FoldLeft(LAMBDA v, p : IF gone[p] THEN v ELSE Joined(v, p), <<>>, [p \in DOMAIN w |-> p])
\* a mutant for the runs: the hyphens are left where they are
Mutant_AddNewGstr(g) ==
  [g EXCEPT !.gkstring = stripchar(IF At(@, 1) = "*" THEN @ ELSE stripzeroend(@), "!")]
AddNewGstr(g) ==
  [g EXCEPT !.gkstring = stripchar(hyphtodiaer(IF At(@, 1) = "*" THEN @ ELSE stripzeroend(@)), "!")]

(***************************************************************************)
(* The calls of mk_end.  A call is a record of what it is to do with the   *)
(* form have, and what to avoid: "mk_end"; "sounds", the part after the    *)
(* long a, which has the form as fix_eta leaves it; "store", the part      *)
(* after the movable n.  What is to be avoided is known to the form of the *)
(* line and to those of its basic table only.                              *)
(*                                                                         *)
(* do_dissim is called without the type of the stem: whether it leaves a   *)
(* form that ends in an aspirate alone (keeps) depends on what it finds in *)
(* its place.                                                              *)
(***************************************************************************)
Call(what, have, avoid) == [what |-> what, have |-> have, avoid |-> avoid]
mk_ends(forms) == [i \in DOMAIN forms |-> Call("mk_end", forms[i], BlankGstr)]

RowCalls(merged, rows) == [i \in DOMAIN rows |-> Call("mk_end", merged[rows[i]].have, merged[rows[i]].avoid)]
mk_compend(call) ==
  LET w == call.have.gkstring
      at == SelectInSeq(w, LAMBDA c : c = "@")
      type == From(w, at + 1)
      rows == IF type \in DOMAIN Basics THEN Basics[type] ELSE <<>>
      Merged(row) == [EndingOk(row.keys, call.have, call.avoid, FALSE) EXCEPT
                        !.have.gkstring = CompStemEnd(SubSeq(w, 1, at - 1), row.endstr)]
      merged == [i \in DOMAIN rows |-> Merged(rows[i])]
  IN  RowCalls(merged, InOrder({i \in DOMAIN rows : merged[i].ok}))

EtaCalls(eta, avoid) == mk_ends(eta.variants) \o <<Call("sounds", eta.have, avoid)>>
mk_end(call) == EtaCalls(fix_eta(join_end(call.have)), call.avoid)

Sounded(call, euph_forms, contr_forms, movable) ==
  IF euph_forms # <<>> THEN mk_ends(euph_forms)
  ELSE IF contr_forms # <<>> THEN mk_ends(contr_forms)
  ELSE mk_ends(movable) \o <<Call("store", call.have, call.avoid)>>
sounds(call) ==
  LET g == call.have
  IN  Sounded(call, do_euph(g, call.avoid.dialect),
              IF "CONTRACTED" \in g.flags THEN <<>> ELSE poss_contracts(g, call.avoid.dialect),
              IF takes_nu_movable(g) /\ ~Latinate THEN <<add_numovable(g)>> ELSE <<>>)

stored(g, keeps) ==
  LET w == do_dissim(g.gkstring, keeps)
  IN  AddNewGstr(AddIf([g EXCEPT !.gkstring = w], w # g.gkstring, "DISSIMILATION"))

Calls(call) ==
  CASE call.what = "mk_end" -> IF "@" \in ToSet(call.have.gkstring) THEN mk_compend(call) ELSE mk_end(call)
    [] call.what = "sounds" -> sounds(call)
    [] OTHER -> <<>>

\* the first call of a line of the table of a type of stems
AddEndLine(basename, line) ==
  LET base == ScanAsciiKeys(basename, BlankGstr, BlankGstr)
      scan == ScanAsciiKeys(line.keys, base.want, base.avoid)
  IN  Call("mk_end", [scan.want EXCEPT !.gkstring = line.endstr], scan.avoid)
=============================================================================
