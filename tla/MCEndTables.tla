------------------------------ MODULE MCEndTables ------------------------------
(***************************************************************************)
(* Tables of the stem library, some of their rows left out: a noun and     *)
(* two adjectives, an adjective's comparative, a contracted present, an    *)
(* imperative that excludes a form, a perfect whose consonants change and  *)
(* a participle's dative.  They nest (adj1 holds decl1 and decl2).         *)
(***************************************************************************)
EXTENDS EndTables

Row(endstr, keys) == [endstr |-> Chars(endstr), keys |-> keys]
Rule(raw, cooked, dialect, flags) ==
  [raw |-> Chars(raw), cooked |-> Chars(cooked), dialect |-> dialect, region |-> {}, flags |-> flags]

Nom == <<"case", "nom">>
Voc == <<"case", "voc">>
Sg == <<"number", "sg">>
Attic == <<"dialect", {"attic"}>>
Ionic == <<"dialect", {"ionic"}>>
Epic == <<"dialect", {"homeric", "non_homeric_epic"}>>
Gen == <<"case", "gen">>
Dat == <<"case", "dat">>
Acc == <<"case", "acc">>
Dual == <<"number", "dual">>
Pl == <<"number", "pl">>
Masc == <<"gender", "masc">>
Fem == <<"gender", "fem">>
Neut == <<"gender", "neut">>
Inf == <<"mood", "infinitive">>
Act == <<"voice", {"active"}>>
P1 == <<"person", "1st">>
P2 == <<"person", "2nd">>
P3 == <<"person", "3rd">>
Comp == <<"degree", "comparative">>
LongPen == <<"flags", "LONG_PEN">>
Pres == <<"tense", "present">>
Ind == <<"mood", "indicative">>
Aor == <<"tense", "aorist">>
Imp == <<"mood", "imperative">>
Mid == <<"voice", {"middle"}>>
NeedsAcc == <<"flags", "NEEDS_ACCENT">>
MidPass == <<"voice", {"middle", "passive"}>>
h_hs == <<"stemtype", {"DECL1", "NOUNSTEM"}>>
os_h_on == <<"stemtype", {"ADJSTEM", "DECL1", "DECL2"}>>
ew_pr == <<"stemtype", {"PP_PR"}>>
aor2 == <<"stemtype", {"PP_AO"}>>
perfp_g == <<"stemtype", {"PP_PP"}>>
perf == <<"tense", "perfect">>
us_eia_u == <<"stemtype", {"ADJSTEM", "DECL3"}>>
ous_ontos == <<"stemtype", {"DECL3", "NOUNSTEM"}>>
\* the last contraction is one that mk_end's comment asks for to keep a pair of
\* vowels as it is; the table of the library has none at present
MCVow_contr == <<
  Rule("ew", "w", {"attic", "homeric", "non_homeric_epic", "doric"}, {"CONTRACTED"}),
  Rule("ew", "iw", {"doric"}, {}),
  Rule("ew", "e-w", {"ionic", "homeric", "non_homeric_epic", "doric", "aeolic"}, {}),
  Rule("eou", "ou", {"attic", "homeric", "non_homeric_epic", "doric"}, {"CONTRACTED"}),
  Rule("eou", "eu", {"ionic", "homeric", "non_homeric_epic", "doric"}, {"CONTRACTED"}),
  Rule("eou", "e-ou", {"ionic", "homeric", "non_homeric_epic", "doric", "aeolic"}, {}),
  Rule("eoi", "oi", {"attic", "homeric", "non_homeric_epic", "doric"}, {"CONTRACTED"}),
  Rule("eoi", "i-oi", {"doric"}, {}),
  Rule("eoi", "e-oi", {"ionic", "homeric", "non_homeric_epic", "doric", "aeolic"}, {}),
  Rule("eo", "ou", {"attic", "homeric", "non_homeric_epic", "doric"}, {"CONTRACTED"}),
  Rule("eo", "io", {"doric"}, {}),
  Rule("eo", "eu", {"ionic", "homeric", "non_homeric_epic", "doric"}, {"CONTRACTED"}),
  Rule("eo", "e-o", {"ionic", "homeric", "non_homeric_epic", "doric", "aeolic"}, {}),
  Rule("eeo", "ou=", {"attic"}, {"CONTRACTED"}),
  Rule("eeo", "eu=", {"ionic", "doric"}, {"CONTRACTED"}),
  Rule("eeo", "e-o", {"ionic", "homeric", "non_homeric_epic"}, {}),
  Rule("eei", "ei", {"attic", "ionic", "homeric", "non_homeric_epic", "doric"}, {"CONTRACTED"}),
  Rule("eei", "e-ei", {"ionic", "homeric", "non_homeric_epic"}, {}),
  Rule("ee", "ei", {"attic", "homeric", "non_homeric_epic"}, {"CONTRACTED"}),
  Rule("ee", "h", {"doric", "aeolic"}, {"CONTRACTED"}),
  Rule("ee", "e-e", {"ionic", "homeric", "non_homeric_epic"}, {}),
  Rule("ai", "ai", {"ionic"}, {})>>
MCCons_euph == <<
  Rule("xt", "kt", {}, {}),
  Rule("onts", "ous", {"attic", "ionic", "homeric", "non_homeric_epic", "doric"}, {}),
  Rule("onts", "ois", {"doric", "aeolic"}, {}), Rule("gt", "kt", {}, {}),
  Rule("gsq", "xq", {}, {}), Rule("gs", "c", {}, {})>>
MCBasics ==
  Chars("decl1") :> <<
      Row("h", <<Nom, Voc, Sg, Attic, Ionic, Epic>>), Row("hs", <<Gen, Sg, Attic, Ionic, Epic>>),
      Row("h|", <<Dat, Sg, Attic, Ionic, Epic>>), Row("hn", <<Acc, Sg, Attic, Ionic, Epic>>),
      Row("a_", <<Nom, Voc, Acc, Dual>>), Row("ain", <<Gen, Dat, Dual>>),
      Row("ai", <<Nom, Voc, Pl>>), Row("e/-wn", <<Gen, Pl, Epic, Ionic>>), Row("w=n", <<Gen, Pl>>),
      Row("ais", <<Dat, Pl>>), Row("h|si", <<Dat, Pl, Ionic, Epic>>),
      Row("hfi", <<Dat, Pl, Epic>>), Row("a_s", <<Acc, Pl>>)>> @@
  Chars("decl2") :> <<
      Row("e", <<Voc, Sg, Masc, Fem>>), Row("os", <<Nom, Sg, Masc, Fem>>),
      Row("on", <<Nom, Voc, Acc, Sg, Neut>>), Row("ou", <<Gen, Sg, Masc, Fem, Neut>>),
      Row("w|", <<Dat, Sg, Masc, Fem, Neut>>), Row("on", <<Acc, Sg, Masc, Fem>>),
      Row("w", <<Nom, Voc, Acc, Dual, Masc, Fem, Neut>>),
      Row("oin", <<Gen, Dat, Dual, Masc, Fem, Neut>>), Row("oi", <<Nom, Voc, Pl, Masc, Fem>>),
      Row("a", <<Nom, Voc, Acc, Pl, Neut>>), Row("wn", <<Gen, Pl, Masc, Fem, Neut>>),
      Row("ois", <<Dat, Pl, Masc, Fem, Neut>>), Row("ous", <<Acc, Pl, Masc, Fem>>)>> @@
  Chars("decl3") :> <<
      Row("os", <<Gen, Sg>>), Row("i", <<Dat, Sg>>), Row("a", <<Acc, Sg, Masc, Fem>>),
      Row("e", <<Nom, Voc, Acc, Dual>>), Row("oin", <<Gen, Dat, Dual>>),
      Row("es", <<Nom, Voc, Pl, Masc, Fem>>), Row("a", <<Nom, Voc, Acc, Pl, Neut>>),
      Row("wn", <<Gen, Pl>>), Row("si", <<Dat, Pl>>), Row("as", <<Acc, Pl, Masc, Fem>>)>> @@
  Chars("adj1") :> <<
      Row("@decl2", <<Masc, Neut>>), Row("@decl1", <<Fem, NOT, Gen, Pl>>),
      Row("wn", <<Gen, Pl, Fem>>)>> @@
  Chars("pr_inf_act") :> <<
      Row("een", <<Inf, Act>>), Row("@pr_inf_ath", <<Act>>)>> @@
  Chars("pr_ind_act") :> <<
      Row("w", <<Sg, P1>>), Row("eis", <<Sg, P2>>), Row("ei", <<Sg, P3>>),
      Row("eton", <<Dual, P2>>), Row("eton", <<Dual, P3>>), Row("omen", <<Pl, P1>>),
      Row("ete", <<Pl, P2>>)>> @@
  Chars("pr_imp_mp") :> <<
      Row("eo", <<Sg, P2>>), Row("e/sqw", <<Sg, P3>>), Row("esqon", <<P2, Dual>>),
      Row("e/sqwn", <<P3, Dual>>), Row("esqe", <<Pl, P2>>), Row("e/sqwn", <<Pl, P3>>),
      Row("e/sqwsan", <<Pl, P3>>)>> @@
  Chars("ath_mp_1") :> <<
      Row("mai", <<P1, Sg>>), Row("sai", <<P2, Sg>>), Row("tai", <<P3, Sg>>),
      Row("sqon", <<Dual, P2>>), Row("sqon", <<Dual, P3>>), Row("meqa", <<P1, Pl>>),
      Row("sqe", <<P2, Pl>>), Row("ntai", <<P3, Pl>>)>> @@
  Chars("decl1_sh") :> <<
      Row("@decl1", <<NOT, Nom, Voc, Acc, Sg>>), Row("a", <<Fem, Nom, Voc, Sg>>),
      Row("an", <<Fem, Acc, Sg>>)>>
MCSources == <<
  [type |-> <<h_hs>>,
   lines |-> <<
      Row("@decl1", <<h_hs, Fem>>)>>],
  [type |-> <<os_h_on>>,
   lines |-> <<
      Row("@adj1", <<os_h_on>>), Row("ote/rws", <<os_h_on, Comp>>),
      Row("oter@adj1", <<os_h_on, Comp, LongPen>>)>>],
  [type |-> <<ew_pr>>,
   lines |-> <<
      Row("e@pr_inf_act", <<ew_pr, Pres, Act, Inf>>), Row("e@pr_ind_act", <<ew_pr, Pres, Act, Ind>>)>>],
  [type |-> <<aor2>>,
   lines |-> <<
      Row("@pr_imp_mp", <<aor2, Aor, Imp, Mid, NOT, P2, Sg>>),
      Row("eo", <<aor2, Aor, Mid, Imp, Sg, P2, Attic, Ionic, NeedsAcc>>)>>],
  [type |-> <<perfp_g>>,
   lines |-> <<
      Row("g@ath_mp_1", <<perfp_g, perf, Ind, MidPass, NOT, P3, Pl>>)>>],
  [type |-> <<us_eia_u>>,
   lines |-> <<
      Row("us", <<us_eia_u, Nom, Sg, Masc>>), Row("ei@decl1_sh", <<us_eia_u, Fem>>),
      Row("e-@decl3", <<us_eia_u, Masc, Neut, Sg, NOT, Nom, Acc, Voc, Sg>>),
      Row("ea", <<us_eia_u, Neut, Nom, Voc, Acc, Pl>>)>>],
  [type |-> <<ous_ontos>>,
   lines |-> <<
      Row("ous", <<ous_ontos, Nom, Voc, Sg>>), Row("ont@decl3", <<ous_ontos>>)>>]>>

\* stems: after r and not, with a dialect or an ending asked for, one whose keys
\* say what it is not (the library's stems have no such keys), one of no table
Want(stem, keys, endstr, dialect) == WantedEnd(Chars(endstr), keys, Chars(stem), FALSE, dialect)
MCWanted == {
  Want("xwr", <<h_hs, Fem>>, "", {}), Want("xwr", <<h_hs, Fem>>, "h|", {"ionic"}),
  Want("fwn", <<h_hs, Fem>>, "", {"attic"}), Want("mikr", <<os_h_on, Fem>>, "", {}),
  Want("h(d", <<us_eia_u>>, "", {}), Want("fil", <<ew_pr>>, "ei=s", {}),
  Want("fwn", <<h_hs, Fem, NOT, Gen>>, "", {}),
  Want("dw/r", <<<<"stemtype", {"NOUNSTEM", "DECL2"}>>>>, "", {})}
=============================================================================
