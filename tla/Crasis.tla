-------------------------------- MODULE Crasis --------------------------------
(***************************************************************************)
(* Two words written as one: how the first letters of a contracted word    *)
(* are undone, the word that is left, and the word that was swallowed.     *)
(* A fourth place names the dialects that have the contraction; the rows   *)
(* without one are common Greek.  A word may begin like several rows.      *)
(***************************************************************************)
EXTENDS BetaWord

LOCAL DORIC == {"doric"}
LOCAL IONIC == {"ionic"}
LOCAL EPIC == {"homeric", "non_homeric_epic"}

PossCras == <<
  <<"*)=w", "*)/a", "w)=">>, <<"*)=w", "*)e", "w)=">>, <<"ka)", "*)a", "kai/">>,
  <<"a(=", "a)/", "o(">>, <<"a(", "a)", "o(">>, <<"a(", "e)", "a(/">>, <<"ei(", "ei)", "a(/">>,
  <<"au(", "au)", "o(">>, <<"dau)", "au)", "de/">>, <<"dh)", "e)", "dh/">>, <<"da)", "a)", "dh/">>,
  <<"hu(", "eu)", "h(">>, <<"qat", "e(t", "tou=">>, <<"qa)/", "e(/", "to/">>,
  <<"qoi)", "i(", "to/">>, <<"qai)", "i(", "ta/">>, <<"qou)", "u(", "to/">>,
  <<"qou(", "e(", "to/">>, <<"qou)", "e(", "to/">>, <<"qh)", "h(", "th=|">>,
  <<"qh)", "h(", "tou=">>, <<"qh)", "h(", "to/">>, <<"qa)", "e(", "th=|">>, <<"qa)", "a(", "ta/">>,
  <<"qa)", "e(", "tou=">>, <<"qa/t", "e(/t", "to/">>, <<"kai)", "ai)", "kai/", DORIC \cup EPIC>>,
  <<"kei)", "ei)", "kai/">>, <<"kei)", "ei)", "kai/">>, <<"keu)", "eu)", "kai/">>,
  <<"ka)=|", "ei)=", "kai/">>, <<"ka)|", "ai)", "kai/">>, <<"ta)|", "ai)", "ta/">>,
  <<"ka)=", "a)/", "kai/">>, <<"ka)", "a)", "kai/">>, <<"katta", "ta", "kata/", DORIC>>,
  <<"kadd", "d", "kata/", EPIC>>, <<"ka)", "e)", "kai/">>, <<"kw)", "o)", "kai/">>,
  <<"kw)", "w)", "kai/">>, <<"kou)", "ou)", "kai/">>, <<"kau)", "au)", "kai/">>,
  <<"khu)", "hu)", "kai/">>, <<"moi)", "oi)", "mou">>, <<"ma)", "a)", "mh/">>,
  <<"mh)/", "e)", "mh/">>, <<"mou)", "e)", "mou">>, <<"ou(", "e)", "o(/">>, <<"ou(", "o)", "o(">>,
  <<"ou(", "e(", "o(">>, <<"ou(", "u(", "o(">>, <<"qw)/", "o(/", "ta/">>,
  <<"pottw/s", "tw/s", "poti/", DORIC>>, <<"ta)/|", "ai)/", "to/">>, <<"ta)=", "a)/", "ta/">>,
  <<"ta)", "a)", "ta/">>, <<"ta)", "a)", "tou=">>, <<"ta)", "a)", "to/">>,
  <<"ta)/", "*)/a", "to/">>, <<"ta)", "e)", "ta/">>, <<"th)", "e)", "th=|">>,
  <<"tau)", "au)", "tou=">>, <<"tau)", "au)", "to/">>, <<"tu/xa)gaqh=|", "a)gaqh=|", "tu/xh|">>,
  <<"tu/xa)gaqh|", "a)gaqh=|", "tu/xh|">>, <<"tw)", "*)a", "tou=">>, <<"tw)", "a)", "tou=">>,
  <<"tw)", "a)", "tou=">>, <<"tw)=", "a)/", "toi/", DORIC>>, <<"tw)", "w)", "to/">>,
  <<"tw)", "h(", "to/">>, <<"tw)", "o)", "tw=|">>, <<"sou)", "o(", "sou">>,
  <<"sou)", "e(", "sou">>, <<"sou)", "e)", "sou">>, <<"tou)", "o)", "to/">>,
  <<"tou)", "e)", "to/">>, <<"tou)", "e)", "to/">>, <<"tou)", "e)", "tou=">>,
  <<"tou)=", "e)/", "tou=">>, <<"tou)=", "o)/", "to/">>, <<"tw)", "e)", "tw=|">>,
  <<"tou)", "ou)", "tou=">>, <<"tou)", "e(", "to/">>, <<"tw)u", "au)", "ta/", IONIC>>,
  <<"tw)u", "au)", "to/", IONIC>>, <<"tw)u", "au)", "tou=", IONIC>>,
  <<"twu)", "au)", "ta/", IONIC>>, <<"twu)", "au)", "to/", IONIC>>,
  <<"twu)", "au)", "tou=", IONIC>>, <<"tw)", "a)", "to/", IONIC>>, <<"tw)", "a)", "toi/", DORIC>>,
  <<"tau)", "au)", "to/">>, <<"ou(", "e)", "o(">>, <<"prou)", "proe", "">>,
  <<"sumprou", "sumproe", "">>, <<"cumprou", "cumproe", "">>, <<"a)ntiprou", "a)ntiproe", "">>,
  <<"prou", "proe", "">>, <<"prou", "proo", "">>, <<"prwu", "proau", "">>,
  <<"e)gw)=i", "oi)=", "e)gw/">>, <<"e)gw)=|", "oi)=", "e)gw/">>, <<"e)gw=|", "oi)=", "e)gw/">>,
  <<"e)mou)", "e)", "e)moi">>, <<"kh)", "E)", "kai/">>, <<"kh)", "e)", "kai/">>,
  <<"xh)", "h(", "kai/">>, <<"xh(", "h(", "kai/">>, <<"xa)", "a(", "kai/", DORIC>>,
  <<"xa)", "e(", "kai/">>, <<"xai)", "ai(", "kai/">>, <<"xoi)", "oi(", "kai/">>,
  <<"xau)", "au(", "kai/">>, <<"xou)", "ou(", "kai/">>, <<"xu)", "u(", "kai/">>,
  <<"xw)", "o(", "kai/">>, <<"xw(", "o(", "kai/">>, <<"xw)", "w(", "kai/">>,
  <<"w(n", "a)n", "o(">>, <<"w(/n", "a)/n", "oi(">>, <<"w(u", "au)", "o(">>,
  <<"wu)", "au)", "o(">>, <<"w(u", "au)", "oi(">>, <<"w)=gaqe", "a)gaqe/", "w)=">>,
  <<"w)=", "a)/", "w)=">>, <<"w)|", "oi)", "w)=">>, <<"w)=", "o)/", "w)=">>, <<"w)", "a)", "w)=">>,
  <<"w(=", "a)/", "oi(">>, <<"w)/", "a)/", "w)=">>>>

LatSync == <<
  <<"cognor", "cognover", "">>, <<"ignor", "ignover", "">>, <<"cognoss", "cognoviss", "">>,
  <<"nosse", "novisse", "">>, <<"copt", "coopt", "">>, <<"der", "deer", "">>,
  <<"des", "dees", "">>, <<"abin", "abis", "ne">>, <<"adeon", "adeo", "ne">>,
  <<"ain", "ais", "ne">>, <<"eccam", "ecce", "eam">>, <<"eccum", "ecce", "eum">>,
  <<"eccas", "ecce", "eas">>, <<"eccos", "ecce", "eos">>, <<"eccillum", "ecce", "illum">>,
  <<"eccillam", "ecce", "illam">>, <<"eccistum", "ecce", "istum">>,
  <<"eccistam", "ecce", "istam">>>>

\* the rows a word begins like, and the word that was there before the contraction
possdial(row) == IF Len(row) = 4 THEN row[4] ELSE {}
Munged(rows) == [i \in DOMAIN rows |-> Chars(rows[i][1])]
MungedGreek == Munged(PossCras)
MungedLatin == Munged(LatSync)
Matching(rows, munged, w) ==
  LET found == SelectSeq([i \in DOMAIN rows |-> i], LAMBDA i : IsPrefix(munged[i], w))
  IN  [k \in DOMAIN found |-> rows[found[k]]]
GreekCrases(w) == Matching(PossCras, MungedGreek, w)
LatinCrases(w) == Matching(LatSync, MungedLatin, w)
Uncontracted(row, w) == Chars(row[2]) \o From(w, Len(row[1]) + 1)
=============================================================================
