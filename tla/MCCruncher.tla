------------------------------ MODULE MCCruncher ------------------------------
(***************************************************************************)
(* The analyser with the dictionary of MCLexicon.  The lines are all the   *)
(* forms the dictionary makes, as texts spell them, bare and behind        *)
(* preverbs.                                                               *)
(***************************************************************************)
EXTENDS MCLexicon, Cruncher

(***************************************************************************)
(* Other spellings of a form: with its last vowel elided, with a capital,  *)
(* in crasis with kai/, with an enclitic, without accents and breathings.  *)
(***************************************************************************)
Elided(w) == IF Last(w) \in {"a", "e", "i", "o"} THEN LessLast(w, 1) \o <<"'">> ELSE w
SmoothA(w) == IsPrefix(Chars("a)"), w)
Capitalized(w) ==
  CASE ~SmoothA(w) -> <<"*">> \o w
    [] SmoothA(w) /\ At(w, 3) \in Accents -> <<"*", w[2], w[3], w[1]>> \o From(w, 4)
    [] OTHER -> <<"*", w[2], w[1]>> \o From(w, 3)
WithKai(w) == IF SmoothA(w) THEN <<"k">> \o w ELSE w
WithPer(w) == w \o Chars("per")
Bare(w) == stripbreath(stripacc(w))

Call(options, lines) == [options |-> options, lines |-> lines]
OfNouns(lexicon) == {w \in DOMAIN lexicon : lexicon[w] \cap NounLemmas # {}}
CallsOf(lexicon) ==
  UNION {{Call(<<>>, <<w, Elided(w), WithKai(w)>>),
          Call(<<"l", "S">>, <<Chars("# "), Capitalized(w) \o Chars("12 x"), <<" ">>, Chars("d'")>>),
          Call(<<"n", "P">>, <<Bare(w), w>>)} : w \in DOMAIN lexicon}
  \cup {Call(<<"d">>, <<WithPer(w), stripacc(w)>>) : w \in OfNouns(lexicon)}
  \cup {Call(<<>>, <<Chars("e)sti/"), Chars("pa/resti")>>), Call(<<"P", "S">>, <<Chars("lo/gos")>>)}
MCCalls == CallsOf(Lexicon)
MCLeftovers == {NUL}

\* Every form that is built for a stem of the dictionary, bare or behind preverbs, a past
\* tense with its augment or without it, is found again with its lemma, although it is cut into its parts before they are known (checkword,
\* strippreverb, checkdict, CheckGenWords), and so are the spellings of it the analyser knows
\* of: an elided vowel, crasis with kai/, -per after a noun, a capital when the case is not
\* strict, and accents and breathings that were left out when they are ignored (checkstring3,
\* checkapostr, checkcrasis, main).
Known(lemmas) == lemmas \subseteq LemmasOf(Gkword)
KnownWith(lexicon) ==
  \A w \in DOMAIN lexicon :
    \/ w = line
    \/ Elided(w) = line
    \/ WithKai(w) = line
    \/ WithPer(w) = line /\ w \in OfNouns(lexicon)
    \/ Capitalized(w) = line /\ "STRICT_CASE" \notin prnt
    \/ Bare(w) = line /\ "IGNORE_ACCENTS" \in prnt
    => Known(lexicon[w])
FormsFound == pc = "report" /\ prnt # {} => KnownWith(Lexicon)
===============================================================================
