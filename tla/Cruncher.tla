-------------------------------- MODULE Cruncher --------------------------------
(***************************************************************************)
(* The program that analyses a list of words: every line begins with a     *)
(* word; its analyses are printed, or the line among those that failed.    *)
(*                                                                         *)
(* prnt are the printing flags, set by the options of the command line,    *)
(* input is what is left of the list, line the word under way, tmpform the *)
(* spelling in which it is looked up, Gkword what came of it.  foutput and *)
(* ffailed are the files written; buf is the buffer of anal_buf, one of    *)
(* whose formats is gathered in it and printed at the end of a word.       *)
(***************************************************************************)
EXTENDS CheckString

CONSTANTS
  Calls,        \* how it is called: records of options, a sequence, and lines
  Leftovers     \* what may be left behind the end of a buffer

VARIABLES pc, curlang, prnt, input, line, tmpform, Gkword, foutput, ffailed, buf, nwords, nhits
vars == <<pc, curlang, prnt, input, line, tmpform, Gkword, foutput, ffailed, buf, nwords, nhits>>

NULL == "NULL"
NoWord == [rval |-> 0]

(***************************************************************************)
(* The options, one after the other.                                       *)
(***************************************************************************)
SetOption(prntflags, option) ==
  CASE option = "a" -> prntflags \cup {"SHOW_ANAL"}
    [] option = "l" -> prntflags \cup {"SHOW_LEMMA"}
    [] option = "m" -> prntflags \cup {"SHOW_MISSES"}
    [] option = "b" -> prntflags \cup {"BUFFER_ANALS"}
    [] option = "c" -> prntflags \cup {"CHECK_PREVERB"}
    [] option = "k" -> prntflags \cup {"KEEP_BETA"}
    [] option = "i" -> prntflags \cup {"SHOW_FULL_INFO"}
    [] option = "d" -> (prntflags \ {"PERSEUS_FORMAT", "LEXICON_OUTPUT"}) \cup {"DBASEFORMAT"}
    [] option = "s" -> prntflags \cup {"DBASESHORT", "DBASEFORMAT"}
    [] option = "n" -> prntflags \cup {"IGNORE_ACCENTS"}
    [] option = "x" -> prntflags \cup {"LEXICON_OUTPUT"}
    [] option = "V" -> prntflags \cup {"VERBS_ONLY"}
    [] option = "S" -> prntflags \ {"STRICT_CASE"}
    [] option = "p" -> prntflags \cup {"PARSE_FORMAT"}
    [] option = "P" -> prntflags \ {"PERSEUS_FORMAT"}
    [] option = "e" -> prntflags \cup {"ENDING_INDEX"}
    [] OTHER -> prntflags
FlagsOf(options) == FoldLeft(SetOption, {"PERSEUS_FORMAT", "STRICT_CASE"}, options)
LangOf(options) == FoldLeft(LAMBDA l, option : CASE option = "I" -> "italian" [] option = "L" -> "latin"
                                                 [] OTHER -> l, "greek", options)

(***************************************************************************)
(* What is printed: the analyses sorted by their lemmas; of the parts of   *)
(* each analysis those that the format shows.                              *)
(***************************************************************************)
Ascii == Chars("!\"#$%&'()*+,-./0123456789:;<=>?@ABCDEFGHIJKLMNOPQRSTUVWXYZ[\\]^_")
         \o Chars("abcdefghijklmnopqrstuvwxyz{|}~")
Code(c) == SelectInSeq(Ascii, LAMBDA a : a = c)
LOCAL Before(v, w) ==
  LET p == Min({q \in 1..(Min({Len(v), Len(w)}) + 1) : At(v, q) # At(w, q) \/ q > Len(v) \/ q > Len(w)})
  IN  IF p > Len(v) THEN p <= Len(w) ELSE p <= Len(w) /\ Code(v[p]) < Code(w[p])
\* analyses of the same lemma stay in the order in which they were found
SortAnals(anals) ==
  LET Rank(i) == Cardinality({j \in DOMAIN anals : \/ Before(anals[j].lemma, anals[i].lemma)
                                                   \/ j <= i /\ anals[j].lemma = anals[i].lemma})
  IN  [k \in DOMAIN anals |-> anals[CHOOSE i \in DOMAIN anals : Rank(i) = k]]

IsCompound(a) == Contains(a.lemma, "-")
\* compounds that the dictionary does not have are shown when there is nothing else
GoodAnals(anals) == IF \A i \in DOMAIN anals : IsCompound(anals[i]) THEN anals
                    ELSE SelectSeq(anals, LAMBDA a : ~IsCompound(a))
Format(prntflags) ==
  CASE "SHOW_LEMMA" \in prntflags -> "lemmas"
    [] prntflags \cap {"DBASEFORMAT", "SHOW_FULL_INFO", "LEXICON_OUTPUT", "PARSE_FORMAT",
                       "PERSEUS_FORMAT", "ENDING_INDEX"} = {} -> "text"
    [] "PERSEUS_FORMAT" \in prntflags -> "perseus"
    [] "ENDING_INDEX" \in prntflags -> "ending"
    [] "LEXICON_OUTPUT" \in prntflags -> "lexicon"
    [] "DBASEFORMAT" \in prntflags -> "dbase"
    [] OTHER -> "summary"
Grammar == {"form", "dialect", "region", "flags", "stemtype", "derivtype"}
Pieces == {"prvb_gstr", "aug1_gstr", "stem_gstr", "ends_gstr"}
Fields(format) ==
  CASE format = "lemmas" -> {"lemma"}
    [] format = "perseus" -> {"workword", "lemma"} \cup Grammar
    [] format = "ending" -> {"stemtype", "ends_gstr", "form", "workword"}
    [] format = "lexicon" -> {"workword", "prvb_gstr", "lemma", "crasis"} \cup Grammar
    [] format = "dbase" -> {"workword", "lemma"} \cup Pieces
    [] OTHER -> {"workword", "lemma", "crasis"} \cup Pieces \cup Grammar
\* a capital of betacode is a sign of its own: no Greek lemma begins with a large letter
Class(a) == CASE Is_participle(a) -> "P"
              [] ~Is_participle(a) /\ (Is_nounform(a) \/ Is_adjform(a)) ->
                   IF curlang = "greek" /\ At(a.lemma, 1) \in ToSet(Capital) THEN "E" ELSE "N"
              [] OTHER -> IF Is_verbform(a) THEN "V" ELSE "I"
Shown(format, a) == [f \in Fields(format) |-> a[f]]
                    @@ (IF format = "perseus" THEN [class |-> Class(a)] ELSE <<>>)
\* one line for each lemma
LemmaOnce(anals) ==
  LET firsts == SelectSeq([i \in DOMAIN anals |-> i],
                          LAMBDA i : i = 1 \/ anals[i].lemma # anals[i - 1].lemma)
  IN  [k \in DOMAIN firsts |-> anals[firsts[k]]]
Printed(g, prntflags) ==
  LET format == Format(prntflags)
      sorted == SortAnals(g.anals)
      anals == CASE format = "lemmas" -> LemmaOnce(GoodAnals(sorted))
                 [] format = "perseus" -> GoodAnals(sorted)
                 [] OTHER -> sorted
  IN  <<[word |-> g.rawword, shown |-> [i \in DOMAIN anals |-> Shown(format, anals[i])]]>>

(***************************************************************************)
(* The lines.  Blanks and digits at the end of a line are cut off, but not *)
(* its first character.                                                    *)
(***************************************************************************)
Cut(l, chars) == LET kept == {p \in DOMAIN l : p = 1 \/ l[p] \notin chars} IN SubSeq(l, 1, Max(kept \cup {0}))
trimwhite(l) == Cut(l, {" "})
trimdigit(l) == Cut(l, CharSet("0123456789"))
FirstWord(l) == LET blanks == {p \in DOMAIN l : l[p] = " "}
                IN IF blanks = {} THEN l ELSE SubSeq(l, 1, Min(blanks) - 1)

Init ==
  /\ \E call \in Calls : /\ (LangOf(call.options) # "greek") = Latinate
                         /\ curlang = LangOf(call.options)
                         /\ prnt = FlagsOf(call.options)
                         /\ input = call.lines
  /\ pc = "read"
  /\ line = <<>> /\ tmpform = <<>>
  /\ Gkword = NoWord
  /\ foutput = <<>> /\ ffailed = <<>>
  /\ buf = NULL
  /\ nwords = 0 /\ nhits = 0

NextLine == pc = "read" /\ input # <<>> /\ input' = Tail(input)
\* a line that begins with # is printed as it is
Comment ==
  /\ NextLine
  /\ At(Head(input), 1) = "#"
  /\ foutput' = Append(foutput, [comment |-> trimwhite(Head(input))])
  /\ UNCHANGED <<pc, curlang, prnt, line, tmpform, Gkword, ffailed, buf, nwords, nhits>>
Word(l) == FirstWord(trimdigit(trimwhite(l)))
Skip ==
  /\ NextLine
  /\ Word(Head(input)) = <<>>
  /\ UNCHANGED <<pc, curlang, prnt, line, tmpform, Gkword, foutput, ffailed, buf, nwords, nhits>>
Read ==
  /\ NextLine
  /\ Word(Head(input)) # <<>> /\ At(Head(input), 1) # "#"
  /\ line' = Word(Head(input)) /\ tmpform' = line'
  /\ pc' = "look"
  /\ UNCHANGED <<curlang, prnt, Gkword, foutput, ffailed, buf, nwords, nhits>>

\* the analyses are printed where they are found, or gathered in the buffer
Mutant_Answer(g) ==     \* bug: prints before it looks whether anything was found
  /\ Gkword' = g
  /\ foutput' = IF Format(prnt) # "text" THEN foutput \o Printed(g, prnt) ELSE foutput
  /\ buf' = IF Format(prnt) = "text" THEN Printed(g, prnt) ELSE <<>>
Answer(g) ==
  /\ Gkword' = g
  /\ foutput' = IF g.rval > 0 /\ Format(prnt) # "text" THEN foutput \o Printed(g, prnt) ELSE foutput
  /\ buf' = CASE g.rval = 0 -> buf
              [] g.rval > 0 /\ Format(prnt) = "text" -> Printed(g, prnt)
              [] OTHER -> <<>>
Lookup == \E leftover \in Leftovers : Answer(checkstring(tmpform, curlang, prnt, leftover))
\* without regard to accents a word that is not found is looked up with a smooth
\* breathing, then with a rough one
Attempts == {"look", "smooth", "rough"}
Mutant_MayRetry == Gkword'.rval = 0 /\ pc # "rough"     \* bug: whatever the options
MayRetry == /\ Gkword'.rval = 0
            /\ pc = "look" => curlang # "latin" /\ "IGNORE_ACCENTS" \in prnt
            /\ pc # "rough"
Retry(attempt, breath) == pc' = attempt /\ tmpform' = addbreath(stripbreath(tmpform), breath)
Look ==
  /\ pc \in Attempts
  /\ Lookup
  /\ \/ MayRetry /\ pc = "look" /\ Retry("smooth", ")")
     \/ MayRetry /\ pc = "smooth" /\ Retry("rough", "(")
     \/ ~MayRetry /\ pc' = "report" /\ UNCHANGED tmpform
  /\ UNCHANGED <<curlang, prnt, input, line, ffailed, nwords, nhits>>
Report ==
  /\ pc = "report"
  /\ pc' = "read"
  /\ nwords' = nwords + 1
  /\ IF Gkword.rval > 0
     THEN /\ nhits' = nhits + 1
          /\ foutput' = foutput \o buf
          /\ UNCHANGED ffailed
     ELSE /\ ffailed' = Append(ffailed, line)
          /\ UNCHANGED <<foutput, nhits>>
  /\ UNCHANGED <<curlang, prnt, input, line, tmpform, Gkword, buf>>
End ==
  /\ pc = "read" /\ input = <<>>
  /\ pc' = "done"
  /\ UNCHANGED <<curlang, prnt, input, line, tmpform, Gkword, foutput, ffailed, buf, nwords, nhits>>

Next == Comment \/ Skip \/ Read \/ Look \/ Report \/ End
\* the program goes on until it ends: WF_vars(Next), Next being enabled until then
Fairness == []<>(pc = "done") \/ []<><<Next>>_vars
Spec == Init /\ [][Next]_vars /\ Fairness

(***************************************************************************)
(* Properties.                                                             *)
(***************************************************************************)
\* Types, and that the form looked up differs from the word only in its breathing.
TypeOK ==
  /\ pc \in {"read", "report", "done"} \cup Attempts
  /\ \A l \in {line, tmpform} : \A p \in DOMAIN l : l[p] # " "
  /\ stripbreath(tmpform) = stripbreath(line)
  /\ pc \in {"smooth", "rough"} => "IGNORE_ACCENTS" \in prnt /\ curlang # "latin"
  /\ nhits \in 0..nwords /\ nwords = nhits + Len(ffailed)
  /\ Gkword = NoWord \/ Len(Gkword.anals) <= MAXANALYSES

\* Every word of the list is printed with its analyses or among the failed ones, once and
\* in order, also when it was found with another breathing than it was written with, and
\* every list is read to its end (main).
WordOf == [l \in UNION {ToSet(call.lines) : call \in Calls} |-> IF At(l, 1) = "#" THEN <<>> ELSE Word(l)]
Words(lines) == SelectSeq([i \in DOMAIN lines |-> WordOf[lines[i]]], LAMBDA w : w # <<>>)
Breathless1(words) == [i \in DOMAIN words |-> stripbreath(words[i])]
PrintedWords(file) == LET blocks == SelectSeq(file, LAMBDA b : "word" \in DOMAIN b)
                      IN  [i \in DOMAIN blocks |-> blocks[i].word]
UnderWay == \/ pc \in Attempts
            \/ pc = "report" /\ (Gkword.rval = 0 \/ Format(prnt) = "text")
Filter == INSTANCE WordFilter
            WITH Inputs <- {Breathless1(Words(call.lines)) : call \in Calls},
                 todo <- Breathless1((IF UnderWay THEN <<line>> ELSE <<>>) \o Words(input)),
                 answered <- Breathless1(PrintedWords(foutput)),
                 failed <- Breathless1(ffailed)
ImplementsFilter == Filter!Spec

Lookedup1 == pc = "report"

\* A past tense of the indicative has its augment, or it is marked as unaugmented and as
\* what it then is, epic, Ionic or poetry, however often the word was looked up before
\* (checkstring2 sets these marks and takes them back, AddAnalysis infers the dialect).
PastTenses == {"imperfect", "aorist", "pluperfect"}
EpicIonic == {"homeric", "non_homeric_epic", "ionic"}
AugmentAccounted ==
  Lookedup1 => \A i \in DOMAIN Gkword.anals :
    LET a == Gkword.anals[i]
        unaugmented == "UNAUGMENTED" \in a.flags
    IN  a.form.mood = "indicative" /\ a.form.tense \in PastTenses =>
          /\ unaugmented <=> a.aug1_gstr.gkstring = <<>>
          /\ unaugmented => "POETIC" \in a.flags \/ (a.dialect # {} /\ a.dialect \subseteq EpicIonic)

LemmasOf(g) == {g.anals[i].lemma : i \in DOMAIN g.anals}
=============================================================================
