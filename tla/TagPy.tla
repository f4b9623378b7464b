------------------------------- MODULE TagPy -------------------------------
(***************************************************************************)
(* tag.py as a whole: tag() gathers the document (Tagger), doAnalysis()    *)
(* prints it with an analysis for each word (Perseus).  An exception of    *)
(* the walk ends the program before anything is printed.                   *)
(***************************************************************************)
EXTENDS Tagger

CONSTANTS Annotated, Unlogged, Answers, Manual, Error, FileName

(* An answer without part of speech or lemma still is an answer.           *)
ASSUME PerseusConstants ==
    /\ Annotated \subseteq Words /\ Unlogged \subseteq Words
    /\ Answers \subseteq [pos : BOOLEAN, lemma : BOOLEAN]
    /\ Error \notin Answers \cup {Manual}
    /\ Manual \notin Answers
    /\ None \notin Answers \cup {Manual}

VARIABLES items, pc, fields, cache, rows, errors

(* The document as doAnalysis prints it.                                   *)
SentenceItems(s) == <<[tag |-> "<s>"]>> \o s \o <<[tag |-> "</s>"]>>

SectionItems(p) ==
    <<[tag |-> "<p>", at |-> p.at]>>
    \o FlattenSeq([i \in DOMAIN p.sentences |-> SentenceItems(p.sentences[i])])
    \o <<[tag |-> "</p>"]>>

Title == IF header.title = None THEN FileName ELSE header.title

DocumentItems(objects) ==
    <<[tag |-> "<doc>", title |-> Title, author |-> header.author]>>
    \o FlattenSeq([i \in DOMAIN objects |-> SectionItems(objects[i])])
    \o <<[tag |-> "</doc>"]>>

Analysis == INSTANCE Perseus
    WITH items <- items, pc <- pc, fields <- fields, cache <- cache,
         rows <- rows, errors <- errors

analysisVars == <<items, pc, fields, cache, rows, errors>>
vars == <<taggerVars, analysisVars>>

(* The words between the tags.                                             *)
Items ==
    Words
    \cup [tag : {"<s>", "</s>", "</p>", "</doc>"}]
    \cup [tag : {"<p>"}, at : Positions]
    \cup [tag : {"<doc>"}, title : Texts \cup {FileName},
          author : Texts \cup {None}]

TypeOK ==
    /\ TaggerTypeOK
    /\ items \in Seq(Items)
    /\ Analysis!PerseusTypeOK

Init == TaggerInit /\ items = <<>> /\ Analysis!PerseusInit

Tag ==
    /\ TaggerNext
    /\ items' = IF status' = "tagged" THEN DocumentItems(doc'.objects)
                ELSE <<>>
    /\ UNCHANGED <<pc, fields, cache, rows, errors>>

Analyse == Analysis!PerseusNext /\ UNCHANGED taggerVars

Next == Tag \/ Analyse

Spec == Init /\ [][Next]_vars

-----------------------------------------------------------------------------
AnswerKept == Analysis!AnswerKept

(* Whatever the cache and the second attempts do, the output is that of    *)
(* WordRows.                                                               *)
Rows == INSTANCE WordRows
    WITH items <- items, rows <- rows,
         Answers <- Answers \cup {Manual},
         known <- [w \in Words |-> {cache[w]} \ {None}]

ImplementsWordRows == Rows!RowsSpec
=============================================================================
