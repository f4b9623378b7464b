------------------------------- MODULE Crunch -------------------------------
(***************************************************************************)
(* Stage 3, 3_crunch.sh: every Greek word of a text is sent to the Perseus *)
(* site and becomes a row with its analysis; everything else is copied.    *)
(* The texts have notes in English, and in these quotations in Greek, and  *)
(* two flags tell the script where it is.  A query goes through            *)
(* perseus_query.py, which asks once more after a minute and then prints   *)
(* the word alone.                                                         *)
(*                                                                         *)
(* Notes do not stand in notes, and <foreign> stands in notes only and not *)
(* in itself: so it is in all texts of the corpus.  Whether lines convert  *)
(* from beta code or from &rpar; and the like, is left out.                *)
(***************************************************************************)
EXTENDS Integers, Sequences

CONSTANT MaxLines       \* how many lines a text has

ASSUME MaxLinesOK == MaxLines \in Nat

(* The elements: <foreign> with a lang that has gr or gk in it is "greek". *)
Names == {"note", "greek", "foreign", "other"}

(* Empty tags and the glue tag <g> open nothing; a mark is punctuation or  *)
(* an entity.                                                              *)
TagLines == [kind : {"start", "end"}, name : Names]
OtherLines == [kind : {"empty", "mark", "word"}]
Lines == TagLines \cup OtherLines
Word == [kind |-> "word"]

(* What a line becomes: itself, a word with an analysis, or a word that    *)
(* the site did not answer for.                                            *)
Rows == [line : Lines, as : {"copied", "analysed", "bare"}]

VARIABLES
    lines,          \* the lines that were read
    elements,       \* the elements of the text that are open, inner first
    inNoteTag,
    inForeignTag,
    pc,             \* "read", or where perseus_query.py is
    rows            \* the lines of tempFile

vars == <<lines, elements, inNoteTag, inForeignTag, pc, rows>>

TypeOK ==
    /\ lines \in Seq(Lines)
    /\ elements \in Seq(Names)
    /\ inNoteTag \in BOOLEAN
    /\ inForeignTag \in BOOLEAN
    /\ pc \in {"read", "ask", "again"}
    /\ rows \in Seq(Rows)
    /\ Len(rows) <= MaxLines

Init ==
    /\ lines = <<>>
    /\ elements = <<>>
    /\ inNoteTag = FALSE
    /\ inForeignTag = FALSE
    /\ pc = "read"
    /\ rows = <<>>

-----------------------------------------------------------------------------
(* What is written                                                         *)

Row(line, as) == [line |-> line, as |-> as]

Mutant_Copied(line) ==                  \* bug: no "continue" after it
    rows \o <<Row(line, "copied"), Row(line, "copied")>>
Copied(line) == Append(rows, Row(line, "copied"))

Analysed == Append(rows, Row(Word, "analysed"))

Mutant_Unanswered == rows               \* bug: the error is not caught
Unanswered == Append(rows, Row(Word, "bare"))

-----------------------------------------------------------------------------
(* Tags                                                                    *)

Open(name) == \E i \in DOMAIN elements : elements[i] = name

(* What tags the corpus may have at this place.                            *)
Allowed(name) ==
    /\ name = "note" => ~Open("note")
    /\ name \in {"greek", "foreign"} =>
          Open("note") /\ ~Open("greek") /\ ~Open("foreign")

(* The flags after a start tag, and after an end tag.                      *)
NoteStarted(name) == inNoteTag \/ name = "note"

ForeignStarted(name) ==
    IF inNoteTag THEN inForeignTag \/ name = "greek"
    ELSE inForeignTag /\ name # "note"

NoteEnded(name) == inNoteTag /\ name # "note"

Mutant_ForeignEnded(name) ==            \* bug: left to the end of the note
    inForeignTag /\ ~(inNoteTag /\ name = "note")
ForeignEnded(name) ==
    inForeignTag /\ ~(inNoteTag /\ name \in {"note", "greek", "foreign"})

ReadLine(line) ==
    /\ pc = "read" /\ Len(lines) < MaxLines
    /\ lines' = Append(lines, line)

StartTag(name) ==
    /\ ReadLine([kind |-> "start", name |-> name])
    /\ Allowed(name)
    /\ elements' = <<name>> \o elements
    /\ inNoteTag' = NoteStarted(name)
    /\ inForeignTag' = ForeignStarted(name)
    /\ rows' = Copied([kind |-> "start", name |-> name])
    /\ UNCHANGED pc

EndTag(name) ==
    /\ elements # <<>> /\ Head(elements) = name
    /\ ReadLine([kind |-> "end", name |-> name])
    /\ elements' = Tail(elements)
    /\ inNoteTag' = NoteEnded(name)
    /\ inForeignTag' = ForeignEnded(name)
    /\ rows' = Copied([kind |-> "end", name |-> name])
    /\ UNCHANGED pc

(* Empty tags, glue tags, entities and punctuation.                        *)
OtherLine(kind) ==
    /\ ReadLine([kind |-> kind])
    /\ rows' = Copied([kind |-> kind])
    /\ UNCHANGED <<elements, inNoteTag, inForeignTag, pc>>

-----------------------------------------------------------------------------
(* Words                                                                   *)

(* "if we are in a note tag and not in a foreign tag, it's an english word *)
(* so skip crunching"                                                      *)
ReadWord ==
    /\ ReadLine(Word)
    /\ IF inNoteTag /\ ~inForeignTag
       THEN rows' = Copied(Word) /\ UNCHANGED pc
       ELSE pc' = "ask" /\ UNCHANGED rows
    /\ UNCHANGED <<elements, inNoteTag, inForeignTag>>

(* The first query.  Any exception leads to the second one.                *)
Ask ==
    /\ pc = "ask"
    /\ \/ rows' = Analysed /\ pc' = "read"
       \/ UNCHANGED rows /\ pc' = "again"
    /\ UNCHANGED <<lines, elements, inNoteTag, inForeignTag>>

GiveUp == rows' = Unanswered /\ pc' = "read"

(* The query a minute later.                                               *)
AskAgain ==
    /\ pc = "again"
    /\ \/ rows' = Analysed /\ pc' = "read"
       \/ GiveUp
    /\ UNCHANGED <<lines, elements, inNoteTag, inForeignTag>>

Read ==
    \/ \E name \in Names : StartTag(name) \/ EndTag(name)
    \/ \E kind \in {"empty", "mark"} : OtherLine(kind)
    \/ ReadWord

Query == Ask \/ AskAgain

Next == Read \/ Query

Spec == Init /\ [][Next]_vars

-----------------------------------------------------------------------------
(* Properties                                                              *)

(* The language of a place in the text is told by the innermost element    *)
(* that says one: notes are in English.                                    *)
English ==
    \E i \in DOMAIN elements :
        /\ elements[i] = "note"
        /\ \A j \in 1..(i - 1) : elements[j] # "greek"

(* "handle english-language notes in greek text, with greek quotes": the   *)
(* Greek words are looked up, in the text, in the notes and after them,    *)
(* and no English word ever is.                                            *)
GreekQueried == [][ReadWord => (pc' = "ask" <=> ~English)]_vars

(* Every line of the input has its row, in its place, whatever the site    *)
(* does: tags stay as they are, so that stage 4 finds the text as nested   *)
(* as it was, and no word is lost because a query failed.                  *)
LineForLine ==
    /\ Len(rows) = IF pc = "read" THEN Len(lines) ELSE Len(lines) - 1
    /\ \A i \in DOMAIN rows :
          /\ rows[i].line = lines[i]
          /\ rows[i].as # "copied" => lines[i] = Word

=============================================================================
