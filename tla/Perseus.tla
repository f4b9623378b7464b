------------------------------ MODULE Perseus ------------------------------
(***************************************************************************)
(* The second half of tag.py: the document is printed, and every word of   *)
(* it is looked up at the Perseus site, unless its row is in AnalysisCache *)
(* already.  A query that fails is repeated once after a minute; if this   *)
(* fails too, the word gets an error row, which is not cached.             *)
(*                                                                         *)
(* PerseusAnalysis is constructed and then asked for its row.  When the    *)
(* word is in the cache the constructor returns before it sets any of its  *)
(* fields, so that the row can come from the cache only.                   *)
(***************************************************************************)
EXTENDS Integers, Sequences, FiniteSets

CONSTANTS
    None,
    Words,
    Annotated,      \* the words initialise_analysis_cache enters
    Unlogged,       \* capitalised words and numerals
    Answers,        \* an answer of the site, by what is found in it
    Manual,         \* the answer of an annotated word
    Error

VARIABLES
    items,          \* the document, as the tags and words it prints
    pc,             \* "print", "ask", "retry", "made"
    fields,         \* the fields of the PerseusAnalysis, or None
    cache,          \* AnalysisCache: the row, or None
    rows,           \* the standard output
    errors          \* the lines of <file>.errors.txt

perseusVars == <<pc, fields, cache, rows, errors>>

Row(w, a) == [word |-> w, analysis |-> a]

PerseusTypeOK ==
    /\ pc \in {"print", "ask", "retry", "made"}
    /\ fields \in Answers \cup {None}
    /\ cache \in [Words -> Answers \cup {Manual, None}]
    /\ Len(rows) <= Len(items)
    /\ errors \in Seq(Words \X {"no pos", "no lemma", "unknown"})

PerseusInit ==
    /\ pc = "print"
    /\ fields = None
    /\ cache = [w \in Words |-> IF w \in Annotated THEN Manual ELSE None]
    /\ rows = <<>>
    /\ errors = <<>>

NextItem == items[Len(rows) + 1]
More == Len(rows) < Len(items)

-----------------------------------------------------------------------------

PrintTag ==
    /\ pc = "print" /\ More /\ NextItem \notin Words
    /\ rows' = Append(rows, NextItem)
    /\ UNCHANGED <<pc, fields, cache, errors>>

(* PerseusAnalysis(word): a new object, so no fields yet.                  *)
Construct ==
    /\ pc = "print" /\ More /\ NextItem \in Words
    /\ fields' = None
    /\ pc' = IF cache[NextItem] # None THEN "made" ELSE "ask"
    /\ UNCHANGED <<cache, rows, errors>>

(* The site answers: the first or the second time.                         *)
Lacks(w, a) ==
    IF w \in Unlogged THEN <<>>
    ELSE (IF a.pos THEN <<>> ELSE <<<<w, "no pos">>>>)
         \o (IF a.lemma THEN <<>> ELSE <<<<w, "no lemma">>>>)

Answered(a) ==
    /\ pc \in {"ask", "retry"}
    /\ fields' = a
    /\ errors' = errors \o Lacks(NextItem, a)
    /\ pc' = "made"
    /\ UNCHANGED <<cache, rows>>

(* The first exception is caught and the query repeated, the second makes  *)
(* the constructor fail, and the sentence prints the error.                *)
GivesUp == pc = "retry"

Logged(w) == Append(errors, <<w, "unknown">>)

Failed ==
    /\ pc \in {"ask", "retry"}
    /\ IF GivesUp
       THEN /\ pc' = "print"
            /\ rows' = Append(rows, Row(NextItem, Error))
            /\ errors' = Logged(NextItem)
       ELSE /\ pc' = "retry"
            /\ UNCHANGED <<rows, errors>>
    /\ UNCHANGED <<fields, cache>>

(* get_tab_separated_vertical_format().                                    *)
Mutant_Cached(w, row) == cache          \* bug: the row is not entered
Cached(w, row) == [cache EXCEPT ![w] = row]

Mutant_FromCache(w) == FALSE            \* bug: goes by the fields alone
FromCache(w) == cache[w] # None

Render ==
    LET w == NextItem IN
    /\ pc = "made"
    /\ pc' = "print"
    /\ IF FromCache(w)
       THEN /\ rows' = Append(rows, Row(w, cache[w]))
            /\ UNCHANGED <<cache, errors>>
       ELSE IF fields # None
       THEN /\ rows' = Append(rows, Row(w, fields))
            /\ cache' = Cached(w, fields)
            /\ UNCHANGED errors
       ELSE /\ rows' = Append(rows, Row(w, Error))      \* AttributeError
            /\ errors' = Logged(w)
            /\ UNCHANGED cache
    /\ UNCHANGED fields

PerseusNext ==
    /\ \/ PrintTag
       \/ Construct
       \/ \E a \in Answers : Answered(a)
       \/ Failed
       \/ Render
    /\ UNCHANGED items

Printed == ~More

-----------------------------------------------------------------------------
(* A word is asked for again only as long as it was not answered: an       *)
(* object without fields finds its row in the cache, and no row of a word  *)
(* comes to be an error after one that was answered.                       *)
AnswerKept ==
    \A i, j \in DOMAIN rows :
        /\ i < j /\ items[i] \in Words /\ items[i] = items[j]
        /\ rows[i].analysis # Error
        => rows[j] = rows[i]
=============================================================================
