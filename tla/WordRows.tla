------------------------------ MODULE WordRows ------------------------------
(***************************************************************************)
(* What the tagger promises of its analysis, with neither a cache nor      *)
(* second attempts: the items of a document come out one after the other,  *)
(* a tag as it is and a word with a row of its own, which is the answer    *)
(* known for the word or an error.                                         *)
(***************************************************************************)
EXTENDS Naturals, Sequences

CONSTANTS
    Words,          \* all other items are tags
    Answers,        \* the analyses a word may have
    Error           \* the analysis of a word that is not known

VARIABLES
    items,          \* what is to be printed
    known,          \* the answers that were seen so far, for each word
    rows            \* what was printed

rowVars == <<items, known, rows>>

Row(w, a) == [word |-> w, analysis |-> a]

RowsInit ==
    /\ rows = <<>>
    /\ known \in [Words -> SUBSET Answers]

NextItem == items[Len(rows) + 1]

PrintTag ==
    /\ Len(rows) < Len(items) /\ NextItem \notin Words
    /\ rows' = Append(rows, NextItem)
    /\ UNCHANGED <<items, known>>

(* The row of a word shows an answer for this very word; a word that has   *)
(* an answer keeps it.                                                     *)
PrintWord ==
    /\ Len(rows) < Len(items) /\ NextItem \in Words
    /\ UNCHANGED items
    /\ LET w == NextItem IN
       \/ \E a \in Answers :
             /\ known[w] \subseteq {a}
             /\ known' = [known EXCEPT ![w] = {a}]
             /\ rows' = Append(rows, Row(w, a))
       \/ /\ known[w] = {}
          /\ rows' = Append(rows, Row(w, Error))
          /\ UNCHANGED known

(* Another document.                                                       *)
Gather ==
    /\ rows = <<>>
    /\ UNCHANGED <<known, rows>>

RowsNext == PrintTag \/ PrintWord \/ Gather

RowsSpec == RowsInit /\ [][RowsNext]_rowVars
=============================================================================
