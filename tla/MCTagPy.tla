------------------------------ MODULE MCTagPy ------------------------------
(* tag.py on all trees of a few elements.                                  *)
EXTENDS TagPy

CONSTANTS w1, w2

Plain(w) == [word |-> w, stop |-> FALSE]
Stopped(w) == [word |-> w, stop |-> TRUE]

MCWords == {w1, w2}
Short == <<Plain(w1)>>
Blank == <<>>                           \* white space with a newline in it
Ended == <<Stopped(w2), Plain(w1)>>
OnlyStop == <<Stopped(NoWord)>>
MCTexts == {NoText, Short, Blank, Ended, OnlyStop}

E(tag, unit, n, text, tail) ==
    [tag |-> tag, unit |-> unit, n |-> n, text |-> text, tail |-> tail]

MCElements ==
    {E("milestone", "section", 1, NoText, NoText),
     E("milestone", "page", 2, NoText, Ended),
     E("milestone", "tetralogy", 2, NoText, Blank),
     E("milestone", "line", 3, NoText, Short),
     E("milestone", "line", 4, NoText, NoText),
     E("div1", "book", 1, NoText, NoText),
     E("div", "chapter", 2, Short, NoText),
     E("quote", None, None, NoText, Short),
     E("q", None, None, Ended, Short),
     E("lb", None, None, NoText, NoText),
     E("note", None, None, Short, Ended),
     E("l", None, None, OnlyStop, NoText),
     E("head", None, None, NoText, NoText),
     E("teiHeader", None, None, NoText, NoText),
     E("title", None, None, Short, NoText),
     E("title", None, None, NoText, NoText),
     E("editor", None, None, Short, NoText),
     E("bibl", None, None, Short, Short),
     E("milestone", "stanza", 1, NoText, NoText),
     E("unknown", None, None, NoText, NoText)}

MCAnswers == {[pos |-> TRUE, lemma |-> TRUE], [pos |-> TRUE, lemma |-> FALSE]}
=============================================================================
