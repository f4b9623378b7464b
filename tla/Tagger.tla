------------------------------- MODULE Tagger -------------------------------
(***************************************************************************)
(* The first half of tag.py, the stand-alone tagger: the XML tree of a     *)
(* text is walked and its words are gathered into sentences and the        *)
(* sections that milestones and divisions begin.                           *)
(*                                                                         *)
(* The tree is chosen while it is walked: whenever the program takes the   *)
(* next child of an element, any element may be there, or none.  A word is *)
(* what is left of it without punctuation; whether it had a full stop is   *)
(* kept beside it.  None, "" and a single newline are all NoText: addText  *)
(* and the tests before it do the same for them; a title or an author that *)
(* is a newline and nothing else is left out.                              *)
(***************************************************************************)
EXTENDS Integers, Sequences, SequencesExt

CONSTANTS
    None,           \* Python's None
    NoText,         \* an element without text or tail
    NoWord,         \* a token that was punctuation only
    Words,
    Texts,          \* the texts and tails in this instance
    Elements,       \* the elements in this instance
    MaxElements, MaxDepth

Tokens == [word : Words \cup {NoWord}, stop : BOOLEAN]
Fields == {"book", "speech", "section", "line", "part", "chapter", "page",
           "tetralogy"}

(* TEI.2, around everything; its own text is never used.                   *)
Root == [tag |-> "TEI.2", unit |-> None, n |-> None,
         text |-> NoText, tail |-> NoText]

ASSUME TaggerConstants ==
    /\ MaxElements \in Nat \ {0} /\ MaxDepth \in Nat \ {0}
    /\ NoWord \notin Words
    /\ Texts \subseteq Seq(Tokens) \cup {NoText}
    /\ \A e \in Elements :
          {e.text, e.tail} \subseteq Texts /\ e.n \in Nat \cup {None}

VARIABLES
    stack,      \* the calls of traverseXml, inner first
    position,   \* __positionInfo, one value per field
    doc,        \* __verticalObjects and the open section and sentence
    header,     \* __header: the title and the author
    status,     \* "walk", then "walked", "tagged", or "failed"
    visited,    \* history: the elements in the order of the file
    source      \* history: their texts and tails in the order of the file

taggerVars == <<stack, position, doc, header, status, visited, source>>

Positions == [Fields -> Nat \cup {None}]
Sentences == Seq(Words)
Sections == [at : Positions, sentences : Seq(Sentences)]
(* Python's None is no object.                                             *)
ASSUME NoneIsNoObject == None \notin Sentences /\ None \notin Sections

Frames == [id : Nat, e : Elements \cup {Root}, header : BOOLEAN]
Places == Nat \X {"text", "tail"}

(* added is history: what addText was given, the position at that time,    *)
(* and whether a section had to start with it.                             *)
Documents ==
    [objects : Seq(Sections), section : Sections \cup {None},
     sentence : Sentences \cup {None}, force : BOOLEAN,
     added : Seq([from : Places, words : Seq(Words), at : Positions,
                  starts : BOOLEAN])]

TaggerTypeOK ==
    /\ stack \in Seq(Frames) /\ Len(stack) <= MaxDepth
    /\ position \in Positions
    /\ doc \in Documents
    /\ header \in [{"title", "author"} -> Texts \cup {None}]
    /\ status \in {"walk", "walked", "tagged", "failed"}
    /\ visited \in Seq(Elements) /\ Len(visited) <= MaxElements
    /\ source \in Seq(Places)

TaggerInit ==
    /\ stack = <<[id |-> 0, e |-> Root, header |-> FALSE]>>
    /\ position = [f \in Fields |-> None]
    /\ doc = [objects |-> <<>>, section |-> None, sentence |-> None,
              force |-> FALSE, added |-> <<>>]
    /\ header = [title |-> None, author |-> None]
    /\ status = "walk"
    /\ visited = <<>>
    /\ source = <<>>

-----------------------------------------------------------------------------
(* Sections and sentences                                                  *)

FinishSentence(d) ==
    [d EXCEPT !.section.sentences = Append(@, d.sentence), !.sentence = None]

Mutant_FinishSection(d) ==              \* bug: set to None, then appended
    [d EXCEPT !.objects = Append(@, None), !.section = None]
FinishSection(d) ==
    [d EXCEPT !.objects = Append(@, d.section), !.section = None]

(* Closes what a forced start ends.                                        *)
Closed(d, start) ==
    LET d1 == IF start /\ d.sentence # None THEN FinishSentence(d) ELSE d
    IN  IF start /\ d1.section # None THEN FinishSection(d1) ELSE d1

(* Opens what is missing; the section keeps a copy of the position, which  *)
(* leaves the tetralogy out.                                               *)
Opened(d, at) ==
    [d EXCEPT !.section =
                  IF @ = None
                  THEN [at |-> [at EXCEPT !["tetralogy"] = None],
                        sentences |-> <<>>]
                  ELSE @,
              !.sentence = IF @ = None THEN <<>> ELSE @]

(* One word of a text; punctuation alone is none.                          *)
WordOf(token) == IF token.word = NoWord THEN <<>> ELSE <<token.word>>

Take(d, token) ==
    LET d1 == [d EXCEPT !.sentence =
                  (IF @ = None THEN <<>> ELSE @) \o WordOf(token)]
    IN  IF token.stop THEN FinishSentence(d1) ELSE d1

(* The words of a text, one after the other.                               *)
TakeAll(d, text) ==
    LET taken[n \in 0..Len(text)] ==
            IF n = 0 THEN d ELSE Take(taken[n - 1], text[n])
    IN  taken[Len(text)]

WordsOf(text) ==
    IF text = NoText THEN <<>>
    ELSE FlattenSeq([i \in 1..Len(text) |-> WordOf(text[i])])

(* __addText with both or none of its force arguments.                     *)
AddText(d, at, from, text, start) ==
    LET starts == start \/ d.force
        d1 == Opened(Closed(d, starts), at)
        d2 == [d1 EXCEPT !.force = FALSE,
                         !.added = Append(@, [from |-> from, at |-> at,
                                              words |-> WordsOf(text),
                                              starts |-> starts])]
    IN  IF text = NoText THEN d2 ELSE TakeAll(d2, text)

-----------------------------------------------------------------------------
(* What traverseXml does with each element                                 *)

TagsToIgnore == {"bibl", "castList"}
HeaderTagsToIgnore == {"editor", "sourceDesc"}      \* and twelve more
LineUnits == {"line", "Line"}

(* The elements whose text is followed by their tail at once.              *)
Mutant_TextThenTail ==                  \* bug: and the quotations
    {"add", "del", "q", "term", "cit", "lg", "quote"}
TextThenTail == {"add", "del", "q", "term"}

(* Its calls of addText, before it goes on to the children.                *)
Call(e, part, start) == [text |-> e[part], part |-> part, start |-> start]
TailCall(e, start) ==
    IF e.tail = NoText THEN <<>> ELSE <<Call(e, "tail", start)>>

Calls(e) ==
    CASE e.tag \in {"lb", "pb"} -> <<Call(e, "tail", FALSE)>>
      [] e.tag \in TextThenTail ->
             <<Call(e, "text", FALSE)>> \o TailCall(e, FALSE)
      [] e.tag \in {"gap", "note"} -> TailCall(e, FALSE)
      [] e.tag \in {"head", "title"} -> <<Call(e, "text", TRUE)>>
      [] e.tag = "l" -> <<Call(e, "text", FALSE)>>
      [] e.tag = "milestone" -> TailCall(e, e.unit \notin LineUnits)
      [] e.tag = "div" -> <<Call(e, "text", TRUE)>> \o TailCall(e, TRUE)
      [] e.tag = "speaker" ->
             <<Call(e, "text", TRUE), Call(e, "tail", TRUE)>>
      [] OTHER -> <<>>

(* ... and its calls after the children.                                   *)
CallsAfter(e) ==
    IF e.tag \in {"cit", "lg", "quote"} THEN TailCall(e, FALSE) ELSE <<>>

(* A milestone without a text of its own leaves the start to the next one. *)
Mutant_Forced(e, force) == force        \* bug: and is forgotten
Forced(e, force) ==
    IF e.tag \in {"milestone", "div"} /\ e.tail = NoText
    THEN e.tag = "div" \/ e.unit \notin LineUnits
    ELSE force

(* setDiv1 and setMilestone.                                               *)
KnownUnit(e) ==
    /\ e.tag = "div1" => e.unit \in {"book", "speech"}
    /\ e.tag \in {"milestone", "div"} =>
           e.unit \in {"section", "tetralogy", "part", "page", "chapter",
                       "para"} \cup LineUnits

Moved(e, at) ==
    CASE e.tag = "div1" ->
             [f \in Fields |-> IF f = e.unit THEN e.n
                               ELSE IF f = "page" THEN at[f] ELSE None]
      [] e.tag \in {"milestone", "div"} /\ e.unit \in LineUnits ->
             [at EXCEPT !["line"] = e.n]
      [] e.tag \in {"milestone", "div"} /\ e.unit \in Fields \ LineUnits ->
             [at EXCEPT ![e.unit] = e.n, !["line"] = None]
      [] OTHER -> at

-----------------------------------------------------------------------------
(* The walk                                                                *)

(* The calls of element id are executed.                                   *)
Performed(id, calls, at) ==
    LET done[n \in 0..Len(calls)] ==
            IF n = 0 THEN doc
            ELSE LET c == calls[n] IN
                 AddText(done[n - 1], at, <<id, c.part>>, c.text, c.start)
    IN  done[Len(calls)]

MayEnter ==
    /\ status = "walk" /\ stack # <<>>
    /\ Len(visited) < MaxElements /\ Len(stack) < MaxDepth

Push(e, isHeader) ==
    stack' = <<[id |-> Len(visited'), e |-> e, header |-> isHeader]>> \o stack

Fail ==
    /\ status' = "failed"
    /\ UNCHANGED <<stack, position, doc, header, source>>

(* An element of the text.  Ignored ones and notes have their children     *)
(* passed over; a name or a unit that is not known is an exception.        *)
Visit(e) ==
    LET id == Len(visited) + 1
        at == Moved(e, position)
    IN
    /\ MayEnter /\ ~Head(stack).header
    /\ visited' = Append(visited, e)
    /\ IF e.tag = "unknown" \/ ~KnownUnit(e) THEN Fail
       ELSE IF e.tag \in TagsToIgnore
       THEN UNCHANGED <<stack, position, doc, header, status, source>>
       ELSE /\ position' = at
            /\ doc' = [Performed(id, Calls(e), at) EXCEPT
                           !.force = Forced(e, @)]
            /\ IF e.tag = "note"
               THEN /\ source' = source \o <<<<id, "text">>, <<id, "tail">>>>
                    /\ UNCHANGED stack
               ELSE /\ source' = Append(source, <<id, "text">>)
                    /\ Push(e, e.tag = "teiHeader")
            /\ UNCHANGED <<header, status>>

(* An element of the header: the first title and the first author with a   *)
(* text count.                                                             *)
VisitHeader(e) ==
    /\ MayEnter /\ Head(stack).header
    /\ visited' = Append(visited, e)
    /\ IF e.tag \in {"title", "author", "titleStmt"}
       THEN /\ header' = IF e.tag = "titleStmt" THEN header
                         ELSE [header EXCEPT ![e.tag] =
                             IF @ = None /\ e.text # NoText THEN e.text ELSE @]
            /\ Push(e, TRUE)
            /\ UNCHANGED <<position, doc, status, source>>
       ELSE IF e.tag \in HeaderTagsToIgnore
       THEN UNCHANGED <<stack, position, doc, header, status, source>>
       ELSE Fail

(* The children are done.                                                  *)
Leave ==
    LET f == Head(stack) IN
    /\ status = "walk" /\ stack # <<>>
    /\ stack' = Tail(stack)
    /\ status' = IF Len(stack) = 1 THEN "walked" ELSE status
    /\ IF f.header
       THEN UNCHANGED <<source, doc>>
       ELSE /\ source' = Append(source, <<f.id, "tail">>)
            /\ doc' = Performed(f.id, CallsAfter(f.e), position)
    /\ UNCHANGED <<position, header, visited>>

(* The end of tag().                                                       *)
Mutant_FinishTagging ==                 \* bug: the open sentence is dropped
    /\ status = "walked"
    /\ status' = "tagged"
    /\ doc' = Closed([doc EXCEPT !.sentence = None], TRUE)
    /\ UNCHANGED <<stack, position, header, visited, source>>

FinishTagging ==
    /\ status = "walked"
    /\ status' = "tagged"
    /\ doc' = Closed(doc, TRUE)
    /\ UNCHANGED <<stack, position, header, visited, source>>

TaggerNext ==
    \/ \E e \in Elements : Visit(e) \/ VisitHeader(e)
    \/ Leave
    \/ FinishTagging

-----------------------------------------------------------------------------
(* What the tagger must keep to                                            *)

(* The words of the document so far: of its sections, of the open one and  *)
(* of the open sentence.                                                   *)
WordsIn(section) ==
    IF section = None THEN <<>> ELSE FlattenSeq(section.sentences)

WordsShown(d) ==
    FlattenSeq([i \in DOMAIN d.objects |-> WordsIn(d.objects[i])])
    \o (WordsIn(d.section) \o (IF d.sentence = None THEN <<>> ELSE d.sentence))

WordsAdded(d) == FlattenSeq([i \in DOMAIN d.added |-> d.added[i].words])

(* pushSentence is never called on None.                                   *)
SentenceInSection == doc.sentence # None => doc.section # None

(* No word that was added is lost, doubled or moved, whatever ended the    *)
(* sentences and sections between: addText opens and closes them in four   *)
(* places.                                                                 *)
WordsKept ==
    /\ WordsShown(doc) = WordsAdded(doc)
    /\ SentenceInSection
    /\ status = "tagged" => doc.section = None /\ doc.sentence = None

(* Each of these words with the position that its section shows ...        *)
PositionsOfShown ==
    LET placed(words, at) == [i \in DOMAIN words |-> at]
        open == WordsIn(doc.section)
                \o (IF doc.sentence = None THEN <<>> ELSE doc.sentence)
    IN  FlattenSeq([i \in DOMAIN doc.objects |->
                       placed(WordsIn(doc.objects[i]), doc.objects[i].at)])
        \o (IF doc.section = None THEN <<>> ELSE placed(open, doc.section.at))

(* ... and with the call that added it.                                    *)
CallsOfAdded ==
    FlattenSeq([i \in DOMAIN doc.added |->
                   [j \in DOMAIN doc.added[i].words |-> doc.added[i]]])

(* The words of a text that must start a section stand in one that shows   *)
(* the position of this text, not that of an earlier or a later one.       *)
StartsShown ==
    LET shown == PositionsOfShown
        calls == CallsOfAdded
    IN  \A i \in DOMAIN calls :
            calls[i].starts =>
                shown[i] = [calls[i].at EXCEPT !["tetralogy"] = None]

(* A section milestone is not forgotten: every word stands in a section    *)
(* that shows the section, chapter, part and page it is in.  It fails      *)
(* after a line milestone without text of its own, which takes back the    *)
(* start another milestone has left to it, and after a div1, which starts  *)
(* no section.                                                             *)
Forgets(e) ==
    \/ e.tag = "div1"
    \/ e.tag = "milestone" /\ e.unit \in LineUnits /\ e.tail = NoText
MilestonesShown ==
    LET shown == PositionsOfShown
        calls == CallsOfAdded
    IN  (\A i \in DOMAIN visited : ~Forgets(visited[i])) =>
            \A i \in DOMAIN calls, f \in {"section", "chapter", "part", "page"} :
                shown[i][f] = calls[i].at[f]

(* What a section shows is where its words are.                            *)
PositionsShown == StartsShown /\ MilestonesShown

(* The words are in the order of the file, unless an element that adds its *)
(* tail before its children has both.                                      *)
Index(place) == CHOOSE i \in DOMAIN source : source[i] = place
AddsTail(e) ==
    e.tail # NoText /\ \E i \in DOMAIN Calls(e) : Calls(e)[i].part = "tail"
TailFirst(id) ==
    /\ AddsTail(visited[id])
    /\ \E i \in 1..(Len(source) - 1) :
           source[i] = <<id, "text">> /\ source[i + 1] # <<id, "tail">>
HasWords(i) == doc.added[i].words # <<>>
OrderKept ==
    status = "tagged" /\ (\A id \in DOMAIN visited : ~TailFirst(id)) =>
        \A i, j \in DOMAIN doc.added :
            i < j /\ HasWords(i) /\ HasWords(j) =>
                Index(doc.added[i].from) < Index(doc.added[j].from)

=============================================================================
