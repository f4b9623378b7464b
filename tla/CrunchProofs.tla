---------------------------- MODULE CrunchProofs ----------------------------
(***************************************************************************)
(* Theorems about module Crunch and their proofs.                          *)
(***************************************************************************)
EXTENDS Crunch, SeqLemmas

-----------------------------------------------------------------------------
(* Where notes and quotations can be                                       *)

Mentions(e, name) == \E i \in 1..Len(e) : e[i] = name
IsForeign(name) == name \in {"greek", "foreign"}

(* There is one note and one <foreign> at most, and this is inside that.   *)
OneNote(e) ==
    \A i, j \in 1..Len(e) : e[i] = "note" /\ e[j] = "note" => i = j
OneForeign(e) ==
    \A i, j \in 1..Len(e) : IsForeign(e[i]) /\ IsForeign(e[j]) => i = j
InNote(e) ==
    \A i \in 1..Len(e) :
        IsForeign(e[i]) => \E j \in 1..Len(e) : e[j] = "note" /\ i < j

Nested(e) == OneNote(e) /\ OneForeign(e) /\ InNote(e)

LEMMA PushMentions ==
    ASSUME NEW e \in Seq(Names), NEW name \in Names, NEW x
    PROVE  Mentions(<<name>> \o e, x) <=> x = name \/ Mentions(e, x)
<1> DEFINE d == <<name>> \o e
<1>1. /\ Len(d) = Len(e) + 1 /\ d[1] = name
      /\ \A i \in 1..Len(e) : d[i + 1] = e[i]
  BY PushProperties
<1>2. Len(e) \in Nat
  OBVIOUS
<1> HIDE DEF d
<1>3. ASSUME Mentions(d, x) PROVE x = name \/ Mentions(e, x)
  <2>1. PICK i \in 1..Len(d) : d[i] = x
    BY <1>3 DEF Mentions
  <2>2. CASE i = 1
    BY <1>1, <2>1, <2>2
  <2>3. CASE i # 1
    <3>1. i - 1 \in 1..Len(e) /\ (i - 1) + 1 = i
      BY <1>1, <1>2, <2>3
    <3>2. e[i - 1] = x
      BY <1>1, <2>1, <3>1
    <3> QED
      BY <3>1, <3>2 DEF Mentions
  <2> QED
    BY <2>2, <2>3
<1>4. ASSUME x = name PROVE Mentions(d, x)
  <2>1. 1 \in 1..Len(d)
    BY <1>1, <1>2
  <2> QED
    BY <1>1, <1>4, <2>1 DEF Mentions
<1>5. ASSUME Mentions(e, x) PROVE Mentions(d, x)
  <2>1. PICK i \in 1..Len(e) : e[i] = x
    BY <1>5 DEF Mentions
  <2>2. i + 1 \in 1..Len(d) /\ d[i + 1] = x
    BY <1>1, <1>2, <2>1
  <2> QED
    BY <2>2 DEF Mentions
<1> QED
  BY <1>3, <1>4, <1>5 DEF d

LEMMA PushNested ==
    ASSUME NEW e \in Seq(Names), NEW name \in Names, Nested(e),
           name = "note" => ~Mentions(e, "note"),
           IsForeign(name) => /\ Mentions(e, "note") /\ ~Mentions(e, "greek")
                              /\ ~Mentions(e, "foreign")
    PROVE  Nested(<<name>> \o e)
<1> DEFINE d == <<name>> \o e
<1>1. /\ Len(d) = Len(e) + 1 /\ d[1] = name
      /\ \A i \in 1..Len(e) : d[i + 1] = e[i]
  BY PushProperties
<1>2. Len(e) \in Nat
  OBVIOUS
<1> HIDE DEF d
<1>3. ASSUME NEW k \in 1..Len(d), k # 1
      PROVE  k - 1 \in 1..Len(e) /\ d[k] = e[k - 1]
  <2>1. k - 1 \in 1..Len(e) /\ (k - 1) + 1 = k
    BY <1>1, <1>2, <1>3
  <2> QED
    BY <1>1, <2>1
<1>4. ASSUME NEW i \in 1..Len(d), NEW j \in 1..Len(d),
             d[i] = "note", d[j] = "note"
      PROVE  i = j
  <2>1. CASE i = 1 /\ j # 1
    BY <1>1, <1>3, <1>4, <2>1 DEF Mentions
  <2>2. CASE i # 1 /\ j = 1
    BY <1>1, <1>3, <1>4, <2>2 DEF Mentions
  <2>3. CASE i # 1 /\ j # 1
    <3>1. i - 1 = j - 1
      BY <1>3, <1>4, <2>3 DEF Nested, OneNote
    <3> QED
      BY <3>1
  <2> QED
    BY <2>1, <2>2, <2>3
<1>5. ASSUME NEW i \in 1..Len(d), NEW j \in 1..Len(d),
             IsForeign(d[i]), IsForeign(d[j])
      PROVE  i = j
  <2>1. CASE i = 1 /\ j # 1
    BY <1>1, <1>3, <1>5, <2>1 DEF Mentions, IsForeign
  <2>2. CASE i # 1 /\ j = 1
    BY <1>1, <1>3, <1>5, <2>2 DEF Mentions, IsForeign
  <2>3. CASE i # 1 /\ j # 1
    <3>1. i - 1 = j - 1
      BY <1>3, <1>5, <2>3 DEF Nested, OneForeign
    <3> QED
      BY <3>1
  <2> QED
    BY <2>1, <2>2, <2>3
<1>6. ASSUME NEW i \in 1..Len(d), IsForeign(d[i])
      PROVE  \E j \in 1..Len(d) : d[j] = "note" /\ i < j
  <2>1. CASE i = 1
    <3>1. PICK j \in 1..Len(e) : e[j] = "note"
      BY <1>1, <1>6, <2>1 DEF Mentions
    <3>2. j + 1 \in 1..Len(d) /\ d[j + 1] = "note" /\ i < j + 1
      BY <1>1, <1>2, <2>1, <3>1
    <3> QED
      BY <3>2
  <2>2. CASE i # 1
    <3>1. PICK j \in 1..Len(e) : e[j] = "note" /\ i - 1 < j
      BY <1>3, <1>6, <2>2 DEF Nested, InNote
    <3>2. j + 1 \in 1..Len(d) /\ d[j + 1] = "note" /\ i < j + 1
      BY <1>1, <1>2, <3>1
    <3> QED
      BY <3>2
  <2> QED
    BY <2>1, <2>2
<1>7. Nested(d)
  BY <1>4, <1>5, <1>6 DEF Nested, OneNote, OneForeign, InNote
<1> QED
  BY <1>7 DEF d

LEMMA PopNested ==
    ASSUME NEW e \in Seq(Names), e # <<>>, Nested(e)
    PROVE  LET d == Tail(e) IN
           /\ Nested(d)
           /\ Head(e) = "note" => ~Mentions(d, "note") /\ ~Mentions(d, "greek")
           /\ IsForeign(Head(e)) => Mentions(e, "note") /\ ~Mentions(d, "greek")
           /\ \A x : Mentions(e, x) <=> x = Head(e) \/ Mentions(d, x)
<1> DEFINE d == Tail(e)
           name == Head(e)
<1>1. /\ d \in Seq(Names) /\ Len(d) = Len(e) - 1
      /\ name = e[1] /\ name \in Names
      /\ \A i \in 1..Len(d) : d[i] = e[i + 1] /\ i + 1 \in 1..Len(e)
  BY PopProperties
<1>2. <<name>> \o d = e
  BY HeadPushed
<1>3. Len(e) \in Nat \ {0}
  OBVIOUS
<1>4. 1 \in 1..Len(e)
  BY <1>3
<1> HIDE DEF d, name
<1>5. ASSUME NEW x
      PROVE  Mentions(e, x) <=> x = name \/ Mentions(d, x)
  <2>1. Mentions(<<name>> \o d, x) <=> x = name \/ Mentions(d, x)
    BY <1>1, PushMentions
  <2> QED
    BY <1>2, <2>1
<1>6. ASSUME NEW i \in 1..Len(d), NEW j \in 1..Len(d), i + 1 = j + 1
      PROVE  i = j
  BY <1>6
<1>7. OneNote(d) /\ OneForeign(d)
  BY <1>1, <1>6 DEF Nested, OneNote, OneForeign
<1>8. InNote(d)
  <2> SUFFICES ASSUME NEW i \in 1..Len(d), IsForeign(d[i])
               PROVE  \E j \in 1..Len(d) : d[j] = "note" /\ i < j
    BY DEF InNote
  <2>1. PICK j \in 1..Len(e) : e[j] = "note" /\ i + 1 < j
    BY <1>1 DEF Nested, InNote
  <2>2. j - 1 \in 1..Len(d) /\ (j - 1) + 1 = j /\ i < j - 1
    BY <1>1, <1>3, <2>1
  <2>3. d[j - 1] = "note"
    BY <1>1, <2>1, <2>2
  <2> QED
    BY <2>2, <2>3
<1>9. ASSUME name = "note" PROVE ~Mentions(d, "note") /\ ~Mentions(d, "greek")
  <2>1. ASSUME NEW i \in 1..Len(d), d[i] = "note" PROVE FALSE
    <3>1. i + 1 = 1
      BY <1>1, <1>4, <1>9, <2>1 DEF Nested, OneNote
    <3> QED
      BY <3>1
  <2>2. ASSUME NEW i \in 1..Len(d), d[i] = "greek" PROVE FALSE
    <3>1. PICK j \in 1..Len(d) : d[j] = "note" /\ i < j
      BY <1>8, <2>2 DEF InNote, IsForeign
    <3> QED
      BY <2>1, <3>1
  <2> QED
    BY <2>1, <2>2 DEF Mentions
<1>10. ASSUME IsForeign(name)
       PROVE  Mentions(e, "note") /\ ~Mentions(d, "greek")
  <2>1. Mentions(e, "note")
    BY <1>1, <1>4, <1>10 DEF Nested, InNote, Mentions
  <2>2. ASSUME NEW i \in 1..Len(d), d[i] = "greek" PROVE FALSE
    <3>1. IsForeign(e[1]) /\ IsForeign(e[i + 1]) /\ i + 1 \in 1..Len(e)
      BY <1>1, <1>10, <2>2 DEF IsForeign
    <3>2. i + 1 = 1
      BY <1>4, <3>1 DEF Nested, OneForeign
    <3> QED
      BY <3>2
  <2> QED
    BY <2>1, <2>2 DEF Mentions
<1> QED
  BY <1>5, <1>7, <1>8, <1>9, <1>10 DEF Nested, d, name

-----------------------------------------------------------------------------
(* The flags tell what is open.                                            *)

FlagsInv ==
    /\ elements \in Seq(Names)
    /\ inNoteTag \in BOOLEAN /\ inForeignTag \in BOOLEAN
    /\ Nested(elements)
    /\ inNoteTag <=> Mentions(elements, "note")
    /\ inForeignTag <=> Mentions(elements, "greek")

LEMMA FlagsInvInit == Init => FlagsInv
<1> SUFFICES ASSUME Init PROVE FlagsInv
  OBVIOUS
<1>1. /\ elements = <<>> /\ inNoteTag = FALSE /\ inForeignTag = FALSE
  BY DEF Init
<1>2. elements \in Seq(Names) /\ \A i \in 1..Len(elements) : FALSE
  BY <1>1
<1> QED
  BY <1>1, <1>2
  DEF FlagsInv, Nested, OneNote, OneForeign, InNote, Mentions

LEMMA FlagsInvStart ==
    ASSUME FlagsInv, NEW name \in Names, StartTag(name)
    PROVE  FlagsInv'
<1>1. /\ elements \in Seq(Names) /\ Nested(elements)
      /\ inNoteTag \in BOOLEAN /\ inForeignTag \in BOOLEAN
      /\ inNoteTag <=> Mentions(elements, "note")
      /\ inForeignTag <=> Mentions(elements, "greek")
  BY DEF FlagsInv
<1>2. /\ name = "note" => ~Mentions(elements, "note")
      /\ IsForeign(name) =>
            /\ Mentions(elements, "note") /\ ~Mentions(elements, "greek")
            /\ ~Mentions(elements, "foreign")
  BY <1>1 DEF StartTag, Allowed, Open, Mentions, IsForeign
<1>3. /\ elements' = <<name>> \o elements
      /\ inNoteTag' = NoteStarted(name)
      /\ inForeignTag' = ForeignStarted(name)
  BY DEF StartTag
<1>4. elements' \in Seq(Names)
  BY <1>1, <1>3, PushProperties
<1>5. Nested(elements')
  BY <1>1, <1>2, <1>3, PushNested
<1>6. /\ Mentions(elements', "note") <=>
            name = "note" \/ Mentions(elements, "note")
      /\ Mentions(elements', "greek") <=>
            name = "greek" \/ Mentions(elements, "greek")
  BY <1>1, <1>3, PushMentions
<1>7. inNoteTag' \in BOOLEAN /\ (inNoteTag' <=> Mentions(elements', "note"))
  BY <1>1, <1>3, <1>6 DEF NoteStarted
<1>8. Mentions(elements, "greek") => Mentions(elements, "note")
  BY <1>1 DEF Nested, InNote, Mentions, IsForeign
<1>9. name = "greek" => Mentions(elements, "note")
  BY <1>2 DEF IsForeign
<1>10. /\ inForeignTag' \in BOOLEAN
       /\ inForeignTag' <=> Mentions(elements', "greek")
  BY <1>1, <1>2, <1>3, <1>6, <1>8, <1>9 DEF ForeignStarted
<1> QED
  BY <1>4, <1>5, <1>7, <1>10 DEF FlagsInv, Nested, OneNote, OneForeign,
     InNote, Mentions

LEMMA FlagsInvEnd ==
    ASSUME FlagsInv, NEW name \in Names, EndTag(name)
    PROVE  FlagsInv'
<1>1. /\ elements \in Seq(Names) /\ Nested(elements)
      /\ inNoteTag \in BOOLEAN /\ inForeignTag \in BOOLEAN
      /\ inNoteTag <=> Mentions(elements, "note")
      /\ inForeignTag <=> Mentions(elements, "greek")
  BY DEF FlagsInv
<1>2. /\ elements # <<>> /\ Head(elements) = name
      /\ elements' = Tail(elements)
      /\ inNoteTag' = NoteEnded(name)
      /\ inForeignTag' = ForeignEnded(name)
  BY DEF EndTag
<1>3. elements' \in Seq(Names)
  BY <1>1, <1>2, PopProperties
<1>4. /\ Nested(elements')
      /\ name = "note" =>
            ~Mentions(elements', "note") /\ ~Mentions(elements', "greek")
      /\ IsForeign(name) =>
            Mentions(elements, "note") /\ ~Mentions(elements', "greek")
      /\ \A x : Mentions(elements, x) <=> x = name \/ Mentions(elements', x)
  BY <1>1, <1>2, PopNested
<1>5. inNoteTag' \in BOOLEAN /\ (inNoteTag' <=> Mentions(elements', "note"))
  BY <1>1, <1>2, <1>4 DEF NoteEnded
<1>6. name = "note" => Mentions(elements, "note")
  BY <1>4
<1>7. /\ inForeignTag' \in BOOLEAN
      /\ inForeignTag' <=> Mentions(elements', "greek")
  BY <1>1, <1>2, <1>4, <1>6 DEF ForeignEnded, IsForeign
<1> QED
  BY <1>3, <1>4, <1>5, <1>7 DEF FlagsInv, Nested, OneNote, OneForeign,
     InNote, Mentions

LEMMA FlagsInvNext == FlagsInv /\ [Next]_vars => FlagsInv'
<1> SUFFICES ASSUME FlagsInv, [Next]_vars PROVE FlagsInv'
  OBVIOUS
<1>1. ASSUME UNCHANGED <<elements, inNoteTag, inForeignTag>>
      PROVE  FlagsInv'
  BY <1>1 DEF FlagsInv, Nested, OneNote, OneForeign, InNote, Mentions
<1>2. CASE \E name \in Names : StartTag(name) \/ EndTag(name)
  BY <1>2, FlagsInvStart, FlagsInvEnd
<1>3. CASE \E kind \in {"empty", "mark"} : OtherLine(kind)
  BY <1>1, <1>3 DEF OtherLine
<1>4. CASE ReadWord
  BY <1>1, <1>4 DEF ReadWord
<1>5. CASE Query
  BY <1>1, <1>5 DEF Query, Ask, AskAgain
<1>6. CASE UNCHANGED vars
  BY <1>1, <1>6 DEF vars
<1> QED
  BY <1>2, <1>3, <1>4, <1>5, <1>6 DEF Next, Read

LEMMA FlagsTellLanguage ==
    ASSUME FlagsInv
    PROVE  English <=> inNoteTag /\ ~inForeignTag
<1>1. /\ elements \in Seq(Names) /\ Nested(elements)
      /\ inNoteTag <=> Mentions(elements, "note")
      /\ inForeignTag <=> Mentions(elements, "greek")
  BY DEF FlagsInv
<1>2. DOMAIN elements = 1..Len(elements) /\ Len(elements) \in Nat
  BY <1>1
<1>3. ASSUME English
      PROVE  Mentions(elements, "note") /\ ~Mentions(elements, "greek")
  <2>1. PICK i \in 1..Len(elements) :
           /\ elements[i] = "note"
           /\ \A j \in 1..(i - 1) : elements[j] # "greek"
    BY <1>2, <1>3 DEF English
  <2>2. ASSUME NEW j \in 1..Len(elements), elements[j] = "greek"
        PROVE  FALSE
    <3>1. PICK k \in 1..Len(elements) : elements[k] = "note" /\ j < k
      BY <1>1, <2>2 DEF Nested, InNote, IsForeign
    <3>2. k = i
      BY <1>1, <2>1, <3>1 DEF Nested, OneNote
    <3>3. j \in 1..(i - 1)
      BY <1>2, <3>1, <3>2
    <3> QED
      BY <2>1, <2>2, <3>3
  <2> QED
    BY <2>1, <2>2 DEF Mentions
<1>4. ASSUME Mentions(elements, "note"), ~Mentions(elements, "greek")
      PROVE  English
  <2>1. PICK i \in 1..Len(elements) : elements[i] = "note"
    BY <1>4 DEF Mentions
  <2>2. \A j \in 1..(i - 1) : j \in 1..Len(elements)
    BY <1>2
  <2>3. \A j \in 1..(i - 1) : elements[j] # "greek"
    BY <1>4, <2>2 DEF Mentions
  <2> QED
    BY <1>2, <2>1, <2>3 DEF English
<1> QED
  BY <1>1, <1>3, <1>4

(* However long the text: every Greek word is looked up, and no word of a  *)
(* note that is not in a Greek quotation.                                  *)
THEOREM OnlyGreekIsQueried == Spec => GreekQueried
<1>1. FlagsInv => [ReadWord => (pc' = "ask" <=> ~English)]_vars
  <2> SUFFICES ASSUME FlagsInv, ReadWord PROVE pc' = "ask" <=> ~English
    OBVIOUS
  <2>1. English <=> inNoteTag /\ ~inForeignTag
    BY FlagsTellLanguage
  <2>2. pc = "read"
    BY DEF ReadWord, ReadLine
  <2>3. inNoteTag \in BOOLEAN /\ inForeignTag \in BOOLEAN
    BY DEF FlagsInv
  <2> QED
    BY <2>1, <2>2, <2>3 DEF ReadWord
<1> QED
  BY <1>1, FlagsInvInit, FlagsInvNext, PTL DEF Spec, GreekQueried

-----------------------------------------------------------------------------
(* The rows                                                                *)

(* The rows r are those of the lines t.                                    *)
RowsOf(r, t) ==
    /\ Len(r) = Len(t)
    /\ \A i \in 1..Len(r) :
          /\ r[i].line = t[i]
          /\ r[i].as # "copied" => t[i] = Word

(* During a query the rows are those of the lines before the word.         *)
RowsInv ==
    /\ lines \in Seq(Lines) /\ Len(lines) <= MaxLines
    /\ rows \in Seq(Rows)
    /\ pc \in {"read", "ask", "again"}
    /\ pc = "read" => RowsOf(rows, lines)
    /\ pc # "read" =>
          \E t \in Seq(Lines) : lines = Append(t, Word) /\ RowsOf(rows, t)

LEMMA OneMoreRow ==
    ASSUME NEW t \in Seq(Lines), NEW r \in Seq(Rows), RowsOf(r, t),
           NEW line \in Lines, NEW as \in {"copied", "analysed", "bare"},
           as # "copied" => line = Word
    PROVE  RowsOf(Append(r, Row(line, as)), Append(t, line))
<1> DEFINE x == Row(line, as)
           q == Append(r, x)
           u == Append(t, line)
<1>1. x \in Rows /\ x.line = line /\ x.as = as
  BY DEF Row, Rows
<1> HIDE DEF x
<1>2. /\ Len(q) = Len(r) + 1 /\ q[Len(r) + 1] = x
      /\ \A i \in 1..Len(r) : q[i] = r[i]
  BY <1>1, AppendProperties
<1>3. /\ Len(u) = Len(t) + 1 /\ u[Len(t) + 1] = line
      /\ \A i \in 1..Len(t) : u[i] = t[i]
  BY AppendProperties
<1>4. Len(r) \in Nat /\ Len(r) = Len(t)
  BY DEF RowsOf
<1> HIDE DEF q, u
<1>5. ASSUME NEW i \in 1..Len(q)
      PROVE  q[i].line = u[i] /\ (q[i].as # "copied" => u[i] = Word)
  <2>1. CASE i = Len(r) + 1
    <3>1. q[i] = x /\ u[i] = line
      BY <1>2, <1>3, <1>4, <2>1
    <3> QED
      BY <1>1, <3>1
  <2>2. CASE i # Len(r) + 1
    <3>1. i \in 1..Len(r) /\ i \in 1..Len(t)
      BY <1>2, <1>4, <2>2
    <3> QED
      BY <1>2, <1>3, <3>1 DEF RowsOf
  <2> QED
    BY <2>1, <2>2
<1> QED
  BY <1>2, <1>3, <1>4, <1>5 DEF RowsOf, q, u, x

LEMMA RowsInvInit == Init => RowsInv
<1> SUFFICES ASSUME Init PROVE RowsInv
  OBVIOUS
<1>1. lines = <<>> /\ rows = <<>> /\ pc = "read"
  BY DEF Init
<1>2. /\ lines \in Seq(Lines) /\ rows \in Seq(Rows)
      /\ Len(lines) = 0 /\ Len(rows) = 0
  BY <1>1
<1>3. RowsOf(rows, lines)
  BY <1>2 DEF RowsOf
<1> QED
  BY <1>1, <1>2, <1>3, MaxLinesOK DEF RowsInv

(* A line that is copied at once.                                          *)
LEMMA RowsInvCopied ==
    ASSUME RowsInv, NEW line \in Lines, ReadLine(line), rows' = Copied(line),
           pc' = pc
    PROVE  RowsInv'
<1>1. /\ lines \in Seq(Lines) /\ rows \in Seq(Rows) /\ RowsOf(rows, lines)
      /\ Len(lines) < MaxLines /\ lines' = Append(lines, line) /\ pc = "read"
      /\ rows' = Append(rows, Row(line, "copied"))
  BY DEF RowsInv, ReadLine, Copied
<1>2. Row(line, "copied") \in Rows
  BY DEF Row, Rows
<1>3. /\ lines' \in Seq(Lines) /\ Len(lines') = Len(lines) + 1
      /\ rows' \in Seq(Rows)
  BY <1>1, <1>2, AppendProperties
<1>4. RowsOf(rows', lines')
  BY <1>1, OneMoreRow
<1>5. Len(lines') <= MaxLines
  BY <1>1, <1>3, MaxLinesOK
<1> QED
  BY <1>1, <1>3, <1>4, <1>5 DEF RowsInv, RowsOf

(* A word that is not: it is read, then its query ends in one row.         *)
LEMMA RowsInvAsked ==
    ASSUME RowsInv, ReadLine(Word), pc' = "ask", rows' = rows
    PROVE  RowsInv'
<1>1. /\ lines \in Seq(Lines) /\ RowsOf(rows, lines)
      /\ Len(lines) < MaxLines /\ lines' = Append(lines, Word)
  BY DEF RowsInv, ReadLine
<1>2. Word \in Lines
  BY DEF Word, Lines, OtherLines
<1>3. lines' \in Seq(Lines) /\ Len(lines') = Len(lines) + 1
  BY <1>1, <1>2, AppendProperties
<1>4. Len(lines') <= MaxLines
  BY <1>1, <1>3, MaxLinesOK
<1>5. rows' \in Seq(Rows) /\ RowsOf(rows', lines)
  BY <1>1 DEF RowsInv
<1> QED
  BY <1>1, <1>3, <1>4, <1>5 DEF RowsInv, RowsOf

LEMMA RowsInvAnswered ==
    ASSUME RowsInv, pc # "read", pc' = "read", lines' = lines,
           rows' = Analysed \/ rows' = Unanswered
    PROVE  RowsInv'
<1>1. lines \in Seq(Lines) /\ Len(lines) <= MaxLines /\ rows \in Seq(Rows)
  BY DEF RowsInv
<1>2. PICK t \in Seq(Lines) : lines = Append(t, Word) /\ RowsOf(rows, t)
  BY DEF RowsInv
<1>3. PICK as \in {"analysed", "bare"} : rows' = Append(rows, Row(Word, as))
  BY DEF Analysed, Unanswered
<1>4. Word \in Lines /\ Row(Word, as) \in Rows
  BY DEF Word, Lines, OtherLines, Row, Rows
<1>5. rows' \in Seq(Rows)
  BY <1>1, <1>3, <1>4, AppendProperties
<1>6. RowsOf(rows', lines')
  BY <1>1, <1>2, <1>3, <1>4, OneMoreRow
<1> QED
  BY <1>1, <1>5, <1>6 DEF RowsInv, RowsOf

LEMMA RowsInvNext == RowsInv /\ [Next]_vars => RowsInv'
<1> SUFFICES ASSUME RowsInv, [Next]_vars PROVE RowsInv'
  OBVIOUS
<1>1. ASSUME NEW name \in Names, StartTag(name) \/ EndTag(name)
      PROVE  RowsInv'
  <2>1. PICK line \in TagLines :
           ReadLine(line) /\ rows' = Copied(line) /\ pc' = pc
    BY <1>1 DEF StartTag, EndTag, TagLines
  <2>2. line \in Lines
    BY DEF Lines
  <2> QED
    BY <2>1, <2>2, RowsInvCopied
<1>2. ASSUME NEW kind \in {"empty", "mark"}, OtherLine(kind)
      PROVE  RowsInv'
  <2>1. [kind |-> kind] \in Lines
    BY DEF Lines, OtherLines
  <2> QED
    BY <1>2, <2>1, RowsInvCopied DEF OtherLine
<1>3. CASE ReadWord
  <2>1. Word \in Lines
    BY DEF Word, Lines, OtherLines
  <2> QED
    BY <1>3, <2>1, RowsInvCopied, RowsInvAsked DEF ReadWord
<1>4. CASE Query
  <2>1. CASE UNCHANGED <<lines, rows>> /\ pc # "read" /\ pc' \in {"ask", "again"}
    <3>1. \E t \in Seq(Lines) : lines' = Append(t, Word) /\ RowsOf(rows', t)
      BY <2>1 DEF RowsInv
    <3> QED
      BY <2>1, <3>1 DEF RowsInv, RowsOf
  <2>2. CASE ~(UNCHANGED <<lines, rows>> /\ pc # "read" /\ pc' \in {"ask", "again"})
    <3>1. /\ pc # "read" /\ pc' = "read" /\ lines' = lines
          /\ rows' = Analysed \/ rows' = Unanswered
      BY <1>4, <2>2 DEF Query, Ask, AskAgain, GiveUp
    <3> QED
      BY <3>1, RowsInvAnswered
  <2> QED
    BY <2>1, <2>2
<1>5. CASE UNCHANGED vars
  BY <1>5 DEF vars, RowsInv, RowsOf
<1> QED
  BY <1>1, <1>2, <1>3, <1>4, <1>5 DEF Next, Read

(* However long the text and whatever the site does, the output has one    *)
(* row per line, in order, and only words are changed.                     *)
THEOREM EveryLineHasItsRow == Spec => []LineForLine
<1>1. RowsInv => LineForLine
  <2> SUFFICES ASSUME RowsInv PROVE LineForLine
    OBVIOUS
  <2>1. DOMAIN rows = 1..Len(rows)
    BY DEF RowsInv
  <2>2. CASE pc = "read"
    BY <2>1, <2>2 DEF RowsInv, RowsOf, LineForLine
  <2>3. CASE pc # "read"
    <3>1. PICK t \in Seq(Lines) : lines = Append(t, Word) /\ RowsOf(rows, t)
      BY <2>3 DEF RowsInv
    <3>2. Word \in Lines
      BY DEF Word, Lines, OtherLines
    <3>3. /\ Len(lines) = Len(t) + 1 /\ Len(t) \in Nat
          /\ \A i \in 1..Len(t) : lines[i] = t[i]
      BY <3>1, <3>2, AppendProperties
    <3> QED
      BY <2>1, <2>3, <3>1, <3>3 DEF RowsOf, LineForLine
  <2> QED
    BY <2>2, <2>3
<1> QED
  BY <1>1, RowsInvInit, RowsInvNext, PTL DEF Spec

(* Flags, elements and rows keep their types, and tempFile never grows     *)
(* longer than the text.                                                   *)
THEOREM CrunchTypes == Spec => []TypeOK
<1>1. RowsInv => Len(rows) <= MaxLines
  <2> SUFFICES ASSUME RowsInv PROVE Len(rows) <= MaxLines
    OBVIOUS
  <2>1. CASE pc = "read"
    BY <2>1 DEF RowsInv, RowsOf
  <2>2. CASE pc # "read"
    <3>1. PICK t \in Seq(Lines) : lines = Append(t, Word) /\ RowsOf(rows, t)
      BY <2>2 DEF RowsInv
    <3>2. Word \in Lines
      BY DEF Word, Lines, OtherLines
    <3>3. Len(lines) = Len(t) + 1 /\ Len(t) \in Nat /\ Len(rows) = Len(t)
      BY <3>1, <3>2, AppendProperties DEF RowsOf
    <3>4. Len(lines) <= MaxLines
      BY DEF RowsInv
    <3> QED
      BY <3>3, <3>4, MaxLinesOK
  <2> QED
    BY <2>1, <2>2
<1>2. FlagsInv /\ RowsInv => TypeOK
  BY <1>1 DEF FlagsInv, RowsInv, TypeOK
<1> QED
  BY <1>2, FlagsInvInit, FlagsInvNext, RowsInvInit, RowsInvNext, PTL DEF Spec
=============================================================================
