----------------------------- MODULE TaggerProofs -----------------------------
(***************************************************************************)
(* Theorems about modules TagPy, Tagger and Perseus: what tag.py does with *)
(* the words of any document, and what the site's answers do to its rows.  *)
(***************************************************************************)
EXTENDS TagPy, SeqLemmas

-----------------------------------------------------------------------------
(* The document as it is built.  A sentence is open only in a section.     *)

Docs == {d \in Documents : d.sentence # None => d.section # None}
OpenDocs == {d \in Docs : d.section # None}

(* What is between the sections that are closed and the end.               *)
OpenWords(d) == IF d.sentence = None THEN <<>> ELSE d.sentence

(* ... together with the words of the open section.                        *)
OpenText(d) == WordsIn(d.section) \o OpenWords(d)

ClosedWords(objects) ==
    FlattenSeq([i \in DOMAIN objects |-> WordsIn(objects[i])])

LEMMA WordsInType ==
    ASSUME NEW s \in Sections \cup {None}
    PROVE  WordsIn(s) \in Seq(Words)
<1>1. CASE s = None
  BY <1>1 DEF WordsIn
<1>2. CASE s # None
  <2>1. s.sentences \in Seq(Seq(Words))
    BY <1>2 DEF Sections, Sentences
  <2> QED
    BY <1>2, <2>1, FlattenType DEF WordsIn
<1> QED
  BY <1>1, <1>2

LEMMA SectionWords ==
    ASSUME NEW objects \in Seq(Sections)
    PROVE  [i \in DOMAIN objects |-> WordsIn(objects[i])] \in Seq(Seq(Words))
<1> DEFINE words == [i \in DOMAIN objects |-> WordsIn(objects[i])]
<1>1. \A i \in DOMAIN objects : WordsIn(objects[i]) \in Seq(Words)
  BY WordsInType
<1>2. DOMAIN objects = 1..Len(objects) /\ Len(objects) \in Nat
  OBVIOUS
<1>3. words \in [1..Len(objects) -> Seq(Words)]
  BY <1>1, <1>2
<1> QED
  BY <1>2, <1>3

LEMMA ClosedWordsType ==
    ASSUME NEW objects \in Seq(Sections)
    PROVE  ClosedWords(objects) \in Seq(Words)
BY SectionWords, FlattenType DEF ClosedWords

LEMMA OpenWordsType ==
    ASSUME NEW d \in Documents
    PROVE  OpenWords(d) \in Seq(Words)
BY DEF OpenWords, Documents, Sentences

(* One more section comes last.                                            *)
LEMMA ClosedWordsAppend ==
    ASSUME NEW objects \in Seq(Sections), NEW s \in Sections
    PROVE  ClosedWords(Append(objects, s)) = ClosedWords(objects) \o WordsIn(s)
<1> DEFINE t == Append(objects, s)
           n == Len(objects)
           old == [i \in DOMAIN objects |-> WordsIn(objects[i])]
           new == [i \in DOMAIN t |-> WordsIn(t[i])]
<1>1. /\ t \in Seq(Sections) /\ n \in Nat
      /\ DOMAIN objects = 1..n /\ DOMAIN t = 1..(n + 1)
      /\ t[n + 1] = s /\ \A i \in 1..n : t[i] = objects[i]
  BY AppendProperties
<1>2. WordsIn(s) \in Seq(Words)
  BY WordsInType
<1>3. old \in Seq(Seq(Words)) /\ new \in Seq(Seq(Words))
  <2> HIDE DEF t
  <2> QED
    BY <1>1, SectionWords
<1> HIDE DEF t, n
<1>4. new = Append(old, WordsIn(s))
  <2>1. DOMAIN new = 1..(n + 1) /\ DOMAIN old = 1..n
    BY <1>1
  <2>2. Len(old) = n
    BY <1>1, <1>3, <2>1
  <2>3. /\ new[n + 1] = WordsIn(s)
        /\ \A i \in 1..n : new[i] = old[i]
    BY <1>1
  <2> HIDE DEF old, new
  <2>4. /\ Append(old, WordsIn(s)) \in Seq(Seq(Words))
        /\ DOMAIN Append(old, WordsIn(s)) = 1..(n + 1)
        /\ Append(old, WordsIn(s))[n + 1] = WordsIn(s)
        /\ \A i \in 1..n : Append(old, WordsIn(s))[i] = old[i]
    BY <1>1, <1>2, <1>3, <2>1, <2>2, AppendProperties
  <2>5. \A i \in 1..(n + 1) : i = n + 1 \/ i \in 1..n
    BY <1>1
  <2>6. Len(new) = n + 1 /\ Len(Append(old, WordsIn(s))) = n + 1
    BY <1>1, <1>3, <2>1, <2>4
  <2>7. \A i \in 1..Len(new) : new[i] = Append(old, WordsIn(s))[i]
    BY <2>3, <2>4, <2>5, <2>6
  <2> QED
    BY <1>3, <2>4, <2>6, <2>7, SeqEqual
<1> HIDE DEF old, new
<1>5. FlattenSeq(new) = FlattenSeq(old) \o WordsIn(s)
  BY <1>2, <1>3, <1>4, FlattenAppend
<1> QED
  BY <1>5 DEF ClosedWords, old, new, t

LEMMA WordsShownParts ==
    ASSUME NEW d
    PROVE  WordsShown(d) =
              ClosedWords(d.objects) \o (WordsIn(d.section) \o OpenWords(d))
BY DEF WordsShown, ClosedWords, OpenWords

(* Closing a sentence moves its words to the section.                      *)
LEMMA FinishSentenceKeeps ==
    ASSUME NEW d \in OpenDocs, d.sentence # None
    PROVE  LET e == FinishSentence(d) IN
           /\ e \in OpenDocs /\ e.sentence = None
           /\ e.added = d.added /\ e.force = d.force
           /\ e.objects = d.objects /\ e.section.at = d.section.at
           /\ OpenText(e) = OpenText(d)
           /\ WordsShown(e) = WordsShown(d)
<1> DEFINE e == FinishSentence(d)
           sents == d.section.sentences
           w == d.sentence
<1>1. /\ d \in Documents /\ d.section \in Sections /\ w \in Sentences
      /\ d.section # None
  BY DEF OpenDocs, Docs, Documents
<1>2. sents \in Seq(Seq(Words)) /\ w \in Seq(Words)
  BY <1>1 DEF Sections, Sentences
<1>3. Append(sents, w) \in Seq(Sentences)
  BY <1>2 DEF Sentences
<1>4. /\ e.objects = d.objects /\ e.sentence = None /\ e.force = d.force
      /\ e.added = d.added
      /\ e.section = [d.section EXCEPT !.sentences = Append(sents, w)]
      /\ DOMAIN e = DOMAIN d
  BY <1>1 DEF FinishSentence, Documents
<1>5. /\ e.section \in Sections /\ e.section.sentences = Append(sents, w)
      /\ e.section.at = d.section.at
  BY <1>1, <1>3, <1>4 DEF Sections
<1>6. e \in Documents
  BY <1>1, <1>4, <1>5 DEF FinishSentence, Documents
<1>7. e \in OpenDocs
  BY <1>4, <1>5, <1>6, NoneIsNoObject DEF OpenDocs, Docs
<1>8. WordsIn(e.section) = WordsIn(d.section) \o w
  <2>1. FlattenSeq(Append(sents, w)) = FlattenSeq(sents) \o w
    BY <1>2, FlattenAppend
  <2> QED
    BY <1>1, <1>5, <2>1, NoneIsNoObject DEF WordsIn
<1>9. OpenText(e) = OpenText(d)
  <2>1. OpenWords(e) = <<>> /\ OpenWords(d) = w
    BY <1>4 DEF OpenWords
  <2>2. WordsIn(e.section) \in Seq(Words)
    BY <1>5, WordsInType
  <2> HIDE DEF e, w
  <2>3. WordsIn(e.section) \o <<>> = WordsIn(e.section)
    BY <2>2, ConcatEmptySeq
  <2> QED
    BY <1>8, <2>1, <2>3 DEF OpenText
<1>10. WordsShown(e) = WordsShown(d)
  <2> HIDE DEF e
  <2> QED
    BY <1>4, <1>9, WordsShownParts DEF OpenText
<1> QED
  BY <1>4, <1>5, <1>7, <1>9, <1>10

(* Closing a section moves it to the objects.                              *)
LEMMA FinishSectionKeeps ==
    ASSUME NEW d \in OpenDocs, d.sentence = None
    PROVE  LET e == FinishSection(d) IN
           /\ e \in Docs /\ e.section = None /\ e.sentence = None
           /\ e.added = d.added /\ e.force = d.force
           /\ e.objects = Append(d.objects, d.section)
           /\ OpenText(d) = WordsIn(d.section)
           /\ WordsShown(e) = WordsShown(d)
<1> DEFINE e == FinishSection(d)
           s == d.section
<1>1. d \in Documents /\ s \in Sections /\ d.objects \in Seq(Sections)
  BY DEF OpenDocs, Docs, Documents
<1>2. Append(d.objects, s) \in Seq(Sections)
  BY <1>1
<1>3. /\ e.objects = Append(d.objects, s) /\ e.section = None
      /\ e.sentence = None /\ e.force = d.force /\ e.added = d.added
  BY <1>1 DEF FinishSection, Documents
<1>4. e \in Documents
  BY <1>1, <1>2 DEF FinishSection, Documents
<1>5. e \in Docs
  BY <1>3, <1>4 DEF Docs
<1> HIDE DEF e, s
<1>6. ClosedWords(e.objects) = ClosedWords(d.objects) \o WordsIn(s)
  BY <1>1, <1>3, ClosedWordsAppend
<1>7. /\ WordsIn(e.section) = <<>> /\ OpenWords(e) = <<>>
      /\ OpenWords(d) = <<>>
  BY <1>3 DEF WordsIn, OpenWords
<1>8. WordsIn(s) \in Seq(Words) /\ ClosedWords(e.objects) \in Seq(Words)
  BY <1>1, <1>2, <1>3, WordsInType, ClosedWordsType
<1>9. /\ WordsIn(s) \o <<>> = WordsIn(s) /\ <<>> \o <<>> = <<>>
      /\ ClosedWords(e.objects) \o <<>> = ClosedWords(e.objects)
  BY <1>8, ConcatEmptySeq
<1>10. WordsShown(e) = WordsShown(d)
  BY <1>6, <1>7, <1>9, WordsShownParts DEF s
<1>11. OpenText(d) = WordsIn(s)
  BY <1>7, <1>9 DEF OpenText, s
<1> QED
  BY <1>3, <1>5, <1>10, <1>11 DEF e, s

LEMMA ClosedKeeps ==
    ASSUME NEW d \in Docs, NEW start \in BOOLEAN
    PROVE  LET e == Closed(d, start) IN
           /\ e \in Docs /\ e.added = d.added /\ e.force = d.force
           /\ start => e.section = None /\ e.sentence = None
           /\ WordsShown(e) = WordsShown(d)
<1> DEFINE d1 == IF start /\ d.sentence # None THEN FinishSentence(d) ELSE d
<1>1. /\ d1 \in Docs /\ d1.added = d.added /\ d1.force = d.force
      /\ start => d1.sentence = None
      /\ WordsShown(d1) = WordsShown(d)
  <2>1. CASE start /\ d.sentence # None
    <3>1. d \in OpenDocs
      BY <2>1 DEF Docs, OpenDocs
    <3> QED
      BY <2>1, <3>1, FinishSentenceKeeps DEF OpenDocs
  <2>2. CASE ~(start /\ d.sentence # None)
    BY <2>2
  <2> QED
    BY <2>1, <2>2
<1> HIDE DEF d1
<1>2. CASE start /\ d1.section # None
  <2>1. d1 \in OpenDocs
    BY <1>1, <1>2 DEF OpenDocs
  <2> QED
    BY <1>1, <1>2, <2>1, FinishSectionKeeps DEF Closed, d1
<1>3. CASE ~(start /\ d1.section # None)
  BY <1>1, <1>3 DEF Closed, d1
<1> QED
  BY <1>2, <1>3

LEMMA OpenedKeeps ==
    ASSUME NEW d \in Docs, NEW at \in Positions
    PROVE  LET e == Opened(d, at) IN
           /\ e \in OpenDocs /\ e.added = d.added /\ e.force = d.force
           /\ e.objects = d.objects
           /\ e.section.at = IF d.section = None
                             THEN [at EXCEPT !["tetralogy"] = None]
                             ELSE d.section.at
           /\ OpenText(e) = OpenText(d)
           /\ WordsShown(e) = WordsShown(d)
<1> DEFINE e == Opened(d, at)
           new == [at |-> [at EXCEPT !["tetralogy"] = None],
                   sentences |-> <<>>]
<1>1. d \in Documents
  BY DEF Docs
<1>2. new \in Sections /\ new # None /\ <<>> \in Sentences /\ <<>> # None
  <2>1. [at EXCEPT !["tetralogy"] = None] \in Positions
    BY DEF Positions
  <2>2. new \in Sections
    BY <2>1 DEF Sections, Sentences
  <2>3. <<>> \in Sentences
    BY DEF Sentences
  <2> HIDE DEF new
  <2> QED
    BY <2>2, <2>3, NoneIsNoObject
<1>3. /\ WordsIn(new) = <<>>
      /\ new.at = [at EXCEPT !["tetralogy"] = None]
  BY <1>2, FlattenEmpty DEF WordsIn
<1> HIDE DEF new
<1>4. /\ e = [d EXCEPT !.section = IF d.section = None THEN new ELSE d.section,
                       !.sentence = IF d.sentence = None THEN <<>>
                                    ELSE d.sentence]
  BY DEF Opened, new
<1>5. /\ e.objects = d.objects /\ e.force = d.force /\ e.added = d.added
      /\ e.section = IF d.section = None THEN new ELSE d.section
      /\ e.sentence = IF d.sentence = None THEN <<>> ELSE d.sentence
  BY <1>1, <1>4 DEF Documents
<1>6. e \in Documents
  BY <1>1, <1>2, <1>4 DEF Documents
<1>7. e \in OpenDocs
  BY <1>2, <1>5, <1>6 DEF Docs, OpenDocs
<1>8. WordsIn(e.section) = WordsIn(d.section) /\ OpenWords(e) = OpenWords(d)
  <2>1. WordsIn(None) = <<>>
    BY DEF WordsIn
  <2> QED
    BY <1>2, <1>3, <1>5, <2>1 DEF OpenWords
<1>9. WordsShown(e) = WordsShown(d)
  <2> HIDE DEF e
  <2> QED
    BY <1>5, <1>8, WordsShownParts
<1>10. OpenText(e) = OpenText(d)
  BY <1>8 DEF OpenText
<1>11. e.section.at = IF d.section = None
                      THEN [at EXCEPT !["tetralogy"] = None]
                      ELSE d.section.at
  BY <1>3, <1>5
<1> QED
  BY <1>5, <1>7, <1>9, <1>10, <1>11

LEMMA WordOfType ==
    ASSUME NEW token \in Tokens
    PROVE  WordOf(token) \in Seq(Words)
<1>1. token.word \in Words \cup {NoWord}
  BY DEF Tokens
<1>2. CASE token.word = NoWord
  BY <1>2 DEF WordOf
<1>3. CASE token.word # NoWord
  <2>1. token.word \in Words
    BY <1>1, <1>3
  <2>2. <<token.word>> \in Seq(Words)
    BY <2>1
  <2> QED
    BY <1>3, <2>2 DEF WordOf
<1> QED
  BY <1>2, <1>3

(* \o by a name of its own: what is known of it here are these two laws.   *)
Then(a, b) == a \o b

LEMMA ThenGroups ==
    /\ \A a, b \in Seq(Words) : Then(a, b) \in Seq(Words)
    /\ \A a, b, c \in Seq(Words) : Then(Then(a, b), c) = Then(a, Then(b, c))
<1>1. ASSUME NEW a \in Seq(Words), NEW b \in Seq(Words)
      PROVE  Then(a, b) \in Seq(Words)
  BY ConcatProperties DEF Then
<1>2. ASSUME NEW a \in Seq(Words), NEW b \in Seq(Words), NEW c \in Seq(Words)
      PROVE  Then(Then(a, b), c) = Then(a, Then(b, c))
  BY ConcatAssociative DEF Then
<1> QED
  BY <1>1, <1>2

LEMMA WordsShownType ==
    ASSUME NEW d \in OpenDocs
    PROVE  d.objects \in Seq(Sections) /\ WordsShown(d) \in Seq(Words)
<1>1. d \in Documents
  BY DEF OpenDocs, Docs
<1>2. d.objects \in Seq(Sections) /\ d.section \in Sections \cup {None}
  BY <1>1 DEF Documents
<1>3. /\ ClosedWords(d.objects) \in Seq(Words)
      /\ WordsIn(d.section) \in Seq(Words)
      /\ OpenWords(d) \in Seq(Words)
  BY <1>1, <1>2, ClosedWordsType, WordsInType, OpenWordsType
<1>4. Then(ClosedWords(d.objects), Then(WordsIn(d.section), OpenWords(d)))
           \in Seq(Words)
  BY <1>3, ThenGroups
<1>5. WordsShown(d)
        = Then(ClosedWords(d.objects), Then(WordsIn(d.section), OpenWords(d)))
  BY WordsShownParts DEF Then
<1> QED
  BY <1>2, <1>4, <1>5

(* Taking a word appends it.                                               *)
LEMMA TakeKeeps ==
    ASSUME NEW d \in OpenDocs, NEW token \in Tokens
    PROVE  LET e == Take(d, token) IN
           /\ e \in OpenDocs /\ e.added = d.added /\ e.force = d.force
           /\ e.objects = d.objects /\ e.section.at = d.section.at
           /\ OpenText(e) = OpenText(d) \o WordOf(token)
           /\ WordsShown(e) = WordsShown(d) \o WordOf(token)
<1> DEFINE w == WordOf(token)
           old == OpenWords(d)
           d1 == [d EXCEPT !.sentence = old \o w]
<1>1. d \in Documents /\ d.section # None /\ d.objects \in Seq(Sections)
      /\ d.section \in Sections
  BY DEF OpenDocs, Docs, Documents
<1>2. w \in Seq(Words) /\ old \in Seq(Words)
  BY <1>1, WordOfType, OpenWordsType
<1>3. old \o w \in Sentences /\ old \o w # None
  <2> HIDE DEF old, w
  <2>1. old \o w \in Sentences
    BY <1>2, ConcatProperties DEF Sentences
  <2> QED
    BY <2>1, NoneIsNoObject
<1>4. Take(d, token) = IF token.stop THEN FinishSentence(d1) ELSE d1
  BY DEF Take, OpenWords
<1> HIDE DEF old, w
<1>5. /\ d1.objects = d.objects /\ d1.section = d.section
      /\ d1.sentence = old \o w /\ d1.force = d.force
      /\ d1.added = d.added
  BY <1>1 DEF Documents
<1>6. d1 \in Documents
  BY <1>1, <1>3 DEF Documents
<1>7. d1 \in OpenDocs /\ d1.sentence # None
  BY <1>1, <1>3, <1>5, <1>6 DEF OpenDocs, Docs
<1> HIDE DEF d1
<1>8. /\ WordsShown(d1) = WordsShown(d) \o w
      /\ OpenText(d1) = OpenText(d) \o w
  <2> DEFINE a == ClosedWords(d.objects)
             s == WordsIn(d.section)
  <2>1. a \in Seq(Words) /\ s \in Seq(Words)
    BY <1>1, ClosedWordsType, WordsInType
  <2>2. OpenWords(d1) = old \o w
    BY <1>5, <1>7 DEF OpenWords
  <2>3. WordsShown(d1) = a \o (s \o (old \o w))
    BY <1>5, <2>2, WordsShownParts
  <2>4. WordsShown(d) = a \o (s \o old)
    BY WordsShownParts DEF old
  <2> HIDE DEF a, s
  <2>5. Then(a, Then(s, Then(old, w))) = Then(Then(a, Then(s, old)), w)
    BY <1>2, <2>1, ThenGroups
  <2>6. Then(s, Then(old, w)) = Then(Then(s, old), w)
    BY <1>2, <2>1, ThenGroups
  <2>7. OpenText(d) = s \o old /\ OpenText(d1) = s \o (old \o w)
    BY <1>5, <2>2 DEF OpenText, s, old
  <2> QED
    BY <2>3, <2>4, <2>5, <2>6, <2>7 DEF Then
<1>9. CASE token.stop
  <2>1. LET e == FinishSentence(d1) IN
        /\ e \in OpenDocs /\ e.added = d1.added /\ e.force = d1.force
        /\ e.objects = d1.objects /\ e.section.at = d1.section.at
        /\ OpenText(e) = OpenText(d1)
        /\ WordsShown(e) = WordsShown(d1)
    BY <1>7, FinishSentenceKeeps
  <2> QED
    BY <1>4, <1>5, <1>8, <1>9, <2>1 DEF w
<1>10. CASE ~token.stop
  BY <1>4, <1>5, <1>7, <1>8, <1>10 DEF w
<1> QED
  BY <1>9, <1>10

(* taken[i] is the document after i words.                                 *)
Takes(taken, d, text, n) ==
    taken[0] = d /\ \A i \in 1..n : taken[i] = Take(taken[i - 1], text[i])

LEMMA TakesExist ==
    ASSUME NEW d \in OpenDocs, NEW text \in Seq(Tokens)
    PROVE  \E taken : /\ Takes(taken, d, text, Len(text))
                     /\ TakeAll(d, text) = taken[Len(text)]
<1> DEFINE V == OpenDocs
           n == Len(text)
           step == [i \in 1..n |-> [v \in V |-> Take(v, text[i])]]
           Def(F) == [i \in 0..n |->
                         IF i = 0 THEN d ELSE Take(F[i - 1], text[i])]
           G == CHOOSE F : F = Def(F)
<1>1. n \in Nat /\ \A i \in 1..n : text[i] \in Tokens
  OBVIOUS
<1>2. \A i \in 1..n, v \in V : Take(v, text[i]) \in V
  BY <1>1, TakeKeeps
<1>3. step \in [1..n -> [V -> V]]
  <2> HIDE DEF V, n
  <2> QED
    BY <1>2
<1>4. PICK g \in [0..n -> V] : Iterates(g, n, d, step)
  <2> HIDE DEF V, n, step
  <2> QED
    BY <1>1, <1>3, IteratesExist DEF V
<1> HIDE DEF n
<1>5. ASSUME NEW i \in 1..n
      PROVE  g[i] = Take(g[i - 1], text[i])
  <2>1. i - 1 \in 0..n
    BY <1>1
  <2> HIDE DEF V
  <2>2. g[i - 1] \in V /\ g[i] = step[i][g[i - 1]]
    BY <1>4, <2>1 DEF Iterates
  <2> QED
    BY <2>2
<1>6. g[0] = d /\ DOMAIN g = 0..n
  BY <1>4 DEF Iterates
<1>7. g = Def(g)
  <2>1. \A i \in 0..n : i # 0 => i \in 1..n
    BY <1>1
  <2> HIDE DEF V
  <2> QED
    BY <1>4, <1>5, <1>6, <2>1
<1>8. G = Def(G)
  <2> HIDE DEF Def
  <2> QED
    BY <1>7
<1>9. TakeAll(d, text) = G[n]
  BY DEF TakeAll, n
<1> HIDE DEF G
<1>10. /\ Def(G)[0] = d
       /\ \A i \in 1..n : Def(G)[i] = Take(G[i - 1], text[i])
  BY <1>1
<1> HIDE DEF Def
<1>11. Takes(G, d, text, n)
  BY <1>8, <1>10 DEF Takes
<1> QED
  BY <1>9, <1>11 DEF n

(* A document goes on as another with more words.                          *)
Longer(d, e, words) ==
    /\ e \in OpenDocs /\ e.added = d.added /\ e.force = d.force
    /\ e.objects = d.objects /\ e.section.at = d.section.at
    /\ OpenText(e) = OpenText(d) \o words
    /\ WordsShown(e) = WordsShown(d) \o words

LEMMA WordsOfJoins ==
    ASSUME NEW text \in Seq(Tokens), text # NoText
    PROVE  \E g \in [0..Len(text) -> Seq(Words)] :
              /\ Joins(g, Len(text), [i \in 1..Len(text) |-> WordOf(text[i])])
              /\ WordsOf(text) = g[Len(text)]
<1> DEFINE s == [i \in 1..Len(text) |-> WordOf(text[i])]
<1>1. s \in Seq(Seq(Words)) /\ Len(s) = Len(text)
  <2>1. Len(text) \in Nat /\ \A i \in 1..Len(text) : text[i] \in Tokens
    OBVIOUS
  <2>2. \A i \in 1..Len(text) : WordOf(text[i]) \in Seq(Words)
    BY <2>1, WordOfType
  <2>3. s \in [1..Len(text) -> Seq(Words)]
    BY <2>2
  <2> QED
    BY <2>1, <2>3
<1>2. WordsOf(text) = FlattenSeq(s)
  BY DEF WordsOf
<1> HIDE DEF s
<1>3. PICK g \in [0..Len(s) -> Seq(Words)] : Joins(g, Len(s), s)
  BY <1>1, JoinsExist
<1>4. FlattenSeq(s) = g[Len(s)]
  BY <1>1, <1>3, FlattenJoins
<1> QED
  BY <1>1, <1>2, <1>3, <1>4 DEF s

LEMMA WordsOfType ==
    ASSUME NEW text \in Seq(Tokens) \cup {NoText}
    PROVE  WordsOf(text) \in Seq(Words)
<1>1. CASE text = NoText
  BY <1>1 DEF WordsOf
<1>2. CASE text # NoText
  <2>1. PICK g \in [0..Len(text) -> Seq(Words)] :
           WordsOf(text) = g[Len(text)]
    BY <1>2, WordsOfJoins
  <2>2. Len(text) \in 0..Len(text)
    BY <1>2
  <2> QED
    BY <2>1, <2>2
<1> QED
  BY <1>1, <1>2

LEMMA OpenTextType ==
    ASSUME NEW d \in OpenDocs
    PROVE  OpenText(d) \in Seq(Words)
<1>1. d \in Documents /\ d.section \in Sections \cup {None}
  BY DEF OpenDocs, Docs, Documents
<1>2. WordsIn(d.section) \in Seq(Words) /\ OpenWords(d) \in Seq(Words)
  BY <1>1, WordsInType, OpenWordsType
<1> QED
  BY <1>2, ConcatProperties DEF OpenText

LEMMA LongerNone ==
    ASSUME NEW d \in OpenDocs
    PROVE  Longer(d, d, <<>>)
<1>1. OpenText(d) \in Seq(Words) /\ WordsShown(d) \in Seq(Words)
  BY OpenTextType, WordsShownType
<1> QED
  BY <1>1, ConcatEmptySeq DEF Longer

LEMMA LongerTwice ==
    ASSUME NEW d \in OpenDocs, NEW e, NEW v \in Seq(Words), Longer(d, e, v),
           NEW f, NEW w \in Seq(Words), Longer(e, f, w)
    PROVE  Longer(d, f, v \o w)
<1>1. OpenText(d) \in Seq(Words) /\ WordsShown(d) \in Seq(Words)
  BY OpenTextType, WordsShownType
<1>2. /\ Then(Then(OpenText(d), v), w) = Then(OpenText(d), Then(v, w))
      /\ Then(Then(WordsShown(d), v), w) = Then(WordsShown(d), Then(v, w))
  BY <1>1, ThenGroups
<1> QED
  BY <1>2 DEF Longer, Then

(* A text appends its words, whatever sentences end in it.                 *)
LEMMA TakeAllKeeps ==
    ASSUME NEW d \in OpenDocs, NEW text \in Seq(Tokens), text # NoText
    PROVE  Longer(d, TakeAll(d, text), WordsOf(text))
<1> DEFINE n == Len(text)
           words == [i \in 1..n |-> WordOf(text[i])]
<1>1. PICK taken : Takes(taken, d, text, n) /\ TakeAll(d, text) = taken[n]
  BY TakesExist
<1>2. PICK g \in [0..n -> Seq(Words)] :
         Joins(g, n, words) /\ WordsOf(text) = g[n]
  BY WordsOfJoins
<1>3. n \in Nat /\ \A i \in 1..n : text[i] \in Tokens
  OBVIOUS
<1>4. \A i \in 1..n : words[i] = WordOf(text[i])
  OBVIOUS
<1> HIDE DEF n, words
<1> DEFINE Good == {i \in 0..n : Longer(d, taken[i], g[i])}
<1>5. 0 \in Good
  <2>1. taken[0] = d /\ g[0] = <<>> /\ 0 \in 0..n
    BY <1>1, <1>2, <1>3 DEF Takes, Joins
  <2> QED
    BY <2>1, LongerNone
<1>6. ASSUME NEW i \in 1..n, i - 1 \in Good PROVE i \in Good
  <2> DEFINE v == taken[i - 1]
             w == WordOf(text[i])
  <2>1. Longer(d, v, g[i - 1])
    BY <1>6
  <2>2. taken[i] = Take(v, text[i]) /\ g[i] = g[i - 1] \o w
    BY <1>1, <1>2, <1>4 DEF Takes, Joins
  <2>3. /\ g[i - 1] \in Seq(Words) /\ w \in Seq(Words)
        /\ i \in 0..n /\ text[i] \in Tokens
    <3>1. i - 1 \in 0..n /\ i \in 0..n
      BY <1>3
    <3> QED
      BY <1>2, <1>3, <3>1, WordOfType
  <2> HIDE DEF v
  <2>4. v \in OpenDocs
    BY <2>1 DEF Longer
  <2>5. Longer(v, Take(v, text[i]), w)
    BY <2>3, <2>4, TakeKeeps DEF Longer
  <2> HIDE DEF w
  <2>6. Longer(d, Take(v, text[i]), g[i - 1] \o w)
    BY <2>1, <2>3, <2>5, LongerTwice
  <2> QED
    BY <2>2, <2>3, <2>6
<1>7. n \in Good
  <2> HIDE DEF Good
  <2>1. n \in 0..n
    BY <1>3
  <2> QED
    BY <1>3, <1>5, <1>6, <2>1, IntervalInduction
<1> QED
  BY <1>1, <1>2, <1>7

-----------------------------------------------------------------------------
(* The calls of addText.                                                   *)

Additions == [from : Places, words : Seq(Words), at : Positions,
              starts : BOOLEAN]

AddedWords(added) == FlattenSeq([i \in DOMAIN added |-> added[i].words])

(* Nothing was lost or doubled so far.                                     *)
KeptDocs == {d \in Docs : WordsShown(d) = AddedWords(d.added)}

LEMMA AddedWordsAppend ==
    ASSUME NEW added \in Seq(Additions), NEW r \in Additions
    PROVE  AddedWords(Append(added, r)) = AddedWords(added) \o r.words
<1> DEFINE t == Append(added, r)
           n == Len(added)
           old == [i \in DOMAIN added |-> added[i].words]
           new == [i \in DOMAIN t |-> t[i].words]
<1>1. /\ t \in Seq(Additions) /\ n \in Nat
      /\ DOMAIN added = 1..n /\ DOMAIN t = 1..(n + 1)
      /\ t[n + 1] = r /\ \A i \in 1..n : t[i] = added[i]
      /\ \A i \in 1..n : added[i] \in Additions
  BY AppendProperties
<1>2. \A x \in Additions : x.words \in Seq(Words)
  BY DEF Additions
<1> HIDE DEF t, n
<1>3. /\ old \in [1..n -> Seq(Words)]
      /\ new \in [1..(n + 1) -> Seq(Words)]
  <2>1. \A i \in 1..(n + 1) : i = n + 1 \/ i \in 1..n
    BY <1>1
  <2>2. \A i \in 1..(n + 1) : t[i] \in Additions
    BY <1>1, <2>1
  <2> QED
    BY <1>1, <1>2, <2>2
<1>4. /\ old \in Seq(Seq(Words)) /\ Len(old) = n
      /\ new \in Seq(Seq(Words)) /\ Len(new) = n + 1
  <2> HIDE DEF old, new
  <2>1. n + 1 \in Nat
    BY <1>1
  <2> QED
    BY <1>1, <1>3, <2>1
<1>5. new = Append(old, r.words)
  <2>1. /\ new[n + 1] = r.words
        /\ \A i \in 1..n : new[i] = old[i]
    <3>1. n + 1 \in 1..(n + 1) /\ \A i \in 1..n : i \in 1..(n + 1)
      BY <1>1
    <3> QED
      BY <1>1, <3>1
  <2>2. r.words \in Seq(Words)
    BY <1>2
  <2> HIDE DEF old, new
  <2>3. /\ Append(old, r.words) \in Seq(Seq(Words))
        /\ Len(Append(old, r.words)) = n + 1
        /\ Append(old, r.words)[n + 1] = r.words
        /\ \A i \in 1..n : Append(old, r.words)[i] = old[i]
    BY <1>1, <1>4, <2>2, AppendProperties
  <2>4. \A i \in 1..(n + 1) : i = n + 1 \/ i \in 1..n
    BY <1>1
  <2>5. \A i \in 1..Len(new) : new[i] = Append(old, r.words)[i]
    BY <1>4, <2>1, <2>3, <2>4
  <2> QED
    BY <1>4, <2>3, <2>5, SeqEqual
<1> HIDE DEF old, new
<1>6. FlattenSeq(new) = FlattenSeq(old) \o r.words
  BY <1>2, <1>4, <1>5, FlattenAppend
<1> QED
  BY <1>6 DEF AddedWords, old, new, t

LEMMA AddTextKeeps ==
    ASSUME NEW d \in KeptDocs, NEW at \in Positions, NEW from \in Places,
           NEW text \in Texts \cup {NoText}, NEW start \in BOOLEAN
    PROVE  AddText(d, at, from, text, start) \in KeptDocs
<1> DEFINE starts == start \/ d.force
           r == [from |-> from, at |-> at, words |-> WordsOf(text),
                 starts |-> starts]
           d1 == Opened(Closed(d, starts), at)
           d2 == [d1 EXCEPT !.force = FALSE, !.added = Append(@, r)]
<1>1. /\ d \in Docs /\ d.force \in BOOLEAN /\ d.added \in Seq(Additions)
      /\ WordsShown(d) = AddedWords(d.added)
  BY DEF KeptDocs, Docs, Documents, Additions
<1>2. starts \in BOOLEAN
  BY <1>1
<1> HIDE DEF starts
<1>3. d1 \in OpenDocs /\ d1.added = d.added /\ WordsShown(d1) = WordsShown(d)
  <2>1. LET e == Closed(d, starts) IN
        e \in Docs /\ e.added = d.added /\ WordsShown(e) = WordsShown(d)
    BY <1>1, <1>2, ClosedKeeps
  <2> QED
    BY <2>1, OpenedKeeps
<1> HIDE DEF d1
<1>4. text \in Seq(Tokens) \cup {NoText}
  BY TaggerConstants
<1>5. WordsOf(text) \in Seq(Words)
  BY <1>4, WordsOfType
<1>6. r \in Additions /\ r.words = WordsOf(text)
  BY <1>2, <1>5 DEF Additions
<1> HIDE DEF r
<1>7. /\ d2.objects = d1.objects /\ d2.section = d1.section
      /\ d2.sentence = d1.sentence /\ d2.added = Append(d.added, r)
      /\ d2 \in Documents
  <2>1. d1 \in Documents
    BY <1>3 DEF OpenDocs, Docs
  <2>2. Append(d.added, r) \in Seq(Additions)
    BY <1>1, <1>6
  <2> QED
    BY <1>3, <2>1, <2>2 DEF Documents, Additions
<1>8. d2 \in OpenDocs
  BY <1>3, <1>7 DEF OpenDocs, Docs
<1>9. WordsShown(d2) = WordsShown(d)
  <2> HIDE DEF d2
  <2>1. WordsShown(d2) = WordsShown(d1)
    BY <1>7, WordsShownParts DEF OpenWords
  <2> QED
    BY <1>3, <2>1
<1>10. AddText(d, at, from, text, start) =
          IF text = NoText THEN d2 ELSE TakeAll(d2, text)
  BY DEF AddText, r, starts, d1
<1> HIDE DEF d2
<1>11. AddedWords(d2.added) = WordsShown(d) \o WordsOf(text)
  BY <1>1, <1>6, <1>7, AddedWordsAppend
<1>12. CASE text = NoText
  <2>1. WordsOf(text) = <<>>
    BY <1>12 DEF WordsOf
  <2>2. d2.objects \in Seq(Sections) /\ WordsShown(d2) \in Seq(Words)
    BY <1>8, WordsShownType
  <2>3. WordsShown(d) \o <<>> = WordsShown(d)
    BY <1>9, <2>2, ConcatEmptySeq
  <2> QED
    BY <1>8, <1>9, <1>10, <1>11, <1>12, <2>1, <2>3 DEF KeptDocs, OpenDocs
<1>13. CASE text # NoText
  <2> DEFINE e == TakeAll(d2, text)
  <2>1. e \in OpenDocs /\ e.added = d2.added
        /\ WordsShown(e) = WordsShown(d2) \o WordsOf(text)
    BY <1>4, <1>8, <1>13, TakeAllKeeps DEF Longer
  <2> HIDE DEF e
  <2>2. WordsShown(e) = AddedWords(e.added)
    BY <1>9, <1>11, <2>1
  <2>3. e \in KeptDocs
    BY <2>1, <2>2 DEF KeptDocs, OpenDocs
  <2> QED
    BY <1>10, <1>13, <2>3 DEF e
<1> QED
  BY <1>12, <1>13

CallSet == [text : Texts \cup {NoText}, part : {"text", "tail"},
            start : BOOLEAN]

(* done[i] is the document after i calls.                                  *)
Do(id, at, v, c) == AddText(v, at, <<id, c.part>>, c.text, c.start)

LEMMA PerformedSteps ==
    ASSUME doc \in KeptDocs, NEW id \in Nat, NEW calls \in Seq(CallSet),
           NEW at \in Positions
    PROVE  \E done \in [0..Len(calls) -> KeptDocs] :
              /\ done[0] = doc
              /\ \A i \in 1..Len(calls) :
                    done[i] = Do(id, at, done[i - 1], calls[i])
              /\ Performed(id, calls, at) = done[Len(calls)]
<1> DEFINE V == KeptDocs
           n == Len(calls)
           step == [i \in 1..n |-> [v \in V |-> Do(id, at, v, calls[i])]]
           Def(F) == [i \in 0..n |->
                         IF i = 0 THEN doc ELSE Do(id, at, F[i - 1], calls[i])]
           G == CHOOSE F : F = Def(F)
<1>1. n \in Nat /\ \A i \in 1..n : calls[i] \in CallSet
  OBVIOUS
<1>2. \A v \in V, c \in CallSet : Do(id, at, v, c) \in V
  <2> TAKE v \in V, c \in CallSet
  <2>1. /\ <<id, c.part>> \in Places /\ c.text \in Texts \cup {NoText}
        /\ c.start \in BOOLEAN
    BY DEF CallSet, Places
  <2> QED
    BY <2>1, AddTextKeeps DEF Do
<1>3. Performed(id, calls, at) = G[n]
  BY DEF Performed, Do
<1> HIDE DEF n
<1>4. step \in [1..n -> [V -> V]]
  <2> HIDE DEF V
  <2> QED
    BY <1>1, <1>2
<1>5. PICK g \in [0..n -> V] : Iterates(g, n, doc, step)
  <2> HIDE DEF V, step
  <2> QED
    BY <1>1, <1>4, IteratesExist DEF V
<1>6. ASSUME NEW i \in 1..n
      PROVE  g[i] = Do(id, at, g[i - 1], calls[i])
  <2>1. i - 1 \in 0..n
    BY <1>1
  <2> HIDE DEF V
  <2>2. g[i - 1] \in V /\ g[i] = step[i][g[i - 1]]
    BY <1>5, <2>1 DEF Iterates
  <2> QED
    BY <2>2
<1>7. g[0] = doc /\ DOMAIN g = 0..n
  BY <1>5 DEF Iterates
<1>8. g = Def(g)
  <2>1. \A i \in 0..n : i # 0 => i \in 1..n
    BY <1>1
  <2> HIDE DEF V
  <2> QED
    BY <1>5, <1>6, <1>7, <2>1
<1>9. G = Def(G)
  <2> HIDE DEF Def
  <2> QED
    BY <1>8
<1> HIDE DEF G
<1>10. /\ Def(G)[0] = doc /\ Def(G) = [i \in 0..n |-> Def(G)[i]]
       /\ \A i \in 1..n : Def(G)[i] = Do(id, at, G[i - 1], calls[i])
  BY <1>1
<1> HIDE DEF Def
<1>11. /\ G[0] = doc /\ G = [i \in 0..n |-> G[i]]
       /\ \A i \in 1..n : G[i] = Do(id, at, G[i - 1], calls[i])
  BY <1>9, <1>10
<1> DEFINE Good == {i \in 0..n : G[i] \in V}
<1>12. 0 \in Good
  BY <1>1, <1>11
<1>13. ASSUME NEW i \in 1..n, i - 1 \in Good PROVE i \in Good
  <2>1. i \in 0..n /\ G[i - 1] \in V /\ calls[i] \in CallSet
    BY <1>1, <1>13
  <2> HIDE DEF V
  <2> QED
    BY <1>2, <1>11, <2>1
<1>14. \A i \in 0..n : i \in Good
  <2> HIDE DEF Good
  <2> QED
    BY <1>1, <1>12, <1>13, IntervalInduction
<1>15. G \in [0..n -> V]
  <2> HIDE DEF V
  <2> QED
    BY <1>11, <1>14
<1> HIDE DEF n
<1> QED
  BY <1>3, <1>11, <1>15 DEF n

LEMMA PerformedKeeps ==
    ASSUME doc \in KeptDocs, NEW id \in Nat, NEW calls \in Seq(CallSet),
           NEW at \in Positions
    PROVE  Performed(id, calls, at) \in KeptDocs
<1>1. Len(calls) \in 0..Len(calls)
  OBVIOUS
<1> QED
  BY <1>1, PerformedSteps


LEMMA CallsType ==
    ASSUME NEW e \in Elements
    PROVE  Calls(e) \in Seq(CallSet) /\ CallsAfter(e) \in Seq(CallSet)
<1>1. {e.text, e.tail} \subseteq Texts
  BY TaggerConstants
<1>2. \A start \in BOOLEAN :
         /\ Call(e, "text", start) \in CallSet
         /\ Call(e, "tail", start) \in CallSet
  BY <1>1 DEF Call, CallSet
<1>3. \A start \in BOOLEAN : TailCall(e, start) \in Seq(CallSet)
  <2> HIDE DEF Call
  <2> QED
    BY <1>2 DEF TailCall
<1>4. \A start \in BOOLEAN : <<Call(e, "text", start)>> \in Seq(CallSet)
  BY <1>2
<1>5. /\ <<Call(e, "tail", FALSE)>> \in Seq(CallSet)
      /\ <<Call(e, "text", TRUE), Call(e, "tail", TRUE)>> \in Seq(CallSet)
  <2>1. \A a, b \in CallSet :
           <<a>> \in Seq(CallSet) /\ <<a, b>> \in Seq(CallSet)
    OBVIOUS
  <2>2. /\ Call(e, "tail", FALSE) \in CallSet
        /\ Call(e, "text", TRUE) \in CallSet
        /\ Call(e, "tail", TRUE) \in CallSet
    BY <1>2
  <2> QED
    BY <2>1, <2>2
<1>6. \A start \in BOOLEAN :
         <<Call(e, "text", start)>> \o TailCall(e, start) \in Seq(CallSet)
  BY <1>3, <1>4, ConcatProperties
<1>7. (e.unit \notin LineUnits) \in BOOLEAN /\ <<>> \in Seq(CallSet)
  OBVIOUS
<1>8. Calls(e) \in Seq(CallSet)
  <2> HIDE DEF Call, TailCall
  <2> QED
    BY <1>3, <1>4, <1>5, <1>6, <1>7, Zenon DEF Calls
<1>9. CallsAfter(e) \in Seq(CallSet)
  BY <1>3, <1>7 DEF CallsAfter
<1> QED
  BY <1>8, <1>9

LEMMA ForcedKeeps ==
    ASSUME NEW d \in KeptDocs, NEW e \in Elements
    PROVE  [d EXCEPT !.force = Forced(e, @)] \in KeptDocs
<1> DEFINE d1 == [d EXCEPT !.force = Forced(e, @)]
<1>1. d \in Docs /\ d \in Documents /\ d.force \in BOOLEAN
  BY DEF KeptDocs, Docs, Documents
<1>2. Forced(e, d.force) \in BOOLEAN
  <2>1. (e.tag = "div" \/ e.unit \notin LineUnits) \in BOOLEAN
    OBVIOUS
  <2> QED
    BY <1>1, <2>1 DEF Forced
<1>3. /\ d1 \in Documents /\ d1.objects = d.objects /\ d1.section = d.section
      /\ d1.sentence = d.sentence /\ d1.added = d.added
  BY <1>1, <1>2 DEF Documents
<1> HIDE DEF d1
<1>4. WordsShown(d1) = WordsShown(d)
  BY <1>3, WordsShownParts DEF OpenWords
<1>5. d1 \in KeptDocs
  BY <1>1, <1>3, <1>4 DEF KeptDocs, Docs
<1> QED
  BY <1>5 DEF d1

LEMMA MovedType ==
    ASSUME NEW e \in Elements, NEW at \in Positions
    PROVE  Moved(e, at) \in Positions
<1>1. e.n \in Nat \cup {None}
  BY TaggerConstants
<1>2. \A f \in Fields : at[f] \in Nat \cup {None}
  BY DEF Positions
<1>3. \A unit \in Fields, n \in Nat \cup {None} :
         /\ [at EXCEPT ![unit] = n] \in Positions
         /\ [at EXCEPT ![unit] = n, !["line"] = None] \in Positions
  BY DEF Positions
<1>4. [f \in Fields |-> IF f = e.unit THEN e.n
                       ELSE IF f = "page" THEN at[f] ELSE None] \in Positions
  BY <1>1, <1>2 DEF Positions
<1>5. "line" \in Fields
  BY DEF Fields
<1> QED
  BY <1>1, <1>3, <1>4, <1>5 DEF Moved

-----------------------------------------------------------------------------
(* The walk                                                                *)

(* The document is kept whole, and when the text is tagged nothing of it   *)
(* is left open.                                                           *)
TaggerInv ==
    /\ TaggerTypeOK
    /\ doc \in KeptDocs
    /\ status = "tagged" => doc.section = None /\ doc.sentence = None

LEMMA PushType ==
    ASSUME stack \in Seq(Frames), Len(stack) < MaxDepth,
           visited' \in Seq(Elements), NEW e \in Elements,
           NEW isHeader \in BOOLEAN, Push(e, isHeader)
    PROVE  stack' \in Seq(Frames) /\ Len(stack') <= MaxDepth
<1> DEFINE f == [id |-> Len(visited'), e |-> e, header |-> isHeader]
<1>1. Len(visited') \in Nat
  OBVIOUS
<1>2. f \in Frames
  BY <1>1 DEF Frames
<1>3. stack' = <<f>> \o stack
  BY DEF Push
<1> HIDE DEF f
<1>4. <<f>> \in Seq(Frames) /\ Len(<<f>>) = 1
  BY <1>2
<1>5. stack' \in Seq(Frames) /\ Len(stack') = 1 + Len(stack)
  BY <1>3, <1>4, ConcatProperties
<1>6. MaxDepth \in Nat /\ Len(stack) \in Nat
  BY TaggerConstants
<1> QED
  BY <1>5, <1>6

LEMMA VisitKeeps ==
    ASSUME TaggerInv, NEW e \in Elements, Visit(e)
    PROVE  TaggerInv'
<1> USE DEF TaggerInv, TaggerTypeOK
<1>1. /\ status = "walk" /\ stack # <<>> /\ Len(stack) < MaxDepth
      /\ Len(visited) < MaxElements /\ visited' = Append(visited, e)
  BY DEF Visit, MayEnter
<1>2. /\ visited' \in Seq(Elements) /\ Len(visited') <= MaxElements
      /\ Len(visited) + 1 \in Nat
  <2>1. /\ MaxElements \in Nat /\ Len(visited) \in Nat
        /\ Len(visited') = Len(visited) + 1
    BY <1>1, TaggerConstants
  <2> QED
    BY <1>1, <2>1
<1> DEFINE id == Len(visited) + 1
           at == Moved(e, position)
           places == {<<id, "text">>, <<id, "tail">>}
<1>3. at \in Positions /\ places \subseteq Places
  BY <1>2, MovedType DEF Places
<1>4. CASE e.tag = "unknown" \/ ~KnownUnit(e)
  BY <1>1, <1>2, <1>4 DEF Visit, Fail
<1>5. CASE ~(e.tag = "unknown" \/ ~KnownUnit(e)) /\ e.tag \in TagsToIgnore
  BY <1>1, <1>2, <1>5 DEF Visit
<1>6. CASE ~(e.tag = "unknown" \/ ~KnownUnit(e)) /\ e.tag \notin TagsToIgnore
  <2> DEFINE d == Performed(id, Calls(e), at)
  <2>1. /\ position' = at /\ header' = header /\ status' = status
        /\ doc' = [d EXCEPT !.force = Forced(e, @)]
        /\ \/ /\ source' = source \o <<<<id, "text">>, <<id, "tail">>>>
              /\ stack' = stack
           \/ /\ source' = Append(source, <<id, "text">>)
              /\ Push(e, e.tag = "teiHeader")
    BY <1>6 DEF Visit
  <2>2. Calls(e) \in Seq(CallSet)
    BY CallsType
  <2>3. d \in KeptDocs
    <3> HIDE DEF at, id
    <3>1. id \in Nat
      BY <1>2 DEF id
    <3> QED
      BY <1>3, <2>2, <3>1, PerformedKeeps
  <2> HIDE DEF d, id, at
  <2>4. doc' \in KeptDocs
    BY <2>1, <2>3, ForcedKeeps
  <2>5. source' \in Seq(Places)
    <3>1. <<id, "text">> \in Places /\ <<id, "tail">> \in Places
      BY <1>3
    <3>2. /\ source \in Seq(Places)
          /\ \A a, b \in Places : /\ Append(source, a) \in Seq(Places)
                                 /\ source \o <<a, b>> \in Seq(Places)
      <4>1. \A a, b \in Places : <<a, b>> \in Seq(Places)
        OBVIOUS
      <4> QED
        BY <4>1, ConcatProperties
    <3> QED
      BY <2>1, <3>1, <3>2
  <2>6. stack' \in Seq(Frames) /\ Len(stack') <= MaxDepth
    BY <1>1, <1>2, <2>1, PushType
  <2>7. doc' \in Documents
    BY <2>4 DEF KeptDocs, Docs
  <2> QED
    BY <1>1, <1>2, <1>3, <2>1, <2>4, <2>5, <2>6, <2>7
<1> QED
  BY <1>4, <1>5, <1>6

LEMMA VisitHeaderKeeps ==
    ASSUME TaggerInv, NEW e \in Elements, VisitHeader(e)
    PROVE  TaggerInv'
<1> USE DEF TaggerInv, TaggerTypeOK
<1>1. /\ status = "walk" /\ Len(stack) < MaxDepth
      /\ Len(visited) < MaxElements /\ visited' = Append(visited, e)
  BY DEF VisitHeader, MayEnter
<1>2. visited' \in Seq(Elements) /\ Len(visited') <= MaxElements
  <2>1. /\ MaxElements \in Nat /\ Len(visited) \in Nat
        /\ Len(visited') = Len(visited) + 1
    BY <1>1, TaggerConstants
  <2> QED
    BY <1>1, <2>1
<1>3. e.text \in Texts
  BY TaggerConstants
<1>4. CASE e.tag \in {"title", "author", "titleStmt"}
  <2>1. Push(e, TRUE) /\ UNCHANGED <<position, doc, status, source>>
    BY <1>4 DEF VisitHeader
  <2>2. header' \in [{"title", "author"} -> Texts \cup {None}]
    <3>1. header' = IF e.tag = "titleStmt" THEN header
                    ELSE [header EXCEPT ![e.tag] =
                        IF @ = None /\ e.text # NoText THEN e.text ELSE @]
      BY <1>4 DEF VisitHeader
    <3> QED
      BY <1>3, <1>4, <3>1
  <2>3. stack' \in Seq(Frames) /\ Len(stack') <= MaxDepth
    BY <1>1, <1>2, <2>1, PushType
  <2> QED
    BY <1>1, <1>2, <2>1, <2>2, <2>3
<1>5. CASE e.tag \notin {"title", "author", "titleStmt"}
  BY <1>1, <1>2, <1>5 DEF VisitHeader, Fail
<1> QED
  BY <1>4, <1>5

LEMMA FrameCalls ==
    ASSUME stack \in Seq(Frames), stack # <<>>
    PROVE  /\ Head(stack) \in Frames /\ Head(stack).id \in Nat
           /\ CallsAfter(Head(stack).e) \in Seq(CallSet)
<1> DEFINE f == Head(stack)
<1>1. f \in Frames
  BY HeadTailProperties
<1> HIDE DEF f
<1>2. f.id \in Nat /\ f.e \in Elements \cup {Root}
  BY <1>1 DEF Frames
<1>3. CallsAfter(f.e) \in Seq(CallSet)
  <2>1. CASE f.e \in Elements
    BY <2>1, CallsType
  <2>2. CASE f.e = Root
    <3>1. f.e.tag = "TEI.2"
      BY <2>2 DEF Root
    <3> QED
      BY <3>1 DEF CallsAfter
  <2> QED
    BY <1>2, <2>1, <2>2
<1> QED
  BY <1>1, <1>2, <1>3 DEF f

LEMMA LeaveKeeps ==
    ASSUME TaggerInv, Leave
    PROVE  TaggerInv'
<1> USE DEF TaggerInv, TaggerTypeOK
<1> DEFINE f == Head(stack)
<1>1. /\ status = "walk" /\ stack # <<>> /\ stack' = Tail(stack)
      /\ status' \in {"walk", "walked"}
      /\ position' = position /\ header' = header /\ visited' = visited
      /\ \/ source' = source /\ doc' = doc
         \/ /\ source' = Append(source, <<f.id, "tail">>)
            /\ doc' = Performed(f.id, CallsAfter(f.e), position)
  BY DEF Leave
<1>2. /\ f \in Frames /\ stack' \in Seq(Frames) /\ Len(stack') <= MaxDepth
  BY <1>1, TaggerConstants, HeadTailProperties
<1>3. f.id \in Nat /\ CallsAfter(f.e) \in Seq(CallSet)
  BY <1>1, FrameCalls
<1> HIDE DEF f
<1>5. Performed(f.id, CallsAfter(f.e), position) \in KeptDocs
  BY <1>3, PerformedKeeps
<1>6. doc' \in KeptDocs /\ source' \in Seq(Places)
  <2>1. <<f.id, "tail">> \in Places
    BY <1>3 DEF Places
  <2>2. Append(source, <<f.id, "tail">>) \in Seq(Places)
    BY <2>1
  <2> QED
    BY <1>1, <1>5, <2>2
<1>7. doc' \in Documents
  BY <1>6 DEF KeptDocs, Docs
<1> QED
  BY <1>1, <1>2, <1>6, <1>7

LEMMA FinishTaggingKeeps ==
    ASSUME TaggerInv, FinishTagging
    PROVE  TaggerInv'
<1> USE DEF TaggerInv, TaggerTypeOK
<1>1. /\ doc \in Docs /\ WordsShown(doc) = AddedWords(doc.added)
  BY DEF KeptDocs
<1>2. /\ doc' = Closed(doc, TRUE) /\ status' = "tagged"
      /\ UNCHANGED <<stack, position, header, visited, source>>
  BY DEF FinishTagging
<1>3. /\ doc' \in Docs /\ doc'.added = doc.added
      /\ doc'.section = None /\ doc'.sentence = None
      /\ WordsShown(doc') = WordsShown(doc)
  BY <1>1, <1>2, ClosedKeeps
<1>4. doc' \in KeptDocs /\ doc' \in Documents
  BY <1>1, <1>3 DEF KeptDocs, Docs
<1> QED
  BY <1>2, <1>3, <1>4

LEMMA NoWords == ClosedWords(<<>>) = <<>> /\ AddedWords(<<>>) = <<>>
<1>1. ASSUME NEW s, s = <<>>
      PROVE  /\ [i \in DOMAIN s |-> WordsIn(s[i])] = <<>>
             /\ [i \in DOMAIN s |-> s[i].words] = <<>>
  BY <1>1
<1>2. ClosedWords(<<>>) = <<>>
  BY <1>1, FlattenEmpty DEF ClosedWords
<1>3. AddedWords(<<>>) = <<>>
  BY <1>1, FlattenEmpty DEF AddedWords
<1> QED
  BY <1>2, <1>3

LEMMA TaggerInitInv ==
    ASSUME TaggerInit
    PROVE  TaggerInv
<1> USE DEF TaggerInit
<1>1. stack \in Seq(Frames) /\ Len(stack) <= MaxDepth
  <2>1. [id |-> 0, e |-> Root, header |-> FALSE] \in Frames
    BY DEF Frames
  <2> QED
    BY <2>1, TaggerConstants
<1>2. /\ doc.objects = <<>> /\ doc.section = None /\ doc.sentence = None
      /\ doc.added = <<>> /\ doc \in Documents
  BY DEF Documents
<1>3. WordsShown(doc) = AddedWords(doc.added)
  <2>1. WordsIn(doc.section) = <<>> /\ OpenWords(doc) = <<>>
    BY <1>2 DEF WordsIn, OpenWords
  <2>2. <<>> \o (<<>> \o <<>>) = <<>>
    OBVIOUS
  <2>3. WordsShown(doc) = <<>>
    BY <1>2, <2>1, <2>2, NoWords, WordsShownParts
  <2> QED
    BY <1>2, <2>3, NoWords
<1>4. doc \in KeptDocs
  BY <1>2, <1>3 DEF KeptDocs, Docs
<1>5. position \in Positions /\ visited = <<>> /\ source = <<>>
      /\ header \in [{"title", "author"} -> Texts \cup {None}]
      /\ status = "walk" /\ MaxElements \in Nat
  BY TaggerConstants DEF Positions
<1> QED
  BY <1>1, <1>2, <1>4, <1>5 DEF TaggerInv, TaggerTypeOK

LEMMA TaggerStep ==
    ASSUME TaggerInv, [TaggerNext]_taggerVars
    PROVE  TaggerInv'
<1>1. CASE TaggerNext
  BY <1>1, VisitKeeps, VisitHeaderKeeps, LeaveKeeps, FinishTaggingKeeps
     DEF TaggerNext
<1>2. CASE UNCHANGED taggerVars
  BY <1>2 DEF taggerVars, TaggerInv, TaggerTypeOK
<1> QED
  BY <1>1, <1>2

(* Of the words that addText was given none is lost, doubled or moved, and *)
(* when the text is tagged no sentence and no section is left open: for    *)
(* every document, however deep.                                           *)
THEOREM NoWordLost == Spec => []WordsKept
<1>1. Init => TaggerInv
  BY TaggerInitInv DEF Init
<1>2. TaggerInv /\ [Next]_vars => TaggerInv'
  BY TaggerStep DEF Next, Tag, Analyse, vars
<1>3. TaggerInv => WordsKept
  <2> SUFFICES ASSUME TaggerInv PROVE WordsKept
    OBVIOUS
  <2>1. doc \in Docs /\ WordsShown(doc) = AddedWords(doc.added)
    BY DEF TaggerInv, KeptDocs
  <2>2. WordsShown(doc) = WordsAdded(doc)
    BY <2>1 DEF WordsAdded, AddedWords
  <2>3. SentenceInSection
    BY <2>1 DEF Docs, SentenceInSection
  <2> QED
    BY <2>2, <2>3 DEF WordsKept, TaggerInv
<1> QED
  BY <1>1, <1>2, <1>3, PTL DEF Spec

-----------------------------------------------------------------------------
(* The document as it is printed                                           *)

LEMMA SectionItemsType ==
    ASSUME NEW p \in Sections
    PROVE  SectionItems(p) \in Seq(Items)
<1>1. /\ p.at \in Positions /\ p.sentences \in Seq(Sentences)
      /\ Words \subseteq Items
  BY DEF Sections, Items
<1>2. \A x \in Items : <<x>> \in Seq(Items)
  OBVIOUS
<1>3. ASSUME NEW s \in Sentences
      PROVE  SentenceItems(s) \in Seq(Items)
  <2>1. [tag |-> "<s>"] \in Items /\ [tag |-> "</s>"] \in Items
    BY DEF Items
  <2>2. s \in Seq(Items)
    BY <1>1 DEF Sentences
  <2>3. <<[tag |-> "<s>"]>> \o s \in Seq(Items)
    BY <1>2, <2>1, <2>2, ConcatProperties
  <2> QED
    BY <1>2, <2>1, <2>3, ConcatProperties DEF SentenceItems
<1> DEFINE inner == [i \in DOMAIN p.sentences |->
                        SentenceItems(p.sentences[i])]
<1>4. inner \in Seq(Seq(Items))
  <2>1. /\ DOMAIN p.sentences = 1..Len(p.sentences)
        /\ Len(p.sentences) \in Nat
        /\ \A i \in 1..Len(p.sentences) : p.sentences[i] \in Sentences
    BY <1>1
  <2>2. inner \in [1..Len(p.sentences) -> Seq(Items)]
    BY <1>3, <2>1
  <2> QED
    BY <2>1, <2>2
<1> HIDE DEF inner
<1>5. FlattenSeq(inner) \in Seq(Items)
  BY <1>4, FlattenType
<1>6. [tag |-> "<p>", at |-> p.at] \in Items /\ [tag |-> "</p>"] \in Items
  BY <1>1 DEF Items
<1>7. <<[tag |-> "<p>", at |-> p.at]>> \o FlattenSeq(inner) \in Seq(Items)
  BY <1>2, <1>5, <1>6, ConcatProperties
<1>8. SectionItems(p) =
        (<<[tag |-> "<p>", at |-> p.at]>> \o FlattenSeq(inner))
        \o <<[tag |-> "</p>"]>>
  BY DEF SectionItems, inner
<1> QED
  BY <1>2, <1>6, <1>7, <1>8, ConcatProperties

LEMMA DocumentItemsType ==
    ASSUME NEW objects \in Seq(Sections),
           header \in [{"title", "author"} -> Texts \cup {None}]
    PROVE  DocumentItems(objects) \in Seq(Items)
<1> DEFINE first == [tag |-> "<doc>", title |-> Title,
                     author |-> header.author]
           last == [tag |-> "</doc>"]
           inner == [i \in DOMAIN objects |-> SectionItems(objects[i])]
<1>1. \A x \in Items : <<x>> \in Seq(Items)
  OBVIOUS
<1>2. first \in Items /\ last \in Items
  <2>1. {header.title, header.author} \subseteq Texts \cup {None}
    OBVIOUS
  <2>2. Title \in Texts \cup {FileName}
    BY <2>1 DEF Title
  <2> QED
    BY <2>1, <2>2 DEF Items
<1>3. inner \in Seq(Seq(Items))
  <2>1. /\ DOMAIN objects = 1..Len(objects) /\ Len(objects) \in Nat
        /\ \A i \in 1..Len(objects) : objects[i] \in Sections
    OBVIOUS
  <2>2. inner \in [1..Len(objects) -> Seq(Items)]
    BY <2>1, SectionItemsType
  <2> QED
    BY <2>1, <2>2
<1>4. DocumentItems(objects) = (<<first>> \o FlattenSeq(inner)) \o <<last>>
  BY DEF DocumentItems
<1> HIDE DEF first, last, inner
<1>5. FlattenSeq(inner) \in Seq(Items)
  BY <1>3, FlattenType
<1>6. <<first>> \o FlattenSeq(inner) \in Seq(Items)
  BY <1>1, <1>2, <1>5, ConcatProperties
<1> QED
  BY <1>1, <1>2, <1>4, <1>6, ConcatProperties

(* Nothing is printed before the whole text is tagged.                     *)
GatherInv ==
    /\ TaggerInv
    /\ items \in Seq(Items)
    /\ status # "tagged" => items = <<>> /\ rows = <<>> /\ pc = "print"

LEMMA TagKeepsGather ==
    ASSUME GatherInv, Tag
    PROVE  GatherInv' /\ rows = <<>> /\ pc = "print"
<1>1. TaggerInv /\ TaggerNext
  BY DEF GatherInv, Tag
<1>2. TaggerInv'
  BY <1>1, TaggerStep
<1>3. status # "tagged"
  BY <1>1 DEF TaggerNext, Visit, VisitHeader, MayEnter, Leave, FinishTagging
<1>4. rows = <<>> /\ pc = "print"
  BY <1>3 DEF GatherInv
<1>5. items' \in Seq(Items)
  <2>1. header \in [{"title", "author"} -> Texts \cup {None}]
    BY <1>1 DEF TaggerInv, TaggerTypeOK
  <2>2. doc'.objects \in Seq(Sections)
    BY <1>2 DEF TaggerInv, TaggerTypeOK, Documents
  <2>3. DocumentItems(doc'.objects) \in Seq(Items)
    BY <2>1, <2>2, DocumentItemsType
  <2>4. <<>> \in Seq(Items)
    OBVIOUS
  <2> QED
    BY <2>3, <2>4 DEF Tag
<1>6. status' # "tagged" => items' = <<>> /\ rows' = <<>> /\ pc' = "print"
  BY <1>4 DEF Tag
<1> QED
  BY <1>2, <1>4, <1>5, <1>6 DEF GatherInv

-----------------------------------------------------------------------------
(* The rows                                                                *)

Output == Items \cup [word : Words, analysis : Answers \cup {Manual, Error}]

(* A row with an answer shows what the cache holds.                        *)
AnsweredRow(i) ==
    /\ cache[items[i]] # None
    /\ rows[i] = Analysis!Row(items[i], cache[items[i]])

RowsInv ==
    /\ rows \in Seq(Output) /\ Len(rows) <= Len(items)
    /\ \A i \in 1..Len(rows) :
          items[i] \in Words /\ rows[i].analysis # Error => AnsweredRow(i)
    /\ AnswerKept

(* An object without fields is one whose word is in the cache.             *)
QueryInv ==
    /\ Analysis!PerseusTypeOK
    /\ pc # "print" => Analysis!More /\ Analysis!NextItem \in Words
    /\ pc \in {"ask", "retry"} => cache[Analysis!NextItem] = None
    /\ pc = "made" => (fields = None <=> cache[Analysis!NextItem] # None)

Inv == GatherInv /\ RowsInv /\ QueryInv

LEMMA RowAdded ==
    ASSUME RowsInv, items \in Seq(Items), items' = items, Analysis!More,
           NEW r \in Output, rows' = Append(rows, r),
           \A w \in Words : cache[w] # None => cache'[w] = cache[w],
           Analysis!NextItem \in Words =>
              LET w == Analysis!NextItem IN
              /\ cache[w] # None => r = Analysis!Row(w, cache[w])
              /\ r.analysis # Error =>
                    cache'[w] # None /\ r = Analysis!Row(w, cache'[w])
    PROVE  RowsInv'
<1> DEFINE n == Len(rows)
           w == items[n + 1]
<1>1. n \in Nat /\ Len(items) \in Nat /\ n < Len(items)
      /\ Analysis!NextItem = w
  BY DEF RowsInv, Analysis!More, Analysis!NextItem
<1>2. /\ rows' \in Seq(Output) /\ Len(rows') = n + 1 /\ rows'[n + 1] = r
      /\ \A i \in 1..n : rows'[i] = rows[i]
      /\ DOMAIN rows' = 1..(n + 1) /\ DOMAIN rows = 1..n
  <2>1. rows \in Seq(Output)
    BY DEF RowsInv
  <2> QED
    BY <2>1, AppendProperties
<1>3. \A i \in 1..(n + 1) : i = n + 1 \/ i \in 1..n
  BY <1>1
<1>4. w \in Words =>
         /\ cache[w] # None => r = Analysis!Row(w, cache[w])
         /\ r.analysis # Error =>
               cache'[w] # None /\ r = Analysis!Row(w, cache'[w])
  BY <1>1
<1>5. \A i \in 1..n :
         items[i] \in Words /\ rows[i].analysis # Error =>
            /\ cache[items[i]] # None
            /\ rows[i] = Analysis!Row(items[i], cache[items[i]])
  BY DEF RowsInv, AnsweredRow
<1> HIDE DEF n, w
<1>6. ASSUME NEW i \in 1..(n + 1), items[i] \in Words,
             rows'[i].analysis # Error
      PROVE  /\ cache'[items[i]] # None
             /\ rows'[i] = Analysis!Row(items[i], cache'[items[i]])
  <2>1. CASE i = n + 1
    BY <1>2, <1>4, <1>6, <2>1 DEF w
  <2>2. CASE i \in 1..n
    BY <1>2, <1>5, <1>6, <2>2
  <2> QED
    BY <1>3, <2>1, <2>2
<1>7. ASSUME NEW i \in 1..(n + 1), NEW j \in 1..(n + 1), i < j,
             items[i] \in Words, items[i] = items[j],
             rows'[i].analysis # Error
      PROVE  rows'[j] = rows'[i]
  <2>1. i \in 1..n
    BY <1>1, <1>7
  <2>2. rows'[i] = rows[i]
    BY <1>2, <2>1
  <2>3. CASE j = n + 1
    <3>1. items[i] = w
      BY <1>7, <2>3 DEF w
    <3>2. cache[w] # None /\ rows[i] = Analysis!Row(w, cache[w])
      BY <1>5, <1>7, <2>1, <2>2, <3>1
    <3>3. r = Analysis!Row(w, cache[w])
      BY <1>4, <1>7, <3>1, <3>2
    <3> QED
      BY <1>2, <2>2, <2>3, <3>2, <3>3
  <2>4. CASE j \in 1..n
    <3>1. rows[j] = rows[i]
      BY <1>2, <1>7, <2>1, <2>2, <2>4
         DEF RowsInv, AnswerKept, Analysis!AnswerKept
    <3> QED
      BY <1>2, <2>2, <2>4, <3>1
  <2> QED
    BY <1>3, <2>3, <2>4
<1>8. Len(rows') <= Len(items')
  BY <1>1, <1>2
<1>9. AnswerKept'
  BY <1>2, <1>7 DEF AnswerKept, Analysis!AnswerKept
<1> QED
  BY <1>2, <1>6, <1>8, <1>9 DEF RowsInv, AnsweredRow

ErrorLines == Words \X {"no pos", "no lemma", "unknown"}

LEMMA LacksType ==
    ASSUME NEW w \in Words, NEW a \in Answers
    PROVE  Analysis!Lacks(w, a) \in Seq(ErrorLines)
<1>1. <<w, "no pos">> \in ErrorLines /\ <<w, "no lemma">> \in ErrorLines
  BY DEF ErrorLines
<1>2. \A x \in ErrorLines : <<x>> \in Seq(ErrorLines)
  OBVIOUS
<1>3. <<>> \in Seq(ErrorLines)
  OBVIOUS
<1>4. /\ (IF a.pos THEN <<>> ELSE <<<<w, "no pos">>>>) \in Seq(ErrorLines)
      /\ (IF a.lemma THEN <<>> ELSE <<<<w, "no lemma">>>>) \in Seq(ErrorLines)
  BY <1>1, <1>2, <1>3
<1> QED
  BY <1>3, <1>4, ConcatProperties DEF Analysis!Lacks

LEMMA AnalysisStep ==
    ASSUME Inv, Analysis!PerseusNext
    PROVE  RowsInv' /\ QueryInv'
<1> DEFINE w == Analysis!NextItem
<1>1. /\ RowsInv /\ items \in Seq(Items) /\ items' = items
      /\ rows \in Seq(Output) /\ AnswerKept
  BY DEF Inv, GatherInv, RowsInv, Analysis!PerseusNext
<1>2. /\ pc \in {"print", "ask", "retry", "made"}
      /\ fields \in Answers \cup {None}
      /\ cache \in [Words -> Answers \cup {Manual, None}]
      /\ Len(rows) <= Len(items) /\ errors \in Seq(ErrorLines)
      /\ pc # "print" => Analysis!More /\ w \in Words
      /\ pc \in {"ask", "retry"} => cache[w] = None
      /\ pc = "made" => (fields = None <=> cache[w] # None)
  BY DEF Inv, QueryInv, Analysis!PerseusTypeOK, ErrorLines
<1>3. Analysis!More => w \in Items
  <2>1. Len(rows) \in Nat /\ Len(items) \in Nat
    BY <1>1
  <2> QED
    BY <1>1, <2>1 DEF Analysis!More, Analysis!NextItem
<1>4. /\ None \notin Answers /\ None # Manual
      /\ Error \notin Answers /\ Error # Manual
  BY PerseusConstants
<1>5. ASSUME NEW v \in Words, NEW a \in Answers \cup {Manual, Error}
      PROVE  /\ Analysis!Row(v, a) \in Output
             /\ Analysis!Row(v, a).analysis = a
  BY DEF Analysis!Row, Output
(* A step that prints nothing.                                             *)
<1>6. ASSUME rows' = rows, cache' = cache
      PROVE  /\ RowsInv'
             /\ w' = w /\ (Analysis!More' <=> Analysis!More)
             /\ Len(rows') <= Len(items')
  BY <1>1, <1>2, <1>6
     DEF RowsInv, AnsweredRow, AnswerKept, Analysis!AnswerKept,
         Analysis!NextItem, Analysis!More
(* A step that prints a row.                                               *)
<1>7. ASSUME pc' = "print", RowsInv', fields' = fields,
             cache' \in [Words -> Answers \cup {Manual, None}],
             errors' \in Seq(ErrorLines)
      PROVE  QueryInv'
  BY <1>2, <1>7 DEF QueryInv, RowsInv, Analysis!PerseusTypeOK, ErrorLines
<1>8. w \in Words => Append(errors, <<w, "unknown">>) \in Seq(ErrorLines)
  <2>1. w \in Words => <<w, "unknown">> \in ErrorLines
    BY DEF ErrorLines
  <2> QED
    BY <1>2, <2>1
<1> HIDE DEF w
<1>9. CASE Analysis!PrintTag
  <2>1. /\ Analysis!More /\ w \notin Words /\ rows' = Append(rows, w)
        /\ pc' = "print" /\ fields' = fields /\ cache' = cache
        /\ errors' = errors
    BY <1>9 DEF Analysis!PrintTag, w
  <2>2. w \in Output
    BY <1>3, <2>1 DEF Output
  <2>3. RowsInv'
    BY <1>1, <2>1, <2>2, RowAdded DEF w
  <2> QED
    BY <1>2, <1>7, <2>1, <2>3
<1>10. CASE Analysis!Construct
  <2>1. /\ Analysis!More /\ w \in Words /\ fields' = None /\ cache' = cache
        /\ rows' = rows /\ errors' = errors
        /\ pc' = IF cache[w] # None THEN "made" ELSE "ask"
    BY <1>10 DEF Analysis!Construct, w
  <2>2. /\ RowsInv' /\ w' = w /\ Analysis!More' /\ Len(rows') <= Len(items')
    BY <1>6, <2>1
  <2>3. Analysis!PerseusTypeOK'
    BY <1>2, <2>1, <2>2 DEF Analysis!PerseusTypeOK, ErrorLines
  <2> QED
    BY <2>1, <2>2, <2>3 DEF QueryInv, w
<1>11. ASSUME NEW a \in Answers, Analysis!Answered(a)
       PROVE  RowsInv' /\ QueryInv'
  <2>1. /\ pc \in {"ask", "retry"} /\ fields' = a /\ pc' = "made"
        /\ cache' = cache /\ rows' = rows
        /\ errors' = errors \o Analysis!Lacks(w, a)
    BY <1>11 DEF Analysis!Answered, w
  <2>2. w \in Words /\ cache[w] = None /\ Analysis!More
    BY <1>2, <2>1
  <2>3. /\ RowsInv' /\ w' = w /\ Analysis!More' /\ Len(rows') <= Len(items')
    BY <1>6, <2>1, <2>2
  <2>4. errors' \in Seq(ErrorLines)
    BY <1>2, <2>1, <2>2, LacksType, ConcatProperties
  <2>5. Analysis!PerseusTypeOK'
    BY <1>2, <2>1, <2>3, <2>4 DEF Analysis!PerseusTypeOK, ErrorLines
  <2>6. fields' # None
    BY <1>4, <2>1
  <2> QED
    BY <2>1, <2>2, <2>3, <2>5, <2>6 DEF QueryInv, w
<1>12. CASE Analysis!Failed
  <2>1. /\ pc \in {"ask", "retry"} /\ fields' = fields /\ cache' = cache
        /\ w \in Words /\ cache[w] = None /\ Analysis!More
    BY <1>2, <1>12 DEF Analysis!Failed
  <2>2. CASE pc = "retry"
    <3>1. /\ pc' = "print" /\ rows' = Append(rows, Analysis!Row(w, Error))
          /\ errors' = Append(errors, <<w, "unknown">>)
      BY <1>12, <2>2
         DEF Analysis!Failed, Analysis!GivesUp, Analysis!Logged, w
    <3>2. /\ Analysis!Row(w, Error) \in Output
          /\ Analysis!Row(w, Error).analysis = Error
      BY <1>5, <2>1
    <3>3. RowsInv'
      BY <1>1, <2>1, <3>1, <3>2, RowAdded DEF w
    <3> QED
      BY <1>2, <1>7, <1>8, <2>1, <3>1, <3>3
  <2>3. CASE pc # "retry"
    <3>1. pc' = "retry" /\ rows' = rows /\ errors' = errors
      BY <1>12, <2>3 DEF Analysis!Failed, Analysis!GivesUp
    <3>2. /\ RowsInv' /\ w' = w /\ Analysis!More' /\ Len(rows') <= Len(items')
      BY <1>6, <2>1, <3>1
    <3>3. Analysis!PerseusTypeOK'
      BY <1>2, <2>1, <3>1, <3>2 DEF Analysis!PerseusTypeOK, ErrorLines
    <3> QED
      BY <2>1, <3>1, <3>2, <3>3 DEF QueryInv, w
  <2> QED
    BY <2>2, <2>3
<1>13. CASE Analysis!Render
  <2>1. /\ pc = "made" /\ pc' = "print" /\ fields' = fields
        /\ w \in Words /\ Analysis!More /\ (fields = None <=> cache[w] # None)
    BY <1>2, <1>13 DEF Analysis!Render
  <2>2. CASE cache[w] # None
    <3>1. /\ rows' = Append(rows, Analysis!Row(w, cache[w]))
          /\ cache' = cache /\ errors' = errors
      BY <1>13, <2>2 DEF Analysis!Render, Analysis!FromCache, w
    <3>2. cache[w] \in Answers \cup {Manual}
      BY <1>2, <2>1, <2>2
    <3>3. Analysis!Row(w, cache[w]) \in Output
      BY <1>5, <2>1, <3>2
    <3>4. RowsInv'
      BY <1>1, <2>1, <2>2, <3>1, <3>3, RowAdded DEF w
    <3> QED
      BY <1>2, <1>7, <2>1, <3>1, <3>4
  <2>3. CASE cache[w] = None
    <3>1. fields \in Answers
      BY <1>2, <2>1, <2>3
    <3>2. /\ rows' = Append(rows, Analysis!Row(w, fields))
          /\ cache' = [cache EXCEPT ![w] = fields] /\ errors' = errors
      BY <1>4, <1>13, <2>3, <3>1
         DEF Analysis!Render, Analysis!FromCache, Analysis!Cached, w
    <3>3. /\ cache' \in [Words -> Answers \cup {Manual, None}]
          /\ cache'[w] = fields
          /\ \A v \in Words : cache[v] # None => cache'[v] = cache[v]
      BY <1>2, <2>1, <2>3, <3>1, <3>2
    <3>4. Analysis!Row(w, fields) \in Output /\ fields # None
      BY <1>4, <1>5, <2>1, <3>1
    <3>5. RowsInv'
      BY <1>1, <2>1, <2>3, <3>2, <3>3, <3>4, RowAdded DEF w
    <3> QED
      BY <1>2, <1>7, <2>1, <3>2, <3>3, <3>5
  <2> QED
    BY <2>2, <2>3
<1> QED
  BY <1>9, <1>10, <1>11, <1>12, <1>13 DEF Analysis!PerseusNext

LEMMA InvInit ==
    ASSUME Init
    PROVE  Inv
<1>1. TaggerInv
  BY TaggerInitInv DEF Init
<1>2. /\ items = <<>> /\ rows = <<>> /\ errors = <<>> /\ pc = "print"
      /\ fields = None
      /\ cache = [w \in Words |-> IF w \in Annotated THEN Manual ELSE None]
  BY DEF Init, Analysis!PerseusInit
<1>3. GatherInv
  BY <1>1, <1>2 DEF GatherInv
<1>4. RowsInv
  BY <1>2 DEF RowsInv, AnswerKept, Analysis!AnswerKept
<1>5. QueryInv
  BY <1>2 DEF QueryInv, Analysis!PerseusTypeOK
<1> QED
  BY <1>3, <1>4, <1>5 DEF Inv

(* The analysis waits for the text.                                        *)
LEMMA AnalyseKeepsGather ==
    ASSUME Inv, Analyse
    PROVE  GatherInv'
<1>1. /\ GatherInv /\ QueryInv /\ Analysis!PerseusNext /\ items' = items
      /\ UNCHANGED taggerVars
  BY DEF Inv, Analyse, Analysis!PerseusNext
<1>2. TaggerInv'
  BY <1>1, TaggerStep DEF GatherInv
<1>3. pc = "print" => Analysis!More
  BY <1>1 DEF Analysis!PerseusNext, Analysis!PrintTag, Analysis!Construct,
              Analysis!Answered, Analysis!Failed, Analysis!Render
<1>4. status = "tagged"
  <2>1. SUFFICES ASSUME status # "tagged" PROVE FALSE
    BY <1>1 DEF GatherInv, TaggerInv, TaggerTypeOK
  <2>2. items = <<>> /\ rows = <<>> /\ pc = "print"
    BY <1>1, <2>1 DEF GatherInv
  <2> QED
    BY <1>3, <2>2 DEF Analysis!More
<1>5. status' = "tagged"
  BY <1>1, <1>4 DEF taggerVars
<1> QED
  BY <1>1, <1>2, <1>5 DEF GatherInv

LEMMA InvStep ==
    ASSUME Inv, [Next]_vars
    PROVE  Inv'
<1>1. CASE Tag
  <2>1. GatherInv' /\ rows = <<>> /\ pc = "print"
    BY <1>1, TagKeepsGather DEF Inv
  <2>2. /\ rows' = <<>> /\ pc' = "print" /\ fields' = fields
        /\ cache' = cache /\ errors' = errors
    BY <1>1, <2>1 DEF Tag
  <2>3. RowsInv'
    <3>1. items' \in Seq(Items)
      BY <2>1 DEF GatherInv
    <3>2. Len(items') \in Nat
      BY <3>1
    <3> QED
      BY <2>2, <3>2 DEF RowsInv, AnswerKept, Analysis!AnswerKept
  <2>4. QueryInv'
    BY <2>2, <2>3 DEF Inv, QueryInv, RowsInv, Analysis!PerseusTypeOK
  <2> QED
    BY <2>1, <2>3, <2>4 DEF Inv
<1>2. CASE Analyse
  BY <1>2, AnalysisStep, AnalyseKeepsGather DEF Inv, Analyse
<1>3. CASE UNCHANGED vars
  <2>1. GatherInv'
    BY <1>3 DEF Inv, GatherInv, TaggerInv, TaggerTypeOK, vars, taggerVars,
                analysisVars
  <2>2. /\ items' = items /\ rows' = rows /\ cache' = cache
        /\ fields' = fields /\ errors' = errors /\ pc' = pc
    BY <1>3 DEF vars, analysisVars
  <2>3. RowsInv'
    BY <2>2 DEF Inv, RowsInv, AnsweredRow, AnswerKept, Analysis!AnswerKept
  <2>4. QueryInv'
    BY <2>2 DEF Inv, QueryInv, Analysis!PerseusTypeOK, Analysis!More,
                Analysis!NextItem
  <2> QED
    BY <2>1, <2>3, <2>4 DEF Inv
<1> QED
  BY <1>1, <1>2, <1>3 DEF Next

(* Types, for every tree and every answer of the site.                     *)
THEOREM TagPyTypes == Spec => []TypeOK
<1>1. Inv => TypeOK
  BY DEF Inv, GatherInv, QueryInv, TaggerInv, TypeOK
<1> QED
  BY <1>1, InvInit, InvStep, PTL DEF Spec

(* Once a word has a row with an answer, all its later rows are the same:  *)
(* the constructor that leaves the fields unset does so only for words of  *)
(* the cache.                                                              *)
THEOREM RowsAgree == Spec => []AnswerKept
<1>1. Inv => AnswerKept
  BY DEF Inv, RowsInv
<1> QED
  BY <1>1, InvInit, InvStep, PTL DEF Spec

-----------------------------------------------------------------------------
(* The refinement                                                          *)

Known == [w \in Words |-> {cache[w]} \ {None}]

LEMMA RenderRefines ==
    ASSUME Inv, Analysis!Render, items' = items
    PROVE  Rows!PrintWord
<1> DEFINE w == Analysis!NextItem
<1>1. /\ pc = "made" /\ w \in Words /\ Len(rows) < Len(items)
      /\ fields = None <=> cache[w] # None
      /\ fields \in Answers \cup {None}
      /\ cache \in [Words -> Answers \cup {Manual, None}]
      /\ Rows!NextItem = w
  BY DEF Inv, QueryInv, Analysis!PerseusTypeOK, Analysis!Render,
         Analysis!More, Analysis!NextItem, Rows!NextItem
<1>2. \A a : Analysis!Row(w, a) = Rows!Row(w, a)
  BY DEF Analysis!Row, Rows!Row
<1>3. Known[w] = {cache[w]} \ {None}
  BY <1>1 DEF Known
<1>4. CASE cache[w] # None
  <2>1. /\ rows' = Append(rows, Analysis!Row(w, cache[w])) /\ cache' = cache
    BY <1>4 DEF Analysis!Render, Analysis!FromCache
  <2>2. cache[w] \in Answers \cup {Manual}
    BY <1>1, <1>4
  <2> HIDE DEF w
  <2>3. Known[w] = {cache[w]} /\ Known' = [Known EXCEPT ![w] = {cache[w]}]
    BY <1>1, <1>3, <1>4, <2>1 DEF Known
  <2> QED
    BY <1>1, <1>2, <2>1, <2>2, <2>3 DEF Rows!PrintWord, Known
<1>5. CASE cache[w] = None
  <2>1. fields \in Answers /\ None \notin Answers
    BY <1>1, <1>5, PerseusConstants
  <2>2. /\ rows' = Append(rows, Analysis!Row(w, fields))
        /\ cache' = [cache EXCEPT ![w] = fields]
    BY <1>5, <2>1 DEF Analysis!Render, Analysis!FromCache, Analysis!Cached
  <2> HIDE DEF w
  <2>3. Known[w] = {} /\ Known' = [Known EXCEPT ![w] = {fields}]
    BY <1>1, <1>3, <1>5, <2>1, <2>2 DEF Known
  <2> QED
    BY <1>1, <1>2, <2>1, <2>2, <2>3 DEF Rows!PrintWord, Known
<1> QED
  BY <1>4, <1>5

LEMMA FailedRefines ==
    ASSUME Inv, Analysis!Failed, items' = items
    PROVE  [Rows!RowsNext]_Rows!rowVars
<1> DEFINE w == Analysis!NextItem
<1>1. /\ pc \in {"ask", "retry"} /\ w \in Words /\ Len(rows) < Len(items)
      /\ cache[w] = None /\ cache' = cache
      /\ Rows!NextItem = w
  BY DEF Inv, QueryInv, Analysis!Failed, Analysis!More, Analysis!NextItem,
         Rows!NextItem
<1>2. CASE pc = "retry"
  <2>1. rows' = Append(rows, Rows!Row(w, Error))
    BY <1>2 DEF Analysis!Failed, Analysis!GivesUp, Analysis!Row, Rows!Row
  <2> HIDE DEF w
  <2>2. Known[w] = {} /\ Known' = Known
    BY <1>1 DEF Known
  <2>3. Rows!PrintWord
    BY <1>1, <2>1, <2>2 DEF Rows!PrintWord, Known
  <2> QED
    BY <2>3 DEF Rows!RowsNext
<1>3. CASE pc # "retry"
  <2>1. rows' = rows
    BY <1>3 DEF Analysis!Failed, Analysis!GivesUp
  <2> QED
    BY <1>1, <2>1 DEF Rows!rowVars
<1> QED
  BY <1>2, <1>3

(* Whatever the cache and the second attempts do, the output is the one    *)
(* that WordRows describes.                                                *)
THEOREM TagPyPrintsRows == Spec => ImplementsWordRows
<1>1. Init => Rows!RowsInit
  <2> SUFFICES ASSUME Init PROVE Rows!RowsInit
    OBVIOUS
  <2>1. /\ rows = <<>>
        /\ cache = [w \in Words |-> IF w \in Annotated THEN Manual ELSE None]
    BY DEF Init, Analysis!PerseusInit
  <2> QED
    BY <2>1 DEF Rows!RowsInit
<1>2. Inv /\ [Next]_vars => [Rows!RowsNext]_Rows!rowVars
  <2> SUFFICES ASSUME Inv, [Next]_vars
               PROVE  [Rows!RowsNext]_Rows!rowVars
    OBVIOUS
  <2>1. CASE Tag
    <3>1. rows = <<>>
      BY <2>1, TagKeepsGather DEF Inv
    <3>2. rows' = rows /\ cache' = cache
      BY <2>1 DEF Tag
    <3> QED
      BY <3>1, <3>2 DEF Rows!RowsNext, Rows!Gather
  <2>2. CASE Analyse /\ Analysis!PrintTag
    <3>1. items' = items
      BY <2>2 DEF Analyse, Analysis!PerseusNext
    <3> QED
      BY <2>2, <3>1 DEF Analysis!PrintTag, Analysis!More, Analysis!NextItem,
                        Rows!RowsNext, Rows!PrintTag, Rows!NextItem
  <2>3. CASE Analyse /\ (Analysis!Construct
                         \/ \E a \in Answers : Analysis!Answered(a))
    <3>1. items' = items /\ rows' = rows /\ cache' = cache
      BY <2>3 DEF Analyse, Analysis!PerseusNext, Analysis!Construct,
                  Analysis!Answered
    <3> QED
      BY <3>1 DEF Rows!rowVars
  <2>4. CASE Analyse /\ Analysis!Failed
    <3>1. items' = items
      BY <2>4 DEF Analyse, Analysis!PerseusNext
    <3> QED
      BY <2>4, <3>1, FailedRefines
  <2>5. CASE Analyse /\ Analysis!Render
    <3>1. items' = items
      BY <2>5 DEF Analyse, Analysis!PerseusNext
    <3> QED
      BY <2>5, <3>1, RenderRefines DEF Rows!RowsNext
  <2>6. CASE UNCHANGED vars
    BY <2>6 DEF vars, analysisVars, Rows!rowVars
  <2> QED
    BY <2>1, <2>2, <2>3, <2>4, <2>5, <2>6
       DEF Next, Analyse, Analysis!PerseusNext
<1> QED
  BY <1>1, <1>2, InvInit, InvStep, PTL
     DEF Spec, ImplementsWordRows, Rows!RowsSpec
=============================================================================
