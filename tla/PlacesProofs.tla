---------------------------- MODULE PlacesProofs ----------------------------
(***************************************************************************)
(* More theorems about module Tagger: what a section shows is where its    *)
(* words are.                                                              *)
(***************************************************************************)
EXTENDS TaggerProofs

-----------------------------------------------------------------------------
(* The place of every word that is shown                                   *)

Placed(words, at) == [i \in DOMAIN words |-> at]

LEMMA PlacedType ==
    ASSUME NEW words \in Seq(Words), NEW at \in Positions
    PROVE  /\ Placed(words, at) \in Seq(Positions)
           /\ Len(Placed(words, at)) = Len(words)
           /\ \A i \in 1..Len(words) : Placed(words, at)[i] = at
<1>1. Len(words) \in Nat /\ DOMAIN words = 1..Len(words)
  OBVIOUS
<1> QED
  BY <1>1 DEF Placed

LEMMA PlacedJoin ==
    ASSUME NEW v \in Seq(Words), NEW w \in Seq(Words), NEW at \in Positions
    PROVE  Placed(v \o w, at) = Placed(v, at) \o Placed(w, at)
<1> DEFINE a == Placed(v \o w, at)
           b == Placed(v, at) \o Placed(w, at)
<1>1. v \o w \in Seq(Words) /\ Len(v \o w) = Len(v) + Len(w)
  BY ConcatProperties
<1>2. /\ a \in Seq(Positions) /\ Len(a) = Len(v) + Len(w)
      /\ \A i \in 1..(Len(v) + Len(w)) : a[i] = at
  BY <1>1, PlacedType
<1>3. /\ b \in Seq(Positions) /\ Len(b) = Len(v) + Len(w)
      /\ \A i \in 1..(Len(v) + Len(w)) : b[i] = at
  <2> DEFINE p == Placed(v, at)
             q == Placed(w, at)
  <2>1. /\ p \in Seq(Positions) /\ Len(p) = Len(v)
        /\ \A i \in 1..Len(v) : p[i] = at
        /\ q \in Seq(Positions) /\ Len(q) = Len(w)
        /\ \A i \in 1..Len(w) : q[i] = at
    BY PlacedType
  <2> HIDE DEF p, q
  <2>2. /\ p \o q \in Seq(Positions) /\ Len(p \o q) = Len(v) + Len(w)
        /\ \A i \in 1..(Len(v) + Len(w)) :
              (p \o q)[i] = IF i <= Len(v) THEN p[i] ELSE q[i - Len(v)]
    <3>1. /\ p \o q \in Seq(Positions) /\ Len(p \o q) = Len(p) + Len(q)
          /\ \A i \in 1..(Len(p) + Len(q)) :
                (p \o q)[i] = IF i <= Len(p) THEN p[i] ELSE q[i - Len(p)]
      <4>1. p \in Seq(Positions) /\ q \in Seq(Positions)
        BY <2>1
      <4> QED
        BY <4>1, ConcatProperties
    <3>2. Len(p) = Len(v) /\ Len(q) = Len(w)
      BY <2>1
    <3> QED
      BY ONLY <3>1, <3>2
  <2>3. Len(v) \in Nat /\ Len(w) \in Nat
    OBVIOUS
  <2>4. \A i \in 1..(Len(v) + Len(w)) : (p \o q)[i] = at
    <3> TAKE i \in 1..(Len(v) + Len(w))
    <3>1. CASE i <= Len(v)
      BY <2>1, <2>2, <2>3, <3>1
    <3>2. CASE ~(i <= Len(v))
      <4>1. i - Len(v) \in 1..Len(w)
        BY <2>3, <3>2
      <4>2. q[i - Len(v)] = at
        BY <2>1, <4>1
      <4>3. (p \o q)[i] = q[i - Len(v)]
        BY <2>2, <3>2
      <4> QED
        BY <4>2, <4>3
    <3> QED
      BY <3>1, <3>2
  <2> QED
    BY <2>2, <2>4 DEF p, q
<1> HIDE DEF a, b
<1>4. a = b
  BY <1>2, <1>3, SeqEqual
<1> QED
  BY <1>4 DEF a, b

(* The pieces of a sequence, one after the other; m gives the piece.       *)
Pieces(m, s) == FlattenSeq([i \in DOMAIN s |-> m[s[i]]])

LEMMA PiecesType ==
    ASSUME NEW T, NEW S, NEW m \in [T -> Seq(S)], NEW s \in Seq(T)
    PROVE  /\ [i \in DOMAIN s |-> m[s[i]]] \in Seq(Seq(S))
           /\ Len([i \in DOMAIN s |-> m[s[i]]]) = Len(s)
           /\ Pieces(m, s) \in Seq(S)
<1> DEFINE p == [i \in DOMAIN s |-> m[s[i]]]
<1>1. /\ Len(s) \in Nat /\ DOMAIN s = 1..Len(s)
      /\ \A i \in 1..Len(s) : s[i] \in T
  OBVIOUS
<1>2. p \in [1..Len(s) -> Seq(S)]
  BY <1>1
<1> HIDE DEF p
<1>3. p \in Seq(Seq(S)) /\ Len(p) = Len(s)
  <2> DEFINE n == Len(s)
             V == Seq(S)
  <2>1. n \in Nat /\ p \in [1..n -> V]
    BY <1>1, <1>2
  <2> HIDE DEF n, V
  <2>2. p \in Seq(V) /\ Len(p) = n
    BY <2>1
  <2> QED
    BY <2>2 DEF n, V
<1>4. FlattenSeq(p) \in Seq(S)
  BY <1>3, FlattenType
<1> QED
  BY <1>3, <1>4 DEF p, Pieces

LEMMA PiecesAppend ==
    ASSUME NEW T, NEW S, NEW m \in [T -> Seq(S)], NEW s \in Seq(T),
           NEW x \in T
    PROVE  Pieces(m, Append(s, x)) = Pieces(m, s) \o m[x]
<1> DEFINE t == Append(s, x)
           n == Len(s)
           old == [i \in DOMAIN s |-> m[s[i]]]
           new == [i \in DOMAIN t |-> m[t[i]]]
<1>1. /\ t \in Seq(T) /\ n \in Nat /\ Len(t) = n + 1
      /\ DOMAIN s = 1..n /\ DOMAIN t = 1..(n + 1)
      /\ t[n + 1] = x /\ \A i \in 1..n : t[i] = s[i]
  BY AppendProperties
<1> HIDE DEF t
<1>2. /\ old \in Seq(Seq(S)) /\ Len(old) = n
      /\ new \in Seq(Seq(S)) /\ Len(new) = n + 1
  BY <1>1, PiecesType
<1> HIDE DEF n
<1>3. /\ new[n + 1] = m[x] /\ m[x] \in Seq(S)
      /\ \A i \in 1..n : new[i] = old[i]
  <2>1. n + 1 \in 1..(n + 1) /\ \A i \in 1..n : i \in 1..(n + 1)
    BY <1>1
  <2> QED
    BY <1>1, <2>1
<1> HIDE DEF old, new
<1>4. new = Append(old, m[x])
  <2>1. /\ Append(old, m[x]) \in Seq(Seq(S)) /\ Len(Append(old, m[x])) = n + 1
        /\ Append(old, m[x])[n + 1] = m[x]
        /\ \A i \in 1..n : Append(old, m[x])[i] = old[i]
    BY <1>1, <1>2, <1>3, AppendProperties
  <2>2. \A i \in 1..(n + 1) : i = n + 1 \/ i \in 1..n
    BY <1>1
  <2>3. \A i \in 1..Len(new) : new[i] = Append(old, m[x])[i]
    BY <1>2, <1>3, <2>1, <2>2
  <2> QED
    BY <1>2, <2>1, <2>3, SeqEqual
<1>5. FlattenSeq(new) = FlattenSeq(old) \o m[x]
  BY <1>2, <1>3, <1>4, FlattenAppend
<1> QED
  BY <1>5 DEF Pieces, old, new, t

PlacesOf == [s \in Sections |-> Placed(WordsIn(s), s.at)]
CallsOf == [r \in Additions |-> [j \in DOMAIN r.words |-> r]]

OpenPlaces(d) ==
    IF d.section = None THEN <<>> ELSE Placed(OpenText(d), d.section.at)

Shown(d) == Pieces(PlacesOf, d.objects) \o OpenPlaces(d)

LEMMA PlacesOfType == PlacesOf \in [Sections -> Seq(Positions)]
<1>1. ASSUME NEW s \in Sections
      PROVE  Placed(WordsIn(s), s.at) \in Seq(Positions)
  <2>1. s.at \in Positions
    BY DEF Sections
  <2> QED
    BY <2>1, WordsInType, PlacedType
<1> QED
  BY <1>1 DEF PlacesOf

LEMMA CallsOfType == CallsOf \in [Additions -> Seq(Additions)]
<1>1. ASSUME NEW r \in Additions
      PROVE  [j \in DOMAIN r.words |-> r] \in Seq(Additions)
  <2>1. r.words \in Seq(Words)
    BY DEF Additions
  <2>2. Len(r.words) \in Nat /\ DOMAIN r.words = 1..Len(r.words)
    BY <2>1
  <2> QED
    BY <2>2
<1> QED
  BY <1>1 DEF CallsOf

LEMMA SectionPieces ==
    ASSUME NEW s \in Seq(Sections), NEW x \in Sections
    PROVE  Pieces(PlacesOf, Append(s, x)) = Pieces(PlacesOf, s) \o PlacesOf[x]
BY ONLY PiecesAppend, PlacesOfType

LEMMA AdditionPieces ==
    ASSUME NEW s \in Seq(Additions), NEW x \in Additions
    PROVE  Pieces(CallsOf, Append(s, x)) = Pieces(CallsOf, s) \o CallsOf[x]
BY ONLY PiecesAppend, CallsOfType

LEMMA OpenPlacesType ==
    ASSUME NEW d \in Docs
    PROVE  /\ d.objects \in Seq(Sections) /\ d.added \in Seq(Additions)
           /\ d.force \in BOOLEAN
           /\ OpenPlaces(d) \in Seq(Positions)
<1>1. /\ d.objects \in Seq(Sections) /\ d.added \in Seq(Additions)
      /\ d.section \in Sections \cup {None} /\ d.force \in BOOLEAN
  BY DEF Docs, Documents, Additions
<1>2. CASE d.section = None
  BY <1>1, <1>2 DEF OpenPlaces
<1>3. CASE d.section # None
  <2>1. d \in OpenDocs /\ d.section.at \in Positions
    BY <1>1, <1>3 DEF OpenDocs, Sections
  <2> QED
    BY <1>1, <1>3, <2>1, OpenTextType, PlacedType DEF OpenPlaces
<1> QED
  BY <1>2, <1>3

LEMMA ShownType ==
    ASSUME NEW d \in Docs
    PROVE  Shown(d) \in Seq(Positions)
<1>1. d.objects \in Seq(Sections) /\ OpenPlaces(d) \in Seq(Positions)
  BY OpenPlacesType
<1>2. Pieces(PlacesOf, d.objects) \in Seq(Positions)
  BY <1>1, PlacesOfType, PiecesType
<1> QED
  BY <1>1, <1>2, ConcatProperties DEF Shown

LEMMA ClosedShows ==
    ASSUME NEW d \in Docs, NEW start \in BOOLEAN
    PROVE  Shown(Closed(d, start)) = Shown(d)
<1> DEFINE d1 == IF start /\ d.sentence # None THEN FinishSentence(d) ELSE d
<1>1. /\ d1 \in Docs /\ Shown(d1) = Shown(d)
      /\ start => d1.sentence = None
  <2>1. CASE start /\ d.sentence # None
    <3> DEFINE e == FinishSentence(d)
    <3>1. d \in OpenDocs
      BY <2>1 DEF Docs, OpenDocs
    <3>2. /\ e \in OpenDocs /\ e.sentence = None /\ e.objects = d.objects
          /\ e.section.at = d.section.at /\ OpenText(e) = OpenText(d)
      BY <2>1, <3>1, FinishSentenceKeeps
    <3> HIDE DEF e
    <3>3. Shown(e) = Shown(d)
      BY <3>1, <3>2 DEF Shown, OpenPlaces, OpenDocs
    <3> QED
      BY <2>1, <3>2, <3>3 DEF OpenDocs, e
  <2>2. CASE ~(start /\ d.sentence # None)
    BY <2>2
  <2> QED
    BY <2>1, <2>2
<1>2. Closed(d, start) =
         IF start /\ d1.section # None THEN FinishSection(d1) ELSE d1
  BY DEF Closed
<1> HIDE DEF d1
<1>3. CASE start /\ d1.section # None
  <2> DEFINE e == FinishSection(d1)
             p == Pieces(PlacesOf, d1.objects)
             o == OpenPlaces(d1)
  <2>1. d1 \in OpenDocs /\ d1.section \in Sections
    BY <1>1, <1>3 DEF OpenDocs, Docs, Documents
  <2>2. /\ e.section = None /\ e.objects = Append(d1.objects, d1.section)
        /\ OpenText(d1) = WordsIn(d1.section)
    BY <1>1, <1>3, <2>1, FinishSectionKeeps
  <2> HIDE DEF e
  <2>3. d1.objects \in Seq(Sections) /\ o \in Seq(Positions)
    BY <1>1, OpenPlacesType
  <2>4. PlacesOf[d1.section] = o
    BY <1>3, <2>1, <2>2 DEF PlacesOf, OpenPlaces
  <2>5. Pieces(PlacesOf, e.objects) = p \o o
    <3> HIDE DEF o
    <3>1. Pieces(PlacesOf, Append(d1.objects, d1.section))
            = Pieces(PlacesOf, d1.objects) \o PlacesOf[d1.section]
      BY ONLY <2>1, <2>3, SectionPieces
    <3> QED
      BY ONLY <2>2, <2>4, <3>1
  <2>6. OpenPlaces(e) = <<>>
    BY <2>2 DEF OpenPlaces
  <2>7. p \o o \in Seq(Positions)
    BY <1>1, ShownType DEF Shown
  <2> HIDE DEF p, o
  <2>8. (p \o o) \o <<>> = p \o o
    BY <2>7, ConcatEmptySeq
  <2>9. Shown(e) = Shown(d1)
    BY <2>5, <2>6, <2>8 DEF Shown, p, o
  <2> QED
    BY <1>1, <1>2, <1>3, <2>9 DEF e
<1>4. CASE ~(start /\ d1.section # None)
  BY <1>1, <1>2, <1>4
<1> QED
  BY <1>3, <1>4

LEMMA OpenedShows ==
    ASSUME NEW d \in Docs, NEW at \in Positions
    PROVE  Shown(Opened(d, at)) = Shown(d)
<1> DEFINE e == Opened(d, at)
<1>1. /\ e \in OpenDocs /\ e.objects = d.objects
      /\ e.section.at = IF d.section = None
                        THEN [at EXCEPT !["tetralogy"] = None]
                        ELSE d.section.at
      /\ OpenText(e) = OpenText(d)
  BY OpenedKeeps
<1> HIDE DEF e
<1>2. OpenPlaces(e) = OpenPlaces(d)
  <2>1. CASE d.section = None
    <3>1. OpenText(d) = <<>> \o <<>>
      BY <2>1 DEF OpenText, OpenWords, WordsIn, Docs
    <3>2. OpenText(e) = <<>>
      BY <1>1, <3>1
    <3>3. Placed(<<>>, e.section.at) = <<>>
      BY DEF Placed
    <3> QED
      BY <1>1, <2>1, <3>2, <3>3 DEF OpenPlaces, OpenDocs
  <2>2. CASE d.section # None
    BY <1>1, <2>2 DEF OpenPlaces, OpenDocs
  <2> QED
    BY <2>1, <2>2
<1> QED
  BY <1>1, <1>2 DEF Shown, e

(* Words that are taken stand where the open section is.                   *)
LEMMA LongerShows ==
    ASSUME NEW d \in OpenDocs, NEW e, NEW words \in Seq(Words),
           Longer(d, e, words)
    PROVE  Shown(e) = Shown(d) \o Placed(words, d.section.at)
<1>1. /\ d \in Docs /\ d.section # None /\ d.section.at \in Positions
  BY DEF OpenDocs, Docs, Documents, Sections
<1>2. /\ e \in OpenDocs /\ e.section # None /\ e.objects = d.objects
      /\ e.section.at = d.section.at /\ OpenText(e) = OpenText(d) \o words
  BY DEF Longer, OpenDocs
<1> DEFINE p == Pieces(PlacesOf, d.objects)
           o == Placed(OpenText(d), d.section.at)
           w == Placed(words, d.section.at)
<1>3. OpenText(d) \in Seq(Words)
  BY OpenTextType
<1>4. Placed(OpenText(d) \o words, d.section.at) = o \o w
  BY <1>1, <1>3, PlacedJoin
<1>5. p \in Seq(Positions) /\ o \in Seq(Positions) /\ w \in Seq(Positions)
  <2>1. d.objects \in Seq(Sections)
    BY <1>1, OpenPlacesType
  <2>2. p \in Seq(Positions)
    BY <2>1, PlacesOfType, PiecesType
  <2> QED
    BY <1>1, <1>3, <2>2, PlacedType
<1>6. Shown(d) = p \o o
  BY <1>1 DEF Shown, OpenPlaces
<1>7. Shown(e) = p \o (o \o w)
  BY <1>2, <1>4 DEF Shown, OpenPlaces
<1> HIDE DEF p, o, w
<1>8. (p \o o) \o w = p \o (o \o w)
  BY <1>5, ConcatAssociative
<1> QED
  BY <1>6, <1>7, <1>8 DEF w

-----------------------------------------------------------------------------
(* Places and the calls that added the words                               *)

Kept == {"section", "chapter", "part", "page"}

(* A word of call r stands where it should; mile says whether the          *)
(* milestones count.                                                       *)
Fits(mile, at, r) ==
    /\ r.starts => at = [r.at EXCEPT !["tetralogy"] = None]
    /\ mile => \A f \in Kept : at[f] = r.at[f]

Matched(mile, places, calls) ==
    /\ Len(places) = Len(calls)
    /\ \A i \in 1..Len(calls) : Fits(mile, places[i], calls[i])

Match(mile, d) == Matched(mile, Shown(d), Pieces(CallsOf, d.added))

(* The open section is good for words of position at.                      *)
Current(mile, d, at) ==
    mile => \/ d.force
            \/ d.section = None
            \/ \A f \in Kept : d.section.at[f] = at[f]

LEMMA MatchedJoin ==
    ASSUME NEW mile \in BOOLEAN,
           NEW s \in Seq(Positions), NEW c \in Seq(Additions),
           Matched(mile, s, c),
           NEW t \in Seq(Positions), NEW e \in Seq(Additions),
           Matched(mile, t, e)
    PROVE  Matched(mile, s \o t, c \o e)
<1> DEFINE n == Len(c)
           m == Len(e)
<1>1. n \in Nat /\ m \in Nat /\ Len(s) = n /\ Len(t) = m
  BY DEF Matched
<1>2. /\ Len(s \o t) = Len(s) + Len(t)
      /\ \A i \in 1..(Len(s) + Len(t)) :
            (s \o t)[i] = IF i <= Len(s) THEN s[i] ELSE t[i - Len(s)]
  BY ConcatProperties
<1>3. /\ Len(c \o e) = Len(c) + Len(e)
      /\ \A i \in 1..(Len(c) + Len(e)) :
            (c \o e)[i] = IF i <= Len(c) THEN c[i] ELSE e[i - Len(c)]
  BY ConcatProperties
<1>4. /\ Len(s \o t) = n + m
      /\ \A i \in 1..(n + m) :
            (s \o t)[i] = IF i <= n THEN s[i] ELSE t[i - n]
  BY ONLY <1>1, <1>2
<1>5. /\ \A i \in 1..n : Fits(mile, s[i], c[i])
      /\ \A i \in 1..m : Fits(mile, t[i], e[i])
  BY DEF Matched
<1>6. ASSUME NEW i \in 1..(n + m)
      PROVE  Fits(mile, (s \o t)[i], (c \o e)[i])
  <2>1. CASE i <= n
    <3>1. i \in 1..n
      BY <1>1, <2>1
    <3>2. (s \o t)[i] = s[i] /\ (c \o e)[i] = c[i]
      BY <1>3, <1>4, <2>1
    <3> QED
      BY <1>5, <3>1, <3>2
  <2>2. CASE ~(i <= n)
    <3>1. i - n \in 1..m
      BY <1>1, <2>2
    <3>2. (s \o t)[i] = t[i - n] /\ (c \o e)[i] = e[i - n]
      BY <1>3, <1>4, <2>2
    <3> QED
      BY <1>5, <3>1, <3>2
  <2> QED
    BY <2>1, <2>2
<1> QED
  BY <1>3, <1>4, <1>6 DEF Matched

LEMMA MatchedWords ==
    ASSUME NEW mile \in BOOLEAN, NEW r \in Additions, NEW at \in Positions,
           Fits(mile, at, r)
    PROVE  /\ CallsOf[r] \in Seq(Additions)
           /\ Matched(mile, Placed(r.words, at), CallsOf[r])
<1>1. r.words \in Seq(Words)
  BY DEF Additions
<1>2. /\ Len(Placed(r.words, at)) = Len(r.words)
      /\ \A i \in 1..Len(r.words) : Placed(r.words, at)[i] = at
  BY <1>1, PlacedType
<1>3. CallsOf[r] = [j \in DOMAIN r.words |-> r] /\ CallsOf[r] \in Seq(Additions)
  BY CallsOfType DEF CallsOf
<1>4. DOMAIN r.words = 1..Len(r.words) /\ Len(r.words) \in Nat
  BY <1>1
<1>5. Len(CallsOf[r]) = Len(r.words)
      /\ \A i \in 1..Len(r.words) : CallsOf[r][i] = r
  BY <1>3, <1>4
<1> QED
  BY <1>2, <1>3, <1>5 DEF Matched

LEMMA MatchWeaker ==
    ASSUME NEW mile \in BOOLEAN, NEW less \in BOOLEAN, less => mile,
           NEW d, Match(mile, d)
    PROVE  Match(less, d)
BY DEF Match, Matched, Fits

(* addText records the call as r, closes and opens what it must, and takes *)
(* the words.                                                              *)
LEMMA AddTextParts ==
    ASSUME NEW d \in KeptDocs, NEW at \in Positions, NEW from \in Places,
           NEW text \in Texts \cup {NoText}, NEW start \in BOOLEAN
    PROVE  \E r \in Additions, o \in OpenDocs :
              /\ r.from = from /\ r.words = WordsOf(text) /\ r.at = at
              /\ r.starts = (start \/ d.force)
              /\ o.added = Append(d.added, r) /\ Shown(o) = Shown(d)
              /\ o.section.at = IF r.starts \/ d.section = None
                                THEN [at EXCEPT !["tetralogy"] = None]
                                ELSE d.section.at
              /\ Longer(o, AddText(d, at, from, text, start), WordsOf(text))
<1> DEFINE starts == start \/ d.force
           w == WordsOf(text)
           r == [from |-> from, at |-> at, words |-> w, starts |-> starts]
           d0 == Closed(d, starts)
           d1 == Opened(d0, at)
           d2 == [d1 EXCEPT !.force = FALSE, !.added = Append(@, r)]
           e == IF text = NoText THEN d2 ELSE TakeAll(d2, text)
<1>1. d \in Docs /\ d.force \in BOOLEAN /\ d.added \in Seq(Additions)
  BY OpenPlacesType DEF KeptDocs
<1>2. starts \in BOOLEAN
  BY <1>1
<1>3. AddText(d, at, from, text, start) = e
  BY DEF AddText
<1> HIDE DEF starts
<1>4. text \in Seq(Tokens) \cup {NoText} /\ w \in Seq(Words)
  <2>1. text \in Seq(Tokens) \cup {NoText}
    BY TaggerConstants
  <2> QED
    BY <2>1, WordsOfType
<1>5. /\ r \in Additions /\ r.from = from /\ r.words = w /\ r.at = at
      /\ r.starts = starts
  BY <1>2, <1>4 DEF Additions
<1> HIDE DEF r, w
<1>6. /\ d0 \in Docs /\ d0.added = d.added /\ Shown(d0) = Shown(d)
      /\ starts => d0.section = None
      /\ ~starts => d0 = d
  <2>1. ~starts => d0 = d
    BY DEF Closed
  <2> QED
    BY <1>1, <1>2, <2>1, ClosedKeeps, ClosedShows
<1> HIDE DEF d0
<1>7. /\ d1 \in OpenDocs /\ d1.added = d.added /\ Shown(d1) = Shown(d)
      /\ d1.section.at = IF d0.section = None
                         THEN [at EXCEPT !["tetralogy"] = None]
                         ELSE d0.section.at
  BY <1>6, OpenedKeeps, OpenedShows
<1> HIDE DEF d1
<1>8. /\ d2 \in OpenDocs /\ d2.added = Append(d.added, r)
      /\ d2.section = d1.section /\ d2.objects = d1.objects
      /\ d2.sentence = d1.sentence
  <2>1. d1 \in Documents
    BY <1>7 DEF OpenDocs, Docs
  <2>2. Append(d.added, r) \in Seq(Additions)
    BY <1>1, <1>5
  <2>3. /\ d2 \in Documents /\ d2.added = Append(d.added, r)
        /\ d2.section = d1.section /\ d2.objects = d1.objects
        /\ d2.sentence = d1.sentence
    BY <1>7, <2>1, <2>2 DEF Documents, Additions
  <2> QED
    BY <1>7, <2>3 DEF OpenDocs, Docs
<1> HIDE DEF d2
<1>9. Shown(d2) = Shown(d)
  BY <1>7, <1>8 DEF Shown, OpenPlaces, OpenText, OpenWords
<1>10. Longer(d2, e, w)
  <2>1. CASE text = NoText
    BY <1>8, <2>1, LongerNone DEF WordsOf, w
  <2>2. CASE text # NoText
    BY <1>4, <1>8, <2>2, TakeAllKeeps DEF w
  <2> QED
    BY <2>1, <2>2
<1> HIDE DEF e
<1>11. d2.section.at = IF starts \/ d.section = None
                       THEN [at EXCEPT !["tetralogy"] = None]
                       ELSE d.section.at
  BY <1>6, <1>7, <1>8
<1>12. Longer(d2, AddText(d, at, from, text, start), w)
  BY <1>3, <1>10
<1> QED
  BY <1>5, <1>8, <1>9, <1>11, <1>12 DEF w, starts

(* One text is added at the position that the call has seen.               *)
LEMMA AddTextMatches ==
    ASSUME NEW mile \in BOOLEAN, NEW d \in KeptDocs, NEW at \in Positions,
           NEW from \in Places, NEW text \in Texts \cup {NoText},
           NEW start \in BOOLEAN,
           Match(mile, d), start \/ Current(mile, d, at)
    PROVE  LET e == AddText(d, at, from, text, start) IN
           Match(mile, e) /\ Current(mile, e, at)
<1> DEFINE e == AddText(d, at, from, text, start)
           w == WordsOf(text)
<1>1. PICK r \in Additions, o \in OpenDocs :
         /\ r.words = w /\ r.at = at
         /\ r.starts = (start \/ d.force)
         /\ o.added = Append(d.added, r) /\ Shown(o) = Shown(d)
         /\ o.section.at = IF r.starts \/ d.section = None
                           THEN [at EXCEPT !["tetralogy"] = None]
                           ELSE d.section.at
         /\ Longer(o, e, w)
  BY AddTextParts
<1> HIDE DEF e, w
<1> DEFINE here == o.section.at
<1>2. /\ d \in Docs /\ d.added \in Seq(Additions)
      /\ w \in Seq(Words) /\ here \in Positions
  <2>1. w \in Seq(Words)
    BY <1>1 DEF Additions
  <2>2. here \in Positions
    BY DEF OpenDocs, Docs, Documents, Sections
  <2> QED
    BY <2>1, <2>2, OpenPlacesType DEF KeptDocs
<1>3. Fits(mile, here, r)
  <2>1. CASE r.starts \/ d.section = None
    <3>1. here = [at EXCEPT !["tetralogy"] = None]
      BY <1>1, <2>1
    <3>2. \A f \in Kept : here[f] = at[f]
      BY <3>1 DEF Kept, Positions, Fields
    <3> QED
      BY <1>1, <3>1, <3>2 DEF Fits
  <2>2. CASE ~(r.starts \/ d.section = None)
    <3>1. here = d.section.at /\ Current(mile, d, at) /\ ~d.force
      BY <1>1, <2>2
    <3> QED
      BY <1>1, <2>2, <3>1 DEF Fits, Current
  <2> QED
    BY <2>1, <2>2
<1>4. Shown(e) = Shown(d) \o Placed(w, here)
  BY <1>1, <1>2, LongerShows
<1>5. Pieces(CallsOf, e.added) = Pieces(CallsOf, d.added) \o CallsOf[r]
  <2>1. e.added = Append(d.added, r)
    BY <1>1 DEF Longer
  <2>2. Pieces(CallsOf, Append(d.added, r))
          = Pieces(CallsOf, d.added) \o CallsOf[r]
    BY ONLY <1>2, AdditionPieces
  <2> QED
    BY ONLY <2>1, <2>2
<1>6. /\ CallsOf[r] \in Seq(Additions)
      /\ Matched(mile, Placed(w, here), CallsOf[r])
  BY <1>1, <1>2, <1>3, MatchedWords
<1>7. /\ Shown(d) \in Seq(Positions)
      /\ Pieces(CallsOf, d.added) \in Seq(Additions)
      /\ Placed(w, here) \in Seq(Positions)
  BY <1>2, ShownType, PlacedType, PiecesType, CallsOfType
<1>8. Match(mile, e)
  BY <1>4, <1>5, <1>6, <1>7, MatchedJoin DEF Match
<1>9. Current(mile, e, at)
  <2>1. e.section.at = here
    BY <1>1 DEF Longer
  <2>2. mile => \A f \in Kept : here[f] = at[f]
    BY <1>1, <1>3 DEF Fits
  <2> QED
    BY <2>1, <2>2 DEF Current
<1> QED
  BY <1>8, <1>9 DEF e

(* The calls of one element see one position.                              *)
LEMMA PerformedMatches ==
    ASSUME NEW mile \in BOOLEAN, doc \in KeptDocs, NEW id \in Nat,
           NEW calls \in Seq(CallSet), NEW at \in Positions,
           Match(mile, doc),
           Current(mile, doc, at) \/ (calls # <<>> /\ calls[1].start)
    PROVE  LET d == Performed(id, calls, at) IN
           Match(mile, d) /\ Current(mile, d, at)
<1> DEFINE n == Len(calls)
<1>1. PICK done \in [0..n -> KeptDocs] :
         /\ done[0] = doc
         /\ \A i \in 1..n : done[i] = Do(id, at, done[i - 1], calls[i])
         /\ Performed(id, calls, at) = done[n]
  BY PerformedSteps
<1>2. /\ n \in Nat /\ \A i \in 1..n : calls[i] \in CallSet
      /\ calls # <<>> => n # 0
  OBVIOUS
<1> HIDE DEF n
<1> DEFINE Ready(i) == \/ Current(mile, done[i], at)
                       \/ i = 0 /\ n # 0 /\ calls[1].start
           Good == {i \in 0..n : Match(mile, done[i]) /\ Ready(i)}
<1>3. 0 \in Good
  BY <1>1, <1>2
<1>4. ASSUME NEW i \in 1..n, i - 1 \in Good
      PROVE  /\ i \in 0..n /\ Match(mile, done[i])
             /\ Current(mile, done[i], at)
  <2> DEFINE c == calls[i]
             v == done[i - 1]
  <2>1. i \in 0..n /\ i - 1 \in 0..n /\ (i - 1 = 0 => i = 1)
    BY <1>2
  <2>2. v \in KeptDocs /\ c \in CallSet /\ done[i] = Do(id, at, v, c)
    BY <1>1, <1>2, <2>1
  <2>3. Match(mile, v) /\ (c.start \/ Current(mile, v, at))
    BY <1>4, <2>1
  <2> HIDE DEF c, v
  <2>4. /\ <<id, c.part>> \in Places /\ c.text \in Texts \cup {NoText}
        /\ c.start \in BOOLEAN
    BY <2>2 DEF CallSet, Places
  <2>5. LET e == AddText(v, at, <<id, c.part>>, c.text, c.start) IN
        Match(mile, e) /\ Current(mile, e, at)
    BY <2>2, <2>3, <2>4, AddTextMatches
  <2> QED
    BY <2>1, <2>2, <2>5 DEF Do
<1>5. \A i \in 1..n : i - 1 \in Good => i \in Good
  BY <1>4
<1>6. \A i \in 0..n : i \in Good
  <2> HIDE DEF Good
  <2> QED
    BY <1>2, <1>3, <1>5, IntervalInduction
<1>7. CASE n = 0
  BY <1>1, <1>6, <1>7
<1>8. CASE n # 0
  <2>1. n \in 1..n /\ n - 1 \in 0..n
    BY <1>2, <1>8
  <2> HIDE DEF Good
  <2>2. Match(mile, done[n]) /\ Current(mile, done[n], at)
    BY <1>4, <1>6, <2>1
  <2> QED
    BY <1>1, <2>2
<1> QED
  BY <1>7, <1>8

LEMMA PerformedNothing ==
    ASSUME doc \in KeptDocs, NEW id \in Nat, NEW at \in Positions
    PROVE  Performed(id, <<>>, at) = doc
<1>1. ASSUME NEW calls \in Seq(CallSet), calls = <<>>
      PROVE  Performed(id, calls, at) = doc
  <2>1. Len(calls) = 0
    BY <1>1
  <2>2. PICK done \in [0..Len(calls) -> KeptDocs] :
           done[0] = doc /\ Performed(id, calls, at) = done[Len(calls)]
    BY PerformedSteps
  <2> QED
    BY <2>1, <2>2
<1>2. <<>> \in Seq(CallSet)
  OBVIOUS
<1> QED
  BY <1>1, <1>2

-----------------------------------------------------------------------------
(* The walk: after a milestone the next words start a section, unless it   *)
(* has a text of its own, which starts one.                                *)

NoForgets == \A i \in DOMAIN visited : ~Forgets(visited[i])

PlacesInv ==
    /\ TaggerInv
    /\ Match(NoForgets, doc)
    /\ Current(NoForgets, doc, position)

LEMMA NoForgetsLater ==
    ASSUME TaggerInv, NEW e \in Elements, visited' = Append(visited, e)
    PROVE  NoForgets' => NoForgets /\ ~Forgets(e)
<1>1. visited \in Seq(Elements)
  BY DEF TaggerInv, TaggerTypeOK
<1>2. /\ Len(visited) \in Nat
      /\ DOMAIN visited = 1..Len(visited)
      /\ DOMAIN visited' = 1..(Len(visited) + 1)
      /\ visited'[Len(visited) + 1] = e
      /\ \A i \in 1..Len(visited) : visited'[i] = visited[i]
  BY <1>1, AppendProperties
<1>3. /\ Len(visited) + 1 \in 1..(Len(visited) + 1)
      /\ \A i \in 1..Len(visited) : i \in 1..(Len(visited) + 1)
  BY <1>2
<1> QED
  BY <1>2, <1>3 DEF NoForgets

(* Text and position stay.                                                 *)
LEMMA SamePlaces ==
    ASSUME PlacesInv, TaggerInv', NoForgets' => NoForgets,
           doc' = doc, position' = position
    PROVE  PlacesInv'
<1>1. NoForgets \in BOOLEAN /\ NoForgets' \in BOOLEAN
  BY DEF NoForgets
<1>2. Match(NoForgets', doc)
  BY <1>1, MatchWeaker DEF PlacesInv
<1> QED
  BY <1>2 DEF PlacesInv, Current, Match, Matched, Shown, OpenPlaces, Pieces,
              OpenText, OpenWords

LEMMA MovedKeeps ==
    ASSUME NEW e \in Elements, NEW at \in Positions, ~Forgets(e),
           ~(/\ e.tag \in {"milestone", "div"}
             /\ e.unit \in Fields \ LineUnits)
    PROVE  \A f \in Kept : Moved(e, at)[f] = at[f]
BY DEF Moved, Forgets, Kept, Positions, Fields

(* A milestone or a division starts a section, at once or with the next    *)
(* words.                                                                  *)
LEMMA MilestoneStarts ==
    ASSUME NEW e \in Elements, e.tag \in {"milestone", "div"},
           e.unit \in Fields \ LineUnits
    PROVE  \/ Calls(e) # <<>> /\ Calls(e)[1].start = TRUE
           \/ Calls(e) = <<>> /\ \A b : Forced(e, b) = TRUE
<1>1. CASE e.tag = "div"
  <2> DEFINE c == Call(e, "text", TRUE)
  <2>1. Calls(e) = <<c>> \o TailCall(e, TRUE)
    BY <1>1 DEF Calls, TextThenTail
  <2>2. TailCall(e, TRUE) = <<>> \/ TailCall(e, TRUE) = <<Call(e, "tail", TRUE)>>
    BY DEF TailCall
  <2>3. c.start = TRUE
    BY DEF Call
  <2> HIDE DEF c
  <2>4. \A x : /\ <<c>> \o <<>> # <<>> /\ (<<c>> \o <<>>)[1] = c
               /\ <<c>> \o <<x>> # <<>> /\ (<<c>> \o <<x>>)[1] = c
    OBVIOUS
  <2> QED
    BY <2>1, <2>2, <2>3, <2>4
<1>2. CASE e.tag = "milestone"
  <2>1. Calls(e) = TailCall(e, TRUE)
    BY <1>2 DEF Calls, TextThenTail
  <2>2. CASE e.tail = NoText
    BY <1>2, <2>1, <2>2 DEF TailCall, Forced
  <2>3. CASE e.tail # NoText
    BY <2>1, <2>3 DEF TailCall, Call
  <2> QED
    BY <2>2, <2>3
<1> QED
  BY <1>1, <1>2

LEMMA VisitPlaces ==
    ASSUME PlacesInv, NEW e \in Elements, Visit(e)
    PROVE  PlacesInv'
<1> DEFINE id == Len(visited) + 1
           at == Moved(e, position)
           calls == Calls(e)
           d == Performed(id, calls, at)
           mile == NoForgets'
<1>1. /\ TaggerInv /\ TaggerInv' /\ visited' = Append(visited, e)
  BY VisitKeeps DEF PlacesInv, Visit
<1>2. (mile => NoForgets) /\ (mile => ~Forgets(e))
  BY <1>1, NoForgetsLater
<1>3. /\ doc \in KeptDocs /\ position \in Positions /\ id \in Nat
      /\ at \in Positions /\ calls \in Seq(CallSet)
  <2>1. visited \in Seq(Elements) /\ position \in Positions
    BY <1>1 DEF TaggerInv, TaggerTypeOK
  <2>2. Len(visited) \in Nat
    BY <2>1
  <2> QED
    BY <1>1, <2>1, <2>2, CallsType, MovedType DEF TaggerInv
<1>4. \/ position' = position /\ doc' = doc
      \/ position' = at /\ doc' = [d EXCEPT !.force = Forced(e, @)]
  BY DEF Visit, Fail
<1>5. mile \in BOOLEAN /\ NoForgets \in BOOLEAN
  BY DEF NoForgets
<1>6. Match(mile, doc) /\ Current(mile, doc, position)
  BY <1>2, <1>5, MatchWeaker DEF PlacesInv, Current
<1> HIDE DEF id
<1>7. d \in KeptDocs
  BY <1>3, PerformedKeeps
<1>8. /\ Match(mile, d)
      /\ Forced(e, d.force) = TRUE \/ Current(mile, d, at)
  <2> HIDE DEF at, calls, mile
  <2>1. CASE /\ e.tag \in {"milestone", "div"}
             /\ e.unit \in Fields \ LineUnits
    <3>1. CASE calls # <<>> /\ calls[1].start = TRUE
      BY <1>3, <1>5, <1>6, <3>1, PerformedMatches
    <3>2. CASE calls = <<>> /\ \A b : Forced(e, b) = TRUE
      BY <1>3, <1>6, <3>2, PerformedNothing
    <3> QED
      BY <2>1, <3>1, <3>2, MilestoneStarts DEF calls
  <2>2. CASE ~(/\ e.tag \in {"milestone", "div"}
               /\ e.unit \in Fields \ LineUnits)
    <3>1. mile => \A f \in Kept : at[f] = position[f]
      BY <1>2, <1>3, <2>2, MovedKeeps DEF at
    <3>2. Current(mile, doc, at)
      BY <1>6, <3>1 DEF Current
    <3> QED
      BY <1>3, <1>5, <1>6, <3>2, PerformedMatches
  <2> QED
    BY <2>1, <2>2
<1> HIDE DEF d, at
<1>9. CASE position' = position /\ doc' = doc
  <2> HIDE DEF mile
  <2>1. NoForgets' => NoForgets
    BY <1>2 DEF mile
  <2> QED
    BY <1>1, <1>9, <2>1, SamePlaces
<1>10. CASE position' = at /\ doc' = [d EXCEPT !.force = Forced(e, @)]
  <2>1. /\ doc'.objects = d.objects /\ doc'.section = d.section
        /\ doc'.sentence = d.sentence /\ doc'.added = d.added
        /\ doc'.force = Forced(e, d.force)
    BY <1>7, <1>10 DEF KeptDocs, Docs, Documents
  <2> HIDE DEF mile
  <2>2. Match(mile, doc')
    BY <1>8, <2>1 DEF Match, Matched, Shown, OpenPlaces, OpenText, OpenWords
  <2>3. mile /\ d.force => Forced(e, d.force) = TRUE
    BY <1>2, <1>7 DEF Forced, Forgets, KeptDocs, Docs, Documents
  <2>4. Current(mile, doc', at)
    BY <1>8, <2>1, <2>3 DEF Current
  <2>5. Match(mile, doc') /\ Current(mile, doc', position')
    BY <1>10, <2>2, <2>4
  <2> QED
    BY <1>1, <2>5 DEF mile, PlacesInv
<1> QED
  BY <1>4, <1>9, <1>10

LEMMA LeavePlaces ==
    ASSUME PlacesInv, Leave
    PROVE  PlacesInv'
<1> DEFINE f == Head(stack)
           d == Performed(f.id, CallsAfter(f.e), position)
<1>1. /\ TaggerInv /\ TaggerInv' /\ stack # <<>> /\ visited' = visited
      /\ position' = position
      /\ doc' = doc \/ doc' = d
  BY LeaveKeeps DEF PlacesInv, Leave
<1>2. NoForgets' = NoForgets
  BY <1>1 DEF NoForgets
<1>3. CASE doc' = doc
  BY <1>1, <1>2, <1>3, SamePlaces
<1>4. CASE doc' = d
  <2>1. /\ f.id \in Nat /\ CallsAfter(f.e) \in Seq(CallSet)
        /\ position \in Positions /\ doc \in KeptDocs
    BY <1>1, FrameCalls DEF TaggerInv, TaggerTypeOK
  <2>2. NoForgets \in BOOLEAN
    BY DEF NoForgets
  <2>3. Match(NoForgets, d) /\ Current(NoForgets, d, position)
    BY <2>1, <2>2, PerformedMatches DEF PlacesInv
  <2> HIDE DEF d
  <2> QED
    BY <1>1, <1>2, <1>4, <2>3 DEF PlacesInv
<1> QED
  BY <1>1, <1>3, <1>4

LEMMA FinishTaggingPlaces ==
    ASSUME PlacesInv, FinishTagging
    PROVE  PlacesInv'
<1>1. /\ TaggerInv' /\ doc \in Docs
      /\ visited' = visited /\ doc' = Closed(doc, TRUE)
  BY FinishTaggingKeeps DEF PlacesInv, FinishTagging, TaggerInv, KeptDocs
<1>2. NoForgets' = NoForgets
  BY <1>1 DEF NoForgets
<1>3. /\ doc'.added = doc.added /\ doc'.section = None
      /\ Shown(doc') = Shown(doc)
  BY <1>1, ClosedKeeps, ClosedShows
<1>4. Match(NoForgets, doc')
  BY <1>3 DEF PlacesInv, Match
<1>5. Match(NoForgets', doc') /\ Current(NoForgets', doc', position')
  BY <1>2, <1>3, <1>4 DEF Current
<1> QED
  BY <1>1, <1>5 DEF PlacesInv

LEMMA PlacesInit ==
    ASSUME TaggerInit
    PROVE  PlacesInv
<1>1. TaggerInv
  BY TaggerInitInv
<1>2. /\ doc.objects = <<>> /\ doc.section = None /\ doc.added = <<>>
  BY DEF TaggerInit
<1>3. \A m : Pieces(m, <<>>) = <<>>
  <2>1. \A m, s : s = <<>> => [i \in DOMAIN s |-> m[s[i]]] = <<>>
    OBVIOUS
  <2> QED
    BY <2>1, FlattenEmpty DEF Pieces
<1>4. <<>> \o <<>> = <<>>
  OBVIOUS
<1>5. Shown(doc) = <<>> /\ Pieces(CallsOf, doc.added) = <<>>
  BY <1>2, <1>3, <1>4 DEF Shown, OpenPlaces
<1>6. Match(NoForgets, doc)
  BY <1>5 DEF Match, Matched
<1>7. Current(NoForgets, doc, position)
  BY <1>2 DEF Current
<1> QED
  BY <1>1, <1>6, <1>7 DEF PlacesInv

LEMMA PlacesStep ==
    ASSUME PlacesInv, [TaggerNext]_taggerVars
    PROVE  PlacesInv'
<1>1. TaggerInv'
  BY TaggerStep DEF PlacesInv
<1>2. ASSUME NEW e \in Elements, VisitHeader(e) PROVE PlacesInv'
  <2>1. /\ doc' = doc /\ position' = position /\ visited' = Append(visited, e)
    BY <1>2 DEF VisitHeader, Fail
  <2>2. NoForgets' => NoForgets
    BY <2>1, NoForgetsLater DEF PlacesInv
  <2> QED
    BY <1>1, <2>1, <2>2, SamePlaces
<1>3. CASE UNCHANGED taggerVars
  <2>1. doc' = doc /\ position' = position /\ visited' = visited
    BY <1>3 DEF taggerVars
  <2>2. NoForgets' => NoForgets
    BY <2>1 DEF NoForgets
  <2> QED
    BY <1>1, <2>1, <2>2, SamePlaces
<1> QED
  BY <1>2, <1>3, VisitPlaces, LeavePlaces, FinishTaggingPlaces DEF TaggerNext

(* The words of a text that must start a section stand in one that shows   *)
(* the position of this text, and every word stands in a section that      *)
(* shows the section, chapter, part and page it is in, as long as no       *)
(* element forgets a start: for every document.                            *)
THEOREM PlacesAreShown == Spec => []PositionsShown
<1>1. Init => PlacesInv
  BY PlacesInit DEF Init
<1>2. PlacesInv /\ [Next]_vars => PlacesInv'
  BY PlacesStep DEF Next, Tag, Analyse, vars
<1>3. PlacesInv => PositionsShown
  <2> SUFFICES ASSUME PlacesInv PROVE PositionsShown
    OBVIOUS
  <2> DEFINE calls == CallsOfAdded
             shown == PositionsOfShown
  <2>1. /\ doc \in Docs /\ doc.objects \in Seq(Sections)
        /\ doc.added \in Seq(Additions)
    BY OpenPlacesType DEF PlacesInv, TaggerInv, KeptDocs
  <2>2. shown = Shown(doc)
    <3>1. \A i \in DOMAIN doc.objects :
             PlacesOf[doc.objects[i]]
               = Placed(WordsIn(doc.objects[i]), doc.objects[i].at)
      BY <2>1 DEF PlacesOf
    <3>2. [i \in DOMAIN doc.objects |-> PlacesOf[doc.objects[i]]]
            = [i \in DOMAIN doc.objects |->
                  Placed(WordsIn(doc.objects[i]), doc.objects[i].at)]
      BY <3>1
    <3> QED
      BY <3>2 DEF PositionsOfShown, Shown, Pieces, OpenPlaces, OpenText,
                  OpenWords, Placed
  <2>3. calls = Pieces(CallsOf, doc.added)
    <3>1. \A i \in DOMAIN doc.added :
             CallsOf[doc.added[i]]
               = [j \in DOMAIN doc.added[i].words |-> doc.added[i]]
      BY <2>1 DEF CallsOf
    <3>2. [i \in DOMAIN doc.added |-> CallsOf[doc.added[i]]]
            = [i \in DOMAIN doc.added |->
                  [j \in DOMAIN doc.added[i].words |-> doc.added[i]]]
      BY <3>1
    <3> QED
      BY <3>2 DEF CallsOfAdded, Pieces
  <2>4. calls \in Seq(Additions)
    BY <2>1, <2>3, CallsOfType, PiecesType
  <2> HIDE DEF calls, shown
  <2>5. DOMAIN calls = 1..Len(calls)
    BY <2>4
  <2>6. \A i \in DOMAIN calls : Fits(NoForgets, shown[i], calls[i])
    BY <2>2, <2>3, <2>5 DEF PlacesInv, Match, Matched
  <2>7. StartsShown
    BY <2>6 DEF StartsShown, Fits, calls, shown
  <2>8. MilestonesShown
    BY <2>6 DEF MilestonesShown, Fits, Kept, NoForgets, calls, shown
  <2> QED
    BY <2>7, <2>8 DEF PositionsShown
<1> QED
  BY <1>1, <1>2, <1>3, PTL DEF Spec

-----------------------------------------------------------------------------
(* What a call adds                                                        *)

LEMMA AddTextAdds ==
    ASSUME NEW d \in KeptDocs, NEW at \in Positions, NEW from \in Places,
           NEW text \in Texts \cup {NoText}, NEW start \in BOOLEAN
    PROVE  \E r \in Additions :
              /\ r.from = from /\ r.words = WordsOf(text)
              /\ AddText(d, at, from, text, start).added = Append(d.added, r)
<1> DEFINE e == AddText(d, at, from, text, start)
           w == WordsOf(text)
<1>1. PICK r \in Additions, o \in OpenDocs :
         /\ r.from = from /\ r.words = w /\ r.at = at
         /\ r.starts = (start \/ d.force)
         /\ o.added = Append(d.added, r) /\ Shown(o) = Shown(d)
         /\ o.section.at = IF r.starts \/ d.section = None
                           THEN [at EXCEPT !["tetralogy"] = None]
                           ELSE d.section.at
         /\ Longer(o, e, w)
  BY AddTextParts
<1> HIDE DEF e, w
<1>2. e.added = Append(d.added, r)
  BY <1>1 DEF Longer
<1> QED
  BY <1>1, <1>2 DEF e, w

LEMMA DoAdds ==
    ASSUME NEW v \in KeptDocs, NEW id \in Nat, NEW at \in Positions,
           NEW c \in CallSet
    PROVE  \E r \in Additions :
              /\ r.from = <<id, c.part>> /\ r.words = WordsOf(c.text)
              /\ Do(id, at, v, c).added = Append(v.added, r)
<1>1. /\ <<id, c.part>> \in Places /\ c.text \in Texts \cup {NoText}
      /\ c.start \in BOOLEAN
  BY DEF CallSet, Places
<1>2. \A from \in Places, text \in Texts \cup {NoText}, start \in BOOLEAN :
         \E r \in Additions :
            /\ r.from = from /\ r.words = WordsOf(text)
            /\ AddText(v, at, from, text, start).added = Append(v.added, r)
  BY AddTextAdds
<1> DEFINE from == <<id, c.part>>
           text == c.text
           start == c.start
<1>3. /\ from \in Places /\ text \in Texts \cup {NoText}
      /\ start \in BOOLEAN
  BY <1>1
<1>4. Do(id, at, v, c) = AddText(v, at, from, text, start)
  BY DEF Do
<1> HIDE DEF from, text, start
<1>5. \E r \in Additions :
         /\ r.from = from /\ r.words = WordsOf(text)
         /\ AddText(v, at, from, text, start).added = Append(v.added, r)
  BY ONLY <1>2, <1>3
<1> QED
  BY <1>4, <1>5 DEF from, text

(* added is longer by one entry for each call.                             *)
Adds(old, new, id, calls, n) ==
    /\ new \in Seq(Additions) /\ Len(new) = Len(old) + n
    /\ \A i \in 1..Len(old) : new[i] = old[i]
    /\ \A j \in 1..n : /\ new[Len(old) + j].from = <<id, calls[j].part>>
                      /\ new[Len(old) + j].words = WordsOf(calls[j].text)

LEMMA AddsOne ==
    ASSUME NEW old \in Seq(Additions), NEW new, NEW id, NEW calls,
           NEW n \in Nat \ {0}, Adds(old, new, id, calls, n - 1),
           NEW r \in Additions, r.from = <<id, calls[n].part>>,
           r.words = WordsOf(calls[n].text)
    PROVE  Adds(old, Append(new, r), id, calls, n)
<1> DEFINE m == Len(old)
           t == Append(new, r)
<1>1. /\ m \in Nat /\ new \in Seq(Additions) /\ Len(new) = m + (n - 1)
      /\ \A i \in 1..m : new[i] = old[i]
      /\ \A j \in 1..(n - 1) :
            /\ new[m + j].from = <<id, calls[j].part>>
            /\ new[m + j].words = WordsOf(calls[j].text)
  <2>1. m \in Nat
    OBVIOUS
  <2> QED
    BY <2>1, Zenon DEF Adds
<1>2. /\ t \in Seq(Additions) /\ Len(t) = Len(new) + 1
      /\ \A i \in 1..Len(new) : t[i] = new[i]
      /\ t[Len(new) + 1] = r
  BY <1>1, AppendProperties
<1> HIDE DEF m, t
<1>3. Len(t) = m + n /\ t[m + n] = r
  BY <1>1, <1>2
<1>4. \A i \in 1..m : t[i] = old[i]
  BY <1>1, <1>2
<1>5. ASSUME NEW j \in 1..n
      PROVE  /\ t[m + j].from = <<id, calls[j].part>>
             /\ t[m + j].words = WordsOf(calls[j].text)
  <2>1. CASE j = n
    BY <1>3, <2>1
  <2>2. CASE j # n
    <3>1. j \in 1..(n - 1) /\ m + j \in 1..Len(new)
      BY <1>1, <2>2
    <3>2. t[m + j] = new[m + j]
      BY <1>2, <3>1
    <3> QED
      BY <1>1, <3>1, <3>2
  <2> QED
    BY <2>1, <2>2
<1> QED
  BY <1>2, <1>3, <1>4, <1>5 DEF Adds, m, t

LEMMA PerformedAdds ==
    ASSUME doc \in KeptDocs, NEW id \in Nat, NEW calls \in Seq(CallSet),
           NEW at \in Positions
    PROVE  Adds(doc.added, Performed(id, calls, at).added, id, calls,
                Len(calls))
<1> DEFINE n == Len(calls)
           old == doc.added
<1>1. PICK done \in [0..n -> KeptDocs] :
         /\ done[0] = doc
         /\ \A i \in 1..n : done[i] = Do(id, at, done[i - 1], calls[i])
         /\ Performed(id, calls, at) = done[n]
  BY PerformedSteps
<1>2. n \in Nat /\ \A i \in 1..n : calls[i] \in CallSet
  OBVIOUS
<1>3. old \in Seq(Additions)
  BY OpenPlacesType DEF KeptDocs
<1> HIDE DEF n, old
<1> DEFINE Good == {i \in 0..n : Adds(old, done[i].added, id, calls, i)}
<1>4. 0 \in Good
  <2>1. 0 \in 0..n /\ done[0].added = old
    BY <1>1, <1>2 DEF old
  <2>2. Adds(old, old, id, calls, 0)
    BY <1>3 DEF Adds
  <2> QED
    BY <2>1, <2>2
<1>5. ASSUME NEW i \in 1..n, i - 1 \in Good PROVE i \in Good
  <2> DEFINE c == calls[i]
             v == done[i - 1]
  <2>1. i \in 0..n /\ i - 1 \in 0..n /\ i \in Nat \ {0}
    BY <1>2
  <2>2. /\ v \in KeptDocs /\ c \in CallSet /\ done[i] = Do(id, at, v, c)
        /\ Adds(old, v.added, id, calls, i - 1)
    BY <1>1, <1>2, <1>5, <2>1
  <2> HIDE DEF v
  <2>3. PICK r \in Additions :
           /\ r.from = <<id, c.part>> /\ r.words = WordsOf(c.text)
           /\ Do(id, at, v, c).added = Append(v.added, r)
    BY <2>2, DoAdds
  <2>4. Adds(old, Append(v.added, r), id, calls, i)
    <3>1. r.from = <<id, calls[i].part>> /\ r.words = WordsOf(calls[i].text)
      BY <2>3 DEF c
    <3> QED
      BY <1>3, <2>1, <2>2, <3>1, AddsOne
  <2> QED
    BY <2>1, <2>2, <2>3, <2>4
<1>6. n \in Good
  <2> HIDE DEF Good
  <2>1. n \in 0..n
    BY <1>2
  <2> QED
    BY <1>2, <1>4, <1>5, <2>1, IntervalInduction
<1> QED
  BY <1>1, <1>6 DEF n, old

(* Before the children come the text, the tail, or first the one and then  *)
(* the other; after them the tail of an element that had none of these.    *)
LEMMA CallsShape ==
    ASSUME NEW e \in Elements
    PROVE  /\ \/ Calls(e) = <<>>
              \/ \E s \in BOOLEAN :
                    \/ Calls(e) = <<Call(e, "text", s)>>
                    \/ Calls(e) = <<Call(e, "tail", s)>>
                    \/ Calls(e) = <<Call(e, "text", s), Call(e, "tail", s)>>
           /\ \/ CallsAfter(e) = <<>>
              \/ CallsAfter(e) = <<Call(e, "tail", FALSE)>> /\ Calls(e) = <<>>
<1> DEFINE Shape(c) ==
              \/ c = <<>>
              \/ \E s \in BOOLEAN :
                    \/ c = <<Call(e, "text", s)>>
                    \/ c = <<Call(e, "tail", s)>>
                    \/ c = <<Call(e, "text", s), Call(e, "tail", s)>>
<1>1. \A s : \/ TailCall(e, s) = <<>>
             \/ TailCall(e, s) = <<Call(e, "tail", s)>>
  BY DEF TailCall
<1>2. ASSUME NEW a, NEW b
      PROVE  <<a>> \o <<>> = <<a>> /\ <<a>> \o <<b>> = <<a, b>>
  <2>1. <<a>> \in Seq({a, b}) /\ <<b>> \in Seq({a, b})
    OBVIOUS
  <2>2. <<a>> \o <<>> = <<a>>
    BY <2>1, ConcatEmptySeq
  <2>3. <<a>> \o <<b>> = <<a, b>>
    <3>1. /\ Len(<<a>>) = 1 /\ Len(<<b>>) = 1 /\ <<a>>[1] = a /\ <<b>>[1] = b
          /\ <<a, b>> \in Seq({a, b}) /\ Len(<<a, b>>) = 2
          /\ <<a, b>>[1] = a /\ <<a, b>>[2] = b
      OBVIOUS
    <3>2. /\ <<a>> \o <<b>> \in Seq({a, b}) /\ Len(<<a>> \o <<b>>) = 2
          /\ (<<a>> \o <<b>>)[1] = a /\ (<<a>> \o <<b>>)[2] = b
      BY <2>1, <3>1, ConcatProperties
    <3>3. \A i \in 1..2 : i = 1 \/ i = 2
      OBVIOUS
    <3> QED
      BY <3>1, <3>2, <3>3, SeqEqual
  <2> QED
    BY <2>2, <2>3
<1>3. ASSUME NEW s \in BOOLEAN
      PROVE  /\ Shape(TailCall(e, s))
             /\ Shape(<<Call(e, "text", s)>>)
             /\ Shape(<<Call(e, "text", s)>> \o TailCall(e, s))
             /\ Shape(<<Call(e, "tail", s)>>)
             /\ Shape(<<Call(e, "text", s), Call(e, "tail", s)>>)
  <2> DEFINE t == Call(e, "text", s)
             l == Call(e, "tail", s)
  <2>1. /\ Shape(<<>>) /\ Shape(<<t>>) /\ Shape(<<l>>) /\ Shape(<<t, l>>)
    OBVIOUS
  <2>2. \/ TailCall(e, s) = <<>> /\ <<t>> \o TailCall(e, s) = <<t>>
        \/ TailCall(e, s) = <<l>> /\ <<t>> \o TailCall(e, s) = <<t, l>>
    <3> HIDE DEF t, l
    <3>1. TailCall(e, s) = <<>> \/ TailCall(e, s) = <<l>>
      BY <1>1 DEF l
    <3> QED
      BY <1>2, <3>1
  <2> HIDE DEF Shape
  <2> QED
    BY <2>1, <2>2
<1>4. /\ (e.unit \notin LineUnits) \in BOOLEAN
      /\ TRUE \in BOOLEAN /\ FALSE \in BOOLEAN /\ Shape(<<>>)
  OBVIOUS
<1>5. Shape(Calls(e))
  <2> HIDE DEF Shape
  <2> QED
    BY <1>3, <1>4, Zenon DEF Calls
<1>6. e.tag \in {"cit", "lg", "quote"} => Calls(e) = <<>>
  BY DEF Calls, TextThenTail
<1> QED
  BY <1>1, <1>5, <1>6 DEF CallsAfter

LEMMA CallsOrder ==
    ASSUME NEW e \in Elements
    PROVE  LET c == Calls(e)
               a == CallsAfter(e)
           IN
           /\ \A k \in DOMAIN c : c[k].text = e[c[k].part]
           /\ \A k \in DOMAIN c : c[k].part \in {"text", "tail"}
           /\ \A k, l \in DOMAIN c :
                 k < l => c[k].part = "text" /\ c[l].part = "tail"
           /\ Len(a) <= 1
           /\ \A k \in DOMAIN a : a[k].part = "tail" /\ a[k].text = e.tail
           /\ AddsTail(e) => a = <<>>
<1> DEFINE c == Calls(e)
           a == CallsAfter(e)
<1>1. \A s \in BOOLEAN, part \in {"text", "tail"} :
         /\ Call(e, part, s).part = part
         /\ Call(e, part, s).text = e[part]
  BY DEF Call
<1>2. ASSUME NEW s \in BOOLEAN, c = <<Call(e, "text", s)>>
      PROVE  /\ DOMAIN c = {1}
             /\ c[1].part = "text" /\ c[1].text = e["text"]
  BY <1>1, <1>2
<1>3. ASSUME NEW s \in BOOLEAN, c = <<Call(e, "tail", s)>>
      PROVE  /\ DOMAIN c = {1}
             /\ c[1].part = "tail" /\ c[1].text = e["tail"]
  BY <1>1, <1>3
<1>4. ASSUME NEW s \in BOOLEAN,
             c = <<Call(e, "text", s), Call(e, "tail", s)>>
      PROVE  /\ DOMAIN c = {1, 2}
             /\ c[1].part = "text" /\ c[1].text = e["text"]
             /\ c[2].part = "tail" /\ c[2].text = e["tail"]
  BY <1>1, <1>4
<1>5. /\ \A k \in DOMAIN c : c[k].text = e[c[k].part]
      /\ \A k \in DOMAIN c : c[k].part \in {"text", "tail"}
      /\ \A k, l \in DOMAIN c :
            k < l => c[k].part = "text" /\ c[l].part = "tail"
  <2>1. c = <<>> => DOMAIN c = {}
    OBVIOUS
  <2>2. \/ c = <<>>
        \/ \E s \in BOOLEAN :
              \/ c = <<Call(e, "text", s)>>
              \/ c = <<Call(e, "tail", s)>>
              \/ c = <<Call(e, "text", s), Call(e, "tail", s)>>
    BY CallsShape
  <2> HIDE DEF c
  <2>3. \/ DOMAIN c = {}
        \/ /\ DOMAIN c = {1}
           /\ c[1].part = "text" /\ c[1].text = e["text"]
        \/ /\ DOMAIN c = {1}
           /\ c[1].part = "tail" /\ c[1].text = e["tail"]
        \/ /\ DOMAIN c = {1, 2}
           /\ c[1].part = "text" /\ c[1].text = e["text"]
           /\ c[2].part = "tail" /\ c[2].text = e["tail"]
    BY <1>2, <1>3, <1>4, <2>1, <2>2
  <2>4. CASE DOMAIN c = {}
    BY <2>4
  <2>5. CASE DOMAIN c = {1}
    <3>1. \A k, l \in {1} : ~(k < l)
      OBVIOUS
    <3>2. \/ c[1].part = "text" /\ c[1].text = e["text"]
          \/ c[1].part = "tail" /\ c[1].text = e["tail"]
      BY <2>3, <2>5
    <3>3. c[1].text = e[c[1].part] /\ c[1].part \in {"text", "tail"}
      BY <3>2
    <3> QED
      BY <2>5, <3>1, <3>3
  <2>6. CASE DOMAIN c = {1, 2}
    <3>1. /\ c[1].part = "text" /\ c[1].text = e["text"]
          /\ c[2].part = "tail" /\ c[2].text = e["tail"]
      BY <2>3, <2>6
    <3>2. \A k, l \in {1, 2} : k < l => k = 1 /\ l = 2
      OBVIOUS
    <3> QED
      BY <2>6, <3>1, <3>2
  <2> QED
    BY <2>3, <2>4, <2>5, <2>6
<1>6. /\ Len(a) <= 1
      /\ \A k \in DOMAIN a : a[k].part = "tail" /\ a[k].text = e["tail"]
  <2>1. CASE a = <<>>
    BY <2>1
  <2>2. CASE a = <<Call(e, "tail", FALSE)>>
    <3> DEFINE l == Call(e, "tail", FALSE)
    <3>1. l.part = "tail" /\ l.text = e["tail"]
      BY <1>1
    <3> HIDE DEF l
    <3>2. Len(<<l>>) = 1 /\ DOMAIN <<l>> = {1} /\ <<l>>[1] = l
      OBVIOUS
    <3>3. a = <<l>>
      BY <2>2 DEF l
    <3> HIDE DEF a
    <3> QED
      BY <3>1, <3>2, <3>3
  <2> QED
    BY <2>1, <2>2, CallsShape
<1>7. AddsTail(e) => a = <<>>
  <2>1. c = <<>> => ~AddsTail(e)
    BY DEF AddsTail
  <2> QED
    BY <2>1, CallsShape
<1> QED
  BY <1>5, <1>6, <1>7

-----------------------------------------------------------------------------
(* The order of the words                                                  *)

TextOf(id) == <<id, "text">>
TailOf(id) == <<id, "tail">>

(* The tail of the element the walk has just come to is added already, but *)
(* its place in the file comes only when the element is left.              *)
Pending(f) ==
    /\ ~f.header /\ AddsTail(f.e)
    /\ source # <<>> /\ source[Len(source)] = TextOf(f.id)

(* The places in the order in which their words were added.                *)
Reading ==
    IF stack # <<>> /\ Pending(Head(stack))
    THEN Append(source, TailOf(Head(stack).id)) ELSE source

Ordered(added, places) ==
    /\ \A i \in DOMAIN added : added[i].words # <<>> =>
          \E k \in DOMAIN places : places[k] = added[i].from
    /\ \A i, j \in DOMAIN added :
          i < j /\ added[i].words # <<>> /\ added[j].words # <<>> =>
              \A k, l \in DOMAIN places :
                  places[k] = added[i].from /\ places[l] = added[j].from
                      => k < l

SourceInv == \A k \in DOMAIN source : source[k][1] <= Len(visited)

FrameInv(i) ==
    LET f == stack[i] IN
    /\ f.id <= Len(visited)
    /\ f.id = 0 => f.e = Root
    /\ f.id # 0 => f.e = visited[f.id]
    /\ \A j \in DOMAIN stack : stack[j].id = f.id => i = j
    /\ f.header \/ \A k \in DOMAIN source : source[k] # TailOf(f.id)
    /\ \/ f.header \/ i = 1 \/ source = <<>>
       \/ source[Len(source)] # TextOf(f.id)

InOrder == \A id \in DOMAIN visited : ~TailFirst(id)

OrderInv ==
    /\ TaggerInv
    /\ SourceInv
    /\ \A i \in DOMAIN stack : FrameInv(i)
    /\ status \in {"walked", "tagged"} => stack = <<>>
    /\ InOrder => Ordered(doc.added, Reading)

(* New places and the words from there come last.                          *)
LEMMA OrderedLonger ==
    ASSUME NEW old \in Seq(Additions), NEW new \in Seq(Additions),
           NEW s \in Seq(Places), NEW p \in Seq(Places),
           Ordered(old, s),
           Len(old) <= Len(new), \A i \in 1..Len(old) : new[i] = old[i],
           \A k \in 1..Len(s), l \in 1..Len(p) : s[k] # p[l],
           \A i \in (Len(old) + 1)..Len(new) : new[i].words # <<>> =>
              \E l \in 1..Len(p) : p[l] = new[i].from,
           \A i, j \in (Len(old) + 1)..Len(new) :
              i < j /\ new[i].words # <<>> /\ new[j].words # <<>> =>
                 \A k, l \in 1..Len(p) :
                    p[k] = new[i].from /\ p[l] = new[j].from => k < l
    PROVE  Ordered(new, s \o p)
<1> DEFINE n == Len(old)
           m == Len(new)
           a == Len(s)
           b == Len(p)
           t == s \o p
<1>1. /\ n \in Nat /\ m \in Nat /\ a \in Nat /\ b \in Nat /\ n <= m
      /\ DOMAIN old = 1..n /\ DOMAIN new = 1..m
      /\ DOMAIN s = 1..a /\ DOMAIN p = 1..b
  OBVIOUS
<1>2. /\ t \in Seq(Places) /\ Len(t) = a + b
      /\ \A i \in 1..(a + b) : t[i] = IF i <= a THEN s[i] ELSE p[i - a]
  BY ConcatProperties
<1> HIDE DEF t
<1>3. DOMAIN t = 1..(a + b)
  BY <1>1, <1>2
<1>4. /\ \A i \in 1..n : new[i] = old[i]
      /\ \A k \in 1..a, l \in 1..b : s[k] # p[l]
      /\ \A i \in (n + 1)..m : new[i].words # <<>> =>
            \E l \in 1..b : p[l] = new[i].from
      /\ \A i, j \in (n + 1)..m :
            i < j /\ new[i].words # <<>> /\ new[j].words # <<>> =>
               \A k, l \in 1..b :
                  p[k] = new[i].from /\ p[l] = new[j].from => k < l
  OBVIOUS
<1>5. /\ \A i \in 1..n : old[i].words # <<>> =>
            \E k \in 1..a : s[k] = old[i].from
      /\ \A i, j \in 1..n :
            i < j /\ old[i].words # <<>> /\ old[j].words # <<>> =>
               \A k, l \in 1..a :
                  s[k] = old[i].from /\ s[l] = old[j].from => k < l
  <2>1. Ordered(old, s)
    OBVIOUS
  <2>2. DOMAIN old = 1..n /\ DOMAIN s = 1..a
    BY <1>1
  <2> HIDE DEF n, a
  <2> QED
    BY ONLY <2>1, <2>2, Zenon DEF Ordered
<1> HIDE DEF n, m, a, b
<1>6. \A i \in 1..m : i \in 1..n \/ i \in (n + 1)..m
  BY <1>1
<1>7. \A k \in 1..(a + b) :
         \/ k \in 1..a /\ t[k] = s[k]
         \/ k > a /\ k - a \in 1..b /\ t[k] = p[k - a]
  BY <1>1, <1>2
<1>8. /\ \A k \in 1..a : k \in 1..(a + b) /\ t[k] = s[k]
      /\ \A l \in 1..b : a + l \in 1..(a + b) /\ t[a + l] = p[l]
  BY <1>1, <1>2
<1>9. ASSUME NEW i \in 1..m, new[i].words # <<>>
      PROVE  /\ \E k \in 1..(a + b) : t[k] = new[i].from
             /\ i \in 1..n =>
                   \A k \in 1..(a + b) : t[k] = new[i].from => k \in 1..a
             /\ i \notin 1..n =>
                   \A k \in 1..(a + b) : t[k] = new[i].from => k > a
  <2>1. CASE i \in 1..n
    <3>1. PICK k \in 1..a : s[k] = new[i].from
      BY <1>4, <1>5, <1>9, <2>1
    <3>2. \E l \in 1..(a + b) : t[l] = new[i].from
      BY ONLY <1>8, <3>1
    <3>3. \A l \in 1..b : p[l] # new[i].from
      BY <1>4, <3>1
    <3>4. \A l \in 1..(a + b) : t[l] = new[i].from => l \in 1..a
      BY ONLY <1>7, <3>3
    <3> QED
      BY ONLY <2>1, <3>2, <3>4, Zenon
  <2>2. CASE i \notin 1..n
    <3>1. PICK l \in 1..b : p[l] = new[i].from
      BY <1>4, <1>6, <1>9, <2>2
    <3>2. \E k \in 1..(a + b) : t[k] = new[i].from
      BY ONLY <1>8, <3>1
    <3>3. \A k \in 1..a : s[k] # new[i].from
      BY <1>4, <3>1
    <3>4. \A k \in 1..(a + b) : t[k] = new[i].from => k > a
      BY ONLY <1>7, <3>3
    <3> QED
      BY ONLY <2>2, <3>2, <3>4, Zenon
  <2> QED
    BY <2>1, <2>2
<1>10. ASSUME NEW i \in 1..m, NEW j \in 1..m, i < j,
              new[i].words # <<>>, new[j].words # <<>>,
              NEW k \in 1..(a + b), NEW l \in 1..(a + b),
              t[k] = new[i].from, t[l] = new[j].from
       PROVE  k < l
  <2>1. CASE j \in 1..n
    <3>1. i \in 1..n
      BY <1>1, <1>10, <2>1
    <3>2. k \in 1..a /\ l \in 1..a
      BY <1>9, <1>10, <2>1, <3>1
    <3>3. s[k] = old[i].from /\ s[l] = old[j].from
      BY <1>4, <1>8, <1>10, <2>1, <3>1, <3>2
    <3>4. old[i].words # <<>> /\ old[j].words # <<>>
      BY <1>4, <1>10, <2>1, <3>1
    <3> QED
      BY <1>5, <1>10, <2>1, <3>1, <3>2, <3>3, <3>4
  <2>2. CASE j \notin 1..n /\ i \in 1..n
    <3>1. k \in 1..a /\ l > a
      BY <1>9, <1>10, <2>2
    <3> QED
      BY <1>1, <3>1
  <2>3. CASE j \notin 1..n /\ i \notin 1..n
    <3>1. i \in (n + 1)..m /\ j \in (n + 1)..m
      BY <1>6, <2>3
    <3>2. k > a /\ l > a
      BY <1>9, <1>10, <2>3
    <3>3. /\ k - a \in 1..b /\ p[k - a] = new[i].from
          /\ l - a \in 1..b /\ p[l - a] = new[j].from
      BY <1>1, <1>7, <1>10, <3>2
    <3>4. k - a < l - a
      BY <1>4, <1>10, <3>1, <3>3
    <3> QED
      BY <1>1, <3>4
  <2> QED
    BY <2>1, <2>2, <2>3
<1>11. \A i \in 1..m : new[i].words # <<>> =>
          \E k \in 1..(a + b) : t[k] = new[i].from
  BY <1>9
<1>12. DOMAIN new = 1..m
  BY <1>1
<1>13. \A i, j \in 1..m :
          i < j /\ new[i].words # <<>> /\ new[j].words # <<>> =>
             \A k, l \in 1..(a + b) :
                t[k] = new[i].from /\ t[l] = new[j].from => k < l
  BY <1>10
<1>14. Ordered(new, t)
  BY ONLY <1>3, <1>11, <1>12, <1>13, Zenon DEF Ordered
<1> QED
  BY <1>14 DEF t

(* An element that is come to adds its text, and its tail if it does so    *)
(* before the children.                                                    *)
LEMMA VisitOrdered ==
    ASSUME NEW old \in Seq(Additions), NEW new, NEW id \in Nat,
           NEW e \in Elements,
           Adds(old, new, id, Calls(e), Len(Calls(e))),
           NEW s \in Seq(Places), \A k \in 1..Len(s) : s[k][1] # id,
           NEW q \in Seq(Places), q[1] = TextOf(id),
           \/ Len(q) = 1 /\ ~AddsTail(e)
           \/ Len(q) = 2 /\ q[2] = TailOf(id),
           Ordered(old, s)
    PROVE  Ordered(new, s \o q)
<1> DEFINE c == Calls(e)
           n == Len(old)
           m == Len(c)
<1>1. /\ n \in Nat /\ m \in Nat /\ DOMAIN c = 1..m
  BY CallsType
<1>2. /\ new \in Seq(Additions) /\ Len(new) = n + m
      /\ \A i \in 1..n : new[i] = old[i]
      /\ \A j \in 1..m : /\ new[n + j].from = <<id, c[j].part>>
                        /\ new[n + j].words = WordsOf(c[j].text)
  BY Zenon DEF Adds
<1>3. /\ \A j \in 1..m : c[j].text = e[c[j].part]
      /\ \A j \in 1..m : c[j].part \in {"text", "tail"}
      /\ \A j, k \in 1..m :
            j < k => c[j].part = "text" /\ c[k].part = "tail"
  BY <1>1, CallsOrder
<1>4. (\E j \in 1..m : c[j].part = "tail") /\ e.tail # NoText => AddsTail(e)
  BY <1>1 DEF AddsTail
<1> HIDE DEF n, m, c
<1>5. \A i \in (n + 1)..(n + m) : i - n \in 1..m /\ n + (i - n) = i
  BY <1>1
<1>6. ASSUME NEW i \in (n + 1)..(n + m), new[i].words # <<>>
      PROVE  \/ new[i].from = TextOf(id)
             \/ new[i].from = TailOf(id) /\ AddsTail(e)
  <2> DEFINE j == i - n
  <2>1. /\ j \in 1..m /\ new[i].from = <<id, c[j].part>>
        /\ new[i].words = WordsOf(c[j].text)
    BY <1>2, <1>5
  <2> HIDE DEF j
  <2>2. CASE c[j].part = "text"
    BY <2>1, <2>2 DEF TextOf
  <2>3. CASE c[j].part = "tail"
    <3>1. e.tail # NoText
      BY <1>3, <1>6, <2>1, <2>3 DEF WordsOf
    <3> QED
      BY <1>4, <2>1, <2>3, <3>1 DEF TailOf
  <2> QED
    BY <1>3, <2>1, <2>2, <2>3
<1>7. ASSUME NEW i \in (n + 1)..(n + m), NEW j \in (n + 1)..(n + m), i < j
      PROVE  new[i].from = TextOf(id) /\ new[j].from = TailOf(id)
  <2>1. /\ i - n \in 1..m /\ j - n \in 1..m /\ i - n < j - n
        /\ n + (i - n) = i /\ n + (j - n) = j
    BY <1>1, <1>5, <1>7
  <2>2. c[i - n].part = "text" /\ c[j - n].part = "tail"
    BY <1>3, <2>1
  <2>3. /\ new[n + (i - n)].from = <<id, c[i - n].part>>
        /\ new[n + (j - n)].from = <<id, c[j - n].part>>
    BY <1>2, <2>1
  <2> QED
    BY <2>1, <2>2, <2>3 DEF TextOf, TailOf
<1>8. \A k \in 1..Len(s), l \in 1..Len(q) : s[k] # q[l]
  <2>1. \A l \in 1..Len(q) : q[l] = TextOf(id) \/ q[l] = TailOf(id)
    <3>1. \A l \in 1..2 : l = 1 \/ l = 2
      OBVIOUS
    <3>2. \A l \in 1..1 : l = 1
      OBVIOUS
    <3> QED
      BY <3>1, <3>2
  <2>2. TextOf(id)[1] = id /\ TailOf(id)[1] = id
    BY DEF TextOf, TailOf
  <2> QED
    BY <2>1, <2>2
<1>9. ASSUME NEW i \in (n + 1)..(n + m), new[i].words # <<>>
      PROVE  \E l \in 1..Len(q) : q[l] = new[i].from
  <2>1. 1 \in 1..Len(q) /\ (AddsTail(e) => 2 \in 1..Len(q) /\ q[2] = TailOf(id))
    OBVIOUS
  <2> QED
    BY <1>6, <1>9, <2>1
<1>10. ASSUME NEW i \in (n + 1)..(n + m), NEW j \in (n + 1)..(n + m), i < j,
              NEW k \in 1..Len(q), NEW l \in 1..Len(q),
              q[k] = new[i].from, q[l] = new[j].from
       PROVE  k < l
  <2>1. q[k] = TextOf(id) /\ q[l] = TailOf(id)
    BY <1>7, <1>10
  <2>2. TextOf(id) # TailOf(id)
    BY DEF TextOf, TailOf
  <2>3. l # 1
    BY <2>1, <2>2
  <2>4. /\ Len(q) = 1 => k = 1 /\ l = 1
        /\ Len(q) = 2 => k \in {1, 2} /\ l \in {1, 2}
    <3>1. (\A x \in 1..1 : x = 1) /\ (\A x \in 1..2 : x \in {1, 2})
      OBVIOUS
    <3>2. k \in 1..Len(q) /\ l \in 1..Len(q)
      BY <1>10
    <3> QED
      BY ONLY <3>1, <3>2
  <2>5. l = 2 /\ Len(q) = 2 /\ k \in {1, 2}
    BY <2>3, <2>4
  <2>6. k # 2
    BY <2>1, <2>2, <2>5
  <2> QED
    BY <2>5, <2>6
<1>11. /\ \A i \in (n + 1)..Len(new) : new[i].words # <<>> =>
             \E l \in 1..Len(q) : q[l] = new[i].from
       /\ \A i, j \in (n + 1)..Len(new) :
             i < j /\ new[i].words # <<>> /\ new[j].words # <<>> =>
                \A k, l \in 1..Len(q) :
                   q[k] = new[i].from /\ q[l] = new[j].from => k < l
       /\ n <= Len(new)
  <2>1. n <= n + m /\ Len(new) = n + m
    BY <1>1, <1>2
  <2>2. \A i \in (n + 1)..(n + m) : new[i].words # <<>> =>
           \E l \in 1..Len(q) : q[l] = new[i].from
    BY <1>9
  <2>3. \A i, j \in (n + 1)..(n + m) :
           i < j /\ new[i].words # <<>> /\ new[j].words # <<>> =>
              \A k, l \in 1..Len(q) :
                 q[k] = new[i].from /\ q[l] = new[j].from => k < l
    BY <1>10
  <2> QED
    BY ONLY <2>1, <2>2, <2>3
<1> QED
  BY <1>2, <1>8, <1>11, OrderedLonger DEF n

(* An element that is left adds its tail if it has not done so.            *)
LEMMA LeaveOrdered ==
    ASSUME NEW old \in Seq(Additions), NEW new, NEW id \in Nat,
           NEW calls \in Seq(CallSet), Len(calls) <= 1,
           \A k \in DOMAIN calls : calls[k].part = "tail",
           Adds(old, new, id, calls, Len(calls)),
           NEW s \in Seq(Places), \A k \in 1..Len(s) : s[k] # TailOf(id),
           Ordered(old, s)
    PROVE  Ordered(new, Append(s, TailOf(id)))
<1> DEFINE n == Len(old)
           m == Len(calls)
           q == <<TailOf(id)>>
<1>1. /\ n \in Nat /\ m \in {0, 1} /\ DOMAIN calls = 1..m
  <2>1. m \in Nat /\ m <= 1 /\ DOMAIN calls = 1..m
    OBVIOUS
  <2> HIDE DEF m
  <2> QED
    BY <2>1
<1>2. /\ new \in Seq(Additions) /\ Len(new) = n + m
      /\ \A i \in 1..n : new[i] = old[i]
      /\ \A j \in 1..m : new[n + j].from = <<id, calls[j].part>>
  BY Zenon DEF Adds
<1>3. TailOf(id) \in Places
  BY DEF Places, TailOf
<1>4. /\ q \in Seq(Places) /\ Len(q) = 1 /\ q[1] = TailOf(id)
      /\ Append(s, TailOf(id)) = s \o q
  <2>1. q \in Seq(Places) /\ Len(q) = 1 /\ q[1] = TailOf(id)
    BY <1>3
  <2> QED
    BY <1>3, <2>1, AppendIsConcat
<1> HIDE DEF n, m, q
<1>5. \A i \in (n + 1)..(n + m) : i = n + 1 /\ m = 1 /\ 1 \in 1..m
  BY <1>1
<1>6. \A i \in (n + 1)..(n + m) : new[i].from = TailOf(id)
  BY <1>1, <1>2, <1>5 DEF TailOf
<1>7. 1 \in 1..Len(q) /\ \A l \in 1..Len(q) : q[l] = TailOf(id)
  BY <1>4
<1>8. \A i, j \in (n + 1)..(n + m) : ~(i < j)
  BY <1>1, <1>5
<1>9. /\ \A i \in (n + 1)..Len(new) : new[i].words # <<>> =>
            \E l \in 1..Len(q) : q[l] = new[i].from
      /\ \A i, j \in (n + 1)..Len(new) :
            i < j /\ new[i].words # <<>> /\ new[j].words # <<>> =>
               \A k, l \in 1..Len(q) :
                  q[k] = new[i].from /\ q[l] = new[j].from => k < l
      /\ n <= Len(new)
  <2>1. n <= n + m /\ Len(new) = n + m
    BY <1>1, <1>2
  <2>2. \A i \in (n + 1)..(n + m) : \E l \in 1..Len(q) : q[l] = new[i].from
    BY <1>6, <1>7
  <2> QED
    BY ONLY <1>8, <2>1, <2>2
<1>10. \A k \in 1..Len(s), l \in 1..Len(q) : s[k] # q[l]
  BY <1>7
<1>11. Ordered(new, s \o q)
  BY <1>2, <1>4, <1>9, <1>10, OrderedLonger DEF n
<1> QED
  BY <1>4, <1>11

(* s is a beginning of t.                                                  *)
Begins(s, t) ==
    Len(s) <= Len(t) /\ \A i \in 1..Len(s) : t[i] = s[i]

LEMMA BeginsAppend ==
    ASSUME NEW S, NEW s \in Seq(S), NEW x \in S
    PROVE  Begins(s, s) /\ Begins(s, Append(s, x))
<1>1. Len(s) \in Nat
  OBVIOUS
<1>2. Begins(s, s)
  BY <1>1 DEF Begins
<1>3. /\ Len(Append(s, x)) = Len(s) + 1
      /\ \A i \in 1..Len(s) : Append(s, x)[i] = s[i]
  BY AppendProperties
<1> QED
  BY <1>1, <1>2, <1>3 DEF Begins

(* An element that has its tail first keeps this.                          *)
LEMMA InOrderLater ==
    ASSUME visited \in Seq(Elements), visited' \in Seq(Elements),
           source \in Seq(Places), source' \in Seq(Places),
           Begins(visited, visited'), Begins(source, source')
    PROVE  InOrder' => InOrder
<1>1. /\ Len(visited) \in Nat /\ Len(visited') \in Nat
      /\ DOMAIN visited = 1..Len(visited) /\ DOMAIN visited' = 1..Len(visited')
      /\ Len(visited) <= Len(visited')
      /\ \A i \in 1..Len(visited) : visited'[i] = visited[i]
  BY DEF Begins
<1>2. /\ Len(source) \in Nat /\ Len(source') \in Nat
      /\ Len(source) <= Len(source')
      /\ \A i \in 1..Len(source) : source'[i] = source[i]
  BY DEF Begins
<1>3. ASSUME NEW id \in DOMAIN visited, TailFirst(id)
      PROVE  id \in DOMAIN visited' /\ TailFirst(id)'
  <2>1. id \in DOMAIN visited' /\ visited'[id] = visited[id]
    BY <1>1
  <2>2. PICK i \in 1..(Len(source) - 1) :
           source[i] = <<id, "text">> /\ source[i + 1] # <<id, "tail">>
    BY <1>3 DEF TailFirst
  <2>3. /\ i \in 1..(Len(source') - 1)
        /\ i \in 1..Len(source) /\ i + 1 \in 1..Len(source)
    BY <1>2
  <2>4. source'[i] = source[i] /\ source'[i + 1] = source[i + 1]
    BY <1>2, <2>3
  <2> QED
    BY <1>3, <2>1, <2>2, <2>3, <2>4 DEF TailFirst
<1> QED
  BY <1>3 DEF InOrder

(* What the invariant says of the innermost element.                       *)
LEMMA InnerFrame ==
    ASSUME OrderInv, stack # <<>>
    PROVE  LET f == Head(stack) IN
           /\ f \in Frames /\ f = stack[1] /\ FrameInv(1)
           /\ f.id \in Nat /\ f.id <= Len(visited)
           /\ f.id # 0 => f.id \in DOMAIN visited /\ f.e = visited[f.id]
           /\ AddsTail(f.e) => f.id # 0
<1> DEFINE f == Head(stack)
<1>1. /\ stack \in Seq(Frames) /\ visited \in Seq(Elements)
  BY DEF OrderInv, TaggerInv, TaggerTypeOK
<1>2. /\ f \in Frames /\ f = stack[1] /\ 1 \in DOMAIN stack
      /\ Len(visited) \in Nat /\ DOMAIN visited = 1..Len(visited)
  BY <1>1
<1>3. FrameInv(1)
  BY <1>2 DEF OrderInv
<1>4. f.id \in Nat
  BY <1>2 DEF Frames
<1>5. /\ f.id <= Len(visited)
      /\ f.id = 0 => f.e = Root
      /\ f.id # 0 => f.e = visited[f.id]
  BY <1>2, <1>3 DEF FrameInv
<1>6. ~AddsTail(Root)
  BY DEF AddsTail, Root
<1> HIDE DEF f
<1>7. f.id # 0 => f.id \in DOMAIN visited
  BY <1>2, <1>4, <1>5
<1> QED
  BY <1>2, <1>3, <1>4, <1>5, <1>6, <1>7 DEF f

(* When another element is come to, a tail that waits is a tail first.     *)
LEMMA NothingPending ==
    ASSUME OrderInv, stack # <<>>,
           visited' \in Seq(Elements), Begins(visited, visited'),
           source' \in Seq(Places), Begins(source, source'),
           Len(source) < Len(source'),
           source'[Len(source) + 1] # TailOf(Head(stack).id),
           InOrder'
    PROVE  Reading = source
<1> DEFINE f == Head(stack)
<1>1. SUFFICES ASSUME Pending(f) PROVE FALSE
  BY DEF Reading
<1>2. /\ f.id \in DOMAIN visited /\ f.e = visited[f.id]
  BY <1>1, InnerFrame DEF Pending
<1>3. /\ visited \in Seq(Elements) /\ source \in Seq(Places)
  BY DEF OrderInv, TaggerInv, TaggerTypeOK
<1>4. f.id \in DOMAIN visited' /\ visited'[f.id] = visited[f.id]
  BY <1>2, <1>3 DEF Begins
<1>5. /\ source # <<>> /\ source[Len(source)] = TextOf(f.id)
      /\ AddsTail(f.e)
  BY <1>1 DEF Pending
<1> HIDE DEF f
<1> DEFINE n == Len(source)
<1>6. n \in 1..n /\ n \in 1..(Len(source') - 1)
  BY <1>3, <1>5
<1>7. source'[n] = TextOf(f.id)
  BY <1>5, <1>6 DEF Begins
<1>8. source'[n + 1] # TailOf(f.id)
  BY DEF f
<1>9. PICK id : id = f.id
  OBVIOUS
<1>10. id \in DOMAIN visited' /\ AddsTail(visited'[id])
  BY <1>2, <1>4, <1>5, <1>9
<1>11. TailFirst(id)'
  BY <1>6, <1>7, <1>8, <1>9, <1>10 DEF TailFirst, TextOf, TailOf
<1> QED
  BY <1>10, <1>11 DEF InOrder

(* The walk does not go on, or only past something.                        *)
LEMMA SameOrder ==
    ASSUME OrderInv, TaggerInv', Begins(visited, visited'),
           source' = source, stack' = stack, doc'.added = doc.added,
           status' \in {"walked", "tagged"} => stack = <<>>
    PROVE  OrderInv'
<1>1. /\ visited \in Seq(Elements) /\ visited' \in Seq(Elements)
      /\ source \in Seq(Places) /\ stack \in Seq(Frames)
  BY DEF OrderInv, TaggerInv, TaggerTypeOK
<1>2. /\ Len(visited) \in Nat /\ Len(visited') \in Nat
      /\ Len(visited) <= Len(visited')
      /\ \A i \in 1..Len(visited) : visited'[i] = visited[i]
  BY <1>1 DEF Begins
<1>3. InOrder' => InOrder
  <2>1. Begins(source, source')
    BY <1>1 DEF Begins
  <2> QED
    BY <1>1, <2>1, InOrderLater
<1>4. SourceInv'
  <2> SUFFICES ASSUME NEW k \in DOMAIN source
               PROVE  source[k][1] <= Len(visited')
    BY DEF SourceInv
  <2>1. source[k][1] \in Nat /\ source[k][1] <= Len(visited)
    BY <1>1 DEF OrderInv, SourceInv, Places
  <2> QED
    BY <1>2, <2>1
<1>5. ASSUME NEW i \in DOMAIN stack PROVE FrameInv(i)'
  <2>1. FrameInv(i) /\ stack[i].id \in Nat
    <3>1. FrameInv(i)
      BY DEF OrderInv
    <3>2. stack[i] \in Frames
      BY <1>1
    <3> QED
      BY <3>1, <3>2 DEF Frames
  <2>2. stack[i].id <= Len(visited')
    BY <1>2, <2>1 DEF FrameInv
  <2>3. stack[i].id # 0 => visited'[stack[i].id] = visited[stack[i].id]
    BY <1>2, <2>1 DEF FrameInv
  <2>4. /\ stack[i].id = 0 => stack[i].e = Root
        /\ stack[i].id # 0 => stack[i].e = visited'[stack[i].id]
        /\ \A j \in DOMAIN stack : stack[j].id = stack[i].id => i = j
        /\ \/ stack[i].header
           \/ \A k \in DOMAIN source : source[k] # TailOf(stack[i].id)
        /\ \/ stack[i].header \/ i = 1 \/ source = <<>>
           \/ source[Len(source)] # TextOf(stack[i].id)
    BY <2>1, <2>3 DEF FrameInv
  <2> QED
    BY <2>2, <2>4 DEF FrameInv
<1>6. Reading' = Reading
  BY DEF Reading, Pending
<1> QED
  BY <1>3, <1>4, <1>5, <1>6 DEF OrderInv

(* What a frame of the stack still is when element id is come to.          *)
Carried(f, id) ==
    /\ f.id < id
    /\ f.id = 0 => f.e = Root
    /\ f.id # 0 => f.e = visited'[f.id]
    /\ f.header \/ \A k \in DOMAIN source' : source'[k] # TailOf(f.id)
    /\ \/ f.header \/ source' = <<>>
       \/ source'[Len(source')] # TextOf(f.id)

LEMMA PushedFrames ==
    ASSUME stack \in Seq(Frames), NEW g \in Frames, stack' = <<g>> \o stack,
           g.id # 0, g.id = Len(visited'), g.e = visited'[g.id],
           \A i \in DOMAIN stack : Carried(stack[i], g.id),
           \A i, j \in DOMAIN stack : stack[i].id = stack[j].id => i = j,
           \A k \in DOMAIN source' : source'[k] # TailOf(g.id)
    PROVE  (\A i \in DOMAIN stack : FrameInv(i))' /\ Head(stack') = g
<1> DEFINE n == Len(stack)
           t == stack'
<1>1. n \in Nat /\ DOMAIN stack = 1..n /\ \A i \in 1..n : stack[i] \in Frames
  OBVIOUS
<1>2. <<g>> \in Seq(Frames) /\ Len(<<g>>) = 1 /\ <<g>>[1] = g
  OBVIOUS
<1>3. /\ t \in Seq(Frames) /\ Len(t) = 1 + n
      /\ \A i \in 1..(1 + n) : t[i] = IF i <= 1 THEN <<g>>[1]
                                      ELSE stack[i - 1]
  <2>1. /\ <<g>> \o stack \in Seq(Frames)
        /\ Len(<<g>> \o stack) = Len(<<g>>) + Len(stack)
        /\ \A i \in 1..(Len(<<g>>) + Len(stack)) :
              (<<g>> \o stack)[i] = IF i <= Len(<<g>>) THEN <<g>>[i]
                                    ELSE stack[i - Len(<<g>>)]
    BY <1>2, ConcatProperties
  <2>2. \A i \in 1..(1 + n) : i <= 1 => i = 1
    BY <1>1
  <2> QED
    BY <1>2, <2>1, <2>2
<1> HIDE DEF n, t
<1>4. /\ DOMAIN t = 1..(n + 1) /\ t[1] = g /\ Head(t) = g
      /\ \A i \in 1..(n + 1) :
            i = 1 \/ (i - 1 \in 1..n /\ t[i] = stack[i - 1])
  BY <1>1, <1>2, <1>3
<1>5. /\ \A i \in 1..n : Carried(stack[i], g.id)
      /\ \A i, j \in 1..n : stack[i].id = stack[j].id => i = j
  BY <1>1
<1>6. g.id \in Nat /\ \A i \in 1..n : stack[i].id \in Nat
  BY <1>1 DEF Frames
<1>7. ASSUME NEW i \in 1..(n + 1), NEW j \in 1..(n + 1), t[j].id = t[i].id
      PROVE  i = j
  <2>1. \A k \in 1..n : stack[k].id < g.id
    BY <1>5 DEF Carried
  <2>2. ASSUME i # 1, j # 1 PROVE i - 1 = j - 1
    <3>1. /\ i - 1 \in 1..n /\ t[i] = stack[i - 1]
          /\ j - 1 \in 1..n /\ t[j] = stack[j - 1]
      BY <1>4, <2>2
    <3>2. stack[i - 1].id = stack[j - 1].id
      BY <1>7, <3>1
    <3> QED
      BY <1>5, <3>1, <3>2
  <2>3. (i = 1 /\ j # 1) \/ (i # 1 /\ j = 1) => FALSE
    BY <1>4, <1>6, <1>7, <2>1
  <2> QED
    BY <1>1, <2>2, <2>3
<1>8. ASSUME NEW i \in 1..(n + 1)
      PROVE  /\ t[i].id <= Len(visited')
             /\ t[i].id = 0 => t[i].e = Root
             /\ t[i].id # 0 => t[i].e = visited'[t[i].id]
             /\ \/ t[i].header
                \/ \A k \in DOMAIN source' : source'[k] # TailOf(t[i].id)
             /\ \/ t[i].header \/ i = 1 \/ source' = <<>>
                \/ source'[Len(source')] # TextOf(t[i].id)
  <2>1. CASE i = 1
    BY <1>4, <1>6, <2>1
  <2>2. CASE i # 1
    <3>1. t[i] = stack[i - 1] /\ i - 1 \in 1..n
      BY <1>4, <2>2
    <3>2. Carried(t[i], g.id) /\ t[i].id \in Nat
      BY <1>5, <1>6, <3>1
    <3>3. t[i].id <= Len(visited')
      BY <1>6, <3>2 DEF Carried
    <3> QED
      BY <3>2, <3>3 DEF Carried
  <2> QED
    BY <2>1, <2>2
<1>9. \A i \in 1..(n + 1) : FrameInv(i)'
  BY <1>4, <1>7, <1>8 DEF FrameInv, t
<1> QED
  BY <1>4, <1>9 DEF t

(* The places of a new element are no others'.                             *)
LEMMA FramesCarried ==
    ASSUME OrderInv, NEW e \in Elements, visited' = Append(visited, e),
           NEW id, id = Len(visited) + 1,
           source' \in Seq(Places), Begins(source, source'),
           \A k \in 1..Len(source') :
              k > Len(source) => source'[k][1] = id
    PROVE  /\ SourceInv'
           /\ \A i \in DOMAIN stack :
                 \/ i = 1 /\ ~stack[i].header /\ source' = source
                 \/ Carried(stack[i], id)
           /\ \A i, j \in DOMAIN stack : stack[i].id = stack[j].id => i = j
           /\ \A k \in 1..Len(source) : source[k][1] # id
<1>1. /\ visited \in Seq(Elements) /\ source \in Seq(Places)
      /\ stack \in Seq(Frames)
  BY DEF OrderInv, TaggerInv, TaggerTypeOK
<1>2. /\ Len(visited) \in Nat /\ Len(visited') = id
      /\ \A i \in 1..Len(visited) : visited'[i] = visited[i]
  BY <1>1, AppendProperties
<1>3. /\ Len(source) \in Nat /\ Len(source') \in Nat
      /\ DOMAIN source = 1..Len(source) /\ DOMAIN source' = 1..Len(source')
      /\ Len(source) <= Len(source')
      /\ \A k \in 1..Len(source) : source'[k] = source[k]
  BY <1>1 DEF Begins
<1>4. ASSUME NEW k \in 1..Len(source)
      PROVE  source[k][1] \in Nat /\ source[k][1] <= Len(visited)
  <2>1. source[k] \in Places
    BY <1>1
  <2>2. source[k][1] <= Len(visited)
    BY <1>3 DEF OrderInv, SourceInv
  <2> QED
    BY <2>1, <2>2 DEF Places
<1>5. ASSUME NEW k \in 1..Len(source')
      PROVE  \/ k \in 1..Len(source) /\ source'[k] = source[k]
             \/ source'[k][1] = id
  BY <1>3
<1>6. SourceInv'
  <2> SUFFICES ASSUME NEW k \in 1..Len(source')
               PROVE  source'[k][1] <= Len(visited')
    BY <1>3 DEF SourceInv
  <2> QED
    BY <1>2, <1>4, <1>5
<1>7. ASSUME NEW i \in DOMAIN stack
      PROVE  FrameInv(i) /\ stack[i].id \in Nat
  <2>1. FrameInv(i)
    BY DEF OrderInv
  <2>2. stack[i] \in Frames
    BY <1>1
  <2> QED
    BY <2>1, <2>2 DEF Frames
<1>8. ASSUME NEW i \in DOMAIN stack
      PROVE  \/ i = 1 /\ ~stack[i].header /\ source' = source
             \/ Carried(stack[i], id)
  <2> DEFINE f == stack[i]
  <2>1. /\ f.id \in Nat /\ f.id <= Len(visited)
        /\ f.id = 0 => f.e = Root
        /\ f.id # 0 => f.e = visited[f.id]
        /\ f.header \/ \A k \in DOMAIN source : source[k] # TailOf(f.id)
        /\ \/ f.header \/ i = 1 \/ source = <<>>
           \/ source[Len(source)] # TextOf(f.id)
    BY <1>7 DEF FrameInv
  <2> HIDE DEF f
  <2>2. f.id < id /\ f.id # id
    BY <1>2, <2>1
  <2>3. f.id # 0 => f.e = visited'[f.id]
    BY <1>2, <2>1
  <2>4. f.header \/ \A k \in DOMAIN source' : source'[k] # TailOf(f.id)
    BY <1>3, <1>5, <2>1, <2>2 DEF TailOf
  <2>5. CASE Len(source') = Len(source)
    <3>1. source' = source
      BY <1>1, <1>3, <2>5, SeqEqual
    <3>2. CASE i = 1 /\ ~f.header
      BY <3>1, <3>2 DEF f
    <3>3. CASE ~(i = 1 /\ ~f.header)
      <4>1. \/ f.header \/ source' = <<>>
            \/ source'[Len(source')] # TextOf(f.id)
        BY <2>1, <3>1, <3>3
      <4>2. Carried(f, id)
        BY <2>1, <2>2, <2>3, <2>4, <4>1 DEF Carried
      <4> QED
        BY <4>2 DEF f
    <3> QED
      BY <3>2, <3>3
  <2>6. CASE Len(source') # Len(source)
    <3>1. /\ Len(source') \in 1..Len(source')
          /\ Len(source') > Len(source)
      <4>1. \A a, b \in Nat : a <= b /\ b # a => b \in 1..b /\ b > a
        OBVIOUS
      <4> QED
        BY ONLY <1>3, <2>6, <4>1
    <3>2. source'[Len(source')][1] = id
      BY <3>1
    <3>3. source'[Len(source')] # TextOf(f.id)
      BY <2>2, <3>2 DEF TextOf
    <3>4. Carried(f, id)
      BY <2>1, <2>2, <2>3, <2>4, <3>3 DEF Carried
    <3> QED
      BY <3>4 DEF f
  <2> QED
    BY <2>5, <2>6
<1>9. \A i, j \in DOMAIN stack : stack[i].id = stack[j].id => i = j
  BY <1>7 DEF FrameInv
<1>10. \A k \in 1..Len(source) : source[k][1] # id
  BY <1>2, <1>4
<1> QED
  BY <1>6, <1>8, <1>9, <1>10

LEMMA OneMore ==
    ASSUME NEW s \in Seq(Places), NEW a \in Places
    PROVE  /\ <<a>> \in Seq(Places) /\ Len(<<a>>) = 1 /\ <<a>>[1] = a
           /\ s \o <<a>> = Append(s, a)
           /\ Append(s, a) \in Seq(Places) /\ Len(Append(s, a)) = Len(s) + 1
           /\ Append(s, a)[Len(s) + 1] = a /\ Begins(s, Append(s, a))
<1>1. <<a>> \in Seq(Places) /\ Len(<<a>>) = 1 /\ <<a>>[1] = a
  OBVIOUS
<1>2. s \o <<a>> = Append(s, a)
  BY AppendIsConcat
<1>3. /\ Append(s, a) \in Seq(Places) /\ Len(Append(s, a)) = Len(s) + 1
      /\ Append(s, a)[Len(s) + 1] = a
  BY AppendProperties
<1> QED
  BY <1>1, <1>2, <1>3, BeginsAppend

LEMMA TwoMore ==
    ASSUME NEW s \in Seq(Places), NEW a \in Places, NEW b \in Places
    PROVE  LET t == s \o <<a, b>> IN
           /\ <<a, b>> \in Seq(Places) /\ Len(<<a, b>>) = 2
           /\ <<a, b>>[1] = a /\ <<a, b>>[2] = b
           /\ t = Append(Append(s, a), b)
           /\ t \in Seq(Places) /\ Len(t) = Len(s) + 2
           /\ t[Len(s) + 1] = a /\ t[Len(s) + 2] = b /\ Begins(s, t)
<1> DEFINE p == <<a, b>>
           t == s \o p
           u == Append(Append(s, a), b)
           n == Len(s)
<1>1. p \in Seq(Places) /\ Len(p) = 2 /\ p[1] = a /\ p[2] = b /\ n \in Nat
  OBVIOUS
<1> HIDE DEF p
<1>2. /\ t \in Seq(Places) /\ Len(t) = n + 2
      /\ \A i \in 1..(n + 2) : t[i] = IF i <= n THEN s[i] ELSE p[i - n]
  <2>1. /\ t \in Seq(Places) /\ Len(t) = n + Len(p)
        /\ \A i \in 1..(n + Len(p)) : t[i] = IF i <= n THEN s[i] ELSE p[i - n]
    BY <1>1, ConcatProperties
  <2> QED
    BY ONLY <1>1, <2>1
<1> HIDE DEF t
<1>3. /\ t[n + 1] = a /\ t[n + 2] = b
      /\ \A i \in 1..n : t[i] = s[i]
  <2>1. /\ n + 1 \in 1..(n + 2) /\ n + 2 \in 1..(n + 2)
        /\ ~(n + 1 <= n) /\ ~(n + 2 <= n)
        /\ (n + 1) - n = 1 /\ (n + 2) - n = 2
        /\ \A i \in 1..n : i \in 1..(n + 2) /\ i <= n
    BY <1>1
  <2>2. t[n + 1] = p[(n + 1) - n] /\ t[n + 2] = p[(n + 2) - n]
    BY <1>2, <2>1
  <2> QED
    BY <1>1, <1>2, <2>1, <2>2
<1>4. Begins(s, t)
  BY <1>1, <1>2, <1>3 DEF Begins
<1>5. /\ u \in Seq(Places) /\ Len(u) = n + 2
      /\ u[n + 1] = a /\ u[n + 2] = b /\ \A i \in 1..n : u[i] = s[i]
  <2> DEFINE v == Append(s, a)
  <2>1. /\ v \in Seq(Places) /\ Len(v) = n + 1 /\ v[n + 1] = a
        /\ \A i \in 1..n : v[i] = s[i]
    BY AppendProperties
  <2> HIDE DEF v
  <2>2. /\ Append(v, b) \in Seq(Places) /\ Len(Append(v, b)) = (n + 1) + 1
        /\ Append(v, b)[(n + 1) + 1] = b
        /\ \A i \in 1..(n + 1) : Append(v, b)[i] = v[i]
    BY <2>1, AppendProperties
  <2>3. /\ (n + 1) + 1 = n + 2 /\ n + 1 \in 1..(n + 1)
        /\ \A i \in 1..n : i \in 1..(n + 1)
    BY <1>1
  <2> QED
    BY <2>1, <2>2, <2>3 DEF v
<1> HIDE DEF u
<1>6. t = u
  <2>1. \A i \in 1..(n + 2) : i \in 1..n \/ i = n + 1 \/ i = n + 2
    BY <1>1
  <2>2. \A i \in 1..Len(t) : t[i] = u[i]
    BY <1>2, <1>3, <1>5, <2>1
  <2> QED
    BY <1>2, <1>5, <2>2, SeqEqual
<1> QED
  BY <1>1, <1>2, <1>3, <1>4, <1>6 DEF p, t, u

LEMMA VisitOrder ==
    ASSUME OrderInv, NEW e \in Elements, Visit(e)
    PROVE  OrderInv'
<1> DEFINE id == Len(visited) + 1
           at == Moved(e, position)
           calls == Calls(e)
           d == Performed(id, calls, at)
           T == TextOf(id)
           L == TailOf(id)
<1>1. /\ TaggerInv /\ TaggerInv' /\ visited' = Append(visited, e)
      /\ stack # <<>> /\ status = "walk"
  BY VisitKeeps DEF OrderInv, Visit, MayEnter
<1>2. /\ visited \in Seq(Elements) /\ visited' \in Seq(Elements)
      /\ source \in Seq(Places) /\ source' \in Seq(Places)
      /\ stack \in Seq(Frames) /\ stack' \in Seq(Frames)
      /\ doc \in KeptDocs /\ position \in Positions
  BY <1>1 DEF TaggerInv, TaggerTypeOK
<1>3. /\ Begins(visited, visited') /\ id \in Nat /\ id # 0
      /\ Len(visited') = id /\ visited'[id] = e
  <2>1. Begins(visited, visited')
    BY <1>1, <1>2, BeginsAppend
  <2>2. Len(visited) \in Nat
    BY <1>2
  <2> QED
    BY <1>1, <1>2, <2>1, <2>2, AppendProperties
<1>4. \/ /\ doc' = doc /\ stack' = stack /\ source' = source
         /\ status' = "failed" \/ status' = status
      \/ /\ doc' = [d EXCEPT !.force = Forced(e, @)] /\ status' = status
         /\ \/ source' = source \o <<T, L>> /\ stack' = stack
            \/ /\ source' = Append(source, T)
               /\ Push(e, e.tag = "teiHeader")
  BY DEF Visit, Fail, TextOf, TailOf
<1>5. CASE /\ doc' = doc /\ stack' = stack /\ source' = source
           /\ status' = "failed" \/ status' = status
  BY <1>1, <1>3, <1>5, SameOrder
<1>6. CASE /\ doc' = [d EXCEPT !.force = Forced(e, @)] /\ status' = status
           /\ \/ source' = source \o <<T, L>> /\ stack' = stack
              \/ /\ source' = Append(source, T)
                 /\ Push(e, e.tag = "teiHeader")
  <2> HIDE DEF id
  <2>1. /\ T \in Places /\ L \in Places /\ T[1] = id /\ L[1] = id
        /\ \A x : T # TailOf(x) /\ L # TextOf(x)
    BY <1>3 DEF TextOf, TailOf, Places
  <2>2. /\ doc'.added \in Seq(Additions)
        /\ Adds(doc.added, doc'.added, id, calls, Len(calls))
        /\ doc.added \in Seq(Additions)
    <3>1. at \in Positions /\ calls \in Seq(CallSet)
      BY <1>2, CallsType, MovedType
    <3> HIDE DEF at, calls
    <3>2. d \in KeptDocs /\ Adds(doc.added, d.added, id, calls, Len(calls))
      BY <1>2, <1>3, <3>1, PerformedKeeps, PerformedAdds
    <3> HIDE DEF d
    <3>3. doc'.added = d.added
      BY <1>6, <3>2 DEF KeptDocs, Docs, Documents
    <3> QED
      BY <1>2, <3>2, <3>3, OpenPlacesType DEF KeptDocs
  <2> HIDE DEF T, L, d
  <2> DEFINE n == Len(source)
  <2>3. /\ Begins(source, source') /\ n < Len(source') /\ n \in Nat
        /\ source'[n + 1] = T
        /\ \A k \in 1..Len(source') : k > n => source'[k][1] = id
    <3>1. n \in Nat
      BY <1>2
    <3> HIDE DEF n
    <3>2. CASE source' = source \o <<T, L>>
      <4>1. /\ Begins(source, source') /\ Len(source') = n + 2
            /\ source'[n + 1] = T /\ source'[n + 2] = L
        BY <1>2, <2>1, <3>2, TwoMore DEF n
      <4>2. \A k \in 1..(n + 2) : k > n => k = n + 1 \/ k = n + 2
        BY <3>1
      <4>3. n < n + 2
        BY <3>1
      <4> QED
        BY <2>1, <3>1, <4>1, <4>2, <4>3
    <3>3. CASE source' = Append(source, T)
      <4>1. /\ Begins(source, source') /\ Len(source') = n + 1
            /\ source'[n + 1] = T
        BY <1>2, <2>1, <3>3, OneMore DEF n
      <4>2. \A k \in 1..(n + 1) : k > n => k = n + 1
        BY <3>1
      <4>3. n < n + 1
        BY <3>1
      <4> QED
        BY <2>1, <3>1, <4>1, <4>2, <4>3
    <3> QED
      BY <1>6, <3>2, <3>3
  <2>4. InOrder' => Ordered(doc.added, source)
    <3>1. source'[Len(source) + 1] # TailOf(Head(stack).id)
      BY <2>1, <2>3
    <3>2. InOrder' => Reading = source
      BY <1>1, <1>2, <1>3, <2>3, <3>1, NothingPending
    <3>3. InOrder' => InOrder
      BY <1>2, <1>3, <2>3, InOrderLater
    <3> QED
      BY <3>2, <3>3 DEF OrderInv
  <2>5. /\ SourceInv'
        /\ \A i \in DOMAIN stack : Carried(stack[i], id)
        /\ \A i, j \in DOMAIN stack : stack[i].id = stack[j].id => i = j
        /\ \A k \in 1..n : source[k][1] # id
    <3>1. source' # source
      BY <2>3
    <3>2. id = Len(visited) + 1
      BY DEF id
    <3> QED
      BY <1>1, <1>2, <2>3, <3>1, <3>2, FramesCarried
  <2>6. status' \notin {"walked", "tagged"}
    BY <1>1, <1>6
  <2>7. CASE source' = source \o <<T, L>> /\ stack' = stack
    <3>1. /\ <<T, L>> \in Seq(Places) /\ Len(<<T, L>>) = 2
          /\ <<T, L>>[1] = T /\ <<T, L>>[2] = L
          /\ Len(source') = n + 2 /\ source'[n + 2] = L
      BY <1>2, <2>1, <2>7, TwoMore
    <3>2. InOrder' => Ordered(doc'.added, source')
      BY <1>2, <1>3, <2>2, <2>4, <2>5, <2>7, <3>1, VisitOrdered DEF T, L
    <3>3. Reading' = source'
      BY <2>1, <2>7, <3>1 DEF Reading, Pending
    <3>4. ASSUME NEW i \in DOMAIN stack PROVE FrameInv(i)'
      <4>1. Carried(stack[i], id) /\ stack[i].id \in Nat
        <5>1. stack[i] \in Frames
          BY <1>2
        <5> QED
          BY <2>5, <5>1 DEF Frames
      <4>2. stack[i].id <= Len(visited')
        BY <1>3, <4>1 DEF Carried
      <4> QED
        BY <2>5, <2>7, <4>1, <4>2 DEF FrameInv, Carried
    <3> QED
      BY <1>1, <2>5, <2>6, <2>7, <3>2, <3>3, <3>4 DEF OrderInv
  <2>8. CASE source' = Append(source, T) /\ Push(e, e.tag = "teiHeader")
    <3> DEFINE g == [id |-> id, e |-> e, header |-> e.tag = "teiHeader"]
    <3>1. /\ g \in Frames /\ g.id = id /\ g.e = e
          /\ stack' = <<g>> \o stack
      BY <1>3, <2>8 DEF Frames, Push
    <3>2. AddsTail(e) => ~g.header
      <4>1. e.tag = "teiHeader" => Calls(e) = <<>>
        BY DEF Calls, TextThenTail
      <4>2. Calls(e) = <<>> => ~AddsTail(e)
        BY DEF AddsTail
      <4> QED
        BY <4>1, <4>2
    <3> HIDE DEF g
    <3>3. /\ Len(source') = n + 1 /\ source'[n + 1] = T
          /\ <<T>> \in Seq(Places) /\ Len(<<T>>) = 1 /\ <<T>>[1] = T
          /\ source' = source \o <<T>>
      BY <1>2, <2>1, <2>8, OneMore
    <3>4. \A k \in DOMAIN source' : source'[k] # TailOf(g.id)
      <4>1. DOMAIN source' = 1..Len(source')
        BY <1>2
      <4>2. ASSUME NEW k \in 1..Len(source')
            PROVE  \/ k = n + 1
                   \/ k \in 1..n /\ source'[k] = source[k]
        <5>1. k = n + 1 \/ k \in 1..n
          BY <2>3, <3>3
        <5> QED
          BY <2>3, <5>1 DEF Begins
      <4>3. TailOf(g.id)[1] = id
        BY <3>1 DEF TailOf
      <4> QED
        BY <2>1, <2>5, <3>3, <4>1, <4>2, <4>3
    <3>5. (\A i \in DOMAIN stack : FrameInv(i))' /\ Head(stack') = g
      BY <1>2, <1>3, <2>5, <3>1, <3>4, PushedFrames
    <3>6. stack' # <<>> /\ source' # <<>>
      <4>1. stack' # <<>>
        <5>1. <<g>> \in Seq(Frames) /\ Len(<<g>>) = 1 /\ Len(stack) \in Nat
          BY <1>2, <3>1
        <5>2. Len(stack') = Len(<<g>>) + Len(stack)
          BY <1>2, <3>1, <5>1, ConcatProperties
        <5> QED
          BY <5>1, <5>2
      <4>2. source' # <<>>
        BY <2>3, <3>3
      <4> QED
        BY <4>1, <4>2
    <3>7. InOrder' => Ordered(doc'.added, Reading')
      <4>1. CASE AddsTail(e)
        <5>1. /\ <<T, L>> \in Seq(Places) /\ Len(<<T, L>>) = 2
              /\ <<T, L>>[1] = T /\ <<T, L>>[2] = L
              /\ source \o <<T, L>> = Append(source', L)
          BY <1>2, <2>1, <2>8, TwoMore
        <5>2. InOrder' => Ordered(doc'.added, source \o <<T, L>>)
          BY <1>2, <1>3, <2>2, <2>4, <2>5, <5>1, VisitOrdered DEF T, L
        <5>3. Reading' = Append(source', L)
          BY <3>1, <3>2, <3>3, <3>5, <3>6, <4>1 DEF Reading, Pending, T, L
        <5> QED
          BY <5>1, <5>2, <5>3
      <4>2. CASE ~AddsTail(e)
        <5>1. InOrder' => Ordered(doc'.added, source \o <<T>>)
          BY <1>2, <1>3, <2>2, <2>4, <2>5, <3>3, <4>2, VisitOrdered DEF T
        <5>2. Reading' = source'
          BY <3>1, <3>5, <4>2 DEF Reading, Pending
        <5> QED
          BY <3>3, <5>1, <5>2
      <4> QED
        BY <4>1, <4>2
    <3> QED
      BY <1>1, <2>5, <2>6, <3>5, <3>7 DEF OrderInv
  <2> QED
    BY <1>6, <2>7, <2>8
<1> QED
  BY <1>4, <1>5, <1>6

LEMMA VisitHeaderOrder ==
    ASSUME OrderInv, NEW e \in Elements, VisitHeader(e)
    PROVE  OrderInv'
<1> DEFINE id == Len(visited) + 1
           g == [id |-> id, e |-> e, header |-> TRUE]
<1>1. /\ TaggerInv /\ TaggerInv' /\ visited' = Append(visited, e)
      /\ stack # <<>> /\ status = "walk" /\ Head(stack).header
  BY VisitHeaderKeeps DEF OrderInv, VisitHeader, MayEnter
<1>2. /\ visited \in Seq(Elements) /\ visited' \in Seq(Elements)
      /\ source \in Seq(Places) /\ source' \in Seq(Places)
      /\ stack \in Seq(Frames) /\ stack' \in Seq(Frames)
  BY <1>1 DEF TaggerInv, TaggerTypeOK
<1>3. /\ Begins(visited, visited') /\ id \in Nat /\ id # 0
      /\ Len(visited') = id /\ visited'[id] = e
  <2>1. Begins(visited, visited')
    BY <1>1, <1>2, BeginsAppend
  <2>2. Len(visited) \in Nat
    BY <1>2
  <2> QED
    BY <1>1, <1>2, <2>1, <2>2, AppendProperties
<1>4. /\ doc' = doc /\ source' = source
      /\ \/ stack' = stack /\ (status' = "failed" \/ status' = status)
         \/ stack' = <<g>> \o stack /\ status' = status
  BY <1>3 DEF VisitHeader, Fail, Push
<1>5. CASE stack' = stack /\ (status' = "failed" \/ status' = status)
  BY <1>1, <1>3, <1>4, <1>5, SameOrder
<1>6. CASE stack' = <<g>> \o stack /\ status' = status
  <2> HIDE DEF id
  <2>1. /\ g \in Frames /\ g.id = id /\ g.e = e /\ g.header
    BY <1>3 DEF Frames
  <2> HIDE DEF g
  <2>2. /\ Begins(source, source') /\ Len(source) \in Nat
        /\ \A k \in 1..Len(source') : ~(k > Len(source))
    <3>1. Begins(source, source')
      BY <1>4 DEF Begins
    <3> QED
      BY <1>2, <1>4, <3>1
  <2>3. /\ SourceInv'
        /\ \A i \in DOMAIN stack :
              \/ i = 1 /\ ~stack[i].header /\ source' = source
              \/ Carried(stack[i], id)
        /\ \A i, j \in DOMAIN stack : stack[i].id = stack[j].id => i = j
        /\ \A k \in 1..Len(source) : source[k][1] # id
    <3>1. id = Len(visited) + 1
      BY DEF id
    <3> QED
      BY <1>1, <1>2, <2>2, <3>1, FramesCarried
  <2>4. Head(stack) = stack[1]
    BY <1>2
  <2>5. \A i \in DOMAIN stack : Carried(stack[i], id)
    BY <1>1, <2>3, <2>4
  <2>6. \A k \in DOMAIN source' : source'[k] # TailOf(g.id)
    <3>1. DOMAIN source' = 1..Len(source)
      BY <1>2, <1>4
    <3>2. TailOf(g.id)[1] = id
      BY <2>1 DEF TailOf
    <3> QED
      BY <1>4, <2>3, <3>1, <3>2
  <2>7. (\A i \in DOMAIN stack : FrameInv(i))' /\ Head(stack') = g
    BY <1>2, <1>3, <1>6, <2>1, <2>3, <2>5, <2>6, PushedFrames
  <2>8. Reading = source /\ Reading' = source
    BY <1>1, <1>4, <2>1, <2>7 DEF Reading, Pending
  <2>9. InOrder' => Ordered(doc'.added, Reading')
    BY <1>2, <1>3, <1>4, <2>2, <2>8, InOrderLater DEF OrderInv
  <2> QED
    BY <1>1, <1>6, <2>3, <2>7, <2>9 DEF OrderInv
<1> QED
  BY <1>4, <1>5, <1>6

LEMMA LeaveOrder ==
    ASSUME OrderInv, Leave
    PROVE  OrderInv'
<1> DEFINE f == Head(stack)
           calls == CallsAfter(f.e)
           d == Performed(f.id, calls, position)
<1>1. /\ TaggerInv /\ TaggerInv' /\ visited' = visited
      /\ stack # <<>> /\ stack' = Tail(stack) /\ status = "walk"
      /\ status' = IF Len(stack) = 1 THEN "walked" ELSE status
  BY LeaveKeeps DEF OrderInv, Leave
<1>2. /\ visited \in Seq(Elements) /\ source \in Seq(Places)
      /\ source' \in Seq(Places) /\ stack \in Seq(Frames)
      /\ doc \in KeptDocs /\ position \in Positions
  BY <1>1 DEF TaggerInv, TaggerTypeOK
<1>3. \/ f.header /\ source' = source /\ doc' = doc
      \/ ~f.header /\ source' = Append(source, TailOf(f.id)) /\ doc' = d
  BY DEF Leave, TailOf
<1>4. /\ f = stack[1] /\ f.id \in Nat /\ f.id <= Len(visited)
      /\ f.id # 0 => f.id \in DOMAIN visited /\ f.e = visited[f.id]
      /\ AddsTail(f.e) => f.id # 0
      /\ f.header \/ \A k \in DOMAIN source : source[k] # TailOf(f.id)
      /\ \A j \in DOMAIN stack : stack[j].id = f.id => j = 1
  BY <1>1, InnerFrame DEF FrameInv
<1>5. calls \in Seq(CallSet)
  BY <1>1, <1>2, FrameCalls
<1> HIDE DEF f, calls, d
<1> DEFINE n == Len(stack)
<1>6. /\ n \in Nat \ {0} /\ DOMAIN stack = 1..n
      /\ DOMAIN stack' = 1..(n - 1)
      /\ \A i \in 1..(n - 1) :
            stack'[i] = stack[i + 1] /\ i + 1 \in 1..n /\ i + 1 # 1
      /\ n = 1 => stack' = <<>>
  <2>1. n \in Nat \ {0} /\ DOMAIN stack = 1..n
    BY <1>1, <1>2
  <2>2. /\ stack' \in Seq(Frames) /\ Len(stack') = n - 1
        /\ \A i \in 1..(n - 1) : stack'[i] = stack[i + 1]
    BY <1>1, <1>2, HeadTailProperties
  <2>3. n = 1 => stack' = <<>>
    BY <2>2
  <2> HIDE DEF n
  <2>4. \A i \in 1..(n - 1) : i + 1 \in 1..n /\ i + 1 # 1
    BY <2>1
  <2> QED
    BY <2>1, <2>2, <2>3, <2>4
<1> HIDE DEF n
<1>7. Begins(source, source')
  <2>1. TailOf(f.id) \in Places
    BY <1>4 DEF TailOf, Places
  <2> QED
    BY <1>2, <1>3, <2>1, BeginsAppend
<1>8. InOrder' => Ordered(doc.added, Reading)
  <2>1. Begins(visited, visited')
    BY <1>1, <1>2 DEF Begins
  <2> QED
    BY <1>1, <1>2, <1>7, <2>1, InOrderLater DEF OrderInv
<1>9. ASSUME NEW i \in 1..(n - 1)
      PROVE  /\ FrameInv(i + 1) /\ stack'[i] = stack[i + 1]
             /\ stack[i + 1].id # f.id
  BY <1>4, <1>6 DEF OrderInv
<1>10. status' \in {"walked", "tagged"} => stack' = <<>>
  BY <1>1, <1>6 DEF n
<1>11. CASE f.header /\ source' = source /\ doc' = doc
  <2>1. ASSUME NEW i \in 1..(n - 1)
        PROVE  /\ FrameInv(i)'
               /\ stack'[i].header \/ source = <<>>
                  \/ source[Len(source)] # TextOf(stack'[i].id)
    <3> DEFINE s == stack'[i]
    <3>1. /\ s.id <= Len(visited)
          /\ s.id = 0 => s.e = Root
          /\ s.id # 0 => s.e = visited[s.id]
          /\ \A j \in DOMAIN stack : stack[j].id = s.id => i + 1 = j
          /\ s.header \/ \A k \in DOMAIN source : source[k] # TailOf(s.id)
          /\ \/ s.header \/ source = <<>>
             \/ source[Len(source)] # TextOf(s.id)
      BY <1>6, <1>9 DEF FrameInv
    <3>2. ASSUME NEW j \in 1..(n - 1), stack'[j].id = s.id PROVE i = j
      <4>1. i + 1 = j + 1
        BY <1>6, <3>1, <3>2
      <4> QED
        BY <4>1
    <3>3. \A j \in DOMAIN stack' : stack'[j].id = s.id => i = j
      BY <1>6, <3>2
    <3> QED
      BY <1>1, <1>11, <3>1, <3>3 DEF FrameInv
  <2>2. \A i \in DOMAIN stack' : FrameInv(i)'
    BY <1>6, <2>1
  <2>3. Reading = source
    BY <1>11 DEF Reading, Pending, f
  <2>4. Reading' = source
    <3>1. CASE stack' = <<>>
      BY <1>11, <3>1 DEF Reading
    <3>2. CASE stack' # <<>>
      <4>1. stack' \in Seq(Frames)
        BY <1>1 DEF TaggerInv, TaggerTypeOK
      <4>2. Head(stack') = stack'[1] /\ 1 \in DOMAIN stack'
        BY <3>2, <4>1
      <4>3. \/ stack'[1].header \/ source = <<>>
            \/ source[Len(source)] # TextOf(stack'[1].id)
        BY <1>6, <2>1, <4>2
      <4> QED
        BY <1>11, <4>2, <4>3 DEF Reading, Pending
    <3> QED
      BY <3>1, <3>2
  <2>5. SourceInv'
    BY <1>1, <1>11 DEF OrderInv, SourceInv
  <2> QED
    BY <1>1, <1>8, <1>10, <1>11, <2>2, <2>3, <2>4, <2>5 DEF OrderInv
<1>12. CASE ~f.header /\ source' = Append(source, TailOf(f.id)) /\ doc' = d
  <2> DEFINE T == TailOf(f.id)
             m == Len(source)
  <2>1. /\ T \in Places /\ T[1] = f.id /\ \A x : T # TextOf(x)
        /\ \A x : T = TailOf(x) => f.id = x
    BY <1>4 DEF TailOf, TextOf, Places
  <2> HIDE DEF T
  <2>2. /\ m \in Nat /\ DOMAIN source = 1..m
        /\ Len(source') = m + 1 /\ DOMAIN source' = 1..(m + 1)
        /\ source'[m + 1] = T /\ \A k \in 1..m : source'[k] = source[k]
    BY <1>2, <1>12, <2>1, AppendProperties DEF T
  <2> HIDE DEF m
  <2>3. /\ \A k \in 1..(m + 1) : k = m + 1 \/ k \in 1..m
        /\ source' # <<>> /\ source'[Len(source')] = T
    BY <2>2
  <2>4. SourceInv'
    <3> SUFFICES ASSUME NEW k \in 1..(m + 1)
                 PROVE  source'[k][1] <= Len(visited)
      BY <1>1, <2>2 DEF SourceInv
    <3>1. \A l \in 1..m : source[l][1] <= Len(visited)
      BY <2>2 DEF OrderInv, SourceInv
    <3> QED
      BY <1>4, <2>1, <2>2, <2>3, <3>1
  <2>5. ASSUME NEW i \in 1..(n - 1) PROVE FrameInv(i)'
    <3> DEFINE s == stack'[i]
    <3>1. /\ s.id <= Len(visited)
          /\ s.id = 0 => s.e = Root
          /\ s.id # 0 => s.e = visited[s.id]
          /\ \A j \in DOMAIN stack : stack[j].id = s.id => i + 1 = j
          /\ s.header \/ \A k \in DOMAIN source : source[k] # TailOf(s.id)
          /\ s.id # f.id
      BY <1>6, <1>9 DEF FrameInv
    <3>2. ASSUME NEW j \in 1..(n - 1), stack'[j].id = s.id PROVE i = j
      <4>1. i + 1 = j + 1
        BY <1>6, <3>1, <3>2
      <4> QED
        BY <4>1
    <3>3. \A j \in DOMAIN stack' : stack'[j].id = s.id => i = j
      BY <1>6, <3>2
    <3>4. s.header \/ \A k \in DOMAIN source' : source'[k] # TailOf(s.id)
      BY <2>1, <2>2, <2>3, <3>1
    <3>5. source'[Len(source')] # TextOf(s.id)
      BY <2>1, <2>3
    <3> QED
      BY <1>1, <3>1, <3>3, <3>4, <3>5 DEF FrameInv
  <2>6. \A i \in DOMAIN stack' : FrameInv(i)'
    BY <1>6, <2>5
  <2>7. Reading' = source'
    BY <2>1, <2>3 DEF Reading, Pending
  <2>8. /\ Len(calls) <= 1 /\ \A k \in DOMAIN calls : calls[k].part = "tail"
        /\ AddsTail(f.e) => calls = <<>>
    <3>1. CASE f.e \in Elements
      BY <3>1, CallsOrder DEF calls
    <3>2. CASE f.e = Root
      <4>1. calls = <<>>
        BY <3>2 DEF calls, CallsAfter, Root
      <4> QED
        BY <4>1
    <3>3. f \in Frames
      BY <1>1, <1>2, FrameCalls DEF f
    <3> QED
      BY <3>1, <3>2, <3>3 DEF Frames
  <2>9. InOrder' => Ordered(doc'.added, source')
    <3>1. CASE Pending(f)
      <4>1. calls = <<>>
        BY <2>8, <3>1 DEF Pending
      <4>2. d = doc
        BY <1>2, <1>4, <4>1, PerformedNothing DEF d
      <4>3. Reading = source'
        BY <1>1, <1>12, <3>1 DEF Reading, f
      <4> QED
        BY <1>8, <1>12, <4>2, <4>3
    <3>2. CASE ~Pending(f)
      <4>1. Reading = source
        BY <3>2 DEF Reading, f
      <4>2. /\ Adds(doc.added, d.added, f.id, calls, Len(calls))
            /\ doc.added \in Seq(Additions)
        BY <1>2, <1>4, <1>5, PerformedAdds, OpenPlacesType DEF d, KeptDocs
      <4>3. \A k \in 1..Len(source) : source[k] # TailOf(f.id)
        BY <1>4, <1>12, <2>2 DEF m
      <4>4. Ordered(doc.added, source)
              => Ordered(d.added, Append(source, TailOf(f.id)))
        BY <1>2, <1>4, <1>5, <2>8, <4>2, <4>3, LeaveOrdered
      <4> QED
        BY <1>8, <1>12, <4>1, <4>4
    <3> QED
      BY <3>1, <3>2
  <2> QED
    BY <1>1, <1>10, <2>4, <2>6, <2>7, <2>9 DEF OrderInv
<1> QED
  BY <1>3, <1>11, <1>12

LEMMA FinishTaggingOrder ==
    ASSUME OrderInv, FinishTagging
    PROVE  OrderInv'
<1>1. /\ TaggerInv /\ TaggerInv' /\ doc \in Docs /\ stack = <<>>
      /\ doc' = Closed(doc, TRUE)
      /\ visited' = visited /\ source' = source /\ stack' = stack
  BY FinishTaggingKeeps DEF OrderInv, FinishTagging, TaggerInv, KeptDocs
<1>2. doc'.added = doc.added
  BY <1>1, ClosedKeeps
<1>3. Begins(visited, visited')
  BY <1>1 DEF Begins, TaggerInv, TaggerTypeOK
<1> QED
  BY <1>1, <1>2, <1>3, SameOrder

LEMMA OrderInit ==
    ASSUME TaggerInit
    PROVE  OrderInv
<1>1. TaggerInv
  BY TaggerInitInv
<1>2. /\ visited = <<>> /\ source = <<>> /\ doc.added = <<>>
      /\ stack = <<[id |-> 0, e |-> Root, header |-> FALSE]>>
      /\ status = "walk"
  BY DEF TaggerInit
<1>3. /\ DOMAIN stack = {1} /\ stack[1].id = 0 /\ stack[1].e = Root
  BY <1>2
<1>4. Len(visited) = 0 /\ DOMAIN source = {} /\ DOMAIN doc.added = {}
  BY <1>2
<1>5. FrameInv(1)
  BY <1>2, <1>3, <1>4 DEF FrameInv
<1>6. SourceInv /\ Ordered(doc.added, Reading)
  BY <1>4 DEF SourceInv, Ordered
<1> QED
  BY <1>1, <1>2, <1>3, <1>5, <1>6 DEF OrderInv

LEMMA OrderStep ==
    ASSUME OrderInv, [TaggerNext]_taggerVars
    PROVE  OrderInv'
<1>1. CASE UNCHANGED taggerVars
  <2>1. /\ visited' = visited /\ source' = source /\ stack' = stack
        /\ doc' = doc /\ status' = status
    BY <1>1 DEF taggerVars
  <2>2. TaggerInv'
    BY TaggerStep DEF OrderInv
  <2>3. Begins(visited, visited')
    BY <2>1 DEF Begins, OrderInv, TaggerInv, TaggerTypeOK
  <2> QED
    BY <2>1, <2>2, <2>3, SameOrder DEF OrderInv
<1> QED
  BY <1>1, VisitOrder, VisitHeaderOrder, LeaveOrder, FinishTaggingOrder
     DEF TaggerNext

(* The words stand in the order of the file, whatever the document, unless *)
(* an element that adds its tail before its children has both.             *)
THEOREM WordsStandInOrder == Spec => []OrderKept
<1>1. Init => OrderInv
  BY OrderInit DEF Init
<1>2. OrderInv /\ [Next]_vars => OrderInv'
  BY OrderStep DEF Next, Tag, Analyse, vars
<1>3. OrderInv => OrderKept
  <2> SUFFICES ASSUME OrderInv, status = "tagged", InOrder,
                      NEW i \in DOMAIN doc.added, NEW j \in DOMAIN doc.added,
                      i < j, HasWords(i), HasWords(j)
               PROVE  Index(doc.added[i].from) < Index(doc.added[j].from)
    BY DEF OrderKept, InOrder
  <2>1. Reading = source
    BY DEF OrderInv, Reading
  <2>2. Ordered(doc.added, source)
    BY <2>1 DEF OrderInv
  <2>3. ASSUME NEW a \in DOMAIN doc.added, HasWords(a)
        PROVE  /\ Index(doc.added[a].from) \in DOMAIN source
               /\ source[Index(doc.added[a].from)] = doc.added[a].from
    <3>1. \E k \in DOMAIN source : source[k] = doc.added[a].from
      BY <2>2, <2>3 DEF Ordered, HasWords
    <3> QED
      BY <3>1 DEF Index
  <2> QED
    BY <2>2, <2>3 DEF Ordered, HasWords
<1> QED
  BY <1>1, <1>2, <1>3, PTL DEF Spec
=============================================================================
