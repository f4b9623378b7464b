----------------------------- MODULE SeqLemmas -----------------------------
(***************************************************************************)
(* Facts about recursion over sequences.  Induction is on sets of numbers, *)
(* and a function that is defined by recursion is shown to exist from a    *)
(* function that makes each value of the one before.                       *)
(***************************************************************************)
EXTENDS Integers, Sequences, SequencesExt, TLAPS, SequenceTheorems,
        WellFoundedInduction

(* A set of numbers with 0 and with the successors of its members has them *)
(* all: otherwise there is a least one that it lacks.                      *)
LEMMA NatSetInduction ==
    ASSUME NEW S, 0 \in S, \A n \in Nat : n \in S => n + 1 \in S
    PROVE  Nat \subseteq S
<1> DEFINE R == OpToRel(<, Nat)
           T == Nat \ S
<1>1. \A x, y \in Nat : x < y => <<x, y>> \in R
  BY DEF OpToRel
<1>2. IsWellFoundedOn(R, Nat)
  BY NatLessThanWellFounded
<1>3. SUFFICES ASSUME T # {} PROVE FALSE
  OBVIOUS
<1> HIDE DEF R
<1>4. PICK x \in T : \A y \in T : ~(<<y, x>> \in R)
  <2>1. T \subseteq Nat
    OBVIOUS
  <2> HIDE DEF T
  <2> QED
    BY <1>2, <1>3, <2>1, WFMin
<1>5. x \in Nat /\ x # 0
  OBVIOUS
<1>6. x - 1 \in Nat /\ x - 1 < x /\ (x - 1) + 1 = x
  BY <1>5
<1>7. x - 1 \in T
  BY <1>5, <1>6
<1> QED
  BY <1>1, <1>4, <1>5, <1>6, <1>7

(* The same up to a number.                                                *)
LEMMA IntervalInduction ==
    ASSUME NEW n \in Nat, NEW S, 0 \in S,
           \A i \in 1..n : i - 1 \in S => i \in S
    PROVE  \A i \in 0..n : i \in S
<1> DEFINE T == {i \in Nat : i <= n => i \in S}
<1>1. 0 \in T
  OBVIOUS
<1>2. ASSUME NEW i \in Nat, i \in T PROVE i + 1 \in T
  <2>1. SUFFICES ASSUME i + 1 <= n PROVE i + 1 \in S
    OBVIOUS
  <2>2. i + 1 \in 1..n /\ (i + 1) - 1 = i /\ i \in S
    BY <1>2, <2>1
  <2> QED
    BY <2>2
<1>3. Nat \subseteq T
  <2> HIDE DEF T
  <2> QED
    BY <1>1, <1>2, NatSetInduction
<1> QED
  BY <1>3

(* g[i] comes of g[i - 1] by step[i].                                      *)
Iterates(g, n, a, step) ==
    g[0] = a /\ \A i \in 1..n : g[i] = step[i][g[i - 1]]

LEMMA IteratesExist ==
    ASSUME NEW V, NEW a \in V, NEW n \in Nat, NEW step \in [1..n -> [V -> V]]
    PROVE  \E g \in [0..n -> V] : Iterates(g, n, a, step)
<1> DEFINE Made == {m \in Nat : \E g \in [0..m -> V] : Iterates(g, m, a, step)}
<1>1. 0 \in Made
  <2> DEFINE g == [i \in 0..0 |-> a]
  <2>1. g \in [0..0 -> V] /\ g[0] = a
    OBVIOUS
  <2> HIDE DEF g
  <2>2. Iterates(g, 0, a, step)
    BY <2>1 DEF Iterates
  <2> QED
    BY <2>1, <2>2
<1>2. ASSUME NEW i \in 1..n, i - 1 \in Made PROVE i \in Made
  <2> DEFINE m == i - 1
  <2>1. m \in Nat /\ i = m + 1 /\ i \in Nat
    OBVIOUS
  <2>2. PICK g \in [0..m -> V] : Iterates(g, m, a, step)
    BY <1>2
  <2> HIDE DEF m
  <2> DEFINE v == step[i][g[m]]
             h == [j \in 0..i |-> IF j = i THEN v ELSE g[j]]
  <2>3. v \in V
    <3>1. m \in 0..m /\ g[m] \in V
      BY <2>1
    <3> QED
      BY <3>1
  <2>4. h \in [0..i -> V] /\ h[i] = v /\ \A j \in 0..m : h[j] = g[j]
    <3> HIDE DEF v
    <3> QED
      BY <2>1, <2>3
  <2> HIDE DEF h
  <2>5. ASSUME NEW j \in 1..i PROVE h[j] = step[j][h[j - 1]]
    <3>1. CASE j = i
      <4>1. j - 1 = m /\ m \in 0..m
        BY <2>1, <3>1
      <4> QED
        BY <2>4, <3>1, <4>1
    <3>2. CASE j # i
      <4>1. j \in 1..m /\ j \in 0..m /\ j - 1 \in 0..m
        BY <2>1, <3>2
      <4>2. g[j] = step[j][g[j - 1]]
        BY <2>2, <4>1 DEF Iterates
      <4> QED
        BY <2>4, <4>1, <4>2
    <3> QED
      BY <3>1, <3>2
  <2>6. h[0] = a
    BY <2>1, <2>2, <2>4 DEF Iterates
  <2>7. Iterates(h, i, a, step)
    BY <2>5, <2>6 DEF Iterates
  <2> QED
    BY <2>1, <2>4, <2>7
<1>3. n \in Made
  <2> HIDE DEF Made
  <2>1. n \in 0..n
    OBVIOUS
  <2>2. \A i \in 0..n : i \in Made
    BY <1>1, <1>2, IntervalInduction
  <2> QED
    BY <2>1, <2>2
<1> QED
  BY <1>3

-----------------------------------------------------------------------------
(* FlattenSeq                                                              *)

(* g[i] is the sequences up to the i-th one after another.                 *)
Joins(g, n, s) ==
    g[0] = <<>> /\ \A i \in 1..n : g[i] = g[i - 1] \o s[i]

LEMMA JoinsExist ==
    ASSUME NEW S, NEW s \in Seq(Seq(S))
    PROVE  \E g \in [0..Len(s) -> Seq(S)] : Joins(g, Len(s), s)
<1> DEFINE V == Seq(S)
           n == Len(s)
           step == [i \in 1..n |-> [v \in V |-> v \o s[i]]]
<1>1. n \in Nat /\ <<>> \in V
  OBVIOUS
<1>2. \A i \in 1..n : s[i] \in V
  OBVIOUS
<1>3. \A i \in 1..n, v \in V : v \o s[i] \in V
  BY <1>2
<1>4. step \in [1..n -> [V -> V]]
  <2> HIDE DEF V
  <2> QED
    BY <1>3
<1>5. PICK g \in [0..n -> V] : Iterates(g, n, <<>>, step)
  <2> HIDE DEF V, n, step
  <2> QED
    BY <1>1, <1>4, IteratesExist
<1>6. ASSUME NEW i \in 1..n PROVE g[i] = g[i - 1] \o s[i]
  <2>1. i - 1 \in 0..n
    BY <1>1
  <2>2. g[i] = step[i][g[i - 1]]
    BY <1>5 DEF Iterates
  <2> HIDE DEF V, n
  <2>3. g[i - 1] \in V
    BY <2>1
  <2> QED
    BY <2>2, <2>3
<1> QED
  BY <1>5, <1>6 DEF Joins, Iterates

Agree(s, t, n) == \A i \in 1..n : s[i] = t[i]

LEMMA JoinsUnique ==
    ASSUME NEW n \in Nat, NEW s, NEW t, Agree(s, t, n),
           NEW g, NEW h, Joins(g, n, s), Joins(h, n, t)
    PROVE  g[n] = h[n]
<1> DEFINE Same == {i \in Nat : g[i] = h[i]}
<1>1. 0 \in Same
  BY DEF Joins
<1>2. ASSUME NEW i \in 1..n, i - 1 \in Same PROVE i \in Same
  <2>1. g[i] = g[i - 1] \o s[i] /\ h[i] = h[i - 1] \o t[i] /\ s[i] = t[i]
    BY DEF Joins, Agree
  <2>2. g[i - 1] = h[i - 1] /\ i \in Nat
    BY <1>2
  <2> QED
    BY <2>1, <2>2
<1> HIDE DEF Same
<1>3. n \in Same
  BY <1>1, <1>2, IntervalInduction
<1> QED
  BY <1>3 DEF Same

LEMMA JoinsNext ==
    ASSUME NEW n \in Nat, NEW s, NEW t, Agree(t, s, n),
           NEW g, NEW h, Joins(g, n, s), Joins(h, n + 1, t)
    PROVE  h[n + 1] = g[n] \o t[n + 1]
<1>1. n + 1 \in 1..(n + 1) /\ (n + 1) - 1 = n
  OBVIOUS
<1>2. \A i \in 1..n : i \in 1..(n + 1)
  OBVIOUS
<1>3. h[n + 1] = h[(n + 1) - 1] \o t[n + 1]
  BY <1>1 DEF Joins
<1>4. Joins(h, n, t)
  BY <1>2 DEF Joins
<1>5. h[n] = g[n]
  BY <1>4, JoinsUnique
<1> QED
  BY <1>1, <1>3, <1>5

LEMMA FlattenJoins ==
    ASSUME NEW S, NEW s \in Seq(Seq(S)),
           NEW g \in [0..Len(s) -> Seq(S)], Joins(g, Len(s), s)
    PROVE  FlattenSeq(s) = g[Len(s)]
<1> DEFINE n == Len(s)
           Def(F) == [i \in 1..n |-> IF i = 1 THEN s[i] ELSE F[i - 1] \o s[i]]
           G == CHOOSE F : F = Def(F)
           f == [i \in 1..n |-> g[i]]
<1>1. n \in Nat
  OBVIOUS
<1>2. CASE n = 0
  <2>1. FlattenSeq(s) = s /\ s = <<>>
    BY <1>2 DEF FlattenSeq
  <2> QED
    BY <1>2, <2>1 DEF Joins
<1>3. CASE n # 0
  <2>1. FlattenSeq(s) = G[n]
    BY <1>3 DEF FlattenSeq
  <2>2. f = Def(f)
    <3>1. ASSUME NEW i \in 1..n
          PROVE  g[i] = IF i = 1 THEN s[i] ELSE f[i - 1] \o s[i]
      <4>1. g[i] = g[i - 1] \o s[i]
        BY DEF Joins
      <4>2. CASE i = 1
        <5>1. g[0] = <<>> /\ s[1] \in Seq(S)
          BY <4>2 DEF Joins
        <5>2. g[0] \o s[1] = s[1]
          BY <5>1, ConcatEmptySeq
        <5>3. i - 1 = 0
          BY <4>2
        <5> QED
          BY <4>1, <4>2, <5>2, <5>3
      <4>3. CASE i # 1
        <5>1. i - 1 \in 1..n
          BY <4>3
        <5> QED
          BY <4>1, <4>3, <5>1
      <4> QED
        BY <4>2, <4>3
    <3> QED
      BY <3>1
  <2>3. G = Def(G)
    <3> HIDE DEF Def, f
    <3> QED
      BY <2>2
  <2>4. DOMAIN G = 1..n /\ \A i \in 1..n : G[i] = IF i = 1 THEN s[i] ELSE G[i - 1] \o s[i]
    <3> HIDE DEF G
    <3>1. DOMAIN Def(G) = 1..n /\ \A i \in 1..n : Def(G)[i] = IF i = 1 THEN s[i] ELSE G[i - 1] \o s[i]
      OBVIOUS
    <3> HIDE DEF Def
    <3> QED
      BY <2>3, <3>1
  <2> HIDE DEF G
  <2> DEFINE h == [i \in 0..n |-> IF i = 0 THEN <<>> ELSE G[i]]
  <2>5. Joins(h, n, s)
    <3>1. h[0] = <<>>
      BY <1>1
    <3>2. ASSUME NEW i \in 1..n PROVE h[i] = h[i - 1] \o s[i]
      <4>1. s[i] \in Seq(S)
        OBVIOUS
      <4>2. CASE i = 1
        <5>1. <<>> \o s[1] = s[1]
          BY <4>1, <4>2, ConcatEmptySeq
        <5>2. h[1] = s[1] /\ i - 1 = 0
          BY <1>1, <2>4, <4>2
        <5> QED
          BY <3>1, <4>2, <5>1, <5>2
      <4>3. CASE i # 1
        <5>1. i - 1 \in 0..n /\ i - 1 # 0 /\ i \in 0..n /\ i # 0
          BY <4>3
        <5> QED
          BY <2>4, <4>3, <5>1
      <4> QED
        BY <4>2, <4>3
    <3> HIDE DEF h
    <3> QED
      BY <3>1, <3>2 DEF Joins
  <2>6. h[n] = G[n]
    BY <1>1, <1>3
  <2> HIDE DEF h
  <2>7. h[n] = g[n]
    <3>1. Agree(s, s, n)
      BY DEF Agree
    <3> QED
      BY <1>1, <2>5, <3>1, JoinsUnique
  <2> QED
    BY <2>1, <2>6, <2>7
<1> QED
  BY <1>2, <1>3

LEMMA FlattenType ==
    ASSUME NEW S, NEW s \in Seq(Seq(S))
    PROVE  FlattenSeq(s) \in Seq(S)
<1>1. PICK g \in [0..Len(s) -> Seq(S)] : Joins(g, Len(s), s)
  BY JoinsExist
<1>2. FlattenSeq(s) = g[Len(s)]
  BY <1>1, FlattenJoins
<1>3. Len(s) \in 0..Len(s)
  OBVIOUS
<1> QED
  BY <1>2, <1>3

LEMMA FlattenEmpty == FlattenSeq(<<>>) = <<>>
BY DEF FlattenSeq

(* One more sequence comes last.                                           *)
LEMMA FlattenAppend ==
    ASSUME NEW S, NEW s \in Seq(Seq(S)), NEW x \in Seq(S)
    PROVE  FlattenSeq(Append(s, x)) = FlattenSeq(s) \o x
<1> DEFINE t == Append(s, x)
           n == Len(s)
<1>1. /\ t \in Seq(Seq(S)) /\ Len(t) = n + 1 /\ t[n + 1] = x
      /\ \A i \in 1..n : t[i] = s[i]
  BY AppendProperties
<1>2. n \in Nat
  OBVIOUS
<1>3. PICK g \in [0..n -> Seq(S)] : Joins(g, n, s)
  BY JoinsExist
<1>4. FlattenSeq(s) = g[n]
  BY <1>3, FlattenJoins
<1> HIDE DEF t
<1>5. PICK h \in [0..Len(t) -> Seq(S)] : Joins(h, Len(t), t)
  BY <1>1, JoinsExist
<1>6. FlattenSeq(t) = h[Len(t)]
  BY <1>1, <1>5, FlattenJoins
<1> HIDE DEF n
<1>7. Joins(h, n + 1, t)
  BY <1>1, <1>5
<1>8. Agree(t, s, n)
  BY <1>1 DEF Agree
<1>9. h[n + 1] = g[n] \o t[n + 1]
  BY <1>2, <1>3, <1>7, <1>8, JoinsNext
<1> QED
  BY <1>1, <1>4, <1>6, <1>9 DEF t
-----------------------------------------------------------------------------
(* Sequences that are used as stacks, the top at index 1.                  *)

(* What is pushed is at index 1, and the rest is one place further on.     *)
LEMMA PushProperties ==
    ASSUME NEW S, NEW s \in Seq(S), NEW x \in S
    PROVE  LET t == <<x>> \o s IN
           /\ t \in Seq(S) /\ t # <<>> /\ Len(t) = Len(s) + 1
           /\ t[1] = x /\ \A i \in 1..Len(s) : t[i + 1] = s[i]
<1> DEFINE t == <<x>> \o s
<1>1. <<x>> \in Seq(S) /\ Len(<<x>>) = 1 /\ <<x>>[1] = x
  OBVIOUS
<1>2. /\ t \in Seq(S) /\ Len(t) = 1 + Len(s)
      /\ \A i \in 1..(1 + Len(s)) :
            t[i] = IF i <= 1 THEN <<x>>[i] ELSE s[i - 1]
  BY <1>1, ConcatProperties
<1>3. Len(s) \in Nat
  OBVIOUS
<1> HIDE DEF t
<1>4. t[1] = x /\ \A i \in 1..Len(s) : t[i + 1] = s[i]
  BY <1>1, <1>2, <1>3
<1>5. t # <<>>
  BY <1>2, <1>3
<1> QED
  BY <1>2, <1>3, <1>4, <1>5 DEF t

(* Popping undoes a push.                                                  *)
LEMMA PushHead ==
    ASSUME NEW S, NEW s \in Seq(S), NEW x \in S
    PROVE  LET t == <<x>> \o s IN Head(t) = x /\ Tail(t) = s
<1> DEFINE t == <<x>> \o s
<1>1. /\ t \in Seq(S) /\ t # <<>> /\ Len(t) = Len(s) + 1
      /\ t[1] = x /\ \A i \in 1..Len(s) : t[i + 1] = s[i]
  BY PushProperties
<1> HIDE DEF t
<1>2. /\ Tail(t) \in Seq(S) /\ Len(Tail(t)) = Len(t) - 1
      /\ \A i \in 1..Len(Tail(t)) : Tail(t)[i] = t[i + 1]
  BY <1>1, HeadTailProperties
<1>3. Len(s) \in Nat
  OBVIOUS
<1>4. Len(Tail(t)) = Len(s) /\ \A i \in 1..Len(Tail(t)) : Tail(t)[i] = s[i]
  <2>1. Len(Tail(t)) = Len(s)
    BY <1>1, <1>2, <1>3
  <2>2. ASSUME NEW i \in 1..Len(s) PROVE Tail(t)[i] = s[i]
    <3>1. Tail(t)[i] = t[i + 1] /\ t[i + 1] = s[i]
      BY <1>1, <1>2, <2>1
    <3> QED
      BY <3>1
  <2> QED
    BY <2>1, <2>2
<1>5. Tail(t) = s
  BY <1>2, <1>4, SeqEqual
<1>6. Head(t) = x
  BY <1>1
<1> QED
  BY <1>5, <1>6 DEF t

(* Pushing undoes a pop.                                                   *)
LEMMA HeadPushed ==
    ASSUME NEW S, NEW s \in Seq(S), s # <<>>
    PROVE  <<Head(s)>> \o Tail(s) = s
<1> DEFINE r == Tail(s)
           t == <<Head(s)>> \o r
<1>1. /\ Head(s) \in S /\ r \in Seq(S) /\ Len(r) = Len(s) - 1
      /\ \A i \in 1..Len(r) : r[i] = s[i + 1]
  BY HeadTailProperties
<1> HIDE DEF r
<1>2. /\ t \in Seq(S) /\ Len(t) = Len(r) + 1 /\ t[1] = Head(s)
      /\ \A i \in 1..Len(r) : t[i + 1] = r[i]
  BY <1>1, PushProperties
<1>3. Len(s) \in Nat \ {0} /\ Head(s) = s[1]
  OBVIOUS
<1> HIDE DEF t
<1>4. Len(t) = Len(s)
  BY <1>1, <1>2, <1>3
<1>5. ASSUME NEW i \in 1..Len(t) PROVE t[i] = s[i]
  <2>1. CASE i = 1
    BY <1>2, <1>3, <2>1
  <2>2. CASE i # 1
    <3>1. i - 1 \in 1..Len(r) /\ (i - 1) + 1 = i
      BY <1>1, <1>3, <1>4, <2>2
    <3> QED
      BY <1>1, <1>2, <3>1
  <2> QED
    BY <2>1, <2>2
<1>6. t = s
  BY <1>2, <1>4, <1>5, SeqEqual
<1> QED
  BY <1>6 DEF t, r

(* What is left after a pop is one place nearer.                           *)
LEMMA PopProperties ==
    ASSUME NEW S, NEW s \in Seq(S), s # <<>>
    PROVE  LET t == Tail(s) IN
           /\ t \in Seq(S) /\ Len(t) = Len(s) - 1
           /\ Head(s) = s[1] /\ s[1] \in S
           /\ \A i \in 1..Len(t) : t[i] = s[i + 1] /\ i + 1 \in 1..Len(s)
<1> DEFINE t == Tail(s)
<1>1. /\ t \in Seq(S) /\ Len(t) = Len(s) - 1
      /\ \A i \in 1..Len(t) : t[i] = s[i + 1]
  BY HeadTailProperties
<1>2. Len(s) \in Nat \ {0} /\ Head(s) = s[1] /\ s[1] \in S
  OBVIOUS
<1> HIDE DEF t
<1>3. \A i \in 1..Len(t) : i + 1 \in 1..Len(s)
  BY <1>1, <1>2
<1> QED
  BY <1>1, <1>2, <1>3 DEF t
=============================================================================
