-------------------------- MODULE MetadStackProofs --------------------------
(***************************************************************************)
(* Theorems about module MetadStack and their proofs.                      *)
(***************************************************************************)
EXTENDS MetadStack, SeqLemmas

-----------------------------------------------------------------------------
(* Facts about names                                                       *)

LEMMA LoweredType ==
    ASSUME NEW a \in Attributes
    PROVE  Lowered(a) \in Seq(Values)
<1>1. CASE a = <<>>
  BY <1>1 DEF Lowered
<1>2. CASE a # <<>>
  <2>1. PICK v \in Values : a = <<v>>
    BY <1>2 DEF Attributes
  <2>2. Lower(v) \in Values
    BY DEF Values, Lower
  <2> QED
    BY <1>2, <2>1, <2>2 DEF Lowered
<1> QED
  BY <1>1, <1>2

LEMMA StructureType ==
    ASSUME NEW tag \in StartTags
    PROVE  Structure(tag) \in Structures
<1>1. tag.type \in Attributes /\ tag.unit \in Attributes /\ tag.name \in Names
  BY DEF StartTags
<1>2. Lowered(tag.type) \in Seq(Values) /\ Lowered(tag.unit) \in Seq(Values)
  BY <1>1, LoweredType
<1>3. Lowered(tag.type) \o Lowered(tag.unit) \in Seq(Values)
  BY <1>2, ConcatProperties
<1>4. Typeunit(tag) \in Seq(Values)
  BY <1>2, <1>3 DEF Typeunit
<1>5. Typeunit(tag) \in Structures
  BY <1>4 DEF Structures
<1>6. <<tag.name>> \in Structures
  <2>1. tag.name \in Values \cup Names
    BY <1>1
  <2> HIDE DEF Values
  <2> QED
    BY <2>1 DEF Structures
<1> QED
  BY <1>5, <1>6 DEF Structure

(* A tag that is not modified carries the name it is stacked under.        *)
LEMMA WrittenIsStacked ==
    ASSUME NEW tag
    PROVE  Written(tag) = Structure(tag)
BY DEF Written, NoModify, Structure

-----------------------------------------------------------------------------
(* The stacks: of one size, and what the corpus manager has open.          *)

LineOK ==
    /\ pc = "close" => line \in EndTags
    /\ pc \in {"room", "open"} => line \in StartTags

StacksAgree == Len(types) = Len(origTagNames) /\ open = types

StackInv == TypeOK /\ LineOK /\ StacksAgree /\ WellNested

LEMMA StackInvInit == Init => StackInv
<1> SUFFICES ASSUME Init PROVE StackInv
  OBVIOUS
<1>1. 0 \in 0..MaxTags
  BY TagsOK
<1>2. \A S : <<>> \in Seq(S)
  OBVIOUS
<1>3. TypeOK
  BY <1>1, <1>2 DEF Init, TypeOK
<1> QED
  BY <1>3 DEF Init, StackInv, LineOK, StacksAgree, WellNested

LEMMA PopKeepsStacks ==
    ASSUME StackInv, types # <<>>, Pop
    PROVE  /\ types' \in Seq(Structures) /\ open' \in Seq(Structures)
           /\ origTagNames' \in Seq(Names \cup {SELF_CLOSING})
           /\ StacksAgree' /\ malformed' = FALSE
<1>1. /\ types \in Seq(Structures)
      /\ origTagNames \in Seq(Names \cup {SELF_CLOSING})
      /\ open = types /\ Len(types) = Len(origTagNames)
      /\ malformed = FALSE
  BY DEF StackInv, TypeOK, StacksAgree, WellNested
<1>2. origTagNames # <<>>
  BY <1>1
<1>3. /\ types' = Tail(types) /\ origTagNames' = Tail(origTagNames)
      /\ open' = Tail(open) /\ malformed' = malformed
  BY <1>1 DEF Pop, WriteEnd
<1>4. /\ Tail(types) \in Seq(Structures) /\ Len(Tail(types)) = Len(types) - 1
  BY <1>1, HeadTailProperties
<1>5. /\ Tail(origTagNames) \in Seq(Names \cup {SELF_CLOSING})
      /\ Len(Tail(origTagNames)) = Len(origTagNames) - 1
  BY <1>1, <1>2, HeadTailProperties
<1> QED
  BY <1>1, <1>3, <1>4, <1>5 DEF StacksAgree

LEMMA StackInvNext == StackInv /\ [Next]_vars => StackInv'
<1> SUFFICES ASSUME StackInv, [Next]_vars PROVE StackInv'
  OBVIOUS
<1>t. TypeOK /\ LineOK /\ StacksAgree /\ WellNested
  BY DEF StackInv
<1>n. nTags < MaxTags => nTags + 1 \in 0..MaxTags
  BY <1>t, TagsOK DEF TypeOK
<1>s. Sane
  BY <1>t DEF Sane, StacksAgree
<1>1. ASSUME NEW tag \in Tags, ReadStart(tag) PROVE StackInv'
  <2>1. tag \in StartTags /\ tag.name \in Names
    BY TagsOK DEF StartTags
  <2>2. elements' \in Seq(Names)
    <3>1. <<tag.name>> \o elements \in Seq(Names)
      BY <1>t, <2>1, PushProperties DEF TypeOK
    <3> QED
      BY <1>1, <1>t, <3>1 DEF ReadStart, TypeOK
  <2>3. TypeOK'
    BY <1>1, <1>t, <1>n, <1>s, <2>1, <2>2 DEF ReadStart, TypeOK
  <2> QED
    BY <1>1, <1>t, <1>s, <2>1, <2>3
    DEF ReadStart, StackInv, LineOK, StacksAgree, WellNested
<1>2. CASE ReadEnd \/ \E name \in Unbegun : ReadUnbegunEnd(name)
  <2>1. elements' \in Seq(Names) /\ line' \in EndTags
    <3>1. CASE ReadEnd
      <4>1. Head(elements) \in Names /\ Tail(elements) \in Seq(Names)
        BY <1>t, <3>1, HeadTailProperties DEF ReadEnd, TypeOK
      <4> QED
        BY <3>1, <4>1 DEF ReadEnd, EndTags
    <3>2. CASE \E name \in Unbegun : ReadUnbegunEnd(name)
      BY <1>t, <3>2, TagsOK DEF ReadUnbegunEnd, EndTags, TypeOK
    <3> QED
      BY <1>2, <3>1, <3>2
  <2>2. TypeOK'
    BY <1>2, <1>t, <1>n, <1>s, <2>1 DEF ReadEnd, ReadUnbegunEnd, TypeOK
  <2> QED
    BY <1>2, <1>t, <1>s, <2>1, <2>2
    DEF ReadEnd, ReadUnbegunEnd, StackInv, LineOK, StacksAgree, WellNested
<1>3. CASE Close \/ MakeRoom
  <2>1. types # <<>> /\ Pop
    BY <1>3 DEF Close, MakeRoom, Removable
  <2>2. /\ types' \in Seq(Structures) /\ open' \in Seq(Structures)
        /\ origTagNames' \in Seq(Names \cup {SELF_CLOSING})
        /\ StacksAgree' /\ malformed' = FALSE
    BY <2>1, PopKeepsStacks
  <2>3. /\ UNCHANGED <<elements, nTags>> /\ pc' \in {"read", "close", "room", "open"}
        /\ line' \in {line, NoTag}
        /\ pc' = "close" => pc = "close" /\ line' = line
        /\ pc' \in {"room", "open"} => pc = "room" /\ line' = line
    BY <1>3 DEF Close, MakeRoom
  <2>4. TypeOK'
    BY <1>t, <2>2, <2>3 DEF TypeOK
  <2> QED
    BY <1>t, <2>2, <2>3, <2>4 DEF StackInv, LineOK, WellNested
<1>4. CASE CloseNone \/ RoomMade
  BY <1>4, <1>t
  DEF CloseNone, RoomMade, StackInv, TypeOK, LineOK, StacksAgree, WellNested
<1>5. CASE Open
  <2> DEFINE s == Structure(line)
             name == OrigName(line)
  <2>1. line \in StartTags
    BY <1>5, <1>t DEF Open, LineOK
  <2>2. s \in Structures /\ name \in Names \cup {SELF_CLOSING}
    BY <2>1, StructureType DEF OrigName, StartTags
  <2>3. /\ types' = <<s>> \o types /\ origTagNames' = <<name>> \o origTagNames
        /\ open' = <<s>> \o open /\ malformed' = malformed
        /\ UNCHANGED <<elements, nTags>> /\ pc' = "read" /\ line' = NoTag
    BY <1>5, WrittenIsStacked DEF Open, WriteStart
  <2> HIDE DEF s, name
  <2>4. types' \in Seq(Structures) /\ Len(types') = Len(types) + 1
    BY <1>t, <2>2, <2>3, PushProperties DEF TypeOK
  <2>5. /\ origTagNames' \in Seq(Names \cup {SELF_CLOSING})
        /\ Len(origTagNames') = Len(origTagNames) + 1
    BY <1>t, <2>2, <2>3, PushProperties DEF TypeOK
  <2> QED
    BY <1>t, <2>3, <2>4, <2>5
    DEF StackInv, TypeOK, LineOK, StacksAgree, WellNested
<1>6. CASE UNCHANGED vars
  BY <1>6, <1>t
  DEF vars, StackInv, TypeOK, LineOK, StacksAgree, WellNested
<1> QED
  BY <1>1, <1>2, <1>3, <1>4, <1>5, <1>6 DEF Next, Read, Handle

(* Whatever the tags of the text, the vertical file is well nested.        *)
THEOREM OutputWellNested == Spec => []WellNested
<1>1. StackInv => WellNested
  BY DEF StackInv
<1> QED
  BY <1>1, StackInvInit, StackInvNext, PTL DEF Spec

-----------------------------------------------------------------------------
(* The elements among the stacked names.  SelectSeq is defined by          *)
(* recursion; here h says where in the stack each open element is.  First  *)
(* for n elements e and a stack s of m names, whatever they are made of.   *)

Places(h, n, e, m, s) ==
    /\ h \in [1..n -> 1..m]
    /\ \A i \in 1..n : s[h[i]] = e[i]
    /\ \A i, j \in 1..n : i < j => h[i] < h[j]
    /\ \A k \in 1..m : s[k] # SELF_CLOSING => \E i \in 1..n : h[i] = k

LEMMA PlacesPushElement ==
    ASSUME NEW n \in Nat, NEW m \in Nat, NEW e, NEW s, NEW d, NEW t,
           NEW h, Places(h, n, e, m, s),
           t[1] = d[1], \A i \in 1..n : d[i + 1] = e[i],
           \A i \in 1..m : t[i + 1] = s[i]
    PROVE  \E g : Places(g, n + 1, d, m + 1, t)
<1> DEFINE g == [i \in 1..(n + 1) |-> IF i = 1 THEN 1 ELSE h[i - 1] + 1]
<1>1. \A i \in 1..n : i + 1 \in 1..(n + 1) /\ i + 1 # 1 /\ (i + 1) - 1 = i
  OBVIOUS
<1>2. g[1] = 1 /\ \A i \in 1..n : g[i + 1] = h[i] + 1
  BY <1>1
<1>3. \A j \in 1..(n + 1) : j = 1 \/ \E i \in 1..n : j = i + 1
  <2> TAKE j \in 1..(n + 1)
  <2> SUFFICES ASSUME j # 1 PROVE \E i \in 1..n : j = i + 1
    OBVIOUS
  <2>1. j - 1 \in 1..n /\ j = (j - 1) + 1
    OBVIOUS
  <2> QED
    BY <2>1
<1>4. \A i \in 1..n : h[i] \in 1..m
  BY DEF Places
<1>5. g \in [1..(n + 1) -> 1..(m + 1)]
  <2>1. ASSUME NEW j \in 1..(n + 1) PROVE g[j] \in 1..(m + 1)
    <3> HIDE DEF g
    <3>1. CASE j = 1
      BY <1>2, <3>1
    <3>2. CASE j # 1
      <4>1. PICK i \in 1..n : j = i + 1
        BY <1>3, <3>2
      <4>2. h[i] \in 1..m /\ g[j] = h[i] + 1
        BY <1>2, <1>4, <4>1
      <4> QED
        BY <4>2
    <3> QED
      BY <3>1, <3>2
  <2> QED
    BY <2>1
<1> HIDE DEF g
<1>6. \A j \in 1..(n + 1) : t[g[j]] = d[j]
  <2>1. ASSUME NEW i \in 1..n PROVE t[g[i + 1]] = d[i + 1]
    <3>1. t[h[i] + 1] = s[h[i]] /\ s[h[i]] = e[i]
      BY <1>4 DEF Places
    <3> QED
      BY <1>2, <3>1
  <2> QED
    BY <1>2, <1>3, <2>1
<1>7. \A i, j \in 1..(n + 1) : i < j => g[i] < g[j]
  <2>1. ASSUME NEW i \in 1..n PROVE g[1] < g[i + 1]
    <3>1. g[1] = 1 /\ g[i + 1] = h[i] + 1 /\ h[i] \in 1..m
      BY <1>2, <1>4
    <3> QED
      BY <3>1
  <2>2. \A i, j \in 1..n : i + 1 < j + 1 => g[i + 1] < g[j + 1]
    <3> TAKE i, j \in 1..n
    <3>1. i < j => h[i] < h[j]
      BY DEF Places
    <3> QED
      BY <1>2, <1>4, <3>1
  <2> QED
    BY <1>3, <2>1, <2>2
<1>8. ASSUME NEW k \in 1..(m + 1), t[k] # SELF_CLOSING
      PROVE  \E i \in 1..(n + 1) : g[i] = k
  <2>1. CASE k = 1
    BY <1>2, <2>1
  <2>2. CASE k # 1
    <3>1. k - 1 \in 1..m /\ (k - 1) + 1 = k
      BY <2>2
    <3>2. s[k - 1] # SELF_CLOSING
      BY <1>8, <3>1
    <3>3. PICK i \in 1..n : h[i] = k - 1
      BY <3>1, <3>2 DEF Places
    <3> QED
      BY <1>1, <1>2, <3>1, <3>3
  <2> QED
    BY <2>1, <2>2
<1>9. Places(g, n + 1, d, m + 1, t)
  BY <1>5, <1>6, <1>7, <1>8 DEF Places
<1> QED
  BY <1>9

LEMMA PlacesPushMilestone ==
    ASSUME NEW n \in Nat, NEW m \in Nat, NEW e, NEW s, NEW t,
           NEW h, Places(h, n, e, m, s),
           t[1] = SELF_CLOSING, \A i \in 1..m : t[i + 1] = s[i]
    PROVE  \E g : Places(g, n, e, m + 1, t)
<1> DEFINE g == [i \in 1..n |-> h[i] + 1]
<1>1. \A i \in 1..n : h[i] \in 1..m /\ g[i] = h[i] + 1
  BY DEF Places
<1>2. g \in [1..n -> 1..(m + 1)]
  BY <1>1
<1> HIDE DEF g
<1>3. ASSUME NEW i \in 1..n PROVE t[g[i]] = e[i]
  <2>1. s[h[i]] = e[i]
    BY DEF Places
  <2>2. h[i] \in 1..m /\ g[i] = h[i] + 1
    BY <1>1
  <2>3. t[h[i] + 1] = s[h[i]]
    BY <2>2
  <2> QED
    BY <2>1, <2>2, <2>3
<1>4. \A i, j \in 1..n : i < j => g[i] < g[j]
  <2> TAKE i, j \in 1..n
  <2>1. i < j => h[i] < h[j]
    BY DEF Places
  <2> QED
    BY <1>1, <2>1
<1>5. ASSUME NEW k \in 1..(m + 1), t[k] # SELF_CLOSING
      PROVE  \E i \in 1..n : g[i] = k
  <2>1. k - 1 \in 1..m /\ (k - 1) + 1 = k
    BY <1>5
  <2>2. s[k - 1] # SELF_CLOSING
    BY <1>5, <2>1
  <2>3. PICK i \in 1..n : h[i] = k - 1
    BY <2>1, <2>2 DEF Places
  <2> QED
    BY <1>1, <2>1, <2>3
<1>6. Places(g, n, e, m + 1, t)
  BY <1>2, <1>3, <1>4, <1>5 DEF Places
<1> QED
  BY <1>6

LEMMA PlacesPopMilestone ==
    ASSUME NEW n \in Nat, NEW m \in Nat, NEW e, NEW s, NEW t,
           NEW h, Places(h, n, e, m + 1, s),
           s[1] = SELF_CLOSING, \A i \in 1..n : e[i] # SELF_CLOSING,
           \A i \in 1..m : t[i] = s[i + 1]
    PROVE  \E g : Places(g, n, e, m, t)
<1> DEFINE g == [i \in 1..n |-> h[i] - 1]
<1>1. \A i \in 1..n : h[i] \in 1..(m + 1) /\ h[i] # 1 /\ g[i] = h[i] - 1
  BY DEF Places
<1>2. \A i \in 1..n : g[i] \in 1..m /\ g[i] + 1 = h[i]
  <2> HIDE DEF g
  <2> QED
    BY <1>1
<1>3. g \in [1..n -> 1..m]
  BY <1>2
<1> HIDE DEF g
<1>4. \A i \in 1..n : t[g[i]] = e[i]
  BY <1>2 DEF Places
<1>5. \A i, j \in 1..n : i < j => g[i] < g[j]
  <2> TAKE i, j \in 1..n
  <2>1. i < j => h[i] < h[j]
    BY DEF Places
  <2> QED
    BY <1>1, <2>1
<1>6. ASSUME NEW k \in 1..m, t[k] # SELF_CLOSING
      PROVE  \E i \in 1..n : g[i] = k
  <2>1. k + 1 \in 1..(m + 1) /\ (k + 1) - 1 = k
    OBVIOUS
  <2>2. PICK i \in 1..n : h[i] = k + 1
    BY <1>6, <2>1 DEF Places
  <2> QED
    BY <1>1, <2>1, <2>2
<1>7. Places(g, n, e, m, t)
  BY <1>3, <1>4, <1>5, <1>6 DEF Places
<1> QED
  BY <1>7

(* An element on top of the stack is the innermost one.                    *)
LEMMA PlacesTop ==
    ASSUME NEW n \in Nat, NEW m \in Nat, NEW e, NEW s,
           NEW h, Places(h, n, e, m, s), m # 0, s[1] # SELF_CLOSING
    PROVE  n # 0 /\ h[1] = 1 /\ e[1] = s[1]
<1>1. PICK i \in 1..n : h[i] = 1
  BY DEF Places
<1>2. 1 \in 1..n /\ h[1] \in 1..m
  BY <1>1 DEF Places
<1>3. i = 1
  BY <1>1, <1>2 DEF Places
<1> QED
  BY <1>1, <1>2, <1>3 DEF Places

Shifted(d, e, n) == \A i \in 1..n : d[i] = e[i + 1]

LEMMA PlacesPopElement ==
    ASSUME NEW n \in Nat, NEW m \in Nat, NEW e, NEW s, NEW d, NEW t,
           NEW a, a = n + 1, NEW b, b = m + 1,
           NEW h, Places(h, a, e, b, s), s[1] # SELF_CLOSING,
           Shifted(d, e, n), Shifted(t, s, m)
    PROVE  \E g : Places(g, n, d, m, t)
<1> USE DEF Shifted
<1> DEFINE g == [i \in 1..n |-> h[i + 1] - 1]
<1>1. h[1] = 1
  BY PlacesTop
<1>2. \A i \in 1..n : /\ i + 1 \in 1..(n + 1) /\ 1 \in 1..(n + 1)
                      /\ h[i + 1] \in 1..(m + 1) /\ h[1] < h[i + 1]
  BY DEF Places
<1>3. \A i \in 1..n : g[i] \in 1..m /\ g[i] + 1 = h[i + 1]
  <2>1. \A i \in 1..n : g[i] = h[i + 1] - 1
    OBVIOUS
  <2> HIDE DEF g
  <2> QED
    BY <1>1, <1>2, <2>1
<1>4. g \in [1..n -> 1..m]
  BY <1>3
<1> HIDE DEF g
<1>5. ASSUME NEW i \in 1..n PROVE t[g[i]] = d[i]
  <2>1. t[g[i]] = s[g[i] + 1] /\ s[h[i + 1]] = e[i + 1]
    BY <1>2, <1>3 DEF Places
  <2> QED
    BY <1>3, <2>1
<1>6. \A i, j \in 1..n : i < j => g[i] < g[j]
  <2> TAKE i, j \in 1..n
  <2>1. i < j => h[i + 1] < h[j + 1]
    BY <1>2 DEF Places
  <2> QED
    BY <1>3, <2>1
<1>7. ASSUME NEW k \in 1..m, t[k] # SELF_CLOSING
      PROVE  \E i \in 1..n : g[i] = k
  <2>1. k + 1 \in 1..(m + 1) /\ s[k + 1] # SELF_CLOSING /\ k + 1 # 1
    BY <1>7
  <2>2. PICK i \in 1..(n + 1) : h[i] = k + 1
    BY <2>1 DEF Places
  <2>3. i # 1
    BY <1>1, <2>1, <2>2
  <2>4. i - 1 \in 1..n /\ (i - 1) + 1 = i
    BY <2>3
  <2>5. g[i - 1] = k
    BY <1>3, <2>2, <2>4
  <2> QED
    BY <2>4, <2>5
<1>8. Places(g, n, d, m, t)
  BY <1>4, <1>5, <1>6, <1>7 DEF Places
<1> QED
  BY <1>8

(* Now for the stacks of the script.                                       *)

Mirrored(e, s) == \E h : Places(h, Len(e), e, Len(s), s)

Stacked == Names \cup {SELF_CLOSING}

LEMMA PushElement ==
    ASSUME NEW e \in Seq(Names), NEW s \in Seq(Stacked), NEW x \in Names,
           Mirrored(e, s)
    PROVE  Mirrored(<<x>> \o e, <<x>> \o s)
<1> DEFINE d == <<x>> \o e
           t == <<x>> \o s
<1>1. PICK h : Places(h, Len(e), e, Len(s), s)
  BY DEF Mirrored
<1>2. /\ Len(d) = Len(e) + 1 /\ d[1] = x
      /\ \A i \in 1..Len(e) : d[i + 1] = e[i]
  BY PushProperties
<1>3. x \in Stacked
  BY DEF Stacked
<1>4. /\ Len(t) = Len(s) + 1 /\ t[1] = x
      /\ \A i \in 1..Len(s) : t[i + 1] = s[i]
  BY <1>3, PushProperties
<1>5. Len(e) \in Nat /\ Len(s) \in Nat
  OBVIOUS
<1> HIDE DEF d, t
<1>6. \E g : Places(g, Len(e) + 1, d, Len(s) + 1, t)
  BY <1>1, <1>2, <1>4, <1>5, PlacesPushElement
<1>7. Mirrored(d, t)
  BY <1>2, <1>4, <1>6 DEF Mirrored
<1> QED
  BY <1>7 DEF d, t

LEMMA PushMilestone ==
    ASSUME NEW e \in Seq(Names), NEW s \in Seq(Stacked), Mirrored(e, s)
    PROVE  Mirrored(e, <<SELF_CLOSING>> \o s)
<1> DEFINE t == <<SELF_CLOSING>> \o s
<1>1. PICK h : Places(h, Len(e), e, Len(s), s)
  BY DEF Mirrored
<1>2. SELF_CLOSING \in Stacked
  BY DEF Stacked
<1>3. /\ Len(t) = Len(s) + 1 /\ t[1] = SELF_CLOSING
      /\ \A i \in 1..Len(s) : t[i + 1] = s[i]
  BY <1>2, PushProperties
<1>4. Len(e) \in Nat /\ Len(s) \in Nat
  OBVIOUS
<1> HIDE DEF t
<1>5. \E g : Places(g, Len(e), e, Len(s) + 1, t)
  BY <1>1, <1>3, <1>4, PlacesPushMilestone
<1>6. Mirrored(e, t)
  BY <1>3, <1>5 DEF Mirrored
<1> QED
  BY <1>6 DEF t

LEMMA PopMilestone ==
    ASSUME NEW e \in Seq(Names), NEW s \in Seq(Stacked), s # <<>>,
           Head(s) = SELF_CLOSING, Mirrored(e, s)
    PROVE  Mirrored(e, Tail(s))
<1> DEFINE t == Tail(s)
<1>1. PICK h : Places(h, Len(e), e, Len(s), s)
  BY DEF Mirrored
<1>2. Len(t) = Len(s) - 1 /\ \A i \in 1..Len(t) : t[i] = s[i + 1]
  BY HeadTailProperties
<1>3. /\ Len(e) \in Nat /\ Len(s) \in Nat \ {0} /\ s[1] = SELF_CLOSING
      /\ \A i \in 1..Len(e) : e[i] \in Names
  OBVIOUS
<1> HIDE DEF t
<1>4. Len(t) \in Nat /\ Len(s) = Len(t) + 1
  BY <1>2, <1>3
<1>5. \A i \in 1..Len(e) : e[i] # SELF_CLOSING
  BY <1>3, TagsOK
<1>6. Places(h, Len(e), e, Len(t) + 1, s)
  BY <1>1, <1>4
<1>7. \E g : Places(g, Len(e), e, Len(t), t)
  BY <1>2, <1>3, <1>4, <1>5, <1>6, PlacesPopMilestone
<1>8. Mirrored(e, t)
  BY <1>7 DEF Mirrored
<1> QED
  BY <1>8 DEF t

LEMMA TopElement ==
    ASSUME NEW e \in Seq(Names), NEW s \in Seq(Stacked), s # <<>>,
           Head(s) # SELF_CLOSING, Mirrored(e, s)
    PROVE  e # <<>> /\ Head(e) = Head(s)
<1>1. PICK h : Places(h, Len(e), e, Len(s), s)
  BY DEF Mirrored
<1>2. Len(e) \in Nat /\ Len(s) \in Nat /\ Len(s) # 0 /\ Head(s) = s[1]
  OBVIOUS
<1>3. Len(e) # 0 /\ e[1] = s[1]
  BY <1>1, <1>2, PlacesTop
<1> QED
  BY <1>2, <1>3

LEMMA PopElement ==
    ASSUME NEW e \in Seq(Names), NEW s \in Seq(Stacked), s # <<>>,
           Head(s) # SELF_CLOSING, Mirrored(e, s)
    PROVE  Mirrored(Tail(e), Tail(s))
<1> DEFINE d == Tail(e)
           t == Tail(s)
<1>1. PICK h : Places(h, Len(e), e, Len(s), s)
  BY DEF Mirrored
<1>2. e # <<>>
  BY TopElement
<1>3. /\ Len(d) = Len(e) - 1 /\ \A i \in 1..Len(d) : d[i] = e[i + 1]
      /\ Len(t) = Len(s) - 1 /\ \A i \in 1..Len(t) : t[i] = s[i + 1]
  BY <1>2, HeadTailProperties
<1>4. Len(e) \in Nat \ {0} /\ Len(s) \in Nat \ {0} /\ s[1] # SELF_CLOSING
  BY <1>2
<1> HIDE DEF d, t
<1>5. /\ Len(d) \in Nat /\ Len(e) = Len(d) + 1
      /\ Len(t) \in Nat /\ Len(s) = Len(t) + 1
  BY <1>3, <1>4
<1>6. Shifted(d, e, Len(d)) /\ Shifted(t, s, Len(t))
  BY <1>3 DEF Shifted
<1>7. \E g : Places(g, Len(d), d, Len(t), t)
  BY <1>1, <1>4, <1>5, <1>6, PlacesPopElement
<1>8. Mirrored(d, t)
  BY <1>7 DEF Mirrored
<1> QED
  BY <1>8 DEF d, t

-----------------------------------------------------------------------------
(* The names that are stacked are those of the open elements.  An end tag  *)
(* has left elements before its loop starts, and a start tag has entered   *)
(* them before it is stacked.                                              *)

Opened(e) == elements = IF line.empty THEN e ELSE <<line.name>> \o e

MirrorInv ==
    /\ pc = "read" => Mirrored(elements, origTagNames)
    /\ pc = "close" =>
          \/ Mirrored(<<line.end>> \o elements, origTagNames)
          \/ elements = <<>> /\ Mirrored(<<>>, origTagNames)
    /\ pc \in {"room", "open"} =>
          \E e \in Seq(Names) : Opened(e) /\ Mirrored(e, origTagNames)

LEMMA MirrorInvInit == Init => MirrorInv
<1> SUFFICES ASSUME Init PROVE Mirrored(<<>>, <<>>)
  BY DEF Init, MirrorInv
<1> DEFINE h == [i \in 1..0 |-> i]
<1>1. Places(h, 0, <<>>, 0, <<>>)
  BY DEF Places
<1> HIDE DEF h
<1>2. Places(h, Len(<<>>), <<>>, Len(<<>>), <<>>)
  BY <1>1
<1> QED
  BY <1>2 DEF Mirrored

(* With nothing on the stack, no element is open.                          *)
LEMMA NoneMirrored ==
    ASSUME NEW e \in Seq(Names), Mirrored(e, <<>>)
    PROVE  e = <<>>
<1>1. PICK h : Places(h, Len(e), e, 0, <<>>)
  BY DEF Mirrored
<1>2. 1 \in 1..Len(e) => h[1] \in 1..0
  BY <1>1 DEF Places
<1> QED
  BY <1>2

LEMMA StackTypes ==
    ASSUME StackInv
    PROVE  /\ elements \in Seq(Names) /\ origTagNames \in Seq(Stacked)
           /\ types = <<>> <=> origTagNames = <<>>
BY DEF StackInv, TypeOK, StacksAgree, Stacked

(* A tag that is read finds the stacks as the last one left them.          *)
LEMMA MirrorRead ==
    ASSUME StackInv, MirrorInv, Read
    PROVE  MirrorInv'
<1>t. elements \in Seq(Names)
  BY StackTypes
<1>1. ASSUME NEW tag \in Tags, ReadStart(tag) PROVE MirrorInv'
  <2>1. /\ Mirrored(elements, origTagNames) /\ pc' \notin {"read", "close"}
        /\ origTagNames' = origTagNames /\ line' = tag
        /\ elements' = IF tag.empty THEN elements ELSE <<tag.name>> \o elements
    BY <1>1 DEF ReadStart, MirrorInv
  <2> QED
    BY <1>t, <2>1 DEF MirrorInv, Opened
<1>2. CASE ReadEnd
  <2>1. /\ Mirrored(elements, origTagNames) /\ origTagNames' = origTagNames
        /\ elements # <<>> /\ elements' = Tail(elements)
        /\ line'.end = Head(elements) /\ pc' \notin {"read", "room", "open"}
    BY <1>2 DEF ReadEnd, MirrorInv
  <2>2. <<Head(elements)>> \o Tail(elements) = elements
    BY <1>t, <2>1, HeadPushed
  <2>3. Mirrored(<<line'.end>> \o elements', origTagNames')
    BY <2>1, <2>2
  <2> QED
    BY <2>1, <2>3 DEF MirrorInv
<1>3. ASSUME NEW name \in Unbegun, ReadUnbegunEnd(name) PROVE MirrorInv'
  BY <1>3 DEF ReadUnbegunEnd, MirrorInv
<1> QED
  BY <1>1, <1>2, <1>3 DEF Read

(* The loop for an end tag comes to milestones, then to its element.       *)
LEMMA CloseTop ==
    ASSUME StackInv, MirrorInv, Close
    PROVE  /\ origTagNames # <<>>
           /\ \/ Head(origTagNames) = SELF_CLOSING
              \/ /\ Head(origTagNames) = line.end
                 /\ Mirrored(<<line.end>> \o elements, origTagNames)
<1> DEFINE e == <<line.end>> \o elements
<1>1. /\ elements \in Seq(Names) /\ origTagNames \in Seq(Stacked)
      /\ origTagNames # <<>> /\ line.end \in Names
  BY StackTypes DEF Close, StackInv, LineOK, EndTags
<1>2. e \in Seq(Names) /\ Head(e) = line.end
  BY <1>1, PushProperties, PushHead
<1>3. Mirrored(e, origTagNames) \/ Mirrored(<<>>, origTagNames)
  BY DEF Close, MirrorInv
<1> HIDE DEF e
<1>4. <<>> \in Seq(Names)
  OBVIOUS
<1>5. ASSUME Head(origTagNames) # SELF_CLOSING
      PROVE  Head(origTagNames) = line.end /\ Mirrored(e, origTagNames)
  <2>1. ~Mirrored(<<>>, origTagNames)
    BY <1>1, <1>4, <1>5, TopElement
  <2>2. Mirrored(e, origTagNames)
    BY <1>3, <2>1
  <2> QED
    BY <1>1, <1>2, <1>5, <2>2, TopElement
<1> QED
  BY <1>1, <1>5 DEF e

LEMMA MirrorClose ==
    ASSUME StackInv, MirrorInv, Close
    PROVE  MirrorInv'
<1> DEFINE e == <<line.end>> \o elements
<1>1. /\ elements \in Seq(Names) /\ origTagNames \in Seq(Stacked)
      /\ line.end \in Names /\ SELF_CLOSING \notin Names
  BY StackTypes, TagsOK DEF Close, StackInv, LineOK, EndTags
<1>2. /\ origTagNames # <<>> /\ origTagNames' = Tail(origTagNames)
      /\ elements' = elements
  BY CloseTop DEF Close, Pop
<1>3. e \in Seq(Names) /\ Tail(e) = elements
  BY <1>1, PushProperties, PushHead
<1>4. CASE Head(origTagNames) = SELF_CLOSING
  <2>1. pc' = "close" /\ line' = line
    BY <1>1, <1>4 DEF Close, Found
  <2>2. \/ Mirrored(e, origTagNames)
        \/ elements = <<>> /\ Mirrored(<<>>, origTagNames)
    BY DEF Close, MirrorInv
  <2> HIDE DEF e
  <2>3. \A d \in Seq(Names) :
           Mirrored(d, origTagNames) => Mirrored(d, Tail(origTagNames))
    BY <1>1, <1>2, <1>4, PopMilestone
  <2>4. <<>> \in Seq(Names)
    OBVIOUS
  <2>5. \/ Mirrored(e, Tail(origTagNames))
        \/ elements = <<>> /\ Mirrored(<<>>, Tail(origTagNames))
    BY <1>3, <2>2, <2>3, <2>4
  <2> QED
    BY <1>2, <2>1, <2>5 DEF MirrorInv, e
<1>5. CASE Head(origTagNames) # SELF_CLOSING
  <2>1. Head(origTagNames) = line.end /\ Mirrored(e, origTagNames)
    BY <1>5, CloseTop
  <2>2. pc' = "read"
    BY <2>1 DEF Close, Found
  <2> HIDE DEF e
  <2>3. Mirrored(Tail(e), Tail(origTagNames))
    BY <1>1, <1>2, <1>3, <1>5, <2>1, PopElement
  <2> QED
    BY <1>2, <1>3, <2>2, <2>3 DEF MirrorInv
<1> QED
  BY <1>4, <1>5

LEMMA MirrorOpen ==
    ASSUME StackInv, MirrorInv, Open
    PROVE  MirrorInv'
<1>1. /\ origTagNames \in Seq(Stacked) /\ line \in StartTags /\ pc' = "read"
      /\ line.name \in Names /\ elements' = elements
      /\ origTagNames' = <<OrigName(line)>> \o origTagNames
  BY StackTypes DEF Open, StackInv, LineOK, StartTags
<1>2. PICK e \in Seq(Names) : Opened(e) /\ Mirrored(e, origTagNames)
  BY DEF Open, MirrorInv
<1>3. CASE line.empty
  <2>1. Mirrored(e, <<SELF_CLOSING>> \o origTagNames)
    BY <1>1, <1>2, PushMilestone
  <2> QED
    BY <1>1, <1>2, <1>3, <2>1 DEF MirrorInv, Opened, OrigName
<1>4. CASE ~line.empty
  <2>1. Mirrored(<<line.name>> \o e, <<line.name>> \o origTagNames)
    BY <1>1, <1>2, PushElement
  <2> QED
    BY <1>1, <1>2, <1>4, <2>1 DEF MirrorInv, Opened, OrigName
<1> QED
  BY <1>3, <1>4

LEMMA MirrorInvNext == StackInv /\ MirrorInv /\ [Next]_vars => MirrorInv'
<1> SUFFICES ASSUME StackInv, MirrorInv, [Next]_vars PROVE MirrorInv'
  OBVIOUS
<1>1. CASE Read
  BY <1>1, MirrorRead
<1>2. CASE Close
  BY <1>2, MirrorClose
<1>3. CASE CloseNone
  <2>1. /\ origTagNames = <<>> /\ elements \in Seq(Names)
        /\ line.end \in Names
    BY <1>3, StackTypes DEF CloseNone, StackInv, LineOK, EndTags
  <2>2. /\ <<line.end>> \o elements \in Seq(Names)
        /\ <<line.end>> \o elements # <<>>
    BY <2>1, PushProperties
  <2>3. ~Mirrored(<<line.end>> \o elements, <<>>)
    BY <2>2, NoneMirrored
  <2>4. elements = <<>> /\ Mirrored(<<>>, origTagNames)
    BY <1>3, <2>1, <2>3 DEF CloseNone, MirrorInv
  <2> QED
    BY <1>3, <2>4 DEF CloseNone, MirrorInv
<1>4. CASE MakeRoom
  <2>1. /\ origTagNames \in Seq(Stacked) /\ origTagNames # <<>>
        /\ Head(origTagNames) = SELF_CLOSING
        /\ origTagNames' = Tail(origTagNames) /\ UNCHANGED <<elements, line>>
        /\ pc = "room" /\ pc' \in {"room", "open"}
    BY <1>4, StackTypes DEF MakeRoom, Removable, Pop
  <2>2. PICK e \in Seq(Names) : Opened(e) /\ Mirrored(e, origTagNames)
    BY <2>1 DEF MirrorInv
  <2>3. Mirrored(e, Tail(origTagNames))
    BY <2>1, <2>2, PopMilestone
  <2> QED
    BY <2>1, <2>2, <2>3 DEF MirrorInv, Opened
<1>5. CASE RoomMade
  BY <1>5 DEF RoomMade, MirrorInv, Opened
<1>6. CASE Open
  BY <1>6, MirrorOpen
<1>7. CASE UNCHANGED vars
  BY <1>7 DEF vars, MirrorInv, Opened
<1> QED
  BY <1>1, <1>2, <1>3, <1>4, <1>5, <1>6, <1>7 DEF Next, Handle

(* No element is ever closed but by its own end tag, and the script never  *)
(* prints its warning.                                                     *)
THEOREM NeverWarns == Spec => NoWarning
<1>1. StackInv /\ MirrorInv =>
         [Close => Head(origTagNames) \in {SELF_CLOSING, line.end}]_vars
  BY CloseTop
<1> QED
  BY <1>1, StackInvInit, StackInvNext, MirrorInvInit, MirrorInvNext, PTL
  DEF Spec, NoWarning

-----------------------------------------------------------------------------
(* ElementNames is a recursion over the stack: Elements(f, n, s) says that *)
(* f[i] is its value for the i names on top.                               *)

Elements(f, n, s) ==
    /\ f[0] = <<>>
    /\ \A i \in 1..n : f[i] = IF s[i] = SELF_CLOSING THEN f[i - 1]
                              ELSE Append(f[i - 1], s[i])

LEMMA ElementsExist ==
    ASSUME NEW s \in Seq(Stacked)
    PROVE  \E f \in [0..Len(s) -> Seq(Names)] :
              Elements(f, Len(s), s) /\ ElementNames(s) = f[Len(s)]
<1> DEFINE V == Seq(Names)
           n == Len(s)
           step == [i \in 1..n |-> [v \in V |->
                       IF s[i] = SELF_CLOSING THEN v ELSE Append(v, s[i])]]
           Def(F) == [i \in 0..n |->
                         IF i = 0 THEN <<>>
                         ELSE IF s[i] = SELF_CLOSING THEN F[i - 1]
                         ELSE Append(F[i - 1], s[i])]
           G == CHOOSE F : F = Def(F)
<1>1. n \in Nat /\ <<>> \in V /\ \A i \in 1..n : s[i] \in Stacked
  OBVIOUS
<1>2. \A i \in 1..n, v \in V : s[i] # SELF_CLOSING => Append(v, s[i]) \in V
  BY <1>1, AppendProperties DEF Stacked
<1>3. step \in [1..n -> [V -> V]]
  <2> HIDE DEF V, n
  <2> QED
    BY <1>2
<1>4. PICK g \in [0..n -> V] : Iterates(g, n, <<>>, step)
  <2> HIDE DEF V, n, step
  <2> QED
    BY <1>1, <1>3, IteratesExist
<1> HIDE DEF n
<1>5. ASSUME NEW i \in 1..n
      PROVE  g[i] = IF s[i] = SELF_CLOSING THEN g[i - 1]
                    ELSE Append(g[i - 1], s[i])
  <2>1. i - 1 \in 0..n
    BY <1>1
  <2> HIDE DEF V
  <2>2. g[i - 1] \in V /\ g[i] = step[i][g[i - 1]]
    BY <1>4, <2>1 DEF Iterates
  <2> QED
    BY <2>2
<1>6. g[0] = <<>> /\ DOMAIN g = 0..n
  BY <1>4 DEF Iterates
<1>7. g = Def(g)
  <2>1. \A i \in 0..n : i # 0 => i \in 1..n
    BY <1>1
  <2> HIDE DEF V
  <2> QED
    BY <1>4, <1>5, <1>6, <2>1
<1>8. G = Def(G)
  <2> HIDE DEF Def
  <2> QED
    BY <1>7
<1>9. ElementNames(s) = G[n]
  BY DEF ElementNames, n
<1> HIDE DEF G
<1>10. /\ DOMAIN Def(G) = 0..n /\ Def(G)[0] = <<>>
       /\ \A i \in 1..n : Def(G)[i] = IF s[i] = SELF_CLOSING THEN G[i - 1]
                                      ELSE Append(G[i - 1], s[i])
  BY <1>1
<1> HIDE DEF Def
<1>11. Elements(G, n, s)
  BY <1>8, <1>10 DEF Elements
<1> DEFINE Good == {i \in Nat : G[i] \in V}
<1>12. 0 \in Good
  BY <1>1, <1>11 DEF Elements
<1>13. ASSUME NEW i \in 1..n, i - 1 \in Good PROVE i \in Good
  <2>1. G[i] = IF s[i] = SELF_CLOSING THEN G[i - 1]
               ELSE Append(G[i - 1], s[i])
    BY <1>11 DEF Elements
  <2> HIDE DEF V
  <2> QED
    BY <1>2, <1>13, <2>1
<1>14. \A i \in 0..n : i \in Good
  <2> HIDE DEF Good
  <2> QED
    BY <1>1, <1>12, <1>13, IntervalInduction
<1>15. DOMAIN G = 0..n
  BY <1>8, <1>10
<1>16. G = [i \in 0..n |-> G[i]]
  BY <1>8 DEF Def
<1>17. G \in [0..n -> V]
  BY <1>14, <1>16
<1> QED
  BY <1>9, <1>11, <1>17 DEF n

LEMMA MirroredNames ==
    ASSUME NEW e \in Seq(Names), NEW s \in Seq(Stacked), Mirrored(e, s)
    PROVE  ElementNames(s) = e
<1> DEFINE n == Len(e)
           m == Len(s)
<1>1. PICK f \in [0..m -> Seq(Names)] :
         Elements(f, m, s) /\ ElementNames(s) = f[m]
  BY ElementsExist
<1>2. PICK h : Places(h, n, e, m, s)
  BY DEF Mirrored
<1>3. n \in Nat /\ m \in Nat /\ \A i \in 1..n : e[i] \in Names
  OBVIOUS
<1> HIDE DEF n, m
<1>4. /\ \A i \in 1..n : h[i] \in 1..m /\ s[h[i]] # SELF_CLOSING
      /\ \A i \in 1..n : s[h[i]] = e[i]
      /\ \A i, j \in 1..n : i < j => h[i] < h[j]
      /\ \A k \in 1..m : s[k] # SELF_CLOSING => \E i \in 1..n : h[i] = k
  <2>1. /\ h \in [1..n -> 1..m]
        /\ \A i \in 1..n : s[h[i]] = e[i]
        /\ \A i, j \in 1..n : i < j => h[i] < h[j]
        /\ \A k \in 1..m : s[k] # SELF_CLOSING => \E i \in 1..n : h[i] = k
    BY ONLY <1>2, Zenon DEF Places
  <2>2. SELF_CLOSING \notin Names
    BY TagsOK
  <2>3. \A i \in 1..n : h[i] \in 1..m /\ s[h[i]] # SELF_CLOSING
    BY ONLY <1>3, <2>1, <2>2
  <2> QED
    BY ONLY <2>1, <2>3, Zenon
<1> DEFINE UpTo(k, j) ==
              /\ Len(f[k]) = j /\ \A i \in 1..j : f[k][i] = e[i]
              /\ \A i \in 1..n : h[i] <= k <=> i <= j
           Good == {k \in 0..m : \E j \in 0..n : UpTo(k, j)}
<1>5. 0 \in Good
  <2>1. f[0] = <<>>
    BY <1>1 DEF Elements
  <2>2. \A i \in 1..n : ~(h[i] <= 0) /\ ~(i <= 0)
    BY <1>3, <1>4
  <2>3. Len(f[0]) = 0 /\ \A i \in 1..0 : f[0][i] = e[i]
    BY <2>1
  <2>4. UpTo(0, 0)
    BY <2>2, <2>3
  <2>5. 0 \in 0..n /\ 0 \in 0..m
    BY <1>3
  <2> QED
    BY <2>4, <2>5
<1>6. ASSUME NEW k \in 1..m, k - 1 \in Good PROVE k \in Good
  <2>1. PICK j \in 0..n : UpTo(k - 1, j)
    BY <1>6
  <2>2. k - 1 \in 0..m /\ k \in 0..m /\ k \in Nat /\ j \in Nat
    BY <1>3
  <2>3. f[k - 1] \in Seq(Names)
    BY <2>2
  <2>4. f[k] = IF s[k] = SELF_CLOSING THEN f[k - 1]
               ELSE Append(f[k - 1], s[k])
    BY <1>1 DEF Elements
  <2>5. CASE s[k] = SELF_CLOSING
    <3>1. \A i \in 1..n : h[i] # k
      BY <1>4, <2>5
    <3>2. \A i \in 1..n : h[i] <= k <=> h[i] <= k - 1
      BY <1>3, <1>4, <2>2, <3>1
    <3>3. UpTo(k, j)
      BY <2>1, <2>4, <2>5, <3>2
    <3> QED
      BY <2>2, <3>3
  <2>6. CASE s[k] # SELF_CLOSING
    <3>1. PICK p \in 1..n : h[p] = k
      BY <1>4, <2>6
    <3>2. ~(p <= j)
      BY <2>1, <2>2, <3>1
    <3>3. p = j + 1
      <4>1. SUFFICES ASSUME p # j + 1 PROVE FALSE
        OBVIOUS
      <4>2. j + 1 \in 1..n /\ j + 1 < p
        BY <1>3, <2>2, <3>2, <4>1
      <4>3. h[j + 1] < k /\ h[j + 1] \in 1..m
        BY <1>4, <3>1, <4>2
      <4>4. h[j + 1] <= k - 1
        BY <2>2, <4>3
      <4>5. j + 1 <= j
        BY <2>1, <4>2, <4>4
      <4> QED
        BY <2>2, <4>5
    <3>4. s[k] = e[j + 1] /\ s[k] \in Names
      BY <1>3, <1>4, <3>1, <3>3
    <3>5. /\ Len(f[k]) = j + 1 /\ f[k][j + 1] = e[j + 1]
          /\ \A i \in 1..j : f[k][i] = e[i]
      <4>1. /\ Len(Append(f[k - 1], s[k])) = Len(f[k - 1]) + 1
            /\ \A i \in 1..Len(f[k - 1]) :
                  Append(f[k - 1], s[k])[i] = f[k - 1][i]
            /\ Append(f[k - 1], s[k])[Len(f[k - 1]) + 1] = s[k]
        BY <2>3, <3>4, AppendProperties
      <4>2. f[k] = Append(f[k - 1], s[k])
        BY <2>4, <2>6
      <4>3. Len(f[k - 1]) = j /\ \A i \in 1..j : f[k - 1][i] = e[i]
        BY <2>1
      <4> QED
        BY <3>4, <4>1, <4>2, <4>3
    <3>6. \A i \in 1..(j + 1) : f[k][i] = e[i]
      BY <2>2, <3>5
    <3>7. ASSUME NEW i \in 1..n PROVE h[i] <= k <=> i <= j + 1
      <4>1. CASE i <= j
        <5>1. h[i] <= k - 1 /\ h[i] \in 1..m
          BY <1>4, <2>1, <4>1
        <5> QED
          BY <2>2, <4>1, <5>1
      <4>2. CASE i = j + 1
        BY <3>1, <3>3, <4>2, <2>2
      <4>3. CASE i > j + 1
        <5>1. k < h[i] /\ h[i] \in 1..m
          BY <1>4, <3>1, <3>3, <4>3
        <5> QED
          BY <2>2, <4>3, <5>1
      <4> QED
        BY <2>2, <4>1, <4>2, <4>3
    <3>8. UpTo(k, j + 1)
      BY <3>5, <3>6, <3>7
    <3>9. j + 1 \in 0..n
      BY <1>3, <2>2, <3>3
    <3> QED
      BY <2>2, <3>8, <3>9
  <2> QED
    BY <2>5, <2>6
<1>7. m \in Good
  <2> HIDE DEF Good
  <2>1. m \in 0..m
    BY <1>3
  <2> QED
    BY <1>3, <1>5, <1>6, <2>1, IntervalInduction
<1>8. PICK j \in 0..n : UpTo(m, j)
  BY <1>7
<1>9. j = n
  <2>1. n # 0 => n \in 1..n
    BY <1>3
  <2>2. n # 0 => h[n] <= m
    BY <1>3, <1>4, <2>1
  <2>3. n # 0 => n <= j
    BY <1>8, <2>1, <2>2
  <2> QED
    BY <1>3, <2>3
<1>10. Len(f[m]) = Len(e) /\ \A i \in 1..Len(e) : f[m][i] = e[i]
  BY <1>8, <1>9 DEF n
<1>11. f[m] \in Seq(Names)
  BY <1>3
<1> QED
  BY <1>1, <1>10, <1>11, SeqEqual

(* Whatever milestones come between, what the stack holds besides them are *)
(* the open elements of the text.                                          *)
THEOREM ElementsAreMirrored == Spec => []ElementsMirrored
<1>1. StackInv /\ MirrorInv => ElementsMirrored
  <2> SUFFICES ASSUME StackInv, MirrorInv, pc = "read"
               PROVE  ElementNames(origTagNames) = elements
    BY DEF ElementsMirrored
  <2> QED
    BY StackTypes, MirroredNames DEF MirrorInv
<1> QED
  BY <1>1, StackInvInit, StackInvNext, MirrorInvInit, MirrorInvNext, PTL
  DEF Spec

(* The variables have their types in every reachable state.                *)
THEOREM MetadTypes == Spec => []TypeOK
<1>1. StackInv => TypeOK
  BY DEF StackInv
<1> QED
  BY <1>1, StackInvInit, StackInvNext, PTL DEF Spec

-----------------------------------------------------------------------------
(* A name has lost its capitals when it is stacked, so that two structures *)
(* that differ in capitals only are the same.                              *)
LowerNames == (Units \X {"lower"}) \cup Names

LEMMA StructureLowered ==
    ASSUME NEW tag \in StartTags
    PROVE  Structure(tag) \in Seq(LowerNames)
<1> DEFINE L == Units \X {"lower"}
<1>1. ASSUME NEW a \in Attributes PROVE Lowered(a) \in Seq(L)
  <2>1. CASE a = <<>>
    BY <2>1 DEF Lowered
  <2>2. CASE a # <<>>
    <3>1. PICK v \in Values : a = <<v>>
      BY <2>2 DEF Attributes
    <3>2. Lower(v) \in L
      BY DEF Values, Lower
    <3> QED
      BY <2>2, <3>1, <3>2 DEF Lowered
  <2> QED
    BY <2>1, <2>2
<1>2. tag.type \in Attributes /\ tag.unit \in Attributes /\ tag.name \in Names
  BY DEF StartTags
<1>3. Lowered(tag.type) \in Seq(L) /\ Lowered(tag.unit) \in Seq(L)
  BY <1>1, <1>2
<1>4. Lowered(tag.type) \o Lowered(tag.unit) \in Seq(L)
  BY <1>3, ConcatProperties
<1>5. Typeunit(tag) \in Seq(L)
  BY <1>3, <1>4 DEF Typeunit
<1>6. <<tag.name>> \in Seq(LowerNames)
  <2>1. tag.name \in LowerNames
    BY <1>2 DEF LowerNames
  <2> QED
    BY <2>1
<1>7. Typeunit(tag) \in Seq(LowerNames)
  <2>1. L \subseteq LowerNames
    BY DEF LowerNames
  <2> HIDE DEF L
  <2> QED
    BY <1>5, <2>1, SeqMonotonic
<1> QED
  BY <1>6, <1>7 DEF Structure

LEMMA SameIsEqual ==
    ASSUME NEW s \in Seq(LowerNames), NEW t \in Seq(LowerNames),
           SameStructure(s, t)
    PROVE  s = t
<1>1. Len(s) = Len(t) /\ DOMAIN s = 1..Len(s)
  BY DEF SameStructure
<1>2. ASSUME NEW i \in 1..Len(s) PROVE s[i] = t[i]
  <2>1. SUFFICES ASSUME s[i] \in Values, t[i] \in Values,
                        Lower(s[i]) = Lower(t[i])
                 PROVE  s[i] = t[i]
    BY <1>1 DEF SameStructure
  <2>2. s[i] \in LowerNames /\ t[i] \in LowerNames
    BY <1>1
  <2>3. \A v \in Values : v \in LowerNames => Lower(v) = v
    BY TagsOK DEF Values, LowerNames, Lower
  <2> QED
    BY <2>1, <2>2, <2>3
<1> QED
  BY <1>1, <1>2, SeqEqual

(* The milestones on top of the stack, down to index j.                    *)
OnTop(j) == \A k \in 1..j : Milestone(k)

SiblingInv ==
    /\ types \in Seq(Seq(LowerNames))
    /\ \A i, j \in DOMAIN types :
          i < j /\ (\A k \in i..j : Milestone(k)) => types[i] # types[j]
    /\ pc = "open" =>
          \A j \in DOMAIN types : OnTop(j) => types[j] # Structure(line)

LEMMA SiblingInvInit == Init => SiblingInv
BY DEF Init, SiblingInv

(* A pop leaves what was true below.                                       *)
LEMMA SiblingPop ==
    ASSUME StackInv, SiblingInv, types # <<>>, Pop
    PROVE  /\ types' \in Seq(Seq(LowerNames))
           /\ \A i \in DOMAIN types' :
                 /\ i + 1 \in DOMAIN types /\ types'[i] = types[i + 1]
                 /\ Milestone(i)' <=> Milestone(i + 1)
           /\ \A i, j \in DOMAIN types' :
                 i < j /\ (\A k \in i..j : Milestone(k)') =>
                     types'[i] # types'[j]
<1>1. /\ types \in Seq(Seq(LowerNames)) /\ Len(types) = Len(origTagNames)
      /\ types' = Tail(types) /\ origTagNames' = Tail(origTagNames)
      /\ origTagNames \in Seq(Names \cup {SELF_CLOSING})
  BY DEF SiblingInv, StackInv, StacksAgree, TypeOK, Pop
<1>2. origTagNames # <<>>
  BY <1>1
<1>3. /\ types' \in Seq(Seq(LowerNames)) /\ Len(types') = Len(types) - 1
      /\ \A i \in 1..Len(types') :
            types'[i] = types[i + 1] /\ i + 1 \in 1..Len(types)
  BY <1>1, PopProperties
<1>4. /\ Len(origTagNames') = Len(origTagNames) - 1
      /\ \A i \in 1..Len(origTagNames') : origTagNames'[i] = origTagNames[i + 1]
  BY <1>1, <1>2, PopProperties
<1>5. /\ DOMAIN types' = 1..Len(types') /\ DOMAIN types = 1..Len(types)
      /\ Len(types') = Len(origTagNames') /\ Len(types') \in Nat
  BY <1>1, <1>3, <1>4
<1>6. \A i \in DOMAIN types' :
         /\ i + 1 \in DOMAIN types /\ types'[i] = types[i + 1]
         /\ Milestone(i)' <=> Milestone(i + 1)
  BY <1>3, <1>4, <1>5 DEF Milestone
<1>7. ASSUME NEW i \in DOMAIN types', NEW j \in DOMAIN types', i < j,
             \A k \in i..j : Milestone(k)'
      PROVE  types'[i] # types'[j]
  <2>1. i \in Nat /\ j \in Nat /\ i + 1 < j + 1
    BY <1>5, <1>7
  <2>2. ASSUME NEW k \in (i + 1)..(j + 1) PROVE Milestone(k)
    <3>1. k - 1 \in i..j /\ k - 1 \in DOMAIN types' /\ (k - 1) + 1 = k
      BY <1>5, <2>1
    <3>2. Milestone(k - 1)' <=> Milestone((k - 1) + 1)
      BY <1>6, <3>1
    <3> QED
      BY <1>7, <3>1, <3>2
  <2>3. i + 1 \in DOMAIN types /\ j + 1 \in DOMAIN types
    BY <1>6
  <2>4. types[i + 1] # types[j + 1]
    BY <2>1, <2>2, <2>3 DEF SiblingInv
  <2> QED
    BY <1>6, <2>4
<1> QED
  BY <1>3, <1>6, <1>7

LEMMA SiblingOpen ==
    ASSUME StackInv, SiblingInv, Open
    PROVE  SiblingInv'
<1> DEFINE s == Structure(line)
           name == OrigName(line)
<1>1. /\ line \in StartTags /\ pc = "open" /\ pc' = "read"
      /\ types' = <<s>> \o types /\ origTagNames' = <<name>> \o origTagNames
  BY DEF Open, StackInv, LineOK
<1>2. s \in Seq(LowerNames)
  BY <1>1, StructureLowered
<1>3. name \in Names \cup {SELF_CLOSING}
  BY <1>1 DEF OrigName, StartTags
<1>4. /\ types \in Seq(Seq(LowerNames)) /\ Len(types) = Len(origTagNames)
      /\ origTagNames \in Seq(Names \cup {SELF_CLOSING})
      /\ \A j \in DOMAIN types : OnTop(j) => types[j] # s
      /\ Len(types) \in Nat /\ DOMAIN types = 1..Len(types)
  BY <1>1 DEF SiblingInv, StackInv, StacksAgree, TypeOK
<1> HIDE DEF s, name
<1>5. /\ types' \in Seq(Seq(LowerNames)) /\ Len(types') = Len(types) + 1
      /\ types'[1] = s /\ \A i \in 1..Len(types) : types'[i + 1] = types[i]
  BY <1>1, <1>2, <1>4, PushProperties
<1>6. \A i \in 1..Len(types) : origTagNames'[i + 1] = origTagNames[i]
  BY <1>1, <1>3, <1>4, PushProperties
<1>7. \A i \in 1..Len(types) : Milestone(i + 1)' <=> Milestone(i)
  BY <1>6 DEF Milestone
<1>8. ASSUME NEW i \in DOMAIN types', NEW j \in DOMAIN types', i < j,
             \A k \in i..j : Milestone(k)'
      PROVE  types'[i] # types'[j]
  <2>1. i \in 1..(Len(types) + 1) /\ j \in 1..(Len(types) + 1)
    BY <1>5
  <2> DEFINE b == j - 1
  <2>2. b \in 1..Len(types) /\ b + 1 = j
    BY <1>4, <1>8, <2>1
  <2>3. types'[j] = types[b]
    BY <1>5, <2>2
  <2>4. CASE i = 1
    <3>1. ASSUME NEW k \in 1..b PROVE Milestone(k)
      <4>1. k + 1 \in i..j /\ k \in 1..Len(types)
        BY <1>4, <2>2, <2>4
      <4> QED
        BY <1>7, <1>8, <4>1
    <3>2. types[b] # s
      BY <1>4, <2>2, <3>1 DEF OnTop
    <3> QED
      BY <1>5, <2>3, <2>4, <3>2
  <2>5. CASE i # 1
    <3> DEFINE a == i - 1
    <3>1. a \in 1..Len(types) /\ a + 1 = i /\ a < b
      BY <1>4, <1>8, <2>1, <2>5
    <3>2. ASSUME NEW k \in a..b PROVE Milestone(k)
      <4>1. k + 1 \in i..j /\ k \in 1..Len(types)
        BY <1>4, <2>2, <3>1
      <4> QED
        BY <1>7, <1>8, <4>1
    <3>3. types[a] # types[b]
      BY <1>4, <2>2, <3>1, <3>2 DEF SiblingInv
    <3>4. types'[i] = types[a]
      BY <1>5, <3>1
    <3> QED
      BY <2>3, <3>3, <3>4
  <2> QED
    BY <2>4, <2>5
<1> QED
  BY <1>1, <1>5, <1>8 DEF SiblingInv

LEMMA SiblingMakeRoom ==
    ASSUME StackInv, SiblingInv, MakeRoom
    PROVE  SiblingInv'
<1>1. /\ types # <<>> /\ Pop /\ Head(origTagNames) = SELF_CLOSING
      /\ line' = line /\ pc' \in {"room", "open"}
      /\ pc' = "open" => Head(types) = Structure(line)
  BY DEF MakeRoom, Removable
<1>2. /\ types' \in Seq(Seq(LowerNames))
      /\ \A i \in DOMAIN types' :
            /\ i + 1 \in DOMAIN types /\ types'[i] = types[i + 1]
            /\ Milestone(i)' <=> Milestone(i + 1)
      /\ \A i, j \in DOMAIN types' :
            i < j /\ (\A k \in i..j : Milestone(k)') =>
                types'[i] # types'[j]
  BY <1>1, SiblingPop
<1>3. ASSUME pc' = "open", NEW j \in DOMAIN types', OnTop(j)'
      PROVE  types'[j] # Structure(line)
  <2>1. /\ types \in Seq(Seq(LowerNames)) /\ types[1] = Structure(line)
        /\ DOMAIN types' = 1..Len(types') /\ Len(types') \in Nat
        /\ 1 \in DOMAIN types
    BY <1>1, <1>2, <1>3 DEF SiblingInv
  <2>2. Milestone(1)
    <3>1. origTagNames \in Seq(Names \cup {SELF_CLOSING}) /\ origTagNames # <<>>
      BY <1>1, StackTypes DEF StackInv, TypeOK
    <3> QED
      BY <1>1, <3>1 DEF Milestone
  <2>3. ASSUME NEW k \in 1..(j + 1) PROVE Milestone(k)
    <3>1. CASE k = 1
      BY <2>2, <3>1
    <3>2. CASE k # 1
      <4>1. k - 1 \in 1..j /\ k - 1 \in DOMAIN types' /\ (k - 1) + 1 = k
        BY <2>1, <3>2
      <4>2. Milestone(k - 1)'
        BY <1>3, <4>1 DEF OnTop
      <4>3. Milestone(k - 1)' <=> Milestone((k - 1) + 1)
        BY <1>2, <4>1
      <4> QED
        BY <4>1, <4>2, <4>3
    <3> QED
      BY <3>1, <3>2
  <2>4. 1 < j + 1 /\ j + 1 \in DOMAIN types /\ types'[j] = types[j + 1]
    BY <1>2, <2>1
  <2>5. types[1] # types[j + 1]
    BY <2>1, <2>3, <2>4 DEF SiblingInv
  <2> QED
    BY <2>1, <2>4, <2>5
<1> QED
  BY <1>1, <1>2, <1>3 DEF SiblingInv

LEMMA SiblingInvNext == StackInv /\ SiblingInv /\ [Next]_vars => SiblingInv'
<1> SUFFICES ASSUME StackInv, SiblingInv, [Next]_vars PROVE SiblingInv'
  OBVIOUS
<1>1. ASSUME NEW tag \in Tags, ReadStart(tag) PROVE SiblingInv'
  <2>1. /\ UNCHANGED <<types, origTagNames>> /\ line' = tag
        /\ pc' = "open" => \A i \in DOMAIN types : types[i] # Structure(tag)
    BY <1>1 DEF ReadStart
  <2> QED
    BY <2>1 DEF SiblingInv, OnTop, Milestone
<1>2. CASE ReadEnd \/ \E name \in Unbegun : ReadUnbegunEnd(name)
  BY <1>2 DEF ReadEnd, ReadUnbegunEnd, SiblingInv, OnTop, Milestone
<1>3. CASE Close
  <2>1. types # <<>> /\ Pop /\ pc' # "open"
    BY <1>3 DEF Close
  <2> QED
    BY <2>1, SiblingPop DEF SiblingInv
<1>4. CASE CloseNone
  BY <1>4 DEF CloseNone, SiblingInv, OnTop, Milestone
<1>5. CASE MakeRoom
  BY <1>5, SiblingMakeRoom
<1>6. CASE RoomMade
  <2>1. UNCHANGED <<types, origTagNames, line>> /\ ~Removable
    BY <1>6 DEF RoomMade
  <2>2. \A j \in DOMAIN types : ~OnTop(j)
    <3> TAKE j \in DOMAIN types
    <3>1. /\ types \in Seq(Structures) /\ types # <<>> /\ j \in 1..Len(types)
          /\ origTagNames \in Seq(Names \cup {SELF_CLOSING})
          /\ origTagNames # <<>>
      BY StackTypes DEF StackInv, TypeOK
    <3>2. ~Milestone(1) /\ 1 \in 1..j
      BY <2>1, <3>1 DEF Removable, Milestone
    <3> QED
      BY <3>2 DEF OnTop
  <2> QED
    BY <2>1, <2>2 DEF SiblingInv, OnTop, Milestone
<1>7. CASE Open
  BY <1>7, SiblingOpen
<1>8. CASE UNCHANGED vars
  BY <1>8 DEF vars, SiblingInv, OnTop, Milestone
<1> QED
  BY <1>1, <1>2, <1>3, <1>4, <1>5, <1>6, <1>7, <1>8 DEF Next, Read, Handle

(* Of the milestones that stand side by side in an element no two are of   *)
(* the same unit, with or without capitals: each replaces the one before.  *)
THEOREM MilestonesReplaceEachOther == Spec => []SiblingsReplaced
<1>1. SiblingInv => SiblingsReplaced
  <2> SUFFICES ASSUME SiblingInv, NEW i \in DOMAIN types,
                      NEW j \in DOMAIN types, i < j,
                      \A k \in i..j : Milestone(k)
               PROVE  ~SameStructure(types[i], types[j])
    BY DEF SiblingsReplaced
  <2>1. types[i] # types[j]
    BY DEF SiblingInv
  <2>2. types[i] \in Seq(LowerNames) /\ types[j] \in Seq(LowerNames)
    BY DEF SiblingInv
  <2> QED
    BY <2>1, <2>2, SameIsEqual
<1> QED
  BY <1>1, StackInvInit, StackInvNext, SiblingInvInit, SiblingInvNext, PTL
  DEF Spec

(* The two loops that close structures come to an end: an iteration takes  *)
(* a structure off both stacks or is the last one.                         *)
LoopShrinks ==
    pc \in {"close", "room"} =>
        \/ /\ Len(types') < Len(types)
           /\ Len(origTagNames') < Len(origTagNames)
        \/ pc' # pc

LoopsEnd == [][LoopShrinks]_vars

THEOREM LoopsComeToAnEnd == Spec => LoopsEnd
<1>1. ASSUME StackInv, Next, pc \in {"close", "room"}
      PROVE  \/ /\ Len(types') < Len(types)
                /\ Len(origTagNames') < Len(origTagNames)
             \/ pc' # pc
  <2>1. CASE Close \/ MakeRoom
    <3>1. types # <<>> /\ Pop
      BY <2>1 DEF Close, MakeRoom, Removable
    <3>2. /\ types \in Seq(Structures)
          /\ origTagNames \in Seq(Names \cup {SELF_CLOSING})
          /\ origTagNames # <<>>
      BY <1>1, <3>1, StackTypes DEF StackInv, TypeOK
    <3>3. Len(Tail(types)) < Len(types)
      <4>1. Len(Tail(types)) = Len(types) - 1 /\ Len(types) \in Nat
        BY <3>1, <3>2, PopProperties
      <4> QED
        BY <4>1
    <3>4. Len(Tail(origTagNames)) < Len(origTagNames)
      <4>1. /\ Len(Tail(origTagNames)) = Len(origTagNames) - 1
            /\ Len(origTagNames) \in Nat
        BY <3>2, PopProperties
      <4> QED
        BY <4>1
    <3> QED
      BY <3>1, <3>3, <3>4 DEF Pop
  <2>2. CASE CloseNone \/ RoomMade
    BY <2>2 DEF CloseNone, RoomMade
  <2> QED
    BY <1>1, <2>1, <2>2
    DEF Next, Read, Handle, ReadStart, ReadEnd, ReadUnbegunEnd, Open
<1>2. StackInv /\ [Next]_vars => [LoopShrinks]_vars
  BY <1>1 DEF LoopShrinks
<1> QED
  BY <1>2, StackInvInit, StackInvNext, PTL DEF Spec, LoopsEnd
=============================================================================
