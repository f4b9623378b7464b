---------------------------- MODULE EndTablesProofs ----------------------------
(***************************************************************************)
(* Theorems about module EndTables and their proofs.                       *)
(***************************************************************************)
EXTENDS EndTables, TLAPS, SequenceTheorems, FiniteSetTheorems

LEMMA MinSingle ==
    ASSUME NEW n \in Nat
    PROVE  Min({n}) = n
BY DEF Min

-----------------------------------------------------------------------------
(* The cache of tables.  It is empty until all the tables are written, and *)
(* a table that is written stays as it is.                                 *)
HoldsTables == \A slot \in DOMAIN EndingCache : \E type \in DOMAIN out : EndingCache[slot] = Table(type)
OneSlot == \A type \in DOMAIN out : \A s, t \in Hits(type) : s = t
Slots == curecache \in Nat /\ DOMAIN EndingCache \subseteq Nat
OwnTable ==
    answer # NoAnswer =>
      LET type == answer.wanted.want.stemtype
          Of(list) == RetrCompEnds(answer.wanted, list)
      IN  answer.ends \in IF type \in DOMAIN out THEN {Of(Table(type)), Of(UpToEmpty(Table(type)))} ELSE {<<>>}
Unasked == ~Compiled => DOMAIN EndingCache = {} /\ answer = NoAnswer

CacheInv == HoldsTables /\ OneSlot /\ Slots /\ OwnTable /\ Unasked

LEMMA CacheInvAgrees == CacheInv => CacheAgrees
BY DEF CacheInv, HoldsTables, OneSlot, OwnTable, CacheAgrees

(* The first ending of a table says which table it is.                     *)
LEMMA TableType ==
    ASSUME NEW type, 1 \in DOMAIN Table(type)
    PROVE  Table(type)[1].stemtype = type
<1>1. Table(type)[1] = With(out[type][1], "stemtype", type)
  BY DEF Table
<1>2. With(out[type][1], "stemtype", type)["stemtype"] = type
  BY DEF With
<1> QED
  BY <1>1, <1>2

(* What is found for a type is the table of the type.                      *)
LEMMA HitHasTable ==
    ASSUME HoldsTables, NEW type, NEW slot \in Hits(type)
    PROVE  type \in DOMAIN out /\ EndingCache[slot] = Table(type)
<1>1. slot \in DOMAIN EndingCache /\ Cached(slot, type)
  BY DEF Hits
<1>2. PICK other \in DOMAIN out : EndingCache[slot] = Table(other)
  BY <1>1 DEF HoldsTables
<1>3. 1 \in DOMAIN Table(other) /\ Table(other)[1].stemtype = type
  BY <1>1, <1>2 DEF Cached
<1>4. Table(other)[1].stemtype = other
  BY <1>3, TableType
<1> QED
  BY <1>2, <1>3, <1>4

LEMMA CacheInvInit == Init => CacheInv
<1> SUFFICES ASSUME Init PROVE CacheInv
  OBVIOUS
<1>1. DOMAIN EndingCache = {} /\ answer = NoAnswer /\ curecache = 0 /\ DOMAIN out = {}
  BY DEF Init
<1> QED
  BY <1>1 DEF CacheInv, HoldsTables, OneSlot, Slots, OwnTable, Unasked

(* Nothing is in the cache while tables are written.                       *)
LEMMA CacheInvWriting ==
    ASSUME CacheInv, ~Compiled, UNCHANGED retrieving
    PROVE  CacheInv'
<1>1. DOMAIN EndingCache = {} /\ answer = NoAnswer
  BY DEF CacheInv, Unasked
<1>2. DOMAIN EndingCache' = {} /\ answer' = NoAnswer /\ curecache' = curecache
  BY <1>1 DEF retrieving
<1>3. curecache \in Nat
  BY DEF CacheInv, Slots
<1>4. HoldsTables'
  BY <1>2 DEF HoldsTables
<1>5. OneSlot'
  BY <1>2 DEF OneSlot, Hits
<1>6. OwnTable' /\ Slots' /\ Unasked'
  BY <1>2, <1>3 DEF OwnTable, Slots, Unasked, NoAnswer
<1> QED
  BY <1>4, <1>5, <1>6 DEF CacheInv

(* The rest of a step that leaves the tables on disk alone.                *)
LEMMA CacheInvSame ==
    ASSUME CacheInv, out' = out, source' = source, UNCHANGED retrieving
    PROVE  CacheInv'
<1>1. EndingCache' = EndingCache /\ curecache' = curecache /\ answer' = answer
  BY DEF retrieving
<1>2. HoldsTables' /\ OneSlot' /\ Slots'
  BY <1>1 DEF CacheInv, HoldsTables, OneSlot, Hits, Cached, Table, Slots
<1>3. \A t : Table(t)' = Table(t)
  BY DEF Table
<1>4. OwnTable'
  BY <1>1, <1>3 DEF CacheInv, OwnTable, NoAnswer
<1>5. Unasked'
  BY <1>1 DEF CacheInv, Unasked, Compiled, NoAnswer
<1> QED
  BY <1>2, <1>4, <1>5 DEF CacheInv

LEMMA CacheInvCompile == CacheInv /\ Compile => CacheInv'
<1> SUFFICES ASSUME CacheInv, Compile PROVE CacheInv'
  OBVIOUS
<1>1. CASE NextLine
  <2>1. ~Compiled /\ UNCHANGED retrieving
    BY <1>1 DEF NextLine, retrieving
  <2> QED
    BY <2>1, CacheInvWriting
<1>2. CASE Expand
  <2>1. out' = out /\ source' = source /\ UNCHANGED retrieving
    BY <1>2 DEF Expand, retrieving
  <2> QED
    BY <2>1, CacheInvSame
<1>3. CASE Store
  <2>1. out' = out /\ source' = source /\ UNCHANGED retrieving
    BY <1>3 DEF Store, retrieving
  <2> QED
    BY <2>1, CacheInvSame
<1>4. CASE PrntNewGstrings
  <2>1. ~Compiled /\ UNCHANGED retrieving
    BY <1>4 DEF PrntNewGstrings, retrieving
  <2> QED
    BY <2>1, CacheInvWriting
<1> QED
  BY <1>1, <1>2, <1>3, <1>4 DEF Compile

LEMMA CacheInvFromCache ==
    ASSUME CacheInv, NEW wanted, FromCache(wanted)
    PROVE  CacheInv'
<1> DEFINE type == wanted.want.stemtype
           slot == Min(Hits(type))
<1>1. Compiled /\ Hits(type) # {} /\ UNCHANGED compiling
      /\ EndingCache' = EndingCache /\ curecache' = curecache
  BY DEF FromCache
<1>2. out' = out /\ source' = source
  BY <1>1 DEF compiling
<1>3. answer' = [wanted |-> wanted, ends |-> RetrCompEnds(wanted, UpToEmpty(EndingCache[slot]))]
  BY DEF FromCache
<1>4. PICK hit : hit \in Hits(type)
  BY <1>1
<1> HIDE DEF type
<1>5. type \in DOMAIN out /\ EndingCache[hit] = Table(type)
  BY <1>4, HitHasTable DEF CacheInv
<1>6. Hits(type) = {hit}
  BY <1>4, <1>5 DEF CacheInv, OneSlot
<1>7. hit \in Nat
  BY <1>4 DEF Hits, CacheInv, Slots
<1>8. slot = hit
  BY <1>6, <1>7, MinSingle
<1>9. answer'.wanted = wanted /\ answer'.ends = RetrCompEnds(wanted, UpToEmpty(Table(type)))
  BY <1>3, <1>5, <1>8
<1>10. OwnTable'
  BY <1>2, <1>5, <1>9 DEF OwnTable, Table, UpToEmpty, type
<1>11. HoldsTables' /\ OneSlot' /\ Slots'
  BY <1>1, <1>2 DEF CacheInv, HoldsTables, OneSlot, Hits, Cached, Table, Slots
<1>12. Unasked'
  BY <1>1, <1>2 DEF Unasked, Compiled
<1> QED
  BY <1>10, <1>11, <1>12 DEF CacheInv

(* A table is read into one slot when it is in none.                       *)
LEMMA CacheInvReadTable ==
    ASSUME CacheInv, NEW wanted, ReadTable(wanted)
    PROVE  CacheInv'
<1> DEFINE type == wanted.want.stemtype
<1>1. Compiled /\ Hits(type) = {} /\ type \in DOMAIN out /\ UNCHANGED compiling
      /\ EndingCache' = With(EndingCache, curecache, Table(type))
      /\ curecache' = (curecache + 1) % ENDCACHESIZE
  BY DEF ReadTable
<1>2. out' = out /\ source' = source
  BY <1>1 DEF compiling
<1>3. answer'.wanted = wanted /\ answer'.ends = RetrCompEnds(wanted, Table(type))
  BY DEF ReadTable
<1>4. \A t : Table(t)' = Table(t)
  BY <1>2 DEF Table
<1>5. OwnTable'
  BY <1>1, <1>2, <1>3, <1>4 DEF OwnTable
<1> HIDE DEF type
<1>6. /\ DOMAIN EndingCache' = DOMAIN EndingCache \cup {curecache}
      /\ EndingCache'[curecache] = Table(type)
      /\ \A s \in DOMAIN EndingCache : s # curecache => EndingCache'[s] = EndingCache[s]
  BY <1>1 DEF With
<1>7. HoldsTables'
  <2>1. ASSUME NEW s \in DOMAIN EndingCache' PROVE \E t \in DOMAIN out : EndingCache'[s] = Table(t)
    <3>1. CASE s = curecache
      BY <1>1, <1>6, <3>1
    <3>2. CASE s # curecache
      BY <1>6, <3>2 DEF CacheInv, HoldsTables
    <3> QED
      BY <3>1, <3>2
  <2> QED
    BY <1>2, <1>4, <2>1 DEF HoldsTables
<1>8. ASSUME NEW t, NEW s \in Hits(t)' PROVE IF s = curecache THEN t = type ELSE s \in Hits(t)
  <2>1. s \in DOMAIN EndingCache' /\ 1 \in DOMAIN EndingCache'[s] /\ EndingCache'[s][1].stemtype = t
    BY DEF Hits, Cached
  <2>2. CASE s = curecache
    <3>1. 1 \in DOMAIN Table(type) /\ Table(type)[1].stemtype = t
      BY <1>6, <2>1, <2>2
    <3>2. Table(type)[1].stemtype = type
      BY <3>1, TableType
    <3> QED
      BY <2>2, <3>1, <3>2
  <2>3. CASE s # curecache
    <3>1. s \in DOMAIN EndingCache /\ EndingCache'[s] = EndingCache[s]
      BY <1>6, <2>1, <2>3
    <3>2. 1 \in DOMAIN EndingCache[s] /\ EndingCache[s][1].stemtype = t
      BY <2>1, <3>1
    <3> QED
      BY <2>3, <3>1, <3>2 DEF Hits, Cached
  <2> QED
    BY <2>2, <2>3
<1>9. OneSlot'
  <2> SUFFICES ASSUME NEW t \in DOMAIN out', NEW s \in Hits(t)', NEW u \in Hits(t)' PROVE s = u
    BY DEF OneSlot
  <2>1. CASE t = type
    BY <1>1, <1>8, <2>1
  <2>2. CASE t # type
    <3>1. s \in Hits(t) /\ u \in Hits(t) /\ t \in DOMAIN out
      BY <1>2, <1>8, <2>2
    <3> QED
      BY <3>1 DEF CacheInv, OneSlot
  <2> QED
    BY <2>1, <2>2
<1>10. Slots'
  <2>1. curecache \in Nat /\ DOMAIN EndingCache \subseteq Nat
    BY DEF CacheInv, Slots
  <2>2. (curecache + 1) % ENDCACHESIZE \in Nat
    BY <2>1, TablesAssumption
  <2> QED
    BY <1>1, <1>6, <2>1, <2>2 DEF Slots
<1>11. Unasked'
  BY <1>1, <1>2 DEF Unasked, Compiled
<1> QED
  BY <1>5, <1>7, <1>9, <1>10, <1>11 DEF CacheInv

LEMMA CacheInvNoTable ==
    ASSUME CacheInv, NEW wanted, NoTable(wanted)
    PROVE  CacheInv'
<1>1. /\ Compiled /\ wanted.want.stemtype \notin DOMAIN out
      /\ out' = out /\ source' = source /\ EndingCache' = EndingCache /\ curecache' = curecache
  BY DEF NoTable, compiling
<1>2. answer'.wanted = wanted /\ answer'.ends = <<>>
  BY DEF NoTable
<1>3. OwnTable'
  BY <1>1, <1>2 DEF OwnTable
<1>4. HoldsTables' /\ OneSlot' /\ Slots'
  BY <1>1 DEF CacheInv, HoldsTables, OneSlot, Hits, Cached, Table, Slots
<1>5. Unasked'
  BY <1>1 DEF Unasked, Compiled
<1> QED
  BY <1>3, <1>4, <1>5 DEF CacheInv

LEMMA CacheInvNext == CacheInv /\ [Next]_vars => CacheInv'
<1> SUFFICES ASSUME CacheInv, [Next]_vars PROVE CacheInv'
  OBVIOUS
<1>1. CASE Compile
  BY <1>1, CacheInvCompile
<1>2. CASE chckendings
  <2>1. PICK wanted \in Wanted : FromCache(wanted) \/ ReadTable(wanted) \/ NoTable(wanted)
    BY <1>2 DEF chckendings
  <2> QED
    BY <2>1, CacheInvFromCache, CacheInvReadTable, CacheInvNoTable
<1>3. CASE UNCHANGED vars
  <2>1. out' = out /\ source' = source /\ UNCHANGED retrieving
    BY <1>3 DEF vars, retrieving
  <2> QED
    BY <2>1, CacheInvSame
<1> QED
  BY <1>1, <1>2, <1>3 DEF Next

(* Whatever the tables and whatever was asked for before, a slot of the    *)
(* cache holds the table of one type as it is on disk, no type has two     *)
(* slots, and a stem gets endings from the table of its own type.          *)
THEOREM CacheIsTrue == Spec => []CacheAgrees
BY CacheInvInit, CacheInvNext, CacheInvAgrees, PTL DEF Spec

-----------------------------------------------------------------------------
(* The calls of mk_end are a list of calls, whatever the rules of sound    *)
(* make of a form.                                                         *)
Whats == {"mk_end", "sounds", "store"}
IsList(list) == \E n \in Nat : DOMAIN list = 1..n
AreCalls(list) == \E S : list \in Seq(S) /\ \A c \in S : c.what \in Whats

LEMMA CallsMade ==
    ASSUME NEW n \in Nat, NEW f, f = [i \in 1..n |-> f[i]],
           \A i \in 1..n : f[i].what \in Whats
    PROVE  AreCalls(f)
<1> DEFINE S == {f[i] : i \in 1..n}
<1>1. f \in [1..n -> S]
  OBVIOUS
<1>2. \A c \in S : c.what \in Whats
  OBVIOUS
<1> HIDE DEF S
<1>3. f \in Seq(S)
  BY <1>1, SeqDef
<1> QED
  BY <1>2, <1>3 DEF AreCalls

LEMMA CallsJoined ==
    ASSUME NEW a, NEW b, AreCalls(a), AreCalls(b)
    PROVE  AreCalls(a \o b)
<1>1. PICK S : a \in Seq(S) /\ \A c \in S : c.what \in Whats
  BY DEF AreCalls
<1>2. PICK T : b \in Seq(T) /\ \A c \in T : c.what \in Whats
  BY DEF AreCalls
<1> DEFINE U == S \cup T
<1>3. \A c \in U : c.what \in Whats
  BY <1>1, <1>2
<1>4. S \subseteq U /\ T \subseteq U
  OBVIOUS
<1> HIDE DEF U
<1>5. a \in Seq(U) /\ b \in Seq(U)
  BY <1>1, <1>2, <1>4
<1>6. a \o b \in Seq(U)
  BY <1>5
<1> QED
  BY <1>3, <1>6 DEF AreCalls

LEMMA OneCall ==
    ASSUME NEW c, c.what \in Whats
    PROVE  AreCalls(<<c>>)
<1> DEFINE S == {c}
<1>1. <<c>> \in Seq(S) /\ \A d \in S : d.what \in Whats
  OBVIOUS
<1> HIDE DEF S
<1> QED
  BY <1>1 DEF AreCalls

LEMMA NoCalls == AreCalls(<<>>)
<1> DEFINE S == {}
<1>1. <<>> \in Seq(S) /\ \A d \in S : d.what \in Whats
  OBVIOUS
<1> HIDE DEF S
<1> QED
  BY <1>1 DEF AreCalls

LEMMA CallsRest ==
    ASSUME NEW list, AreCalls(list), list # <<>>
    PROVE  AreCalls(Tail(list))
<1>1. PICK S : list \in Seq(S) /\ \A c \in S : c.what \in Whats
  BY DEF AreCalls
<1>2. Tail(list) \in Seq(S)
  BY <1>1, HeadTailProperties
<1> QED
  BY <1>1, <1>2 DEF AreCalls

LEMMA FormsAreCalls ==
    ASSUME NEW forms, IsList(forms)
    PROVE  AreCalls(mk_ends(forms))
<1>1. PICK n \in Nat : DOMAIN forms = 1..n
  BY DEF IsList
<1> DEFINE f == mk_ends(forms)
<1>2. f = [i \in 1..n |-> f[i]] /\ \A i \in 1..n : f[i] = Call("mk_end", forms[i], BlankGstr)
  BY <1>1 DEF mk_ends
<1>3. \A i \in 1..n : f[i].what \in Whats
  BY <1>2 DEF Call, Whats
<1>4. AreCalls(f)
  <2> HIDE DEF f
  <2> QED
    BY <1>2, <1>3, CallsMade
<1> QED
  BY <1>4

LEMMA InOrderList ==
    ASSUME NEW places, IsFiniteSet(places)
    PROVE  IsList(InOrder(places))
<1>1. Cardinality(places) \in Nat
  BY FS_CardinalityType
<1> QED
  BY <1>1 DEF IsList, InOrder

LEMMA PlacesFinite ==
    ASSUME NEW list, IsList(list), NEW places \in SUBSET DOMAIN list
    PROVE  IsFiniteSet(places)
<1>1. PICK n \in Nat : DOMAIN list = 1..n
  BY DEF IsList
<1>2. IsFiniteSet(1..n)
  BY <1>1, FS_Interval
<1> QED
  BY <1>1, <1>2, FS_Subset

LEMMA SequenceIsList ==
    ASSUME NEW S, NEW list \in Seq(S)
    PROVE  IsList(list)
BY DEF IsList

LEMMA MinTwo ==
    ASSUME NEW m \in Nat, NEW n \in Nat
    PROVE  Min({m, n}) \in Nat
<1>1. CASE m <= n
  BY <1>1 DEF Min
<1>2. CASE ~(m <= n)
  BY <1>2 DEF Min
<1> QED
  BY <1>1, <1>2

LEMMA FirstFormsList ==
    ASSUME NEW subs, NEW possno \in Nat, NEW table, IsList(table)
    PROVE  IsList(FirstForms(subs, possno, table))
<1>1. IsList(<<>>)
  <2>1. <<>> \in Seq({})
    OBVIOUS
  <2> QED
    BY <2>1, SequenceIsList
<1>2. ASSUME NEW at PROVE IsList(FormsAt(at, possno, table))
  <2> DEFINE ok == {i \in DOMAIN table : at[i].ok}
             same == {i \in ok : SameRaw(table, Min(ok), i)}
  <2>1. same \in SUBSET DOMAIN table
    OBVIOUS
  <2> HIDE DEF ok, same
  <2>2. Cardinality(same) \in Nat
    BY <2>1, PlacesFinite, FS_CardinalityType
  <2>3. Min({Cardinality(same), possno}) \in Nat
    BY <2>2, MinTwo
  <2>4. DOMAIN FormsAt(at, possno, table) = 1..Min({Cardinality(same), possno})
    BY DEF FormsAt, ok, same
  <2> QED
    BY <2>3, <2>4 DEF IsList
<1> QED
  BY <1>1, <1>2 DEF FirstForms

LEMMA SoundsLists ==
    ASSUME NEW g, NEW skipdial
    PROVE  IsList(do_euph(g, skipdial)) /\ IsList(poss_contracts(g, skipdial))
<1>1. IsList(Vow_contr) /\ IsList(Cons_euph)
  BY SoundsAssumption, SequenceIsList
<1>2. IsList(Contractions) /\ IsList(Euphony)
  BY <1>1 DEF IsList, Contractions, Euphony, load_euph_tab
<1>3. MAXCONTRACTS \in Nat /\ MAXEUPHS \in Nat
  BY DEF MAXCONTRACTS, MAXEUPHS
<1> QED
  BY <1>2, <1>3, FirstFormsList DEF do_euph, poss_contracts, sub_for_euph

LEMMA SoundsCalls ==
    ASSUME NEW call
    PROVE  AreCalls(sounds(call))
<1> DEFINE store == Call("store", call.have, call.avoid)
<1>1. IsList(<<>>) /\ \A g : IsList(<<g>>)
  BY DEF IsList
<1>2. AreCalls(<<store>>)
  <2>1. store.what \in Whats
    BY DEF Call, Whats
  <2> HIDE DEF store
  <2> QED
    BY <2>1, OneCall
<1>3. ASSUME NEW euph, NEW contr, NEW movable, IsList(euph), IsList(contr), IsList(movable)
      PROVE  AreCalls(Sounded(call, euph, contr, movable))
  <2>1. AreCalls(mk_ends(euph)) /\ AreCalls(mk_ends(contr)) /\ AreCalls(mk_ends(movable))
    BY <1>3, FormsAreCalls
  <2>2. AreCalls(mk_ends(movable) \o <<store>>)
    BY <1>2, <2>1, CallsJoined
  <2> QED
    BY <2>1, <2>2 DEF Sounded
<1> QED
  BY <1>1, <1>3, SoundsLists DEF sounds

LEMMA CompendCalls ==
    ASSUME NEW call
    PROVE  AreCalls(mk_compend(call))
<1>1. ASSUME NEW merged, NEW rows, IsList(rows) PROVE AreCalls(RowCalls(merged, rows))
  <2>1. PICK n \in Nat : DOMAIN rows = 1..n
    BY <1>1 DEF IsList
  <2> DEFINE f == RowCalls(merged, rows)
  <2>2. /\ f = [i \in 1..n |-> f[i]]
        /\ \A i \in 1..n : f[i] = Call("mk_end", merged[rows[i]].have, merged[rows[i]].avoid)
    BY <2>1 DEF RowCalls
  <2>3. \A i \in 1..n : f[i].what \in Whats
    BY <2>2 DEF Call, Whats
  <2>4. AreCalls(f)
    <3> HIDE DEF f
    <3> QED
      BY <2>2, <2>3, CallsMade
  <2> QED
    BY <2>4
<1>2. ASSUME NEW type PROVE IsList(IF type \in DOMAIN Basics THEN Basics[type] ELSE <<>>)
  <2>1. <<>> \in Seq({})
    OBVIOUS
  <2> QED
    BY <2>1, SoundsAssumption, SequenceIsList
<1>3. ASSUME NEW merged, NEW list, IsList(list)
      PROVE  AreCalls(RowCalls(merged, InOrder({i \in DOMAIN list : merged[i].ok})))
  <2>1. {i \in DOMAIN list : merged[i].ok} \in SUBSET DOMAIN list
    OBVIOUS
  <2> QED
    BY <1>1, <1>3, <2>1, PlacesFinite, InOrderList
<1> QED
  BY <1>2, <1>3 DEF mk_compend

LEMMA MkEndCalls ==
    ASSUME NEW call
    PROVE  AreCalls(mk_end(call))
<1>1. ASSUME NEW g PROVE IsList(fix_eta(g).variants)
  <2>1. IsList(<<>>) /\ \A v : IsList(<<v>>)
    BY DEF IsList
  <2> QED
    BY <2>1 DEF fix_eta
<1>2. ASSUME NEW eta, NEW avoid, IsList(eta.variants) PROVE AreCalls(EtaCalls(eta, avoid))
  <2>1. AreCalls(<<Call("sounds", eta.have, avoid)>>)
    <3>1. Call("sounds", eta.have, avoid).what \in Whats
      BY DEF Call, Whats
    <3> QED
      BY <3>1, OneCall
  <2>2. AreCalls(mk_ends(eta.variants))
    BY <1>2, FormsAreCalls
  <2> QED
    BY <2>1, <2>2, CallsJoined DEF EtaCalls
<1> QED
  BY <1>1, <1>2 DEF mk_end

LEMMA CallsAreCalls ==
    ASSUME NEW call
    PROVE  AreCalls(Calls(call))
BY SoundsCalls, CompendCalls, MkEndCalls, NoCalls, Zenon DEF Calls

-----------------------------------------------------------------------------
(* Where the compiler is, and what it has made so far.                     *)
Reading == source \in 1..(Len(Sources) + 1) /\ line \in 1..(IF Compiled THEN 1 ELSE Len(Sources[source].lines) + 1)
Made == \E S : StoreGstr \in Seq(S)
Room == Len(StoreGstr) <= MAXENDINGS
OnDisk == DOMAIN out \subseteq Types
InCache == curecache \in 0..(ENDCACHESIZE - 1) /\ DOMAIN EndingCache \subseteq 0..(ENDCACHESIZE - 1)

TypeInv == Reading /\ AreCalls(work) /\ Made /\ Room /\ OnDisk /\ InCache

LEMMA TypeInvOK == TypeInv => TypeOK
<1> SUFFICES ASSUME TypeInv PROVE TypeOK
  OBVIOUS
<1>1. PICK S : work \in Seq(S) /\ \A c \in S : c.what \in Whats
  BY DEF TypeInv, AreCalls
<1>2. \A i \in DOMAIN work : work[i].what \in Whats
  BY <1>1
<1> QED
  BY <1>2 DEF TypeInv, TypeOK, Reading, Room, OnDisk, InCache, Whats

LEMMA SourcesType ==
    /\ Len(Sources) \in Nat /\ DOMAIN Sources = 1..Len(Sources)
    /\ \A s \in DOMAIN Sources : Len(Sources[s].lines) \in Nat
BY TablesAssumption

LEMMA TypeInvInit == Init => TypeInv
<1> SUFFICES ASSUME Init PROVE TypeInv
  OBVIOUS
<1>1. Reading
  <2>1. source = 1 /\ line = 1
    BY DEF Init
  <2>2. CASE Compiled
    BY <2>1, <2>2, SourcesType DEF Reading, Compiled
  <2>3. CASE ~Compiled
    <3>1. 1 \in DOMAIN Sources
      BY <2>1, <2>3, SourcesType DEF Compiled
    <3>2. Len(Sources[1].lines) \in Nat
      BY <3>1, SourcesType
    <3> QED
      BY <2>1, <2>3, <3>2, SourcesType DEF Reading
  <2> QED
    BY <2>2, <2>3
<1>2. AreCalls(work)
  BY NoCalls DEF Init
<1>3. Made /\ Room
  <2>1. StoreGstr = <<>> /\ <<>> \in Seq({}) /\ Len(<<>>) = 0
    BY DEF Init
  <2>2. 0 <= MAXENDINGS
    BY TablesAssumption
  <2> QED
    BY <2>1, <2>2 DEF Made, Room
<1>4. OnDisk
  <2>1. DOMAIN out = {}
    BY DEF Init
  <2> QED
    BY <2>1 DEF OnDisk
<1>5. InCache
  <2>1. curecache = 0 /\ DOMAIN EndingCache = {}
    BY DEF Init
  <2>2. 0 \in 0..(ENDCACHESIZE - 1)
    BY TablesAssumption
  <2> QED
    BY <2>1, <2>2 DEF InCache
<1> QED
  BY <1>1, <1>2, <1>3, <1>4, <1>5 DEF TypeInv

LEMMA TypeInvNextLine == TypeInv /\ NextLine => TypeInv'
<1> SUFFICES ASSUME TypeInv, NextLine PROVE TypeInv'
  OBVIOUS
<1>1. /\ ~Compiled /\ line <= Len(Sources[source].lines)
      /\ work' = <<AddEndLine(Sources[source].type, Sources[source].lines[line])>>
      /\ line' = line + 1 /\ source' = source /\ StoreGstr' = StoreGstr /\ out' = out
      /\ EndingCache' = EndingCache /\ curecache' = curecache
  BY DEF NextLine, retrieving
<1>2. Reading'
  <2>1. source \in DOMAIN Sources
    BY <1>1, SourcesType DEF TypeInv, Reading, Compiled
  <2>2. Len(Sources[source].lines) \in Nat
    BY <2>1, SourcesType
  <2>3. line \in Nat \ {0}
    BY <1>1, <2>2 DEF TypeInv, Reading
  <2>4. line + 1 \in 1..(Len(Sources[source].lines) + 1)
    BY <1>1, <2>2, <2>3
  <2> QED
    BY <1>1, <2>4 DEF TypeInv, Reading, Compiled
<1>3. AreCalls(work')
  <2>1. ASSUME NEW base, NEW l PROVE AddEndLine(base, l).what \in Whats
    BY DEF AddEndLine, Call, Whats
  <2> QED
    BY <1>1, <2>1, OneCall
<1>4. Made' /\ Room' /\ OnDisk' /\ InCache'
  BY <1>1 DEF TypeInv, Made, Room, OnDisk, InCache
<1> QED
  BY <1>2, <1>3, <1>4 DEF TypeInv

LEMMA TypeInvExpand == TypeInv /\ Expand => TypeInv'
<1> SUFFICES ASSUME TypeInv, Expand PROVE TypeInv'
  OBVIOUS
<1>1. /\ work # <<>> /\ work' = Calls(Head(work)) \o Tail(work)
      /\ line' = line /\ source' = source /\ StoreGstr' = StoreGstr /\ out' = out
      /\ EndingCache' = EndingCache /\ curecache' = curecache
  BY DEF Expand, retrieving
<1>2. AreCalls(work')
  BY <1>1, CallsAreCalls, CallsRest, CallsJoined DEF TypeInv
<1>3. Reading' /\ Made' /\ Room' /\ OnDisk' /\ InCache'
  BY <1>1 DEF TypeInv, Reading, Compiled, Made, Room, OnDisk, InCache
<1> QED
  BY <1>2, <1>3 DEF TypeInv

LEMMA TypeInvStore == TypeInv /\ Store => TypeInv'
<1> SUFFICES ASSUME TypeInv, Store PROVE TypeInv'
  OBVIOUS
<1>1. /\ work # <<>> /\ work' = Tail(work)
      /\ line' = line /\ source' = source /\ out' = out
      /\ EndingCache' = EndingCache /\ curecache' = curecache
  BY DEF Store, retrieving
<1>2. PICK new : StoreGstr' = IF Len(StoreGstr) >= MAXENDINGS THEN StoreGstr ELSE Append(StoreGstr, new)
  BY DEF Store
<1>3. PICK S : StoreGstr \in Seq(S)
  BY DEF TypeInv, Made
<1>4. Made' /\ Room'
  <2>1. CASE Len(StoreGstr) >= MAXENDINGS
    BY <1>2, <1>3, <2>1 DEF TypeInv, Made, Room
  <2>2. CASE ~(Len(StoreGstr) >= MAXENDINGS)
    <3> DEFINE T == S \cup {new}
    <3>1. StoreGstr \in Seq(T) /\ new \in T
      BY <1>3
    <3> HIDE DEF T
    <3>2. Append(StoreGstr, new) \in Seq(T) /\ Len(Append(StoreGstr, new)) = Len(StoreGstr) + 1
      BY <3>1
    <3>3. Len(StoreGstr) + 1 <= MAXENDINGS
      BY <2>2, <3>1, TablesAssumption
    <3> QED
      BY <1>2, <2>2, <3>2, <3>3 DEF Made, Room
  <2> QED
    BY <2>1, <2>2
<1>5. AreCalls(work')
  BY <1>1, CallsRest DEF TypeInv
<1>6. Reading' /\ OnDisk' /\ InCache'
  BY <1>1 DEF TypeInv, Reading, Compiled, OnDisk, InCache
<1> QED
  BY <1>4, <1>5, <1>6 DEF TypeInv

LEMMA TypeInvPrntNewGstrings == TypeInv /\ PrntNewGstrings => TypeInv'
<1> SUFFICES ASSUME TypeInv, PrntNewGstrings PROVE TypeInv'
  OBVIOUS
<1>1. /\ ~Compiled /\ source' = source + 1 /\ line' = 1 /\ StoreGstr' = <<>> /\ work' = work
      /\ DOMAIN out' = DOMAIN out \cup {TypeOf(source)}
      /\ EndingCache' = EndingCache /\ curecache' = curecache
  BY DEF PrntNewGstrings, With, retrieving
<1>2. source \in DOMAIN Sources
  BY <1>1, SourcesType DEF TypeInv, Reading, Compiled
<1>3. Reading'
  <2>1. source + 1 \in 1..(Len(Sources) + 1)
    BY <1>2, SourcesType
  <2>2. CASE Compiled'
    BY <1>1, <2>1, <2>2 DEF Reading
  <2>3. CASE ~Compiled'
    <3>1. source + 1 \in DOMAIN Sources
      BY <1>1, <2>1, <2>3, SourcesType DEF Compiled
    <3>2. Len(Sources[source + 1].lines) \in Nat
      BY <3>1, SourcesType
    <3> QED
      BY <1>1, <2>1, <2>3, <3>2 DEF Reading
  <2> QED
    BY <2>2, <2>3
<1>4. OnDisk'
  BY <1>1, <1>2 DEF TypeInv, OnDisk, Types
<1>5. Made' /\ Room'
  <2>1. <<>> \in Seq({}) /\ Len(<<>>) = 0 /\ 0 <= MAXENDINGS
    BY TablesAssumption
  <2> QED
    BY <1>1, <2>1 DEF Made, Room
<1>6. AreCalls(work') /\ InCache'
  BY <1>1 DEF TypeInv, InCache
<1> QED
  BY <1>3, <1>4, <1>5, <1>6 DEF TypeInv

LEMMA TypeInvAsked ==
    ASSUME TypeInv, NEW wanted, FromCache(wanted) \/ ReadTable(wanted) \/ NoTable(wanted)
    PROVE  TypeInv'
<1>1. UNCHANGED compiling
  BY DEF FromCache, ReadTable, NoTable
<1>2. Reading' /\ AreCalls(work') /\ Made' /\ Room' /\ OnDisk'
  BY <1>1 DEF compiling, TypeInv, Reading, Compiled, Made, Room, OnDisk
<1>3. InCache'
  <2>1. CASE ReadTable(wanted)
    <3>1. curecache' = (curecache + 1) % ENDCACHESIZE
      BY <2>1 DEF ReadTable
    <3>2. DOMAIN EndingCache' = DOMAIN EndingCache \cup {curecache}
      BY <2>1 DEF ReadTable, With
    <3>3. (curecache + 1) % ENDCACHESIZE \in 0..(ENDCACHESIZE - 1)
      BY TablesAssumption DEF TypeInv, InCache
    <3> QED
      BY <3>1, <3>2, <3>3 DEF TypeInv, InCache
  <2>2. CASE FromCache(wanted) \/ NoTable(wanted)
    <3>1. EndingCache' = EndingCache /\ curecache' = curecache
      BY <2>2 DEF FromCache, NoTable
    <3> QED
      BY <3>1 DEF TypeInv, InCache
  <2> QED
    BY <2>1, <2>2
<1> QED
  BY <1>2, <1>3 DEF TypeInv

LEMMA TypeInvNext == TypeInv /\ [Next]_vars => TypeInv'
<1> SUFFICES ASSUME TypeInv, [Next]_vars PROVE TypeInv'
  OBVIOUS
<1>1. CASE Compile
  BY <1>1, TypeInvNextLine, TypeInvExpand, TypeInvStore, TypeInvPrntNewGstrings DEF Compile
<1>2. CASE chckendings
  <2>1. PICK wanted \in Wanted : FromCache(wanted) \/ ReadTable(wanted) \/ NoTable(wanted)
    BY <1>2 DEF chckendings
  <2> QED
    BY <2>1, TypeInvAsked
<1>3. CASE UNCHANGED vars
  BY <1>3 DEF vars, TypeInv, Reading, Compiled, Made, Room, OnDisk, InCache
<1> QED
  BY <1>1, <1>2, <1>3 DEF Next

(* What is open is a list of calls and nothing else, whatever the lines    *)
(* and the rules of sound are; the endings of a source stay within their   *)
(* room, and the tables in the cache within its slots.                     *)
THEOREM EndTablesTypes == Spec => []TypeOK
BY TypeInvInit, TypeInvNext, TypeInvOK, PTL DEF Spec
=============================================================================
