------------------------------- MODULE EndTables -------------------------------
(***************************************************************************)
(* The tables of endings from their sources to the words that use them:    *)
(* expendtables takes the sources one after the other, a line at a time,   *)
(* and writes what mk_end makes of them in the order of the dictionary;    *)
(* chckendings asks for the endings of a stem, whose table it keeps in a   *)
(* cache of ENDCACHESIZE tables.                                           *)
(*                                                                         *)
(* A source is a record: type, the keys of the name of the table, and      *)
(* lines, its lines.  A table on disk is known by the type of its stems.   *)
(***************************************************************************)
EXTENDS Endings

CONSTANTS
  Sources,        \* the source tables in the order in which they are compiled
  Wanted,         \* the stems endings are asked for, as WantedEnd leaves them
  MAXENDINGS,     \* the endings StoreGstr has room for
  ENDCACHESIZE    \* the tables the cache has room for

ASSUME TablesAssumption ==
  /\ Sources \in Seq(ToSet(Sources))
  /\ \A s \in DOMAIN Sources : Sources[s].lines \in Seq(ToSet(Sources[s].lines))
  /\ MAXENDINGS \in Nat /\ ENDCACHESIZE \in Nat \ {0}

VARIABLES
  source,         \* the source that is compiled, past the last when all are
  line,           \* the line of it that is expanded next
  work,           \* the calls of mk_end that are open, the next one first
  StoreGstr,      \* the endings of the source so far, with their lines
  out,            \* the tables on disk
  EndingCache,    \* the cached tables by their slots, from slot 0
  curecache,      \* the slot that is filled next
  answer          \* the last stem asked for and its endings

vars == <<source, line, work, StoreGstr, out, EndingCache, curecache, answer>>
compiling == <<source, line, work, StoreGstr, out>>
retrieving == <<EndingCache, curecache, answer>>

NoAnswer == [ends |-> <<>>]
\* the table f with value under key, which it may have held already
With(f, key, value) == [x \in DOMAIN f \cup {key} |-> IF x = key THEN value ELSE f[x]]
TypeOf(s) == ScanAsciiKeys(Sources[s].type, BlankGstr, BlankGstr).want.stemtype

Types == {TypeOf(s) : s \in DOMAIN Sources}

Init ==
  /\ source = 1 /\ line = 1
  /\ work = <<>> /\ StoreGstr = <<>>
  /\ out = [type \in {} |-> <<>>]
  /\ EndingCache = [slot \in {} |-> <<>>] /\ curecache = 0
  /\ answer = NoAnswer

(***************************************************************************)
(* The compiler of the tables.                                             *)
(***************************************************************************)
Compiled == source > Len(Sources)

NextLine ==
  /\ ~Compiled /\ work = <<>> /\ line <= Len(Sources[source].lines)
  /\ work' = <<AddEndLine(Sources[source].type, Sources[source].lines[line])>>
  /\ line' = line + 1
  /\ UNCHANGED <<source, StoreGstr, out, retrieving>>

Expand ==
  /\ work # <<>> /\ Head(work).what # "store"
  /\ work' = Calls(Head(work)) \o Tail(work)
  /\ UNCHANGED <<source, line, StoreGstr, out, retrieving>>

\* an ending for which there is no room is left out
Store ==
  /\ work # <<>> /\ Head(work).what = "store"
  /\ work' = Tail(work)
  /\ \E keeps \in BOOLEAN :
       LET new == [ending |-> stored(Head(work).have, keeps), line |-> line - 1]
       IN  StoreGstr' = IF Len(StoreGstr) >= MAXENDINGS THEN StoreGstr ELSE Append(StoreGstr, new)
  /\ UNCHANGED <<source, line, out, retrieving>>

\* a mutant for the runs: the endings are written in the order in which they were made
Mutant_DictSorted(list) == list
\* sorted as by an insertion: endings the dictionary does not tell apart stay in their order
DictSorted(list) ==
  FoldLeft(LAMBDA sorted, g :
             LET before == {i \in DOMAIN sorted : dictstrcmp(sorted[i].gkstring, g.gkstring) <= 0}
             IN  InsertAt(sorted, IF before = {} THEN 1 ELSE Max(before) + 1, g),
           <<>>, list)
\* the suffixes of derivations stay as they were made, and lose the mark that says they are
Written(ends) ==
  IF ends # <<>> /\ "IS_DERIV" \in ends[1].flags THEN [i \in DOMAIN ends |-> Zap(ends[i], {"IS_DERIV"})]
  ELSE DictSorted(ends)
PrntNewGstrings ==
  /\ ~Compiled /\ work = <<>> /\ line > Len(Sources[source].lines)
  /\ out' = With(out, TypeOf(source), Written([i \in DOMAIN StoreGstr |-> StoreGstr[i].ending]))
  /\ source' = source + 1 /\ line' = 1 /\ StoreGstr' = <<>>
  /\ UNCHANGED <<work, retrieving>>

(***************************************************************************)
(* Retrieval.  A table is found in the cache by the type of its first      *)
(* ending, so that one without endings is read again each time; the end of *)
(* a cached table is the first empty ending.                               *)
(***************************************************************************)
Table(type) == [i \in DOMAIN out[type] |-> With(out[type][i], "stemtype", type)]
\* a mutant for the runs: the first table of the cache is anybody's
Mutant_Cached(slot, type) == EndingCache[slot] # <<>>
Cached(slot, type) == 1 \in DOMAIN EndingCache[slot] /\ EndingCache[slot][1].stemtype = type
Hits(type) == {slot \in DOMAIN EndingCache : Cached(slot, type)}
UpToEmpty(list) ==
  LET empty == {i \in DOMAIN list : list[i].gkstring = <<>>}
  IN  IF empty = {} THEN list ELSE SubSeq(list, 1, Min(empty) - 1)

FromCache(wanted) ==
  LET hits == Hits(wanted.want.stemtype)
  IN  /\ Compiled /\ hits # {}
      /\ answer' = [wanted |-> wanted,
                    ends |-> RetrCompEnds(wanted, UpToEmpty(EndingCache[Min(hits)]))]
      /\ UNCHANGED <<compiling, EndingCache, curecache>>

\* a mutant for the runs: the cache is never filled from its first slot again
Mutant_ReadTable(wanted) ==
  LET type == wanted.want.stemtype
  IN  /\ Compiled /\ Hits(type) = {} /\ type \in DOMAIN out
      /\ EndingCache' = With(EndingCache, curecache, Table(type))
      /\ curecache' = curecache + 1
      /\ answer' = [wanted |-> wanted, ends |-> RetrCompEnds(wanted, Table(type))]
      /\ UNCHANGED compiling
ReadTable(wanted) ==
  LET type == wanted.want.stemtype
  IN  /\ Compiled /\ Hits(type) = {} /\ type \in DOMAIN out
      /\ EndingCache' = With(EndingCache, curecache, Table(type))
      /\ curecache' = (curecache + 1) % ENDCACHESIZE
      /\ answer' = [wanted |-> wanted, ends |-> RetrCompEnds(wanted, Table(type))]
      /\ UNCHANGED compiling

NoTable(wanted) ==
  /\ Compiled /\ Hits(wanted.want.stemtype) = {} /\ wanted.want.stemtype \notin DOMAIN out
  /\ answer' = [wanted |-> wanted, ends |-> <<>>]
  /\ UNCHANGED <<compiling, EndingCache, curecache>>

Compile == NextLine \/ Expand \/ Store \/ PrntNewGstrings
chckendings == \E wanted \in Wanted : FromCache(wanted) \/ ReadTable(wanted) \/ NoTable(wanted)
Next == Compile \/ chckendings

\* the compiler runs on until it is done; nothing makes anybody ask for endings.
\* It is WF_vars(Compile): Compile is enabled until Compiled
Fairness == []<>Compiled \/ []<><<Compile>>_vars
Spec == Init /\ [][Next]_vars /\ Fairness

(***************************************************************************)
(* Properties.                                                             *)
(***************************************************************************)
TypeOK ==
  /\ source \in 1..(Len(Sources) + 1)
  /\ line \in 1..(IF Compiled THEN 1 ELSE Len(Sources[source].lines) + 1)
  /\ \A i \in DOMAIN work : work[i].what \in {"mk_end", "sounds", "store"}
  /\ Len(StoreGstr) <= MAXENDINGS
  /\ DOMAIN out \subseteq Types
  /\ curecache \in 0..(ENDCACHESIZE - 1) /\ DOMAIN EndingCache \subseteq 0..(ENDCACHESIZE - 1)

\* The rules of sound make forms of forms, and each form goes through all of
\* them again: the expansion of every line comes to an end all the same, and
\* all the tables are written.
TablesWritten == <>Compiled

\* An ending is accented where it is joined, after a change of consonants and
\* after a contraction, which takes an accent away before it gives one: what
\* is stored has one accent at most, and nothing that a change of consonants
\* still applies to, whatever hyphens, "!" and "*" were taken out at the end.
EndingsSettled ==
  StoreGstr # <<>> =>
    LET g == Last(StoreGstr).ending
    IN  /\ naccents(g.gkstring) <= 1
        /\ do_euph(g, {}) = <<>>
        /\ \A c \in {"-", "!", "@"} : c \notin ToSet(g.gkstring)

\* A list of endings is left at the first one past the ending looked for, and
\* an ending that is taken changes what the stem wants of those after it: the
\* endings a stem gets are still all those of its table, as the table is on
\* disk, that it takes when each is tested alone (but for their dialects, see
\* EtaDialects), as far as the first one that the stem's keys say to avoid,
\* which ends the list for all those after it.
Ending(g) == <<g.gkstring, g.form>>
AnswerComplete ==
  answer # NoAnswer =>
    LET wanted == answer.wanted
        type == wanted.want.stemtype
        table == IF type \in DOMAIN out THEN Table(type) ELSE <<>>
        tested == [i \in DOMAIN table |-> WantGkEnd(wanted.want, table[i], TRUE, TRUE)]
        avoided == {i \in DOMAIN table : NoWantGkEnd(wanted.avoid, tested[i].have, FALSE)}
        taken == {i \in DOMAIN table : tested[i].code > 0 /\ \A j \in avoided : i < j}
    IN  {Ending(g) : g \in ToSet(answer.ends)} = {Ending(tested[i].have) : i \in taken}

\* A table is known in the cache by its first ending only, its slot is filled
\* again when the cache is full, and what is left of a cached list after an
\* empty ending is out of reach: whatever was asked for before, a slot holds
\* the table of one type as it is on disk, no type has two slots, and an answer
\* is made of the table of the stem's own type.
CacheAgrees ==
  /\ \A slot \in DOMAIN EndingCache : \E type \in DOMAIN out : EndingCache[slot] = Table(type)
  /\ \A type \in DOMAIN out : \A s, t \in Hits(type) : s = t
  /\ answer # NoAnswer =>
       LET type == answer.wanted.want.stemtype
           Of(list) == RetrCompEnds(answer.wanted, list)
       IN  answer.ends \in IF type \in DOMAIN out THEN {Of(Table(type)), Of(UpToEmpty(Table(type)))} ELSE {<<>>}

\* "note that this ending can only appear after 'r', 'e' or 'i' in certain
\* dialects" (gkends/euphend.c:50): where a nominal stem that ends in one of
\* them gets an ending in h, it is one of these dialects, and never Attic.
EtaDialects ==
  answer # NoAnswer /\ "R_E_I_ALPHA" \in answer.wanted.want.flags =>
    \A g \in ToSet(answer.ends) : At(g.gkstring, 1) = "h" => g.dialect = RHO_ETA_DIAL
=============================================================================
