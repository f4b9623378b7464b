----------------------------- MODULE MetadStack -----------------------------
(***************************************************************************)
(* Stage 4, 4_reformatMetadata.sh: it gives the tags of a text the names   *)
(* by which the corpus manager is searched (<div type="section"> becomes   *)
(* <section>) and makes structures of milestones: <milestone               *)
(* unit="section"/> opens a structure that lasts until the next milestone  *)
(* of its unit, or until the element it stands in ends.  To know what is   *)
(* open it keeps two stacks side by side, and every iteration of its two   *)
(* loops that close structures is a step here.                             *)
(*                                                                         *)
(* The input is the text of a well-formed document, as the stages before   *)
(* leave it: one tag or one token per line.  Lines without a tag and glue  *)
(* tags are copied and tell nothing apart, so they are left out.  The      *)
(* output is read, tag by tag, by the corpus manager, for which a          *)
(* structure can only be closed if it is the one opened last.              *)
(***************************************************************************)
EXTENDS Integers, Sequences

CONSTANTS
    Names,          \* the names of tags
    Unmodified,     \* quote, foreign, note and p, which keep their names
    Unending,       \* names whose end tags stage 1 removes, as </TEI.2>
    Unbegun,        \* names whose start tags stage 1 leaves in the header
    Units,          \* the values of type="" and unit=""
    Tags,           \* the start and empty tags of this instance
    MaxTags,        \* how many tags a text has
    SELF_CLOSING,   \* what stands in origTagNames for an empty tag
    NoTag           \* between two lines

(* The value of an attribute may be written with or without capitals.      *)
Values == Units \X {"lower", "upper"}

Lower(v) == <<v[1], "lower">>

(* Start tags and empty tags.  An attribute is a sequence of one value, or *)
(* of none if it is missing.                                               *)
Attributes == {<<>>} \cup {<<v>> : v \in Values}
StartTags ==
    [name : Names, type : Attributes, unit : Attributes, empty : BOOLEAN]
EndTags == [end : Names]

(* No tag is named as a unit is with capitals: the names of TEI are not.   *)
ASSUME TagsOK ==
    /\ Unmodified \subseteq Names /\ Unending \subseteq Names
    /\ Unbegun \subseteq Names
    /\ Tags \subseteq StartTags
    /\ MaxTags \in Nat
    /\ SELF_CLOSING \notin Names
    /\ Names \cap (Units \X {"upper"}) = {}
    /\ NoTag \notin StartTags \cup EndTags

(* The names of structures: an attribute's value, two values one after the *)
(* other, or the name of a tag.                                            *)
Structures == Seq(Values \cup Names)

VARIABLES
    elements,       \* the elements of the input that are open, inner first
    nTags,          \* how many tags were read
    line,           \* the tag that is being handled
    pc,             \* where the script is in its read loop
    types,          \* types and origTagNames, index 0 first
    origTagNames,
    open,           \* the structures that the corpus manager has open
    malformed       \* it met an end tag that is not the one due

vars == <<elements, nTags, line, pc, types, origTagNames, open, malformed>>

TypeOK ==
    /\ elements \in Seq(Names)
    /\ nTags \in 0..MaxTags
    /\ line \in StartTags \cup EndTags \cup {NoTag}
    /\ pc \in {"read", "close", "room", "open", "failed"}
    /\ types \in Seq(Structures)
    /\ origTagNames \in Seq(Names \cup {SELF_CLOSING})
    /\ open \in Seq(Structures)
    /\ malformed \in BOOLEAN

Init ==
    /\ elements = <<>>
    /\ nTags = 0
    /\ line = NoTag
    /\ pc = "read"
    /\ types = <<>>
    /\ origTagNames = <<>>
    /\ open = <<>>
    /\ malformed = FALSE

-----------------------------------------------------------------------------
(* What a tag becomes                                                      *)

Mutant_Lowered(a) == a                  \* bug: capitals are left
Lowered(a) == IF a = <<>> THEN a ELSE <<Lower(a[1])>>

(* type and unit, one after the other, once if they are the same.          *)
Typeunit(tag) ==
    LET type == Lowered(tag.type)
        unit == Lowered(tag.unit)
    IN
    IF tag.name \in Unmodified THEN <<>>
    ELSE IF type = unit THEN type
    ELSE type \o unit

Structure(tag) ==
    IF Typeunit(tag) = <<>> THEN <<tag.name>> ELSE Typeunit(tag)

(* The name in the tag that is written: the line as it is, or a new tag.   *)
NoModify(tag) == Typeunit(tag) = <<>> /\ ~tag.empty

Mutant_Written(tag) == <<tag.name>>     \* bug: keeps the original name
Written(tag) == IF NoModify(tag) THEN <<tag.name>> ELSE Structure(tag)

Mutant_OrigName(tag) == tag.name        \* bug: takes no notice of />

Mutant_OrigNameNew(tag) ==              \* bug: stacks the new name
    IF tag.empty THEN SELF_CLOSING ELSE Structure(tag)

OrigName(tag) == IF tag.empty THEN SELF_CLOSING ELSE tag.name

-----------------------------------------------------------------------------
(* The corpus manager                                                      *)

WriteStart(s) ==
    /\ open' = <<s>> \o open
    /\ UNCHANGED malformed

WriteEnd(s) ==
    IF open # <<>> /\ Head(open) = s
    THEN open' = Tail(open) /\ UNCHANGED malformed
    ELSE malformed' = TRUE /\ UNCHANGED open

-----------------------------------------------------------------------------
(* The script                                                              *)

(* The check for sanity, for every tag.                                    *)
Sane == Len(types) = Len(origTagNames)

(* A start or empty tag, and whether a structure of its name is open.  An  *)
(* element that is never ended stands around all the others.               *)
ReadStart(tag) ==
    /\ pc = "read" /\ nTags < MaxTags
    /\ tag.name \in Unending =>
          ~tag.empty /\ \A i \in DOMAIN elements : elements[i] \in Unending
    /\ nTags' = nTags + 1
    /\ elements' = IF tag.empty THEN elements ELSE <<tag.name>> \o elements
    /\ line' = tag
    /\ pc' = IF ~Sane THEN "failed"
             ELSE IF \E i \in DOMAIN types : types[i] = Structure(tag)
             THEN "room"
             ELSE "open"
    /\ UNCHANGED <<types, origTagNames, open, malformed>>

(* The end tag of the innermost element.                                   *)
ReadEnd ==
    /\ pc = "read" /\ nTags < MaxTags
    /\ elements # <<>> /\ Head(elements) \notin Unending
    /\ nTags' = nTags + 1
    /\ elements' = Tail(elements)
    /\ line' = [end |-> Head(elements)]
    /\ pc' = IF Sane THEN "close" ELSE "failed"
    /\ UNCHANGED <<types, origTagNames, open, malformed>>

(* The end tag of an element that began on the line of </teiHeader>.       *)
ReadUnbegunEnd(name) ==
    /\ pc = "read" /\ nTags < MaxTags
    /\ elements = <<>>
    /\ nTags' = nTags + 1
    /\ line' = [end |-> name]
    /\ pc' = IF Sane THEN "close" ELSE "failed"
    /\ UNCHANGED <<elements, types, origTagNames, open, malformed>>

(* Closes the structure at index 0 of the stacks.                          *)
Pop ==
    /\ WriteEnd(Head(types))
    /\ types' = Tail(types)
    /\ origTagNames' = Tail(origTagNames)

Mutant_Found == TRUE                    \* bug: closes one structure only
Found == Head(origTagNames) = line.end

(* Structures are closed down to the one that the end tag is for.          *)
Close ==
    /\ pc = "close" /\ types # <<>>
    /\ Pop
    /\ pc' = IF Found THEN "read" ELSE "close"
    /\ line' = IF Found THEN NoTag ELSE line
    /\ UNCHANGED <<elements, nTags>>

(* An end tag that no open structure is for has closed them all.           *)
CloseNone ==
    /\ pc = "close" /\ types = <<>>
    /\ pc' = "read"
    /\ line' = NoTag
    /\ UNCHANGED <<elements, nTags, types, origTagNames, open, malformed>>

Mutant_Removable == types # <<>>        \* bug: ends elements as well
Removable == types # <<>> /\ Head(origTagNames) = SELF_CLOSING

(* Before a structure is opened that is open already, the milestones down  *)
(* to it are closed, but no element.                                       *)
MakeRoom ==
    /\ pc = "room" /\ Removable
    /\ Pop
    /\ pc' = IF Head(types) = Structure(line) THEN "open" ELSE "room"
    /\ UNCHANGED <<elements, nTags, line>>

RoomMade ==
    /\ pc = "room" /\ ~Removable
    /\ pc' = "open"
    /\ UNCHANGED <<elements, nTags, line, types, origTagNames, open,
                   malformed>>

Open ==
    /\ pc = "open"
    /\ WriteStart(Written(line))
    /\ types' = <<Structure(line)>> \o types
    /\ origTagNames' = <<OrigName(line)>> \o origTagNames
    /\ pc' = "read"
    /\ line' = NoTag
    /\ UNCHANGED <<elements, nTags>>

Handle == Close \/ CloseNone \/ MakeRoom \/ RoomMade \/ Open

Read ==
    \/ \E tag \in Tags : ReadStart(tag)
    \/ ReadEnd
    \/ \E name \in Unbegun : ReadUnbegunEnd(name)

Next == Read \/ Handle

Spec == Init /\ [][Next]_vars

-----------------------------------------------------------------------------
(* Properties                                                              *)

(* The vertical file is well nested: no end tag is written but for the     *)
(* structure that was opened last, under the name it was opened with, and  *)
(* the script never gives up on a text half way, with structures open: the *)
(* stacks, which are pushed and popped in three places each, are never of  *)
(* different sizes when a tag is read.                                     *)
WellNested == ~malformed /\ pc # "failed"

(* "warning: closing non-self-closing tag" is never printed: on the way    *)
(* down to the start tag of an end tag there are only milestones, so no    *)
(* element is ended before its own end tag.                                *)
NoWarning ==
    [][Close => Head(origTagNames) \in {SELF_CLOSING, line.end}]_vars

(* "building a map of what xml tags have been opened and not closed": what *)
(* the stack holds besides milestones are the open elements of the input,  *)
(* whatever milestones came between.                                       *)
ElementNames(names) ==
    LET upTo[i \in 0..Len(names)] ==
            IF i = 0 THEN <<>>
            ELSE IF names[i] = SELF_CLOSING THEN upTo[i - 1]
            ELSE Append(upTo[i - 1], names[i])
    IN  upTo[Len(names)]

ElementsMirrored ==
    pc = "read" => ElementNames(origTagNames) = elements

(* Two structures that differ in capitals only.                            *)
SameStructure(s, t) ==
    /\ Len(s) = Len(t)
    /\ \A i \in DOMAIN s :
          \/ s[i] = t[i]
          \/ s[i] \in Values /\ t[i] \in Values /\ Lower(s[i]) = Lower(t[i])

Milestone(i) == origTagNames[i] = SELF_CLOSING

(* Milestones that stand in the same element divide it: a new one replaces *)
(* the one of its unit, "to stop <book n=3><Book n=4>...".                 *)
SiblingsReplaced ==
    \A i, j \in DOMAIN types :
        i < j /\ (\A k \in i..j : Milestone(k)) =>
            ~SameStructure(types[i], types[j])

=============================================================================
