---------------------------- MODULE MCMetadStack ----------------------------
(***************************************************************************)
(* Texts with the tags that the corpus has: elements with and without a    *)
(* type, a unit as an element and as a milestone, with and without         *)
(* capitals, an element that is never ended and one that never begins.     *)
(***************************************************************************)
EXTENDS MetadStack

CONSTANTS quote, div, milestone, xml, text

MCNames == {quote, div, milestone, xml, text}
MCUnmodified == {quote}
MCUnending == {xml}
MCUnbegun == {text}

Value(u) == << <<u, "lower">> >>
Capital(u) == << <<u, "upper">> >>

MCTags ==
    LET Tag(name, type, unit, empty) ==
            [name |-> name, type |-> type, unit |-> unit, empty |-> empty]
    IN
    {Tag(xml, <<>>, <<>>, FALSE),
     Tag(quote, Value("section"), <<>>, FALSE),
     Tag(div, <<>>, <<>>, FALSE),
     Tag(div, Value("section"), Capital("section"), FALSE),
     Tag(milestone, <<>>, Value("section"), TRUE),
     Tag(milestone, <<>>, Capital("section"), TRUE),
     Tag(milestone, <<>>, Value("line"), TRUE),
     Tag(milestone, Value("section"), Value("line"), TRUE)}
=============================================================================
