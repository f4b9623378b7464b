SPECIFICATION Spec
CONSTANTS
    quote = quote
    div = div
    milestone = milestone
    xml = xml
    text = text
    SELF_CLOSING = SELF_CLOSING
    NoTag = NoTag
    Names <- MCNames
    Unmodified <- MCUnmodified
    Unending <- MCUnending
    Unbegun <- MCUnbegun
    Units = {"section", "line"}
    Tags <- MCTags
    MaxTags = 6
INVARIANTS
    TypeOK
    WellNested
    ElementsMirrored
    SiblingsReplaced
PROPERTIES
    NoWarning
CHECK_DEADLOCK FALSE
