SPECIFICATION Spec
CONSTANTS
    None = None
    NoText = NoText
    NoWord = NoWord
    w1 = w1
    w2 = w2
    Words <- MCWords
    Texts <- MCTexts
    Elements <- MCElements
    MaxElements = 3
    MaxDepth = 3
    Annotated = {w2}
    Unlogged = {w1}
    Answers <- MCAnswers
    Manual = Manual
    Error = Error
    FileName = FileName
INVARIANTS
    TypeOK
    WordsKept
    PositionsShown
    OrderKept
    AnswerKept
PROPERTIES
    ImplementsWordRows
CHECK_DEADLOCK FALSE
