SPECIFICATION Spec
CONSTANTS
    Tokens <- SomeTokens
    Texts <- SomeTexts
    Placeholder <- Plain
    None = None
    MaxActs = 2
    MaxRenders = 6
INVARIANTS
    WaitsForWhatComes
PROPERTIES
    OutputIsOfLatestText
    TextsAreShown
\* The user may leave the page alone.
CHECK_DEADLOCK FALSE
