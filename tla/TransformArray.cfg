SPECIFICATION ArraySpec

CONSTANTS
    Inputs <- MCInputs

INVARIANTS
    CursorInText
    ValuesAreApart
    DocumentIsTransformed
    ShortageIsReported
    RetriesAreFew

PROPERTY
    ImplementsRetries

CHECK_DEADLOCK FALSE
