SPECIFICATION Spec
CONSTANTS
    a = a
    b = b
    Null0 = Null0
    Null = Null0
    Count = 3
    MaxAsked = 2
    Components <- MCComponents
    NameOf <- MCNameOf
    ComponentOf <- MCComponentOf
    ValuesOf <- MCValuesOf
    Detected <- MCDetected
INVARIANTS
    ItemsAreGivenBack
    ValuesAreComplete
    JsonIsOfProperties
\* Freed results, and a program that stopped, are the end.
CHECK_DEADLOCK FALSE
