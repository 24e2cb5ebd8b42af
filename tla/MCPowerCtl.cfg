SPECIFICATION Spec
CONSTANTS
    Call = {c1, c2}
    Entry = {1, 2, 10}
    Content <- MCContent
    Text <- MCText
    MaxFirst = 2
    MaxAdds = 1
    Deletable = {2}
SYMMETRY CallSymmetry
INVARIANTS
    KeepsEntries
    KeepsRelativeOrder
    FrontWasAskedFor
    LowNumbersAreRead
    PanicNeedsShortVariable
CHECK_DEADLOCK FALSE
