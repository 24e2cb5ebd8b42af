SPECIFICATION Spec
CONSTANTS
    Call = {c1}
    Entry = {1, 10, 16}
    Content <- MCContentOfTwo
    Text <- MCTwoTexts
    MaxFirst = 3
    MaxAdds = 1
    Deletable = {}
INVARIANTS
    TargetMatches
CHECK_DEADLOCK FALSE
