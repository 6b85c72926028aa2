SPECIFICATION Spec
CONSTANTS
    Tasks = {t1, t2}
    MaxTokens = 3
    None = None
SYMMETRY Symmetry
INVARIANTS
    LockHolder
    SentTokensUsable
    SpentOnlyIfLost
    OperatorTokensWin
    MarkedForOwnFailure
