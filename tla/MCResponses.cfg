SPECIFICATION Spec
CONSTANTS
    None = None
    NaN = NaN
    TicksPerMs = 1
    Width = 4
    DrawDen = 2
    MaxCount = 4
    OtherCalls <- MCCalls
    Replies <- MCReplies
    SnippetLen = 4
CHECK_DEADLOCK FALSE
INVARIANTS
    StatusIsNeverLost
    CallerAndLoopAgree
    SnippetKeepsWholeCharacters
    RetryAfterReadAlike
