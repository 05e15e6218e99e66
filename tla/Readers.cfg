SPECIFICATION ReadersSpec
CONSTANTS
    Absent = Absent
    AutoTools = {"view_file", "grep_search"}
    PathArgs = {"name", "link", "secret"}
    OtherArgs = {"far", "url"}
    MaxTokens = 3
    MaxStep = 1
    MaxEvents = 3
    Deltas <- MCDeltas
    Thoughts <- MCThoughts
    MaxRows = 4
    RowTexts <- MCRowTexts
    Base = 8
    LastGroup = 1
    WireTypes = 4
    Varint = 0
    Delimited = 2
    FixedSize <- MCFixedSize
    Bytes <- MCBytes
    Targets = {1, 2}
    MaxLength = 5
INVARIANTS
    SafeMeansSeen
    UnaskedStaysInside
    ToolCallsAreWellFormed
    OnlyLeadingNarrationIsWithheld
    ReplayShowsWhatWasShown
    ReplayKeepsTheOrder
    ScansByTheFormat
PROPERTY AnswerIsShownOnce
CHECK_DEADLOCK FALSE
