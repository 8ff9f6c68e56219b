SPECIFICATION Spec
CONSTANTS
    YHeights = {1, 2}
    YTexts = {1}
    YMaxLines = 3
    YSurfaces = {"inline", "clearing"}
    YClearOnShrink = {TRUE, FALSE}
    YChildren = {1, 2}
    YOverlays = {3}
    ETyped = {5, 4}
    EPastes = {1}
    EWidth = 1
    EVisible = 2
    EUndoMax = 3
    EHistoryMax = 2
    EMaxKeys = 4
    EMaxText = 3
    UEvents <- MCUiEvents
    UMaxEvents = 3
    UMaxResult = 1
    UMaxSteps = 1
    SForests <- MCForests
    SLetters = {"a"}
    SMaxText = 1
    SMaxLabels = 1
    SPageSize = 2
    JMaxTurns = 2
    JCapacity = 3
CONSTRAINT Afloat
INVARIANTS
    ProtocolSound
    TuiSound
PROPERTIES
    TranscriptSound
    TreeSound
    EditorKeeps
CHECK_DEADLOCK FALSE
