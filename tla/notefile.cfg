SPECIFICATION FairSpec
CONSTANTS
    Tabs = {t1, t2, t3}
    Paths = {f, g}
    NoTab = NoTab
    NoPath = NoPath
    NoText = NoText
    FirstTab = t1
    FirstPath = f
    Restored = t2
    MaxEdits = 2
    MaxForeign = 1
    MaxAsks = 1
    MaxSteps = 4
INVARIANTS NothingLost CleanIsKnown OneOwner
PROPERTIES AutosaveSettles
CHECK_DEADLOCK FALSE
