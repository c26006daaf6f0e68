SPECIFICATION Spec
CONSTANTS
    Tabs = {t1, t2}
    Paths = {f}
    NoTab = NoTab
    NoPath = NoPath
    NoText = NoText
    FirstTab = t1
    FirstPath = f
    Restored = NoTab
    MaxEdits = 2
    MaxForeign = 0
    MaxAsks = 1
    MaxSteps = 3
INVARIANTS TypedStaysCovered
CHECK_DEADLOCK FALSE
