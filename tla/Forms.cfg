SPECIFICATION FormsSpec
CONSTANTS
    t1 = t1
    t2 = t2
    e1 = e1
    e2 = e2
    Blank = Blank
    Tabs <- MCTabs
    Entries <- MCEntries
    Openings <- MCOpenings
    MaxEdits = 3
    MaxCalls = 4
    MaxSetUps = 3
    MaxClaims = 1
SYMMETRY Symmetric
INVARIANTS  ShownIsAbout CodesAreStored
CHECK_DEADLOCK FALSE
