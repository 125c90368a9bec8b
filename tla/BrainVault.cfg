SPECIFICATION VaultSpec
CONSTANTS
    v1 = v1
    v2 = v2
    q1 = q1
    q2 = q2
    r1 = r1
    r2 = r2
    Absent = Absent
    Versions <- MCVersions
    Requests <- MCRequests
    Runs <- MCRuns
    MaxChanges = 3
    MaxRuns = 3
    MaxCrashes = 2
SYMMETRY Symmetric
INVARIANTS VersionHasPicture FolderRebuilt
PROPERTY OwnersKept
CHECK_DEADLOCK FALSE
