SPECIFICATION Spec
CONSTANTS
    users = users
    sessions = sessions
    twoFactors = twoFactors
    k1 = k1
    f1 = f1
    b1 = b1
    b2 = b2
    None = None
    Tables <- MCTables
    Refs <- MCRefs
    Creates <- MCCreates
    Widens <- MCWidens
    Keys <- MCKeys
    Names <- MCNames
    Backups <- MCBackups
    MaxChanges = 2
SYMMETRY Symmetric
INVARIANTS
    FilesHold
    RestoresWhatWasSaved

    
CHECK_DEADLOCK FALSE
