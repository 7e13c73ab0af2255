CONSTANTS
    Tokens = {t1, t2}
    Absent = Absent
    NoPage = NoPage
    OtherTab = FALSE
    MaxChecks = 2
    MaxLogins = 1
    MaxIntervals = 3

SPECIFICATION Spec

INVARIANT TypeOK
INVARIANT BearerIsLastLogin
 
PROPERTY ExpiredSessionEventuallyEnds
PROPERTY ProgressFlagClearsWhileLoggedIn
