CONSTANTS
    Tokens = {t1, t2}
    Absent = Absent
    NoPage = NoPage
    OtherTab = TRUE
    MaxChecks = 2
    MaxLogins = 1
    MaxIntervals = 3

SPECIFICATION Spec

PROPERTY ExpiredSessionEventuallyEnds
