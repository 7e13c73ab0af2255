CONSTANTS
    Tokens = {t1, t2}
    NoToken = NoToken
    Absent = Absent
    Null = Null
    NoName = NoName
    MaxSubs = 2

SPECIFICATION Spec

INVARIANTS
    TypeOK
    SessionOperationsCarrySessionToken

PROPERTIES
    AccessControlSpec
    LoggedOutLeavesProtectedPage
