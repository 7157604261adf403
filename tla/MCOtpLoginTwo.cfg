SPECIFICATION FairSpec
CONSTANTS
    Requests = {r1, r2}
    Codes = {c1, c2}
    None = None
    MaxVerifyAttempts = 2
    OtpExpiry = 1
    LockDuration = 2
    MaxAborts = 1
    MaxRedisFaults = 1
INVARIANTS
    AcceptedOtpIsConsumed
PROPERTIES
    LockEnds
