SPECIFICATION ArbSpec
CONSTANTS
    Links = {cross, reverse, redial}
    DialedByAuth = {cross, redial}
    Lanes = {input}
    Faulty = TRUE
INVARIANTS
    ArbTypeOK
    LanesOfOneSession
    LeaseAccounting
    SameLiveLink
PROPERTIES
    ImplementsPeerSessions
SYMMETRY LinkSymmetry
CHECK_DEADLOCK FALSE
