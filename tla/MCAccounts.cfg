SPECIFICATION FairSpec
CONSTANTS
    r1 = r1
    r2 = r2
    None = None
    Requests = {r1, r2}
    Texts <- MCTexts
    Names = {"Bob", "al "}
    FirstPasswords = {"p"}
    Passwords = {"p", "q "}
    Trim <- MCTrim
    Lower <- MCLower
    MaxSessions = 2
    MaxUpdates = 2
    MaxFaults = 1
INVARIANTS AccountsSafe FlagFollowsUser OpensAsGiven
PROPERTIES SessionsEndForGood RulesHoldAtWrite LapsedPurged
CHECK_DEADLOCK FALSE
