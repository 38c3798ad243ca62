SPECIFICATION PartsSpec
CONSTANTS
    Parts = {"tab", "page", "dialog", "pages"}
    t1 = t1
    t2 = t2
    h1 = h1
    h2 = h2
    h3 = h3
    Topics = {t1, t2}
    Hooks = {h1, h2, h3}
    TopicOf <- MCTopicOf
    Nodes = {"n1", "n2"}
    MaxAge = 1
    Cap = 2
    MayPanic = {"n1"}
    host = host
    Addresses <- MCAddresses
    Passwords <- MCPasswords
    Contents <- MCContents
    Trim <- MCTrim
    Blank = ""
    Accepts <- MCAccepts
    Saves = {"s1"}
    MaxTroubles = 1
    Effects = {"e1", "e2"}
    None = None
    Asked = Asked
INVARIANTS SseSafe HealthSafe FormSafe TestsLeaveNoSession SetupSafe
PROPERTY GoesBackOnlyAtFirstGet
CHECK_DEADLOCK FALSE
