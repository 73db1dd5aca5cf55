SPECIFICATION ApiSpec
CONSTANTS
    Calls = {c1, c2, c3}
    Browsers = {b1}
    Accounts = {"g1", "g2"}
    Addresses = {"x", "y"}
    MailsOf <- SharedMail
    MaxSecrets = 2
    NoUser = NoUser
    Projects = {"pa", "pb"}
    NoProject = "none"
    MaxSaves = 2
    Writers = {w1, w2, w3}
    Items = {"m1", "m2", "m3", "d1", "d2"}
    KindOf <- ItemKind
    SizeOf <- ItemSize
    DefaultLimit <- LimitOfTwo
    NoWriter = NoWriter
    Requests = {"r1", "r2"}
    Pushes = {"p1"}
    Gates <- TwoGates
    EnvOf <- KeyOfFirst
    Deliveries = {"e1", "e2"}
    Handlers = {h1, h2, h3, h4}
    Signed = {h1, h2, h3}
    Provisions = {i1, i2, i3}
    Ports = {21000, 22000}
    NoProvision = NoProvision
SYMMETRY Interchangeable
INVARIANTS
    ApiTypeOK
    OneUserPerAddress
    RefusalsExplained
    LoginConnects
    SavesOwnSettings
    SavedMeansStored
    NeverOverQuota
    ResultsAreTrue
    DeliveriesHold
    OneDatabase
CHECK_DEADLOCK FALSE
