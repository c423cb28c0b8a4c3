SPECIFICATION Spec
CONSTANTS
    a = a
    s1 = s1
    s2 = s2
    c1 = c1
    c2 = c2
    None = None
    Pages = {"config", "feature", "targeting", "tenants",
             "permissions", "bindings", "simulator", "users", "clients",
             "accounts", "deliveries", "settings", "releases",
             "schemas", "writeKeys", "audit", "events", "records"}
    Ids = {a}
    Scopes = {s1, s2}
    ScopeOf <- MCScopeOf
    Calls = {c1, c2}
    MaxVersion = 3
    MaxClicks = 3
SYMMETRY MCSymmetry
INVARIANTS
    TypeOK
    EditsReplaceWhatWasRead
    EditorShowsOwnWrites
    ResultsAreNotOlder
    PublishesWhatWasValidated
CHECK_DEADLOCK FALSE
