SPECIFICATION Spec
CONSTANTS
    a = a
    s1 = s1
    s2 = s2
    c1 = c1
    c2 = c2
    None = None
    Pages = {"tenants"}
    Ids = {a}
    Scopes = {s1, s2}
    ScopeOf <- MCScopeOf
    Calls = {c1, c2}
    MaxVersion = 3
    MaxClicks = 3
SYMMETRY MCSymmetry
INVARIANTS
    TenantEditsReplaceWhatWasRead
CHECK_DEADLOCK FALSE
