SPECIFICATION Spec
CONSTANTS
    a = a
    b = b
    s1 = s1
    s2 = s2
    c1 = c1
    c2 = c2
    None = None
    Pages = {"config", "feature", "targeting",
             "tenants", "applications", "environments", "memberships",
             "permissions", "roles", "bindings", "policies", "simulator",
             "users", "applicationMemberships", "clients", "apiScopes",
             "accounts", "deliveries", "sources", "settings",
             "channels", "releases", "artifacts", "signingKeys",
             "schemas", "writeKeys", "buckets", "objects",
             "audit", "events", "records", "health"}
    Ids = {a, b}
    Scopes = {s1, s2}
    ScopeOf <- MCScopeOf
    Calls = {c1, c2}
    MaxVersion = 2
    MaxClicks = 2
SYMMETRY MCSymmetry
INVARIANTS
    QuietListIsAsReported
CHECK_DEADLOCK FALSE
