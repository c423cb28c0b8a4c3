SPECIFICATION Spec
CONSTANTS
    callback = callback
    logout = logout
    proxy = proxy
    query = query
    Nobody = Nobody
    Requests <- MCRequests
    Callbacks <- MCCallbacks
    Logouts <- MCLogouts
    Proxies <- MCProxies
    MaxPolls = 1
    MaxGeneration = 3
INVARIANTS
    TypeOK
    ReuseNeedsMishap
    SignOutNeedsMishap
    StoredTokensAreCurrent
CHECK_DEADLOCK FALSE
