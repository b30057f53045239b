SPECIFICATION Spec
CONSTANTS
    Browsers = {b1, b2}
    Workers = {w1, w2}
    Names = {n1, n2}
    Emails = {e1, e2}
    Passwords = {p1, p2}
    Lifetime = 1
    MaxTime = 1
    MaxTokens = 2
    MaxFailures = 1
CHECK_DEADLOCK FALSE
SYMMETRY Symmetric
INVARIANTS
    CookieIsBacked
PROPERTIES
    ServedAsSelf
    LogoutEndsSession
