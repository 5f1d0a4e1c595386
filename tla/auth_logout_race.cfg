SPECIFICATION SignedInSpec
CONSTANTS
    b1 = b1
    b2 = b2
    t1 = t1
    t2 = t2
    t3 = t3
    d1 = d1
    Browser = {b1}
    Tab = {t1, t2}
    BrowserOf <- TwoTabs
    Sid = {d1, d2}
    NoSid = NoSid
    Request = {q1, q2, q3}
    Overtaking = FALSE
    MaxClock = 2
    MaxMishaps = 0
SYMMETRY Interchangeable
INVARIANT LogoutEndsSession
CHECK_DEADLOCK FALSE
