SPECIFICATION ReloadedSpec
CONSTANTS
    b1 = b1
    b2 = b2
    t1 = t1
    t2 = t2
    t3 = t3
    d1 = d1
    Browser = {b1, b2}
    Tab = {t1, t2, t3}
    BrowserOf <- TwoDevices
    Sid = {d1, d2, d3}
    NoSid = NoSid
    Request = {q1, q2, q3}
    Overtaking = FALSE
    MaxClock = 2
    MaxMishaps = 1
SYMMETRY Interchangeable
INVARIANT SpentTokensResolve
INVARIANT NoFalseAlarm
INVARIANT RacersConverge
INVARIANT EndedMeansRefused
PROPERTY EndedStaysEnded
CHECK_DEADLOCK FALSE
