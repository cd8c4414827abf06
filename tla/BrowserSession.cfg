\* Two tabs over one cookie, each with the call of restore() and one more.
SPECIFICATION Spec
CONSTANTS
    Tabs = {t1, t2}
    Calls = {me, c1}
    Me = me
    Tokens = {k1, k2, k3, k4}
    Expired = Expired
    MaxFaults = 0
    None = None
SYMMETRY Symmetry
INVARIANTS
    OneRefreshPerTab
    NoLostWakeup
    CookieIsLive
PROPERTY
    RefusalHasCause
