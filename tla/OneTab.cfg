\* One tab with a lost answer, a failing call or a reload; no symmetry, for liveness.
SPECIFICATION FairSpec
CONSTANTS
    Tabs = {t1}
    Calls = {me, c1}
    Me = me
    Tokens = {k1, k2, k3, k4}
    Expired = Expired
    MaxFaults = 1
    None = None
PROPERTIES
    HalfSessionIsALateAnswer
    EverythingSettles
