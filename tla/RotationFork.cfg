\* Expected to be violated: OneLiveSuccessor.
SPECIFICATION Spec
CONSTANTS
    Emails = {e1, e2}
    Passwords = {w1, w2}
    Tokens = {t1, t2, t3}
    Requests = {r1, r2}
    MaxFaults = 1
    None = None
SYMMETRY Symmetry
INVARIANT
    OneLiveSuccessor
