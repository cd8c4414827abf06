\* Accounts and sessions, with one fault.
SPECIFICATION Spec
CONSTANTS
    Emails = {e1, e2, e3}
    Passwords = {w1, w2}
    Tokens = {t1, t2}
    Requests = {r1, r2}
    MaxFaults = 1
    None = None
SYMMETRY Symmetry
INVARIANTS
    AlwaysAnAdmin
    AdminsBounded
    StaleSessionHasCause
PROPERTY
    ReplayIsRefused
