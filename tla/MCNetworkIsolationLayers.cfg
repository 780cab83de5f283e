SPECIFICATION Spec
CONSTANTS
    c1 = c1
    c2 = c2
    domain = domain
    public = public
    None = None
    Captures = {c1, c2}
    Profiles = {domain, public}
    UserPolicy <- MCUserPolicy
    Overlap = TRUE
    MaxMishaps = 0
INVARIANTS IsolationProtected
CHECK_DEADLOCK FALSE
