SPECIFICATION FairSpec
CONSTANTS
    c1 = c1
    c2 = c2
    domain = domain
    public = public
    None = None
    Captures = {c1, c2}
    Profiles = {domain, public}
    UserPolicy <- MCUserPolicy
    Overlap = FALSE
    MaxMishaps = 3
INVARIANTS TypeOK PolicyIsKept IsolationProtected CleanWhenIdle
PROPERTIES PolicyComesBack
CHECK_DEADLOCK FALSE
