SPECIFICATION Spec
CONSTANTS
    s1 = s1
    s2 = s2
    caseA = caseA
    caseB = caseB
    old = old
    new = new
    Shells = {s1, s2}
    Cases = {caseA, caseB}
    Images = {old, new}
    None = None
SYMMETRY Symmetry
INVARIANTS TypeOK OverlapsAgree LoneCommandSucceeds
