SPECIFICATION Spec
CONSTANTS
    s1 = s1
    s2 = s2
    Shells = {s1, s2}
    MaxSecrets = 4
    MaxCases = 2
    None = None
    Torn = Torn
SYMMETRY Symmetry
INVARIANTS TypeOK PairServes
PROPERTIES SecretsPersist
