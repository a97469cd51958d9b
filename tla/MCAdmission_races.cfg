SPECIFICATION Spec
CONSTANTS
    None = None
    Handlers = {h1, h2}
    Keys = {k1, k2}
    Tags = {t1}
    Quotas = {2}
    ProbeLimit = 2
    MaxRows = 4
    MaxGrants = 1
    MaxRotations = 1
    MaxFaults = 1
SYMMETRY Symmetry
INVARIANTS TypeOK NumbersWithinCount QuotaOvershootBounded SameKeyBounded LeftoversBounded
