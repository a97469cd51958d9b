SPECIFICATION Spec
CONSTANTS
    None = None
    Clients = {c1, c2}
    Ids = {p1}
    Suppliers = {s1}
    Urls = {u1, u2}
    Tokens = {t1, t2}
    MaxChannels = 1
SYMMETRY Symmetry
INVARIANTS TypeOK RowIsAsAsked TokenlessIsUnfinished
PROPERTIES TokenOnlyReplaced LeftOnlyShrinks
