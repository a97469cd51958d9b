SPECIFICATION Spec
CONSTANTS
    t1 = t1
    t2 = t2
    t3 = t3
    m1 = m1
    m2 = m2
    g1 = g1
    g2 = g2
    Blank = Blank
    None = None
    Types = {t1, t2, t3}
    SupportedTypes = {t1, t2}
    Words = {m1, m2, g1, g2}
    PlatformRows <- MCPlatformRows
    GrantRows <- MCGrantRows
    Requested <- MCRequested
INVARIANTS TypeOK AcceptedIsAdvertised
PROPERTIES StoredWithinWhitelist StoredInBoundGroup
