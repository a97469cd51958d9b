SPECIFICATION Spec
CONSTANTS
    None = None
    Channels = {c1, c2}
    Workers = {w1, w2}
    Handlers = {h1}
    Keys = {k1, k2}
    Models = {m1}
    RemoteIds = {r1, r2}
    KEKs = {kek1}
    MaxSyncRetries = 1
    EditKinds = {"models"}
    AttemptCap = 0
    MaxStrays = 0
    MaxFaults = 0
SYMMETRY Symmetry
INVARIANT SyncedKeyWasAccepted
CHECK_DEADLOCK FALSE
