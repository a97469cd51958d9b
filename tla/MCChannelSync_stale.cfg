SPECIFICATION Spec
CONSTANTS
    None = None
    Channels = {c1}
    Workers = {w1, w2}
    Handlers = {h1}
    Keys = {k1}
    Models = {m1, m2}
    RemoteIds = {r1}
    KEKs = {kek1}
    MaxSyncRetries = 5
    EditKinds = {"models"}
    AttemptCap = 0
    MaxStrays = 0
    MaxFaults = 0
INVARIANT SyncedMeansPublished
CHECK_DEADLOCK FALSE
