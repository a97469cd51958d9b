SPECIFICATION Spec
CONSTANTS
    None = None
    Channels = {c1}
    Workers = {w1, w2}
    Handlers = {h1}
    Keys = {k1}
    Models = {m1}
    RemoteIds = {r1, r2}
    KEKs = {kek1, kek2}
    MaxSyncRetries = 2
    EditKinds = {"key"}
    AttemptCap = 2
    MaxStrays = 1
    MaxFaults = 2
SYMMETRY Symmetry
INVARIANTS TypeOK SyncedHoldsNoKey KeylessIsPublished RetryOvershootBounded
PROPERTIES WipeNeedsAcceptance DeletedRowFrozen KeepsCustody
CHECK_DEADLOCK FALSE
