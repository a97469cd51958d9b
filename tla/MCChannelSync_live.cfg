SPECIFICATION FairSpec
CONSTANTS
    None = None
    Channels = {c1}
    Workers = {w1, w2}
    Handlers = {h1}
    Keys = {k1}
    Models = {m1}
    RemoteIds = {r1}
    KEKs = {kek1}
    MaxSyncRetries = 1
    EditKinds = {"key","models"}
    AttemptCap = 0
    MaxStrays = 0
    MaxFaults = 0
PROPERTIES SyncTerminates UploadGetsOutcome EditGetsOutcome
CHECK_DEADLOCK FALSE
