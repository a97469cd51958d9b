SPECIFICATION Spec
CONSTANTS
    None = None
    Channels = {c1}
    Workers = {w1}
    Handlers = {h1}
    Keys = {k1}
    Models = {m1}
    RemoteIds = {r1}
    KEKs = {kek1}
    MaxSyncRetries = 5
    EditKinds = {"models"}
    AttemptCap = 5
    MaxStrays = 0
    MaxFaults = 0
PROPERTY SuccessWipesKey
CHECK_DEADLOCK FALSE
