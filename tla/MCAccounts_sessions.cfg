SPECIFICATION FairSpec
CONSTANTS
    None = None
    Clients = {c1, c2}
    Names = {root, n1}
    Root = root
    Passwords = {p1}
    RootPassword = p1
    RequestedRoles = {1}
    MaxAccounts = 3
INVARIANTS TypeOK UsernamesUnique SessionEarned
PROPERTIES DeletedStaysDeleted ChangesAreGiven RevokedRunsDown RevocationTakesEffect
