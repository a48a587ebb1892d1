\* One claim among up to three snapshots of others, two per page, two calls:
\* one that is waited for and one that was given up on.
CONSTANTS
    n1 = n1
    c1 = c1
    c2 = c2
    Other = Other
    Names = {n1}
    Calls = {c1, c2}
    PerPage = 2
    MaxId = 4
SPECIFICATION Spec
INVARIANTS Inv ConflictOnlyIfShrunk ReadyIsReal NoSnapshotLeftBehind ReadyIsListed
PROPERTIES SnapshotSettles
