\* One claim, three calls (one waited for, two given up on), two IDs so that a
\* duplicate can exist.  Claims may restore a snapshot that is smaller than
\* they are, ask for a range that is refused or below the smallest size, and be
\* expanded up to the largest size.
CONSTANTS
    giB = 2
    minimumVolumeSizeInBytes = 2
    defaultVolumeSizeInBytes = 4
    maximumVolumeSizeInBytes = 8
    n1 = n1
    c1 = c1
    c2 = c2
    c3 = c3
    s1 = s1
    None = None
    Names = {n1}
    Ids = {1, 2}
    Calls = {c1, c2, c3}
    Snapshots = {s1}
    SnapshotGiB = 1
    CreateRanges <- Mixed
    ExpandRanges <- Edges
INIT Init
NEXT Next
SYMMETRY Symmetry
INVARIANTS Inv OneVolumePerName NothingLeftBehind BoundIsReal CapacityAsRequested RangeHonoured PlainCreateIsIdempotent
