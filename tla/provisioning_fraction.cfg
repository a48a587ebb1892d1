\* A claim for one and a half GiB, repeated.
CONSTANTS
    giB = 2
    minimumVolumeSizeInBytes = 2
    defaultVolumeSizeInBytes = 4
    maximumVolumeSizeInBytes = 8
    n1 = n1
    c1 = c1
    c2 = c2
    s1 = s1
    None = None
    Names = {n1}
    Ids = {1, 2}
    Calls = {c1, c2}
    Snapshots = {}
    SnapshotGiB = 1
    CreateRanges <- Fractional
    ExpandRanges <- Larger
INIT Init
NEXT Next
SYMMETRY Symmetry
INVARIANTS CreateIsIdempotent
