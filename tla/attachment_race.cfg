\* One volume, two droplets that compete for it, two calls in flight.
CONSTANTS
    v1 = v1
    d1 = d1
    d2 = d2
    c1 = c1
    c2 = c2
    None = None
    Volumes = {v1}
    Droplets = {d1, d2}
    Calls = {c1, c2}
    DoTag = TRUE
    MaxVolumesPerDroplet = 1
INIT Init
NEXT Next
SYMMETRY Symmetry
INVARIANTS OKMeansDone TaggedBeforePublished RaceInv
