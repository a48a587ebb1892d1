\* One volume, one droplet, two calls: one that is waited for and one that was
\* given up on; no symmetry, because the properties are temporal.
CONSTANTS
    v1 = v1
    d1 = d1
    c1 = c1
    c2 = c2
    None = None
    Volumes = {v1}
    Droplets = {d1}
    Calls = {c1, c2}
    DoTag = TRUE
    MaxVolumesPerDroplet = 1
SPECIFICATION LiveSpec
PROPERTIES EveryCallReturns VolumeSettles
