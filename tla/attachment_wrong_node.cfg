\* A volume attached by one call while another call is on its way to attach it elsewhere.
CONSTANTS
    v1 = v1
    d1 = d1
    d2 = d2
    c1 = c1
    c2 = c2
    None = None
    Volumes = {v1}
    Droplets = {d1, d2}
    Calls = {c1, c2}
    DoTag = FALSE
    MaxVolumesPerDroplet = 1
INIT Init
NEXT Next
SYMMETRY Symmetry
INVARIANTS PublishOKMeansAttached
