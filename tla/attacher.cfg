\* Two volumes that move between two droplets, two calls: one that is waited
\* for and one that was given up on, or one for each volume.
CONSTANTS
    v1 = v1
    v2 = v2
    d1 = d1
    d2 = d2
    c1 = c1
    c2 = c2
    None = None
    Volumes = {v1, v2}
    Droplets = {d1, d2}
    Calls = {c1, c2}
    DoTag = FALSE
    MaxVolumesPerDroplet = 1
INIT COInit
NEXT CONext
SYMMETRY Symmetry
INVARIANTS CleanWhenDetached AttachedWhenPublished OneNodeAtATime NoWrongDroplet DeletedMeansGone Inv
PROPERTIES ImplementsLifecycle
