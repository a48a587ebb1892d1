\* Two pods on one node, another node, a device that may grow, and one call the
\* kubelet may give up on while the next one runs.
CONSTANTS
    Targets = {t1, t2}
    Staging = staging
    Calls = {c1, c2}
    ValidateAttachment = FALSE
    MaxAbandoned = 1
    MaxFormats = 2
    MaxSize = 2
    Volume = v
    Self = self
    Elsewhere = {d2}
    None = None
SPECIFICATION SystemSpec
SYMMETRY Symmetry
INVARIANTS SystemInv InMeansVolume OutMeansReleased GrownToDevice InUseMeansAttached
PROPERTIES LostOnlyUnreadOrAbandoned UnmountOKMeansUnmounted
