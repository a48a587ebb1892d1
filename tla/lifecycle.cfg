\* Two RPCs that meet in readyMu, and two health requests.
CONSTANTS
    r1 = r1
    r2 = r2
    h1 = h1
    h2 = h2
    k1 = k1
    None = None
    Rpcs = {r1, r2}
    Healths = {h1, h2}
    Checks = {k1}
SPECIFICATION Spec
INVARIANTS Inv CleanExitCutsNothing 
PROPERTIES ShutdownCompletes ServeErrorEndsRun
