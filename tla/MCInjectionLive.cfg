\* Neither crashes nor late failures.
SPECIFICATION FairSpec
CONSTANTS
    None = None
    p1 = p1
    p2 = p2
    app = app
    system = system
    remote = remote
    wow64 = wow64
    Pids = {p1, p2}
    Deltas <- OneDelta
    Images = {app, remote}
    SystemImages = {}
    NativeImages = {app, remote}
    SessionImages = {app}
    Faults = {"quickReuse", "elevationChange", "noThread"}
INVARIANTS UntrackedReal UnreachedReal
PROPERTIES BootstrapBinds ExitedPruned QuitRestores
