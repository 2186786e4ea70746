\* Every fault, two PIDs, three deltas.
SPECIFICATION Spec
CONSTANTS
    None = None
    p1 = p1
    p2 = p2
    app = app
    system = system
    remote = remote
    wow64 = wow64
    Pids = {p1, p2}
    Deltas <- EveryDelta
    Images = {app}
    SystemImages = {}
    NativeImages = {app}
    SessionImages = {app}
    Faults <- AllFaults
INVARIANTS TypeOK EntryPublished EntryLoaded
PROPERTY ClocksFollow
