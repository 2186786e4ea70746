\* An inject that fails after it has written the delta.
SPECIFICATION Spec
CONSTANTS
    None = None
    p1 = p1
    p2 = p2
    app = app
    system = system
    remote = remote
    wow64 = wow64
    Pids = {p1}
    Deltas <- OneDelta
    Images = {app}
    SystemImages = {}
    NativeImages = {app}
    SessionImages = {app}
    Faults = {"lateFailure"}
INVARIANT UntrackedReal
