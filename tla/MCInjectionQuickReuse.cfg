\* A PID reused between the checks of inject and the load.
SPECIFICATION Spec
CONSTANTS
    None = None
    p1 = p1
    p2 = p2
    app = app
    system = system
    remote = remote
    wow64 = wow64
    Pids = {p1}
    Deltas <- OneDelta
    Images = {app, system}
    SystemImages = {system}
    NativeImages = {app, system}
    SessionImages = {app, system}
    Faults = {"quickReuse"}
INVARIANT NoSystemHooked
