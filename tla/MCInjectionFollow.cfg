\* Controllers of one elevation; crashes, late failures and lost threads.
SPECIFICATION Spec
CONSTANTS
    None = None
    p1 = p1
    p2 = p2
    app = app
    system = system
    remote = remote
    wow64 = wow64
    Pids = {p1, p2}
    Deltas <- OneDelta
    Images = {app, system, remote, wow64}
    SystemImages = {system}
    NativeImages = {app, system, remote}
    SessionImages = {app, system, wow64}
    Faults = {"crash", "lateFailure", "noThread"}
SYMMETRY PidSymmetry
INVARIANTS HookFollows NoSystemHooked
