\* Three controllers of any elevation, two fake times.
SPECIFICATION Spec
CONSTANTS
    c1 = c1
    c2 = c2
    c3 = c3
    Controllers = {c1, c2, c3}
    Deltas = {0, 5, 9}
    None = None
SYMMETRY ControllerSymmetry
INVARIANTS TypeOK ShownOffered PeersReach
PROPERTY ClocksFollow
