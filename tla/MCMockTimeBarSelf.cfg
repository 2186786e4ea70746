\* A time picked in a controller that is injected into itself.
SPECIFICATION Spec
CONSTANTS
    Forward = 6
    Back = 16
    Saving = 4
    Second = 2
    MaxTime = 24
    MaxDelta = 28
PROPERTY AppliedAlwaysShown
