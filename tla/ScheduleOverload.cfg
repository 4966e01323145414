CONSTANTS
    Calls = {}
    Settings <- Quiet
SPECIFICATION Spec
INVARIANT OverloadBacksOff
