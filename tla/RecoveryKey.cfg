\* What the tests say of an update that fails
SPECIFICATION Spec
CONSTANTS
    Request = {"r1"}
    MaxCrashes = 0
INVARIANT FailedUpdateIsUnsuccessful
CHECK_DEADLOCK FALSE
