SPECIFICATION Spec
CONSTANTS
    Sends <- AllKeys
    Calls = {"inkey"}
    Prompt = TRUE
    Patient = TRUE
    MaxKeys = 2
INVARIANTS
    OnlyPressedKeys
CHECK_DEADLOCK FALSE
