SPECIFICATION Spec
CONSTANTS
    Sends <- AllKeys
    Calls = {"inchar", "inkey"}
    Prompt = TRUE
    Patient = TRUE
    MaxKeys = 3
INVARIANTS
    TypeOK
    DeliveredInOrder
PROPERTIES
    EveryKeyDelivered
    InkeyReturns
CHECK_DEADLOCK FALSE
