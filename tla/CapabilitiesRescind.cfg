CONSTANTS
    h1 = h1
    r1 = r1
    Holder = {h1, r1}
    NPHolder = {r1}
    Kinds <- NodeKind
    MaxCount = 2
    MaxEvents = 3
SPECIFICATION Spec
PROPERTY RescindedForGood
CHECK_DEADLOCK FALSE
