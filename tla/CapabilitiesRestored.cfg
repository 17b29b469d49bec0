CONSTANTS
    h1 = h1
    r1 = r1
    Holder = {h1, r1}
    NPHolder = {r1}
    Kinds <- GptKind
    MaxCount = 2
    MaxEvents = 3
SPECIFICATION Spec
PROPERTY RestoredExactly
CHECK_DEADLOCK FALSE
