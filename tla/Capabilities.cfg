CONSTANTS
    h1 = h1
    r1 = r1
    Holder = {h1, r1}
    NPHolder = {r1}
    Kinds <- SoundKinds
    MaxCount = 2
    MaxEvents = 3
SPECIFICATION Spec
INVARIANTS CountUsedExact NPCountBound
PROPERTIES AuthorityExact RestartGivesNoMore
CHECK_DEADLOCK FALSE
