SPECIFICATION SidecarSpec
CONSTANTS
    Boots = {c1, c2}
    MaxStarts = 3
PROPERTIES
    ReadySidecarKept
CHECK_DEADLOCK FALSE
