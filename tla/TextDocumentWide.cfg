SPECIFICATION Spec
CONSTANTS
    Letters = {x, z}
    Trailing = {z}
    LF = LF
    CR = CR
    MaxLength = 3
    MaxPatch = 1
    MaxVersion = 2
    Beyond = {}
INVARIANTS
    TextMirrored
CHECK_DEADLOCK FALSE
