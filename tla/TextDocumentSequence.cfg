SPECIFICATION Spec
CONSTANTS
    Letters = {x, y}
    Trailing = {}
    LF = LF
    CR = CR
    MaxLength = 3
    MaxPatch = 1
    MaxVersion = 2
    Beyond = {"sequence"}
INVARIANTS
    TextMirrored
CHECK_DEADLOCK FALSE
