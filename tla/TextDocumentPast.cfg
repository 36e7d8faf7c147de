SPECIFICATION Spec
CONSTANTS
    Letters = {x}
    Trailing = {}
    LF = LF
    CR = CR
    MaxLength = 2
    MaxPatch = 1
    MaxVersion = 2
    Beyond = {"past"}
INVARIANTS
    TextMirrored
CHECK_DEADLOCK FALSE
