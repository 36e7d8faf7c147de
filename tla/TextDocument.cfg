SPECIFICATION Spec
CONSTANTS
    Letters = {x}
    Trailing = {}
    LF = LF
    CR = CR
    MaxLength = 4
    MaxPatch = 1
    MaxVersion = 2
    Beyond = {}
INVARIANTS
    TextMirrored
    IndexMatchesText
    PositionsRoundTrip
CHECK_DEADLOCK FALSE
