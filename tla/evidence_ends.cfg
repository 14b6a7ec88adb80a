SPECIFICATION FairSpec
CONSTANTS
    Shift = {s1}
    Phone = {p1}
    Ending = {"close", "switch", "stop"}
    Office = {}
    Challenge = {c1, c2, c3, c4, c5}
    None = None
    TTL = 1
    ClockSkew = 0
    Drift = 0
    Window = 1
    MaxTime = 2
PROPERTY
    ShiftEndsOnThePhone
CHECK_DEADLOCK FALSE
