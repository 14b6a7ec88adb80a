SPECIFICATION Spec
CONSTANTS
    Shift = {s1}
    Phone = {p1, p2}
    Ending = {"switch"}
    Office = {o1}
    Challenge = {c1, c2, c3}
    None = None
    TTL = 0
    ClockSkew = 0
    Drift = 1
    Window = 0
    MaxTime = 1
INVARIANTS
    SettledShowsItsProof
    PhotoAnswersItsChallenge
PROPERTY
    ConsumedProofIsFresh
CHECK_DEADLOCK FALSE
SYMMETRY Symmetry
