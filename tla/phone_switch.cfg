SPECIFICATION PhoneSpec
CONSTANTS
    w1 = w1
    w2 = w2
    k2 = k2
    Worker = {w1}
    Building = {b1, b2}
    Key = {k1, k3}
    Owner <- OwnerOfKey
    Slot = {}
    Refresh = {p}
    Job = {}
    Flow = {p}
    Request = {p}
    Admin = {}
    None = None
    Window = 1
    ClockSkew = 0
    MaxTime = 1
    Drift = {0, 1}
    Strict = {k1}
    PlaceState = {"live"}
INVARIANTS
    PaidAsTapped
    OnlyOverwrittenIsAGuess
SYMMETRY EitherBuilding
