SPECIFICATION PhoneSpec
CONSTANTS
    w1 = w1
    w2 = w2
    k2 = k2
    Worker = {w1, w2}
    Building = {b1}
    Key = {k1}
    Owner <- OwnerOfKey
    Slot = {}
    Refresh = {p}
    Job = {j}
    Flow = {}
    Request = {p, j}
    Admin = {}
    None = None
    Window = 1
    ClockSkew = 0
    MaxTime = 2
    Drift = {0}
    Strict = {}
    PlaceState = {"live", "zone_unverified", "unknown_location"}
INVARIANTS
    PaidAsTapped
    DeliveredIsStored
    OpensItsOwnRows
PROPERTIES
    LandedHalfIsAccepted
