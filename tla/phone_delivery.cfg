SPECIFICATION FairPhoneSpec
CONSTANTS
    w1 = w1
    w2 = w2
    k2 = k2
    Worker = {w1}
    Building = {b1}
    Key = {k1, k3}
    Owner <- OwnerOfKey
    Slot = {}
    Refresh = {}
    Job = {j}
    Flow = {}
    Request = {j}
    Admin = {}
    None = None
    Window = 1
    ClockSkew = 0
    MaxTime = 2
    Drift = {0, 1}
    Strict = {}
    PlaceState = {"live", "unknown_location"}
PROPERTIES
    EveryTapIsDelivered
