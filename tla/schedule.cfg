SPECIFICATION Spec
CONSTANTS
    Plan = {p1, p2}
    Worker = {w1, w2}
    Building = {b1}
    Client = {c1, c2}
    Span <- Spans
    MaxTime = 1
    MaxVersion = 2
    None = None
INVARIANTS
    NoDoubleBooking
PROPERTIES
    EditsSeeWhatTheyReplace
    ImplementsRoster
