SPECIFICATION Spec
CONSTANTS
    Worker = {w1, w2}
    Item = {i1}
    Admin = {a1, a2}
    Pass = {p1, p2}
    MaxRequests = 2
    MaxHandled = 1
    MaxMonth = 1
    MaxInDoubt = 1
    MaxCaptured = 1
    None = None
    Building = {1, 2, 3}
    MaxCents = 12
    MaxSeconds = 4
INVARIANTS
    NothingWrittenIsLost
    CopiesAreLostAnswers
    FiledUnderItsAuthor
    SpendHasItsMonth
PROPERTIES
    MonthNeverMoves
    OnlyStaleWritesLeaveTheTable
SYMMETRY Symmetry
