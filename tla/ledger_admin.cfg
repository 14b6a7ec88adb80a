SPECIFICATION Spec
CONSTANTS
    Worker = {w1, w2}
    Building = {b1}
    Key = {k1}
    Slot = {h1}
    Request = {r1}
    Admin = {r1}
    None = None
    Window = 1
    ClockSkew = 0
    MaxTime = 2
INVARIANTS
    TypeOK
    OneOpenPerWorker
    WindowsAreSane
    CorrectionHasCause
PROPERTIES
    ImplementsPayroll
    EndIsFinal
    NoneStaysOverdue
    FlaggedIsPaidByAPerson
