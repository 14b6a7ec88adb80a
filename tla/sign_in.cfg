SPECIFICATION Spec
CONSTANTS
    Worker = {w1}
    Operator = {o1}
    Address = {a1}
    Code = {k1, k2}
    Challenge = {1}
    Request = {r1, r2}
    None = None
INVARIANTS
    CredentialsBuyOnce
    TrioDescribesOneCode
    LetGoMeansSignedOut
PROPERTIES
    PasswordsFollowTheAddress
CONSTRAINT OfficeAboutWorkers
SYMMETRY Symmetry
