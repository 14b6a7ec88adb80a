SPECIFICATION AgentSpec
CONSTANTS
    Plan = {p1}
    Worker = {w1}
    Building = {b1}
    Client = {c1, h1, h2}
    Agent = {h1, h2}
    RequestId = {r1}
    Span <- Spans
    MaxTime = 1
    MaxVersion = 2
    None = None
INVARIANTS
    RecordIsTrue
    AnswersAgree
    OneAtWork
PROPERTIES
    CallsEnd
