SPECIFICATION Spec
CONSTANTS
    Card = {c1, c2}
    Old = {c1}
    Building = {b1, b2}
    Tap = {t1}
    Phone = {p1}
    Office = {o1}
    None = None
INVARIANTS
    CardMeansOneThing
    TappedDoorsWereScanned
    ProvedWhereItHangs
PROPERTIES
    HistoryKeepsItsBuilding
SYMMETRY Symmetry
