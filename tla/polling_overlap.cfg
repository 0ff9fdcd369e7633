SPECIFICATION Spec
CONSTANTS
    IPs = {ip1}
    Ports = {a, b}
    Fields = {}
    Vals = {v1}
    FormData <- ClearForm
    Absent = Absent
    NoRow = NoRow
    Pollers = {p1, p2}
    MaxId = 2
    MaxNow = 1
    MaxFailures = 1
    MaxRestarts = 0
    StoreErrors = TRUE
SYMMETRY Symmetry
INVARIANTS TypeOK OnlyOwnDevice StreakConsistent
PROPERTIES StreakUnbroken KeepsTable
