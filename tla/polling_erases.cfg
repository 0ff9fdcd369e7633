SPECIFICATION Spec
CONSTANTS
    IPs = {ip1}
    Ports = {a}
    Fields = {f1}
    Vals = {v1}
    FormData <- NoForm
    Absent = Absent
    NoRow = NoRow
    Pollers = {p1, p2}
    MaxId = 1
    MaxNow = 0
    MaxFailures = 1
    MaxRestarts = 0
    StoreErrors = FALSE
PROPERTY NeverErases
