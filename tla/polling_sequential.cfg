SPECIFICATION QuietSpec
CONSTANTS
    IPs = {ip1}
    Ports = {a, b}
    Fields = {f1}
    Vals = {v1}
    FormData <- AnyForm
    Absent = Absent
    NoRow = NoRow
    Pollers = {p1}
    MaxId = 2
    MaxNow = 0
    MaxFailures = 1
    MaxRestarts = 1
    StoreErrors = FALSE
PROPERTIES KeepsUndetermined EventuallyPolled
