SPECIFICATION Spec
CONSTANTS
    Certs = {egais}
    Thresholds = {1}
    DAY = 1
    Expiries = {1}
    ChatIds = {c1}
    Routes <- MCDirect
    Runs = {r1, r2}
    Absent = Absent
    NoRow = NoRow
    MaxId = 1
    MaxNow = 0
    MaxRestarts = 0
    StoreErrors = FALSE
INVARIANT OnlyOnce
