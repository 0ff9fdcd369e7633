SPECIFICATION Spec
CONSTANTS
    Certs = {egais}
    Thresholds = {1}
    DAY = 1
    Expiries = {1}
    ChatIds = {c1}
    Routes <- MCRelay
    Runs = {r1, r2}
    Absent = Absent
    NoRow = NoRow
    MaxId = 2
    MaxNow = 0
    MaxRestarts = 1
    StoreErrors = TRUE
SYMMETRY Symmetry
INVARIANTS TypeOK RefIntegrity ScopeRespected MarkedWasAttempted RecordEndsIt
VIEW OverlapView
ACTION_CONSTRAINT StaysSet
