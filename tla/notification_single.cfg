SPECIFICATION FairSpec
CONSTANTS
    Certs = {egais}
    Thresholds = {0, 1}
    DAY = 2
    Expiries = {2, 3}
    ChatIds = {c1}
    Routes <- MCDirect
    Runs = {r1}
    Absent = Absent
    NoRow = NoRow
    MaxId = 1
    MaxNow = 4
    MaxRestarts = 1
    StoreErrors = FALSE
INVARIANTS OnceUnlessCutShort AlertWindow
PROPERTIES DueIsAttempted KeepsLedger
ACTION_CONSTRAINT SettingsStay
