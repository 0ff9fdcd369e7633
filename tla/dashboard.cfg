SPECIFICATION Spec
CONSTANTS
    ip = ip
    p1 = p1
    IPs = {ip}
    Hosts = {host}
    HeaderWord = host
    Blank = Blank
    Ports = {p1}
    DefaultPort = p1
    NoPort = NoPort
    BadPort = BadPort
    Lists <- MCLists
    Requests = {r1, r2}
    MaxId = 1
    NoRow = NoRow
    StoreErrors = TRUE
    TTL = 1
    NoSession = NoSession
    NoCookie = NoCookie
    MaxToken = 2
    MaxClock = 2
    MaxRestarts = 1
SYMMETRY Symmetry
INVARIANTS TypeOK SessionExact ServesComplete
PROPERTIES SettingsSurvive NothingUnlessAdmitted
VIEW DashboardView
