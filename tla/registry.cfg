SPECIFICATION RegistrySpec
CONSTANTS
    ip = ip
    host = host
    p1 = p1
    p2 = p2
    IPs = {ip}
    Hosts = {host}
    HeaderWord = host
    Blank = Blank
    Ports = {p1, p2}
    DefaultPort = p1
    NoPort = NoPort
    BadPort = BadPort
    Lists <- MCLists
    Requests = {r1, r2}
    MaxId = 2
    NoRow = NoRow
    StoreErrors = TRUE
SYMMETRY Symmetry
INVARIANTS RegistryTypeOK ListRegistered AddedArePolled RestoresIPs
VIEW RegistryView
