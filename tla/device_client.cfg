SPECIFICATION Spec
CONSTANTS
    o1 = o1
    o2 = o2
    Owners = {o1, o2}
    Expiry <- MCExpiry
    Blank = Blank
    Absent = Absent
    Kilo = 10
    Limit = 100
    MaxRows = 2
INVARIANTS TypeOK ErrorMeansNothing DatesOfOwner OrgOfOwner
PROPERTY KeepsAnswer
