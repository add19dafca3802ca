SPECIFICATION Spec
CONSTANTS
    r1 = r1
    Keep = Keep
    Workers = {w1, w2}
    Resources = {r1}
    Times = {0, 1, 2, 3, 4, 7, 8}
    Instant <- SpringForward
    Local <- SpringLocal
    Day = 6
    Dates = {0, 1}
    Opens = 0
    Closes = 6
    Durations = {2}
    Requests <- MCRequests
    Edits <- MCEdits
    MaxBookings = 3
INVARIANTS
    OverlapOnlyFromRaces
    OnlyEditsPoison
    
PROPERTY ImplementsCalendar
SYMMETRY MCSymmetry
