SPECIFICATION Spec
CONSTANTS
    mon = mon
    tue = tue
    early = early
    late = late
    cut = cut
    Off = Off
    Unsettled = Unsettled
    Workers = {w1, w2, w3}
    Resources = {r1}
    Services = {cut}
    Days = {mon, tue}
    Hours = {early, late}
    Dates = {t1}
    Weekday <- OnMonday
    WeekBodies <- MCWeeks
    Exceptions <- MCExceptions
    OfferBodies <- MCOffers
INVARIANTS
    NoOrphans
    ReplacedExactly
    HoursWereInForce
PROPERTY ImplementsWeekRegister
SYMMETRY MCSymmetry
