SPECIFICATION Spec
CONSTANTS
    Urls <- mc_Urls
    Escaped <- mc_Escaped
    Unquoted <- mc_Unquoted
    Times = {1, 2, 3}
    Statuses = {200, 301, 302}
    Bodies <- mc_Bodies
    Missing = Missing
    Unknown = 0
    Lists <- mc_Lists
    Plans <- mc_Plans
    MaxRuns = 3
    None = None
INVARIANTS AsListed RevisitsResolve OneCopy Accounted
CHECK_DEADLOCK FALSE
