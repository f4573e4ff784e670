SPECIFICATION StaffSpec
CONSTANTS
    Roster <- SomeRoster
    UserIds = {1, 2, 3, 4}
    Browsers = {b1}
    None = None
    MaxStarts = 2
CHECK_DEADLOCK FALSE
INVARIANT SeedIsIdempotent
