SPECIFICATION CrmSpec
CONSTANTS
    Roster <- SomeRoster
    UserIds = {1, 2}
    Browsers = {b1}
    None = None
    MaxStarts = 2
    first = first
    second = second
    c1 = c1
    c2 = c2
    c3 = c3
    c4 = c4
    Enquiries = {first, second}
    Workers = {w1, w2}
    Teams = {"sales"}
    ContactIds = {c1, c2, c3, c4}
    CompanyIds = {X1, X2}
    Values = {"a@x", "x", "1", "2", "A", "B", "X"}
    TooShort = {"2"}
    Offers <- SomeOffers
    Book <- SomeBook
    DomainOf <- SomeDomain
    MaxRuns <- SomeRuns
SYMMETRY CrmSymmetry
CHECK_DEADLOCK FALSE
INVARIANT CrmTypeOK
INVARIANT OneContactPerAddress
INVARIANT RecordNamesItsSender
INVARIANT OwnerIsOfTheTeam
INVARIANT DecidedByItsTeam
PROPERTY KnownValuesStay
INVARIANT EverybodyIsThere
INVARIANT ReferencesHold
INVARIANT TwiceOnlyIfNamed
INVARIANT RefusedOnlyByResolution
PROPERTY StaffSpec
INVARIANT CompaniesAgree
