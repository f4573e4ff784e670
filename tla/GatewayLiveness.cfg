SPECIFICATION FairGatewaySpec
CONSTANTS
    Enquiries = {e1}
    Workers = {w1}
    None = None
    Outcomes = {"pending_approval"}
    MaxAttempts = 1
    MaxOverruns = 0
    MaxDbErrors = 1
    MaxStops = 1
    MaxReviews = 0
    Words = {"hello", "bye", "b"}
    Addresses = {"a@x", "b@x"}
    Keys = {"k"}
    Missing = Missing
    d1 = d1
    d2 = d2
    Deliveries = {d1, d2}
    Payloads <- OneMessage
    MaxBroken = 1
CHECK_DEADLOCK FALSE
PROPERTY EveryDeliveryLands
