SPECIFICATION GatewaySpec
CONSTANTS
    Enquiries = {e1, e2}
    Workers = {w1}
    None = None
    Outcomes = {"pending_approval"}
    MaxAttempts = 1
    MaxOverruns = 0
    MaxDbErrors = 0
    MaxStops = 1
    MaxReviews = 0
    Words = {"hello", "bye", "b"}
    Addresses = {"a@x", "b@x"}
    Keys = {"k"}
    Missing = Missing
    d1 = d1
    d2 = d2
    Deliveries = {d1, d2}
    Payloads <- SomePayloads
    MaxBroken = 1
SYMMETRY GatewaySymmetry
CHECK_DEADLOCK FALSE
INVARIANT GatewayTypeOK
INVARIANT OneEnquiryPerKey
INVARIANT NoOtherIsSwallowed
INVARIANT NoiseIsOneEnquiry
PROPERTY Spec
