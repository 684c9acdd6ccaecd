CONSTANTS
    Count = 3
    Policies = {"WhenAll", "WhenAny", "FirstSuccessful", "ForwardFirst"}
SPECIFICATION CooperativeSpec
INVARIANTS
    ClosedBeforeDelivery
    DeliveryTruthful
PROPERTIES
    CommitmentStable
    LosersClosed
CHECK_DEADLOCK FALSE
