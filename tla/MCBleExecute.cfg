SPECIFICATION FairSpec
CONSTANTS
    poll = poll
    button = button
    service = service
    kitchenOld = kitchenOld
    kitchenNew = kitchenNew
    bedroom = bedroom
    kitchenClock = kitchenClock
    bedroomClock = bedroomClock
    Nobody = Nobody
    Callers <- MCCallers
    Quiet <- MCQuiet
    Coordinators <- MCCoordinators
    LoadsFor <- MCLoadsFor
    Addresses <- MCAddresses
    AddressOf <- MCAddressOf
    MaxRetries = 3
INVARIANTS
    TypeOK
    SessionsExclusive
    ConnectivityTruthful
    OneLinkPerClock
    AnswerFaithful
PROPERTIES
    NoRewriteAfterAnswer
    CallsRunDown
    EveryCallEnds
    ImplementsAccess
