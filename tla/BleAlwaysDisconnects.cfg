SPECIFICATION Spec
CONSTANTS
    poll = poll
    button = button
    service = service
    kitchenOld = kitchenOld
    kitchenNew = kitchenNew
    bedroom = bedroom
    kitchenClock = kitchenClock
    bedroomClock = bedroomClock
    Nobody = Nobody
    Callers <- MCCallers
    Quiet <- MCQuiet
    Coordinators <- MCCoordinators
    LoadsFor <- MCLoadsFor
    Addresses <- MCAddresses
    AddressOf <- MCAddressOf
    MaxRetries = 3
INVARIANT
    AlwaysDisconnects
