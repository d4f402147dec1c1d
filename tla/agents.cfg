CONSTANTS
    hotel = hotel
    flight = flight
    payment = payment
    Dispatch = {hotel, flight, payment}
    Agent <- AgentOf
    Asked <- TwoEach
    Blacklisted = {payment}
    Declined = {payment}
    Capacity <- OnSale
    MaxFailures = 2
SPECIFICATION FairSpec
INVARIANTS TypeOK AnswersExplained SuccessWasPossible
PROPERTIES ContractSpec Settles
\* All is answered, or lost, in the end.
