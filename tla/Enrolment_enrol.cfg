CONSTANTS
    MaxDelay = 3
    MaxFaults = 2
SPECIFICATION FairEnrolment
CHECK_DEADLOCK FALSE
INVARIANTS
    EnrolmentTypes
    IdentityLasts
PROPERTIES
    RevocationLasts
    AgentReturns
    RenewalsTakeEffect
