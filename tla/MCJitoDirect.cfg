\* A tick is 500 ms and a call; a renewal margin of two ticks.
CONSTANTS
    Margin = 2
    MinWait = 1
    Lifetime = {1, 3}
    Ttl = {0, 8}
    CallLimit = 1
SPECIFICATION DirectSpec
INVARIANTS
    DirectTypeOK
    RegistrationKept
    BearerOutlivesCall
    AtMostOneLateBeat
PROPERTY RegistrationRecovers
