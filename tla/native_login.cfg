\* Two accounts the server knows and one it does not; the form is sent three
\* times.
CONSTANTS
    Users = {alice, bob}
    Strangers = {carol}
    NoUser = NoUser
    MaxTries = 3
SPECIFICATION FairSpec
INVARIANTS
    TypeOK
    NoCircularWait
    UserAgrees
PROPERTIES
    UserStays
    ImplementsLoginSession
    LoginAnswered
    Exits
