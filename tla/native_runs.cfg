\* The same, for what the main thread does when the server goes.
CONSTANTS
    Users = {alice}
    Strangers = {carol}
    NoUser = NoUser
    MaxTries = 2
SPECIFICATION FairSpec
PROPERTY MainRuns
