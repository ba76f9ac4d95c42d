\* Two types, one failure, and one request for the types when the player asks
\* for another, besides those that follow a creation.
CONSTANTS
    Levels = {0, 1}
    Colors <- TwoColors
    Parts <- TwoParts
    Names = {"sword", "axe"}
    Properties = {"type"}
    NoName = "no name"
    None = None
    Typed = "typed"
    MaxTypes = 2
    MaxAsked = 1
    MaxFailures = 1
SPECIFICATION MCSpec
INVARIANTS
    TypeOK
    ItemOfType
    PropertiesAsShown
    CloseHasMenu
    DataResolves
PROPERTY NewTypeIsListed
CHECK_DEADLOCK FALSE
