\* Up to three items of up to two slots, both known.
CONSTANTS
    Slots = {"Head", "Top"}
    DefaultSlots = {"Head", "Top"}
    Types = {"apparel", "weapon", "none"}
    Inventories <- MCInventories
SPECIFICATION Spec
INVARIANT ConflictsStayOff
CHECK_DEADLOCK FALSE
