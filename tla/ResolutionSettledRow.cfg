SPECIFICATION Spec
CONSTANTS
    Kinds = {"STANDARD"}
    Servers = {}
    MaxDisturbances = 2
PROPERTIES
    SettledRowFinal
CHECK_DEADLOCK FALSE
