SPECIFICATION Spec
CONSTANTS
    MaxClients = 3
    MaxFails = 2
    MaxEdits = 1
    MaxFaults = 1
CHECK_DEADLOCK FALSE
PROPERTIES
    FirstRegisterCarries
