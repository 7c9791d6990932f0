\* The size of main.cpp.
SPECIFICATION Spec
CONSTANTS
    Size = 5
    Value <- MCValue
INVARIANTS
    TypeOK
PROPERTIES
    ShowsRecentValues
