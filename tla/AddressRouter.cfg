\* test2.cpp with its windows of 256 bytes scaled to 32, and its walk of 128 to 32;
\* test.cpp with its walk of 64 bytes, from the same address, scaled to 32.
SPECIFICATION Spec
CONSTANTS
    N_TARGETS = 4
    Window = 32
    SIZE = 32
    Margin = 16
    DirectFirst = 32
    DirectEnd = 64
INVARIANTS
    TypeOK
    DmiServesItsAddress
    DumpShowsMemory
PROPERTIES
    OneMemory
