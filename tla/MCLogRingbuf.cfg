CONSTANTS
    Size = 7
    HeaderLen = 2
    Levels = {0, 1}
    MaxLen = 6
SPECIFICATION Spec
INVARIANTS
    TypeOK
    RecordsReadable
PROPERTY ImplementsLog
