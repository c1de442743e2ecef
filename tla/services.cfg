\* Services registered, registered anew and made the default between blob calls.
SPECIFICATION Spec
CONSTANTS
    main = main
    spare = spare
    backup = backup
    Disks = {main, spare, backup}
    Name <- ServiceNames
    NoService = NoService
    MaxBlobs = 2
    MaxChanges = 4
    MaxFaults = 1
CHECK_DEADLOCK FALSE
INVARIANTS
    TypeOK
    BytesFollowName
    DefaultServiceServes
