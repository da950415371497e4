\* The scraper and a server on a fresh volume, one migration as in the code,
\* up to three faults anywhere.  When the faults are used up and everyone
\* serves, the model rests: StartupConverges shows that it rests nowhere else.
CONSTANTS
    scraper = scraper
    server = server
    Processes = {scraper, server}
    LastVersion = 1
    MaxFaults = 3
    NoWriter = NoWriter
SPECIFICATION FairSpec
INVARIANTS
    TypeOK
    SchemaWhole
    ReadyIsMigrated
PROPERTIES
    StartupConverges
    ProcessLeaves
CHECK_DEADLOCK FALSE
