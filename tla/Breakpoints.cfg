SPECIFICATION Spec
CONSTANTS
    Files = {"a.php"}
    Lines = {1, 2}
    Prefix <- Apart
    Names <- Keys
    Target <- ToSecond
    Asked <- OnlySecond
    Renumber = {}
    Twice = FALSE
    EarlyResolve = TRUE
    MaxIds = 3
    MaxHits = 2
INVARIANTS
    TypeOK
    AdminFindsItsOwn
    NoOrphans
PROPERTIES
    ImplementsTable
