SPECIFICATION Spec
CONSTANTS
    Files = {"a.php"}
    Lines = {1, 2, 3}
    Prefix <- Apart
    Names <- NoKeys
    Target <- ToSecond
    Asked <- OnlyPlain
    Renumber = {3}
    Twice = FALSE
    EarlyResolve = FALSE
    MaxIds = 2
    MaxHits = 1
INVARIANTS
    AdminFindsItsOwn
