SPECIFICATION Spec
CONSTANTS
    Files = {"a.php"}
    Lines = {1, 2}
    Prefix <- Apart
    Names <- Keys
    Target <- ToSecond
    Asked <- OnlyPlain
    Renumber = {}
    Twice = TRUE
    EarlyResolve = FALSE
    MaxIds = 2
    MaxHits = 1
INVARIANTS
    FetchFindsSomething
