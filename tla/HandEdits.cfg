SPECIFICATION Spec
CONSTANTS
    letter = letter
    Pipe = Pipe
    Slash = Slash
    Dash = Dash
    Characters <- Written
    Ids <- TwoIds
    DomainOrder <- UIFirst
    Alphabet <- ByName
    Texts = {t1, t2}
    Hands <- Entries
    MaxCatalogued = 4
    MaxEdits = 2
SYMMETRY Wordings
INVARIANT EveryHandEditStands
