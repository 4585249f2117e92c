SPECIFICATION Spec
CONSTANTS
    u = u  a = a  b = b
    Url = {u}
    Config = {a, b}
    UrlsOf <- SameLists
    Content = {x, y}
    Tagged = {u}
    Poison = {y}
    NoConfig = NoConfig
    Torn = Torn
    ErrorPage = ErrorPage
    NoBody = NoBody
    NoTag = NoTag
    NoEntry = NoEntry
    NoMeta = NoMeta
    Free = Free
    Events = {"crash", "badfile", "expire"}
INVARIANTS TypeOK CleanMeansSaved KeepsGoodCopies
SYMMETRY ConfigSymmetry
