SPECIFICATION Spec
CONSTANTS
    u = u  a = a  b = b
    Url = {u}
    Config = {a, b}
    UrlsOf <- AddsList
    Content = {x, y}
    Tagged = {u}
    Poison = {}
    NoConfig = NoConfig
    Torn = Torn
    ErrorPage = ErrorPage
    NoBody = NoBody
    NoTag = NoTag
    NoEntry = NoEntry
    NoMeta = NoMeta
    Free = Free
    Events = {"cut", "page", "badfile", "expire"}
INVARIANTS CacheConsistent
SYMMETRY ContentSymmetry
