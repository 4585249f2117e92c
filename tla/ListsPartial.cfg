SPECIFICATION Spec
CONSTANTS
    u = u  a = a  b = b
    Url = {u}
    Config = {a, b}
    UrlsOf <- SameLists
    Content = {x, y}
    Tagged = {u}
    Poison = {}
    NoConfig = NoConfig
    Torn = Torn
    ErrorPage = ErrorPage
    NoBody = NoBody
    NoTag = NoTag
    NoEntry = NoEntry
    NoMeta = NoMeta
    Free = Free
    Events = {"expire"}
SYMMETRY ContentSymmetry
INVARIANTS NoPartialList
