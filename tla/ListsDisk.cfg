SPECIFICATION Spec
CONSTANTS
    u = u  a = a  b = b
    Url = {u}
    Config = {a}
    UrlsOf <- SameLists
    Content = {x}
    Tagged = {u}
    Poison = {}
    NoConfig = NoConfig
    Torn = Torn
    ErrorPage = ErrorPage
    NoBody = NoBody
    NoTag = NoTag
    NoEntry = NoEntry
    NoMeta = NoMeta
    Free = Free
    Events = {"disk", "crash", "cut"}
PROPERTIES SigtermExits
