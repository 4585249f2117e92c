SPECIFICATION Spec
CONSTANTS
    Packet <- Packets
    MaxJumps = 2
    FieldsLength = 1
    NoTarget = NoTarget
    Unreadable = Unreadable
    ads = ads  bad = bad  empty = empty
    Line <- Lines
    MaxLines = 3
    Name <- Names
    Local <- LocalNames
    Pattern = {ads, bad, empty}
    Valid = {ads, empty}
    Matches <- Matching
    EmptyPattern = empty
    qa = qa  qb = qb  ans = ans  tsig = tsig
    id = id  cookie = cookie
    ClientPacket <- ClientPackets
    UpstreamReply <- Replies
    Question <- Questions
    NoData = empty
    Id = {id}
    Data = {ans, tsig, cookie, empty}
    Token <- Tokens
    Logged <- Entries
    Message <- Messages
    Filter <- Filters
    MaxEntries = 3
    LastYear = 2410
INVARIANTS NameTypeOK NameRead RecordRead RoundTrip RulesTypeOK VerdictRight RuleNamed QueryFaithful CutReads RefusalReads WithinOffer ReportFaithful OutcomesAddUp DateRight
PROPERTIES RecordEnds OneSided
CHECK_DEADLOCK FALSE
