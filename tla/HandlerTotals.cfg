SPECIFICATION Spec
CONSTANTS
    q1 = q1  q2 = q2
    a = a  t = t
    v1 = v1  v2 = v2
    Query = {q1, q2}
    Earlier <- OneAfterOther
    Name = {a, t}
    NoName = NoName
    Asks <- NamedThenEmpty
    Version = {v1, v2}
    Verdict <- TwoLists
    Reply <- Answers
    NoReply = NoReply
INVARIANTS OneEntry
