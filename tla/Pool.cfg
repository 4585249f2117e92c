SPECIFICATION Spec
CONSTANTS
    q1 = q1  q2 = q2  q3 = q3
    id1 = id1  id2 = id2
    Query = {q1, q2, q3}
    Id = {id1, id2}
    IdOf <- SharedId
    Dup = {q3}
    Conn = {c1, c2}
    NoConn = NoConn
    NoAnswer = NoAnswer
    Swaps = 1
    Cap = 1
INVARIANTS TypeOK AnswersOwn Exclusive NoCrossing Bounded RetriedFresh
CHECK_DEADLOCK FALSE
PROPERTIES QueryEnds
