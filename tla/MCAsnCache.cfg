CONSTANTS
    c1 = c1
    c2 = c2
    pub = pub
    other = other
    priv = priv
    six = six
    Callers = {c1,c2}
    Private = {priv}
    Ipv6 = {six}
    Public = {pub,other}
    Asns = {1,2}
    Batches <- MCBatches
SPECIFICATION FairSpec
INVARIANTS TypeOK OnlyAnswers LearnedStaysAnswered
PROPERTIES CallsReturn
