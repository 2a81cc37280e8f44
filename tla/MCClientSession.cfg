SPECIFICATION FairSpec
CONSTANTS
    c1 = c1
    c2 = c2
    Conn <- MCConn
    MaxTxn = 3
    MaxStatements <- MCMaxStatements
INVARIANTS
    SessionInv
    Handoff
    AnsweredAsAsked
PROPERTIES
    Accepted
    SingleStatementEnds
CHECK_DEADLOCK FALSE
