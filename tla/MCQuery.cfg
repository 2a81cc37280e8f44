SPECIFICATION Spec
CONSTANTS
    Schema <- MCSchema
    TabSeq <- MCTabSeq
    Prefixed <- MCPrefixed
    Stmts <- MCStmts
    Later <- MCLater
    Dbs <- MCDbs
    Junk <- MCJunk
    MaxWrites = 3
INVARIANTS
    AnswerRight
    RefusedRightly
    ExplainStable
    CrashOnly
    WritesRight
CHECK_DEADLOCK FALSE
