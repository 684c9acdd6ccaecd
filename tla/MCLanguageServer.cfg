SPECIFICATION FairSpec
CONSTANTS
    a = a  b = b  q1 = q1
    Uris = {a, b}
    Opened = {a}
    Requests = {q1}
    Kinds = {"point", "versioned", "syntax", "project", "call"}
    EventCapacity = 2
    MaxDrained = 2
    MaxMessages = 4
INVARIANTS
    AnsweredOnce
    EditsReplayed
    QueryFaithful
    DiagnosticsSettle
PROPERTIES
    ReportsCurrent
    QueriesAnswered
CHECK_DEADLOCK FALSE
