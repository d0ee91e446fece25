CONSTANTS
    m_process_number = 3
    MaxConns = 3
SPECIFICATION Spec
INVARIANTS AcceptFindsConnection ParentOutlives
PROPERTIES StopsWithLastChild TerminateEndsAll
CHECK_DEADLOCK FALSE
