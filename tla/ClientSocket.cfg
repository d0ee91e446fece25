CONSTANTS
    MaxFd = 3
    m_portList <- MCPorts
    FirstPort = 1
    MaxStarts = 3
SPECIFICATION SocketSpec
INVARIANT OwnDescriptors
PROPERTY StopReturns
CHECK_DEADLOCK FALSE
