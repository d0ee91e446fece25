CONSTANTS
    c1 = c1
    c2 = c2
    c3 = c3
    Conns = {c1, c2, c3}
    Nil = Nil
    MaxFd = 2
    MaxMsgs <- MCMaxMsgs
    Exits <- MCExits
SPECIFICATION EchoSpec
INVARIANTS ClientsAreOpen EchoInOrder
PROPERTY EverythingIsRead
CHECK_DEADLOCK FALSE
