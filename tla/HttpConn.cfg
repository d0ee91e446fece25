CONSTANTS
    Streams <- MCStreams
    READ_BUFFER_SIZE = 14
    Length <- MCLength
    INT_MAX = 40
    HeadLen = 3
    FileLen = 2
    MaxClients = 2
SPECIFICATION Spec
INVARIANTS CutsDoNotMatter AnswersWhole
CHECK_DEADLOCK FALSE
