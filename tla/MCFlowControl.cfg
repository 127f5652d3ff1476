SPECIFICATION FlowSpec
CONSTANTS
    NStreams = 2
    CIRCWINDOW_START = 8
    CIRCWINDOW_INCREMENT = 4
    STREAMWINDOW_START = 5
    STREAMWINDOW_INCREMENT = 5
    CELL_QUEUE_HIGHWATER_SIZE = 4
    CELL_QUEUE_LOWWATER_SIZE = 1
    max_circuit_cell_queue_size = 6
    circwindow = 4
    OutbufFull = 0
    AppData <- MCAppData
    ReadSizes = {6}
    LinkRoom = 1
    Closers <- MCClosers
INVARIANTS
    FlowTypeOK
    CircuitSurvives
    CreditConserved
    RestingCircuitIsOpen
    OnlyFullQueuesStrand
PROPERTIES
    ImplementsCredit
    SendmeResumes
CHECK_DEADLOCK FALSE
