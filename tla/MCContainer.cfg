\* Two containers of up to three layers, and a command in each
CONSTANTS
    Requests <- MCRequests
    MaxContainers = 2
    MaxCommands = 1

SPECIFICATION Spec

INVARIANTS
    LayersStackInPushOrder
    TeardownIsOrderly
    StatusIsTheCommands
    TerminalIsGivenBack

PROPERTY StatusReturns

\* The program ends, and a command may run forever
CHECK_DEADLOCK FALSE
