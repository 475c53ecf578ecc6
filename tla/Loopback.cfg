SPECIFICATION Spec
CHECK_DEADLOCK FALSE
CONSTANTS
    MaxHops <- MCMaxHops
PROPERTY LoopbackNotRedirected
