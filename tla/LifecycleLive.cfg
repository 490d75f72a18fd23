SPECIFICATION FairSpec
CONSTANTS
    Clients = {"http"}
    Commands = {"START", "STOP_NORMAL", "RECOVER"}
    Requests = {"service_enter", "factory_reset", "recovery", "console_enter"}
    QueueLength = 1
    MaxGeneration = 5
    Commissioned = FALSE
PROPERTIES
    TransitionsEnd
    ResetSettles
