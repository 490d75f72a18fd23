SPECIFICATION Spec
CONSTANTS
    Clients = {"mqtt"}
    Commands = {"START", "RESET_ESTOP"}
    Requests = {"service_enter", "service_exit", "console_enter", "console_exit", "recovery", "wifi", "reconnect", "factory_reset", "restart"}
    QueueLength = 1
    MaxGeneration = 4
    Commissioned = TRUE
INVARIANTS
    NoOrphanTransition
    LocalServiceIsExclusive
PROPERTIES
    LocalGrantAtRest
    NoForeignMotion
    EraseAtRest
