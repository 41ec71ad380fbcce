SPECIFICATION Spec
CONSTANTS
    None = None
    Conn = {1, 2}
    Fds = {0, 1, 2}
    Sock <- MCSock
    MaxSent <- MCSent
    MaxSignals = 1
INVARIANTS InTransit NeverDeaf EventsFindTheirOwner
PROPERTIES PipesSpec EventuallyForwarded
CHECK_DEADLOCK FALSE
