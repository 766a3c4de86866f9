SPECIFICATION ConnSpec
CONSTANTS
    LinkMayFail = FALSE
    ServerMayRefuse = FALSE
PROPERTIES
    ConnectAuthenticates
CHECK_DEADLOCK FALSE
