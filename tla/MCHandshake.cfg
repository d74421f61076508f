SPECIFICATION StartUpSpec
CONSTANTS MaxMessages = 1
PROPERTIES TimeoutResolves
CHECK_DEADLOCK FALSE
