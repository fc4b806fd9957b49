SPECIFICATION Spec
CONSTANTS
  MaxClients = 3
  MaxTry <- Once
  MaxSay <- Once
PROPERTY MessagesToOtherSide
CHECK_DEADLOCK FALSE
