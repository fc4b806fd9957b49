SPECIFICATION Spec
CONSTANTS
  MaxClients = 3
  MaxTry <- FirstTwice
  MaxSay <- FirstOnce
INVARIANTS SessionTypeOK ConversationsAgree ServerSurvives AsksWhenIdle ViewsAgree
CHECK_DEADLOCK FALSE
