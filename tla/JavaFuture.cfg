SPECIFICATION ObjectsSpec
CONSTANTS
  Parts = {"rmi"}
  Names = {100, 101}
  Positions = {0}
  Classes = {1, 2}
  Methods = {"m"}
  MaxObjs = 9
  MaxHandles = 5
  Langs = {"c"}
  Holders = {"x", "y"}
  FieldTypes = {"int", "str"}
  MaxCalls = 1
  Starts <- MCStarts
  Objects <- MCObjectValues
  Envelopes <- MCEnvelopes
  KeyName <- MCKeyName
  Lexeme <- MCLexeme
  UserClasses <- MCUserClasses
  Factories <- MCFactories
  NonFinite = {9}
  Rounded <- MCRounded
  MaxTrips = 1
  RmiLangs = {"java"}
  Callers = {"t1"}
  MaxRequests = 2
  MaxContexts = 0
INVARIANT FuturesFreedOnce
CHECK_DEADLOCK FALSE
