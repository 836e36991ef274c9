SPECIFICATION ObjectsFairSpec
CONSTANTS
  Parts = {"bindings", "codec", "rmi"}
  Names = {100, 101}
  Positions = {0}
  Classes = {1, 2}
  Methods = {"m"}
  MaxObjs = 9
  MaxHandles = 5
  Langs = {"c", "cpp", "java"}
  Holders = {"x", "y"}
  FieldTypes = {"int", "str"}
  MaxCalls = 3
  Starts <- MCStarts
  Objects <- MCObjectValues
  Envelopes <- MCEnvelopes
  KeyName <- MCKeyName
  Lexeme <- MCLexeme
  UserClasses <- MCUserClasses
  Factories <- MCFactories
  NonFinite = {9}
  Rounded <- MCRounded
  MaxTrips = 2
  RmiLangs = {"cpp", "java"}
  Callers = {"t1", "t2"}
  MaxRequests = 2
  MaxContexts = 2
INVARIANTS
   OwnershipHolds CodecLossless TextSettles
  ResultsTruthful ObjectsAccountedFor CallbackContextsAlive
PROPERTIES  CallsReturn
CHECK_DEADLOCK FALSE
