SPECIFICATION Spec
CONSTANTS
  NoMessage = NoMessage
  UllMax = 255
  MaxHeaderSize = 60
  BufSize = 4
  MaxCuts = 1
  Workloads <- MCWorkloads
  Registrations <- MCRegistrations
  Fnmatch <- MCFnmatch
  BodyOf <- MCBodyOf
INVARIANTS
  FramingExact
  RequestExact
  AssertsHold
  ReplyExact
  NobodyLeftWaiting
CHECK_DEADLOCK FALSE
