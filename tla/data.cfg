SPECIFICATION Spec
CONSTANTS
  BaseSizes = {2, 3, 4}
  Radix = 4
  Groups32 = 3
  Groups64 = 4
  Items <- SomeItems
  MaxItems = 3
  MaxBlocks = 5
  InHead = 2
  In16 = 3
  Wide = 3
  MaxSize = 6
  Lengths = {0, 1, 2, 4}
  PushLengths = {0, 1}
  MaxFrames = 2
  MaxPings = 1
  MaxPush = 1
  t1 = t1
  t2 = t2
  nv = nv
  Threads = {t1, t2}
  Names <- SomeNames
  Default = 0
  Texts <- SomeTexts
  Values = {0, 1, 2, 3, 4}
  Numbers = {0, 1, 2}
  Docs <- SomeDocs
  NoVal = nv
  Listeners = {1, 2}
  MaxLoads = 2
INVARIANTS ReadsBack DeliveredExact ListenersFollow LoadReaches
CHECK_DEADLOCK FALSE
