SPECIFICATION Spec
CHECK_DEADLOCK FALSE
CONSTANTS
  ReplayWindow = 2
  CheckoutEvery = 1
  FlushDelay = 1
  MapWindow = 2
  MaxPerWindow = 1
  MaxTime = 3
  MaxInits = 2
  MaxEmits = 2
  MaxCaptures = 2
  MaxForwards = 3
  MaxFrames = 3
INVARIANTS
  TypeOK
  ReplayCoversError
  MapFloodBounded
  RenderedOnce
