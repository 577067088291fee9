CONSTANTS
  Products <- AllProducts
  Kinds <- AllKinds
  DataLens = {1, 476, 484, 485, 488, 489, 492, 493, 500, 996, 1000, 1001, 1024}
  MaxRoom = 2
  Rounds = 10
  MaxFrames = 2
  MaxAgain = 2
SPECIFICATION Spec
INVARIANT SentWhole
INVARIANT RoomKept
CHECK_DEADLOCK FALSE
