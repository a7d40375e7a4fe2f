CONSTANTS
  a = a
  b = b
  Ends <- MCEnds
  ISS <- MCISS
  Units <- MCUnits2
  SendCap = 2
  RecvFloor = 1
  RecvBoost = 2
  Modulus = 32
  NetRoom = 1
  MaxRare = 2
  MayAbort = {}
SPECIFICATION FairSpec
PROPERTIES StreamsComplete
CHECK_DEADLOCK FALSE
