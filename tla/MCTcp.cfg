CONSTANTS
  a = a
  b = b
  Ends <- MCEnds
  ISS <- MCISS
  Units <- MCUnits2
  SendCap = 2
  RecvFloor = 2
  RecvBoost = 3
  Modulus = 32
  NetRoom = 2
  MaxRare = 1
  MayAbort = {b}
SPECIFICATION QuietSpec
INVARIANTS StreamIntact ClaimsAreTrue 
PROPERTIES GoesQuiet
CHECK_DEADLOCK FALSE
