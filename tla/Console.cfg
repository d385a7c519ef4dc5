SPECIFICATION FairSpec
CONSTANTS
  NumTerminals = 2
  BufLen = 2
  ReadSizes = {2}
  Races = {}
INVARIANT TypeOK
 
PROPERTY LineDelivered
