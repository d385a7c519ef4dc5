SPECIFICATION Spec
CONSTANTS
  NumTerminals = 2
  MaxFreq = 1024
  MaxKeys = 1
  ExceptionStatus = 4
  Freqs <- MCFreqs
  OtherResults <- MCOtherResults
INVARIANT TypeOK
INVARIANT RateShared
INVARIANT ServiceOwned
PROPERTY ErrorsSurvive
 
PROPERTY ReadReturns
