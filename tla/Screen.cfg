SPECIFICATION MCSpec
CONSTANTS
  NumTerminals = 2
  Rows = 2
  Cols = 2
  MaxLine = 1
  Outputs <- MCOutputs
  Prompt <- MCPrompt
  Races = {}
  WordBits = 8
  MemBytes = 10
  MaxString = 3
  MaxEvents = 4
INVARIANT TypeOK
 
INVARIANT CursorShown
 
INVARIANT CopyCorrect
INVARIANT NumbersPrinted
INVARIANT StringsCorrect
INVARIANT Decoding
