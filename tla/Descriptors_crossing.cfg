SPECIFICATION Spec
CONSTANTS
  Dentries <- MCDentries
  Inodes <- MCInodes
  BlockSize = 4
  MaxDataBlocks = 3
  MaxDepth = 1
  FdaMaxOf = 4
  Names = {".", "shell", "rtc", "text", "none"}
  Programs = {"shell"}
  Chunks <- MCChunks
  KeepOpen = FALSE
  CrossBlocks = TRUE
PROPERTY ReadReturnsFile
