CONSTANTS
  DeviceIds <- MCBootLoaderTable
  BufferWords <- MCBufferWords
  FileWords = {0, 3, 4, 1000}
SPECIFICATION FairSpec
PROPERTIES ProgramEnds
CHECK_DEADLOCK FALSE
