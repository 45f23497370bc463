CONSTANTS
  DeviceIds <- MCAnsweringTable
  BufferWords <- MCBufferWords
  FileWords = {0, 3, 4, 1000}
SPECIFICATION Spec
INVARIANTS ReadsInside FinishKept
CHECK_DEADLOCK FALSE
