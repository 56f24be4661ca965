SPECIFICATION Spec
CONSTANTS
  ChunkSize = 16
  MaxHeader = 4
  Messages <- AllMessages
  MaxListeners = 2
  Handlers = {"router", "echo"}
  Routes = {"a"}
  Capacity = 1
  MaxSlice = 1
  Garbage = {7}
  Requests = {r1}
  MaxStarts = 2
INVARIANTS
  Decodes
  BufferHolds
  ResponseParses
  GrpcHeld
CHECK_DEADLOCK FALSE
