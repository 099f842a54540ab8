SPECIFICATION Spec
CONSTANTS
  Buffers = {b1, b2, b3, b4}
  NoBuffer = NoBuffer
  BufferSize = 6
  Headroom = 1
  RpcHeader = 2
  StreamLen = 9
  Starts <- MCStarts
  RpcSize <- MCRpcSize
  Unknown <- MCUnknown
  MaxQueue = 2
INVARIANTS DeliveredInOrder NoOverrun SingleOwner LostOnlyByRelocation StuckOnlyOnCutHeader
PROPERTIES ImplementsRpcStream EveryRpcDelivered
CHECK_DEADLOCK FALSE
