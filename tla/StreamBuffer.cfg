SPECIFICATION FairBufferSpec
CONSTANTS
  BufferSize = 10
  MaxFrames = 1
  MaxRefill = 8
  Samples <- MCSamples
INVARIANTS BufferSound 
 
