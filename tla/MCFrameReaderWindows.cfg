SPECIFICATION Spec
CONSTANTS
  HeaderSize = 2
  RxCapacity = 5
  FrameSize <- SmallFrames
  HeaderOnly = TRUE
  MaxFrames = 2
INVARIANT
  WholeFrames
