SPECIFICATION Spec
CONSTANTS
  Codecs <- AllCodecs
  MaxFrames = 4
  MaxHeld = 2
INVARIANTS
  FramesAccounted
  DrainComplete
  EagainAlternates
  OnePaddedFrame
