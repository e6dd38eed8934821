SPECIFICATION Spec
CONSTANTS
  h1 = h1
  h2 = h2
  b1 = b1
  Null = Null
  Handles <- MCHandles
  Blocks <- MCBlocks
  Files <- MCFiles
  Embedded <- MCEmbedded
  FrameBuffer = 2
  FrameBytes = 2
  AudioSize = 5
  Wrap = 8
INVARIANTS
  TypeOK
  HandlesAccounted
  ActiveMeansPlaying
  SilentAfterPlayback
  ChunkWithinAudio
  FramesInOrder
PROPERTIES
  PlaybackEnds
  ExitReleases
