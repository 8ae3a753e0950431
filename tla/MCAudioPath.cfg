CONSTANTS
  FrameUnits = 2
  Chunk = 3
  MinSpeech = 2
  MaxSpeech = 4
  Pause = 2
  Discard = 3
  MaxFrames = 4
  MaxReplies = 3
SPECIFICATION Spec
INVARIANTS TypeOK SentInOrder SpeechInterrupts UtterancesAreLong
CHECK_DEADLOCK FALSE
