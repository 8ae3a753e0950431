CONSTANTS
  Characters <- MCCharacters
  Messages <- MCMessages
  MaxPlain = 4
  MaxEscaped = 3
  Retries = 1
  Window = 2
  Minimum = 2
  FirstMin = 2
  Maximum = 3
SPECIFICATION Spec
INVARIANTS TypeOK HeardIsWhatArrived SpeechIsNotDelayed
PROPERTIES OneAnswerIsTold
CHECK_DEADLOCK FALSE
