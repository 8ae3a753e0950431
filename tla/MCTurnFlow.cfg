CONSTANTS
  MaxTurns = 2
  MaxSessions = 3
  MaxWebhooks = 2
  MaxPolls = 1
  PromptAfter = 2
  MaxTroubles = 1
SPECIFICATION Spec
INVARIANTS TypeOK HeadBeforeTail AnswerNotWithheld OneJobAtATime OneSession OpenWhileListening FreezeNeedsSurvivor
PROPERTIES CallerIsAnswered
CHECK_DEADLOCK FALSE
