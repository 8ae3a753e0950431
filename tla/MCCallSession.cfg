CONSTANT MaxTasks = 3
SPECIFICATION Spec
INVARIANTS TypeOK OneResponse RecordedWasHeard SilencedStaysSilent UtteranceRescued NothingLeft
CHECK_DEADLOCK FALSE
