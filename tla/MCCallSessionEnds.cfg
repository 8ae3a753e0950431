CONSTANT MaxTasks = 2
SPECIFICATION Spec
PROPERTIES CallEnds
CHECK_DEADLOCK FALSE
