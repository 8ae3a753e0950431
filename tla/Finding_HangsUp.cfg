CONSTANT MaxTasks = 2
SPECIFICATION Spec
PROPERTIES HangsUp
CHECK_DEADLOCK FALSE
