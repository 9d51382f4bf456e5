CONSTANTS
    MaxTasks = 2
    Extents = {0, 1}
SPECIFICATION Spec
INVARIANTS SkipsEmptyTasksOnly
CHECK_DEADLOCK FALSE
