SPECIFICATION Spec
CONSTANT MaxEntries = 2
PROPERTIES DestructorReturns
CHECK_DEADLOCK FALSE
