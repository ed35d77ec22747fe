SPECIFICATION Spec
CONSTANT MaxEntries = 4
INVARIANTS BaseReaderHasOneUser ValueIsOfKey
PROPERTIES CallsReturn IsReading
CHECK_DEADLOCK FALSE
