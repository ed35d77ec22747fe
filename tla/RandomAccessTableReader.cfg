SPECIFICATION Spec
CONSTANTS Keys = {1, 2, 3} MaxEntries = 3
INVARIANTS NoKeyLost ValueIsOfKey
PROPERTIES YesMeansValue OnceMeansOnce
CHECK_DEADLOCK FALSE
