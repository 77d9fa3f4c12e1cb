SPECIFICATION DirectSpec
CONSTANTS
 MaxOpened = 1
 Capacity = 1
 MaxWatches = 1
INVARIANT WorkKept
CHECK_DEADLOCK FALSE
