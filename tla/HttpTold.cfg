SPECIFICATION HttpSpec
CONSTANTS
 Texts <- OneRequest
 Later <- Following
 MaxCalls = 1
INVARIANT ToldAsWritten
CHECK_DEADLOCK FALSE
