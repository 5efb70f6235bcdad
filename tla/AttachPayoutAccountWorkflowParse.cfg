


CONSTANTS
  Jobs = {j1, j2}
  MaxRetries = 2
SPECIFICATION Spec
CHECK_DEADLOCK FALSE
INVARIANT MalformedPayloadRunsOnce
