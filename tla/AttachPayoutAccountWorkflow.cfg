\* Two jobs with a retry budget of 2, every payload kind: a valid job can
\* succeed on its first run or after a requeue.  A job left Processing has
\* no step, so the consumer idles; that stop is what the property is about.
CONSTANTS
  Jobs = {j1, j2}
  MaxRetries = 2
SPECIFICATION Spec
CHECK_DEADLOCK FALSE
PROPERTY JobsTerminate
