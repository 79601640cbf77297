SPECIFICATION UtilSpec
CONSTANTS
  Object = {member, temporary, other}  Thread = {t1, t2}  Nobody = Nobody
  Tests <- SomeTests  NewLines = {1, 6}  Nuls = {3, 5}  LOG_MAX_BUFFER_SIZE = 3
INVARIANTS Ownership HooksUndone LogKept
PROPERTIES ThreadsEnd
CHECK_DEADLOCK FALSE
