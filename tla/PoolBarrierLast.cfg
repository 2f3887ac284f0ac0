CONSTANTS
  t1 = t1
  t2 = t2
  t3 = t3
  Threads = {t1, t2, t3}
  MaxWork = 2
SPECIFICATION Spec
INVARIANT LastCallIsLast
\* The bounded work ends.
CHECK_DEADLOCK FALSE
