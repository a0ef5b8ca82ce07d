CONSTANTS
  s1 = s1
  s2 = s2
  q1 = q1
  Procs <- MCProcs
  ServerProcs <- MCServerProcs
  MaxGen = 8
  MaxRestarts = 2
  MaxEdits = 1
SPECIFICATION Spec
\* The init containers run to completion: a state where every instance has
\* finished and used its reruns is the normal end, not a deadlock.
CHECK_DEADLOCK FALSE
PROPERTY ExistingKeysKept
