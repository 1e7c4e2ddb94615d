SPECIFICATION FairSpec
CONSTANTS
  o1 = o1  o2 = o2  o3 = o3
  p1 = p1  p2 = p2  p3 = p3
  NoOwner = NoOwner
  NoTask = NoTask
  Owner <- MCOwner
  Task <- MCTask
  Size = 2
\* The program stops after SystemImpl::Stop.
CHECK_DEADLOCK FALSE
INVARIANTS Asserts WorkConserving AbortWaits
PROPERTIES PromiseSpec EveryTaskLeaves ShutdownEnds
