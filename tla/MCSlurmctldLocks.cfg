CONSTANTS
  t1 = t1
  t2 = t2
  t3 = t3
  Threads <- MCThreads3
  Requests <- MCRequests
SPECIFICATION FairSpec
INVARIANT MutualExclusion
INVARIANT NoLostWakeup
INVARIANT NoDeadlock
PROPERTY WriterNotOvertaken
PROPERTY WriterServed
CHECK_DEADLOCK TRUE
