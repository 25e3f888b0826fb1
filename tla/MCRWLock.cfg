SPECIFICATION Spec
CONSTANT Thread = {t1, t2, t3, t4}
INVARIANTS CountersExact MutualExclusion NoLostWakeup
PROPERTIES ImplementsRWLockSpec WriterProgress ReaderProgress
CHECK_DEADLOCK TRUE
