SPECIFICATION RWLiveSpec
CONSTANTS
    Thread = {t1, t2, t3, t4}
    max_readers = 4
INVARIANT NoLostWakeup
PROPERTIES LatchSpec EnteredWriterGetsLatch SleepersWake
