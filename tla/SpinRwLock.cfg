SPECIFICATION FairSpec
CONSTANT Threads = {t1, t2, t3}
INVARIANTS ValueCountsGuards Exclusion
PROPERTIES RefinesAbs FreeLockIsTaken
