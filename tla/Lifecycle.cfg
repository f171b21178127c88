SPECIFICATION FairSpec
CONSTANT Workers = {w1, w2}
INVARIANTS TypeOK WorkersReadSyncedCaches
PROPERTIES SignalEndsProcess SyncLeadsToWork
