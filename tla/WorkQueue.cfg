SPECIFICATION FairSpec
CONSTANTS
  Keys = {k1, k2}
  Workers = {w1, w2}
  Flaky = {k2}
  NoKey = NoKey
  MaxChanges = 2
  MaxErrors = 1
INVARIANT TypeOK
INVARIANT NoLostChange
PROPERTY SyncedNeverRegresses
PROPERTY ImplementsKeyQueue
PROPERTY Settles
PROPERTY Drains
\* After shut down the workers have ended.
CHECK_DEADLOCK FALSE
