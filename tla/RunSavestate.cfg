SPECIFICATION FairSpec
INVARIANT SnapshotAtBoundary
