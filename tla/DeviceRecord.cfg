SPECIFICATION Spec
INVARIANTS ScanSelectsHandlers CleanupFollowsUnlinking
