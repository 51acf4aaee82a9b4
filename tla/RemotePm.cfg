SPECIFICATION FairSpec
INVARIANTS SleepInv KeyboardReleased
PROPERTIES StreamsAndSleeps CachedKeySent 
