\* Five events: a burst, a burst during the call, one more during the follow-up.
CONSTANT MaxEvents = 5
SPECIFICATION FairWatchSpec
INVARIANTS WatchTypeOK NoEventLost
PROPERTIES ImplementsChangeSignal EveryChangeIsCovered
CHECK_DEADLOCK FALSE
