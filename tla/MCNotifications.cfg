SPECIFICATION FairSpec
CONSTANTS
  Loops = {loop}
  Iterators = {iter}
  Readers = {loop, iter}
  Events = {event}
  NoEvent = NoEvent
  Detached = FALSE
INVARIANTS TypeOK NoEventDropped NoOrphanPull
PROPERTIES NothingHandledAfterStop StopIsNotLoss ReadersStop
