SPECIFICATION Spec
CONSTANTS
  Loops = {}
  Iterators = {iter}
  Readers = {iter}
  Events = {event}
  NoEvent = NoEvent
  Detached = TRUE
INVARIANT AnswersSettle
