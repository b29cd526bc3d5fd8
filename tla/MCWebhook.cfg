SPECIFICATION FairSpec
CONSTANTS
  d1 = d1
  Deliveries = {d1}
  Options <- SomeOptions
  Payloads <- SomePayloads
  Arrivals <- SomeArrivals
  Listeners <- SomeListeners
  Downloads <- SomeDownloads
  Responses <- SomeResponses
  Message <- RawMessage
  MaxRaw = 3
  MaxResult = 1
INVARIANTS TypeOK OnlyGenuineIsHandled AcknowledgedMeansHandled TaughtIsTheMessage
PROPERTIES EveryRequestIsAnswered
