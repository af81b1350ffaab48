\* Channels of one place, three events of every kind, a request of the API; one
\* retry, one crash of the engine, two pipeline inferences. The node may stop: no
\* more input, or a circular wait.
SPECIFICATION NodeSpec
CONSTANTS
  ApiTask = {t1}
  Kind = {"plain", "train", "announce"}
  Capacity = 1
  MaxBatch = 2
  MaxEvents = 3
  MaxRequests = 1
  Inference = {i1, i2}
  MaxRetries = 1
  MaxCrashes = 1
CHECK_DEADLOCK FALSE
INVARIANTS
  EventsInOrder
  AnnouncedInOrder
  RetriesTrainOnce
  GradientsLostByOverlapOnly
PROPERTIES
  OnlyCircularWait
