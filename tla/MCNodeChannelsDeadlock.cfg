\* The instance of MCNodeChannels with two requests: is the command channel always
\* emptied again? The node may stop: no more input, or a circular wait.
SPECIFICATION Spec
CONSTANTS
  ApiTask = {t1, t2}
  Kind = {"plain", "train", "announce"}
  Capacity = 2
  MaxBatch = 3
  MaxEvents = 4
  MaxRequests = 2
CHECK_DEADLOCK FALSE
PROPERTIES
  CommandsTaken
