SPECIFICATION Spec
CONSTANTS
  a = a
  b = b
  NoMsg = NoMsg
  Msgs <- MCStopMsgs
  Nodes <- MCNodes
  QUEUE_MAX = 1
  ENQUEUE_MAX_ATTEMPTS = 2
  DISPATCH_MAX_ATTEMPTS = 2
  NODE_LAST_SEEN_MAX = 2
  NODE_LAST_SEEN_PRUNE_TO = 1
INVARIANT
  NoReadingLostByStop
