SPECIFICATION FairSpec
CONSTANTS
  NoTopic = NoTopic
  Mids <- MCMids
  MaxFaults = 2
INVARIANTS
  ReadyMeansSubscribed
  NoTopicAbandoned
PROPERTY
  EventuallySubscribed
