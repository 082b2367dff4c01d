SPECIFICATION FairSpec
CONSTANTS
  t1 = t1
  t2 = t2
  Topics <- TwoTopics
  MaxConnects = 2
  MaxRefusals = 1
INVARIANTS
  TypeOK
  NoTopicMissed
PROPERTIES
  EventuallyListening
CHECK_DEADLOCK FALSE
