SPECIFICATION FairSpec
CHECK_DEADLOCK FALSE
CONSTANTS
  Streams = {s1, s2}
  Raisers = {t1}
  NumPorts = 1
  MaxRaised = 2
  MaxConnects = 2
  MaxBreaks = 2
INVARIANTS
  InOrderUnlessPutBack
  ConnectedMeansRead
  StreamTellsStateUnlessRaced
PROPERTIES
  ImplementsOnceDelivery
  EventuallyTold
