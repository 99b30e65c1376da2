SPECIFICATION FairSpec
CONSTANTS
  None = None
  a = a
  s1 = s1
  s2 = s2
  Runs = {a}
  Streams = {s1, s2}
  Scanners <- TwoScanners
  QueueSize = 6
INVARIANT EventsAreCommitted
INVARIANT CompletedRunIsWhole
INVARIANT StreamHasNoGap
PROPERTY ServesFeed
PROPERTY StreamEnds
