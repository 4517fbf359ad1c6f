CONSTANTS
  Nodes = {n1, n2}
  Watched = n1
  Watchers = {n1}
  Handles = {h1}
  MayHost <- MCMayHost
  Streams = {s1, s2, s3}
  Capacity = 1
  MaxChanges = 3
  MaxReaps = 2
  None = None
SPECIFICATION MCSpec
INVARIANTS WatchersLive
PROPERTIES CoordCatchesUp BlockedByConflict ClosedReopens
