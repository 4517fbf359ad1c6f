CONSTANTS
  Nodes = {n1}
  Watched = n1
  Watchers = {n1}
  Handles = {h1}
  MayHost <- MCMayHost
  Streams = {s1}
  Capacity = 8
  MaxChanges = 1
  MaxReaps = 0
  None = None
SPECIFICATION WholeSpec
PROPERTIES ViewsCatchUp
