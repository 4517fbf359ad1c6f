SPECIFICATION Spec
CONSTANTS
  Traces = {tr1, tr2}
  TraceCapacity = 3
  MaxSpans = 8
  Emitters = {e1, e2}
  MaxEmits = 2
  MaxHour = 2
  HoursPerDay = 2
  BusFaults = 1
  Turns = {tn1}
  Requester = hq
  Worker = hw
  MaxPosts = 3
  WatchBuffer = 1
  MaxActivity = 2
  MaxBoots = 2
  NoTurn = NoTurn
  NoHandle = NoHandle
  NoEvent = NoEvent
  Self = n0
  Peers = {n1}
  Agents = {ag1}
  Relay = rl
  Fetches = {fe1, fe2}
  MaxChanges = 2
  NoNode = NoNode
  MaxHandle = 3
  DottedHandle = 2
  MaxSessions = 3
INVARIANTS TracesAreWindows UsageAddsUp DashboardAgrees QueriesAgree
 
CHECK_DEADLOCK FALSE
