SPECIFICATION MCSpec
CONSTANTS
  s1 = s1
  s2 = s2
  s3 = s3
  l1 = l1
  l2 = l2
  l3 = l3
  k1 = k1
  k2 = k2
  c1 = c1
  c2 = c2
  Conns = {k1, k2}
  Handles = {h1}
  Streams = {s1, s2, s3}
  Deliveries = {d1}
  NoConn = NoConn
  NoStream = NoStream
  sender = sender
  receiver = receiver
  Nodes = {sender, receiver}
  Relays = {rl1}
  Calls = {c1, c2}
  From <- AllFrom
  To <- AllTo
  Keepers = {receiver}
  Links = {l1, l2, l3}
  MaxFaults = 1
  None = None
INVARIANTS SubscriberOwns SlicesClean TablesInStep RoutableUnlessRaced
PROPERTIES ImplementsChannel
SYMMETRY Symmetry
CHECK_DEADLOCK FALSE
