SPECIFICATION MCSpec
CONSTANTS
  McpCalls = {m1}
  ChatCalls = {h1}
  Sockets = {w1}
  SocketBuffer = 1
  MaxReplies = 2
  MaxEvents = 1
  NoCall = NoCall
  Requests = {r1, r2}
  MaxMessages = 1
  NoOne = NoOne
INVARIANTS AnswersArrive  BridgeAgrees
 
CHECK_DEADLOCK FALSE
