------------------------------ MODULE Gateways --------------------------------
(***************************************************************************)
(* The MCP gateway and the chat gateway.  A web client's call opens a      *)
(* session, and only then says that it waits for an answer in it; one      *)
(* goroutine of each gateway takes what arrives for the gateway's handle   *)
(* and gives it to whoever waits.  The MCP gateway keeps an answer nobody  *)
(* waits for yet; the chat gateway does not, but writes everything to the  *)
(* websockets that are open.  A call is known by its session, and an       *)
(* answer by its number in it.                                             *)
(***************************************************************************)
EXTENDS Naturals, Sequences

CONSTANTS
  McpCalls, ChatCalls,  \* calls of each gateway
  Sockets,              \* websockets of the chat gateway
  SocketBuffer,         \* capacity of a websocket's channel
  MaxReplies,           \* bound: answers of an agent in a session
  MaxEvents,            \* bound: events at the daemon's activity bus
  NoCall                \* in place of the session, for a message of a room

Calls    == McpCalls \union ChatCalls
Gateway  == {"mcp", "chat"}
Kinds    == {"posted", "online", "created", "other"}

ASSUME GatewaysAssumption ==
  /\ McpCalls \intersect ChatCalls = {}
  /\ SocketBuffer \in Nat \ {0} /\ MaxReplies \in Nat /\ MaxEvents \in Nat
  /\ NoCall \notin Calls /\ (Calls \union {NoCall}) \intersect Kinds = {}

VARIABLES
  pc,        \* each call
  replies,   \* answers the agent has sent in each session
  inbox,     \* the channel of the subscription of each gateway
  waiter,    \* channel of the call that waits on each session, capacity 1
  waits,     \* sessions with an entry in waiters (sessionWaiters)
  buffered,  \* MCP: the answer kept for each session, 0 without one
  result,    \* the answer each call returned
  open,      \* websockets that are open
  channel,   \* what is in each websocket's channel
  written,   \* what each websocket has been sent
  activity,  \* each websocket's channel at the activity bus
  events,    \* events so far
  seen,      \* history: answers taken from the inbox while each call waited
  early,     \* history: answers taken from it before that
  due,       \* history: what each websocket should have been sent
  full       \* history: websockets whose channel was full

calls   == <<pc, replies, waiter, waits, buffered, result, seen, early>>
sockets == <<open, channel, written, activity, events, due, full>>
gatewayVars == <<calls, inbox, sockets>>

Of(c) == IF c \in McpCalls THEN "mcp" ELSE "chat"

GatewaysInit ==
  /\ pc = [c \in Calls |-> "idle"] /\ replies = [c \in Calls |-> 0]
  /\ inbox = [g \in Gateway |-> <<>>]
  /\ waiter = [c \in Calls |-> <<>>] /\ waits = {}
  /\ buffered = [c \in McpCalls |-> 0] /\ result = [c \in Calls |-> 0]
  /\ open = {} /\ channel = [w \in Sockets |-> <<>>] /\ written = [w \in Sockets |-> <<>>]
  /\ seen = [c \in Calls |-> 0] /\ early = [c \in Calls |-> 0]
  /\ activity = [w \in Sockets |-> <<>>]
  /\ events = 0 /\ due = [w \in Sockets |-> <<>>] /\ full = {}
-----------------------------------------------------------------------------
\* The session is open, and the agent has the request, before anyone waits.
OpenSession(c) ==
  /\ pc[c] = "idle" /\ \E to \in {"opened", "failed"} : pc' = [pc EXCEPT ![c] = to]
  /\ UNCHANGED <<replies, waiter, waits, buffered, result, seen, early, inbox, sockets>>

\* The agent answers in the session, also when the call has ended.
Reply(c) ==
  /\ pc[c] \notin {"idle", "failed"} /\ replies[c] < MaxReplies
  /\ replies' = [replies EXCEPT ![c] = @ + 1]
  /\ inbox' = [inbox EXCEPT ![Of(c)] = Append(@, <<c, replies[c] + 1>>)]
  /\ UNCHANGED <<pc, waiter, waits, buffered, result, seen, early, sockets>>

\* Something happens at the daemon, and the bus tells every websocket.  A
\* message posted in a room of the chat user also comes by the subscription.
Emit(k) ==
  /\ events < MaxEvents /\ events' = events + 1
  /\ activity' = [w \in Sockets |-> IF w \in open /\ Len(activity[w]) < SocketBuffer
                                    THEN Append(activity[w], <<k, events + 1>>) ELSE activity[w]]
  /\ inbox' = IF k = "posted" THEN [inbox EXCEPT !["chat"] = Append(@, <<NoCall, events + 1>>)]
              ELSE inbox
  /\ UNCHANGED <<calls, open, channel, written, due, full>>
-----------------------------------------------------------------------------
Took(g)  == inbox' = [inbox EXCEPT ![g] = Tail(@)]
Count(c) ==
  /\ seen' = IF pc[c] = "waiting" THEN [seen EXCEPT ![c] = @ + 1] ELSE seen
  /\ early' = IF pc[c] = "opened" THEN [early EXCEPT ![c] = @ + 1] ELSE early

\* A send that does not block: the channel of a waiter holds one answer.
Offer(c, n) == waiter' = IF waiter[c] = <<>> THEN [waiter EXCEPT ![c] = <<n>>] ELSE waiter

\* Variant: an answer that nobody waits for is dropped.
subscribeLoop_DropsEarly ==
  /\ inbox["mcp"] # <<>> /\ Took("mcp")
  /\ LET c == Head(inbox["mcp"])[1]
         n == Head(inbox["mcp"])[2]
     IN /\ IF c \in waits THEN Offer(c, n) ELSE UNCHANGED waiter
        /\ Count(c)
  /\ UNCHANGED <<pc, replies, waits, buffered, result, sockets>>

\* The MCP gateway takes the next answer.
subscribeLoop ==
  /\ inbox["mcp"] # <<>> /\ Took("mcp")
  /\ LET c == Head(inbox["mcp"])[1]
         n == Head(inbox["mcp"])[2]
     IN /\ IF c \in waits THEN Offer(c, n) /\ UNCHANGED buffered
           ELSE buffered' = [buffered EXCEPT ![c] = n] /\ UNCHANGED waiter
        /\ Count(c)
  /\ UNCHANGED <<pc, replies, waits, result, sockets>>

\* UserManager.broadcast: a websocket whose channel is full misses it.
broadcast(x) ==
  /\ channel' = [w \in Sockets |-> IF w \in open /\ Len(channel[w]) < SocketBuffer
                                   THEN Append(channel[w], x) ELSE channel[w]]
  /\ full' = full \union {w \in open : Len(channel[w]) = SocketBuffer}

\* The chat gateway takes the next message: to a waiter (encodeIncomingMessage)
\* if it is in a session, and to every websocket.
StartSubscription ==
  /\ inbox["chat"] # <<>> /\ Took("chat")
  /\ LET x == Head(inbox["chat"])
     IN /\ IF x[1] \in waits THEN Offer(x[1], x[2]) ELSE UNCHANGED waiter
        /\ IF x[1] \in Calls THEN Count(x[1]) ELSE UNCHANGED <<seen, early>>
        /\ broadcast(x)
        /\ due' = [w \in Sockets |-> IF w \in open THEN Append(due[w], x) ELSE due[w]]
  /\ UNCHANGED <<pc, replies, waits, buffered, result, open, written, activity, events>>
-----------------------------------------------------------------------------
\* callAgent: the waiter, and what was kept for it, in one critical section.
callAgent(c) ==
  /\ pc[c] = "opened" /\ c \in McpCalls
  /\ pc' = [pc EXCEPT ![c] = "waiting"] /\ waits' = waits \union {c}
  /\ waiter' = IF buffered[c] # 0 THEN [waiter EXCEPT ![c] = <<buffered[c]>>] ELSE waiter
  /\ buffered' = [buffered EXCEPT ![c] = 0]
  /\ UNCHANGED <<replies, result, seen, early, inbox, sockets>>

WaitForSession(c) ==
  /\ pc[c] = "opened" /\ c \in ChatCalls
  /\ pc' = [pc EXCEPT ![c] = "waiting"] /\ waits' = waits \union {c}
  /\ UNCHANGED <<replies, waiter, buffered, result, seen, early, inbox, sockets>>

\* The deferred part of a call.
Ends(c, how) ==
  /\ buffered' = [d \in McpCalls |-> IF d = c THEN 0 ELSE buffered[d]]
  /\ pc' = [pc EXCEPT ![c] = how]
  /\ waits' = waits \ {c} /\ waiter' = [waiter EXCEPT ![c] = <<>>]

\* The answer is returned; the session is resolved, which this model does not
\* follow.
handleToolsCall(c) ==
  /\ pc[c] = "waiting" /\ waiter[c] # <<>> /\ c \in McpCalls
  /\ result' = [result EXCEPT ![c] = Head(waiter[c])]
  /\ Ends(c, "done")
  /\ UNCHANGED <<replies, seen, early, inbox, sockets>>

handleSendToAgent(c) ==
  /\ pc[c] = "waiting" /\ waiter[c] # <<>> /\ c \in ChatCalls
  /\ result' = [result EXCEPT ![c] = Head(waiter[c])]
  /\ Ends(c, "done")
  /\ UNCHANGED <<replies, seen, early, inbox, sockets>>

\* The deadline, or the web client is gone; also when an answer is there, since
\* select may take either.
Timeout(c) ==
  /\ pc[c] = "waiting" /\ Ends(c, "timedout")
  /\ UNCHANGED <<replies, result, seen, early, inbox, sockets>>
-----------------------------------------------------------------------------
handleWebSocket(w) ==
  /\ w \notin open /\ due[w] = <<>> /\ written[w] = <<>> /\ open' = open \union {w}
  /\ UNCHANGED <<calls, inbox, channel, written, activity, events, due, full>>

Write(w) ==
  /\ w \in open /\ channel[w] # <<>>
  /\ written' = [written EXCEPT ![w] = Append(@, Head(channel[w]))]
  /\ channel' = [channel EXCEPT ![w] = Tail(@)]
  /\ UNCHANGED <<calls, inbox, open, activity, events, due, full>>

\* Variant: events of rooms are passed on as well.
encodeActivityEvent_All(x) == <<x>>

\* What a websocket is sent of an event; nothing of the messages of rooms, which
\* the subscription brings, and of most others.
encodeActivityEvent(x) == IF x[1] \in {"online", "created"} THEN <<x>> ELSE <<>>

WriteActivity(w) ==
  /\ w \in open /\ activity[w] # <<>>
  /\ written' = [written EXCEPT ![w] = @ \o encodeActivityEvent(Head(activity[w]))]
  /\ activity' = [activity EXCEPT ![w] = Tail(@)]
  /\ UNCHANGED <<calls, inbox, open, channel, events, due, full>>

\* The browser is gone, or a write to it failed.
RemoveClient(w) ==
  /\ w \in open /\ open' = open \ {w} /\ activity' = [activity EXCEPT ![w] = <<>>]
  /\ UNCHANGED <<calls, inbox, channel, written, events, due, full>>
-----------------------------------------------------------------------------
GatewaysNext ==
  \/ \E c \in Calls :
       \/ OpenSession(c) \/ Reply(c) \/ callAgent(c) \/ WaitForSession(c)
       \/ handleToolsCall(c) \/ handleSendToAgent(c) \/ Timeout(c)
  \/ subscribeLoop \/ StartSubscription \/ \E k \in Kinds : Emit(k)
  \/ \E w \in Sockets : handleWebSocket(w) \/ Write(w) \/ WriteActivity(w) \/ RemoveClient(w)

GatewaysSpec == GatewaysInit /\ [][GatewaysNext]_gatewayVars
-----------------------------------------------------------------------------
\* Every variable has its type, and only calls that wait have a waiter.
GatewaysTypeOK ==
  /\ pc \in [Calls -> {"idle", "opened", "failed", "waiting", "done", "timedout"}]
  /\ waits = {c \in Calls : pc[c] = "waiting"}
  /\ \A c \in Calls : waiter[c] \in {<<>>} \union {<<n>> : n \in 1..MaxReplies}
  /\ buffered \in [McpCalls -> 0..MaxReplies] /\ result \in [Calls -> 0..MaxReplies]
  /\ open \subseteq Sockets /\ \A w \in Sockets : Len(channel[w]) <= SocketBuffer

\* A call that waits has its answer once one has arrived in its session, the
\* answers that came before it waited included (callAgent); the chat gateway
\* misses those (handleSendToAgent waits only after OpenSession has returned).
AnswerReachesCall ==
  \A c \in Calls : pc[c] = "waiting" =>
    /\ seen[c] > 0 => waiter[c] # <<>>
    /\ c \in McpCalls /\ early[c] > 0 => waiter[c] # <<>>

\* A call returns the first answer of its session, unless several arrived
\* before it waited, when the MCP gateway keeps the last of them, or the chat
\* gateway missed one.
FirstAnswer ==
  \A c \in Calls : pc[c] = "done" =>
    result[c] = 1 \/ (c \in McpCalls /\ early[c] > 1) \/ (c \in ChatCalls /\ early[c] > 0)

\* Of the messages d, the last are those in the channel q, and the others are
\* those among what was written, z, in the same order.
InOrder(d, q, z) ==
  LET sent == 1..(Len(d) - Len(q)) IN
  /\ Len(q) <= Len(d) /\ \A i \in 1..Len(q) : q[i] = d[Len(d) - Len(q) + i]
  /\ \A i \in sent : \E j \in 1..Len(z) : z[j] = d[i]
  /\ \A j \in 1..Len(z) : z[j][1] \in Calls \union {NoCall} => \E i \in sent : z[j] = d[i]
  /\ \A i1, i2 \in sent : \A j1, j2 \in 1..Len(z) :
       z[j1] = d[i1] /\ z[j2] = d[i2] /\ i1 < i2 => j1 < j2

\* A websocket is sent every message that came while it was open, in order and
\* once, unless its channel was full at some time (UserManager.broadcast).
NothingDropped ==
  \A w \in Sockets \ full : InOrder(due[w], channel[w], written[w])

\* A websocket is told nothing twice, though the activity bus and the
\* subscription both report a message of a room (encodeActivityEvent).
ToldOnce ==
  \A w \in Sockets : \A i, j \in DOMAIN written[w] :
    LET x == written[w][i]
        y == written[w][j]
    IN x[2] = y[2] /\ (x[1] = y[1] \/ {x[1], y[1]} \intersect Calls = {}) => i = j

\* An answer reaches the call it is for, and the call returns the first one, in
\* whatever order the call and its answers come (subscribeLoop, callAgent).
AnswersArrive == GatewaysTypeOK /\ AnswerReachesCall /\ FirstAnswer

\* A websocket that keeps up is sent everything, in order and once (broadcast).
SocketsAreTold == NothingDropped /\ ToldOnce
=============================================================================
