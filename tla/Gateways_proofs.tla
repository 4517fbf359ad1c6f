-------------------------- MODULE Gateways_proofs ---------------------------
(***************************************************************************)
(* The gateways, for any number of web clients, calls, answers, events and *)
(* websockets.                                                             *)
(***************************************************************************)
EXTENDS Gateways, TLAPS

-----------------------------------------------------------------------------
(* The gateways of web clients.                                            *)

Numbers  == 1..MaxReplies
Messages(g) == IF g = "mcp" THEN McpCalls \X Numbers
               ELSE (ChatCalls \X Numbers) \union ({NoCall} \X (1..MaxEvents))
Posted   == UNION {Messages(g) : g \in Gateway}

CallTypes ==
  /\ pc \in [Calls -> {"idle", "opened", "failed", "waiting", "done", "timedout"}]
  /\ replies \in [Calls -> 0..MaxReplies]
  /\ waiter \in [Calls -> {<<>>} \union {<<n>> : n \in Numbers}]
  /\ waits = {c \in Calls : pc[c] = "waiting"}
  /\ buffered \in [McpCalls -> 0..MaxReplies] /\ result \in [Calls -> 0..MaxReplies]
  /\ seen \in [Calls -> Nat] /\ early \in [Calls -> Nat]

InboxTypes ==
  /\ events \in 0..MaxEvents /\ inbox \in [Gateway -> Seq(Posted)]
  /\ \A g \in Gateway : \A i \in 1..Len(inbox[g]) : inbox[g][i] \in Messages(g)

SocketTypes ==
  /\ open \subseteq Sockets /\ channel \in [Sockets -> Seq(Posted)]
  /\ \A w \in Sockets : Len(channel[w]) <= SocketBuffer

\* The answers of call c that are in the inbox q: those that were not taken, in
\* their order.
Underway(q, c, n, m) ==
  /\ n <= m
  /\ \A i \in 1..Len(q) : q[i][1] = c => q[i][2] \in n+1..m
  /\ \A i, j \in 1..Len(q) : i < j /\ q[i][1] = c /\ q[j][1] = c => q[i][2] < q[j][2]
  /\ \A k \in n+1..m : \E i \in 1..Len(q) : q[i][1] = c /\ q[i][2] = k

\* A call before it has a session, before it waits, and while it waits.
CallOK(c) ==
  /\ pc[c] \in {"idle", "failed"} =>
       /\ replies[c] = 0 /\ early[c] = 0 /\ seen[c] = 0
       /\ c \in McpCalls => buffered[c] = 0
  /\ pc[c] # "waiting" => waiter[c] = <<>>
  /\ pc[c] = "opened" =>
       /\ seen[c] = 0
       /\ c \in McpCalls => (early[c] = 0 <=> buffered[c] = 0) /\ (early[c] = 1 => buffered[c] = 1)
  /\ pc[c] \in {"idle", "failed", "opened", "waiting"} =>
       Underway(inbox[Of(c)], c, early[c] + seen[c], replies[c])
  /\ pc[c] = "waiting" =>
       /\ seen[c] > 0 => waiter[c] # <<>>
       /\ c \in McpCalls /\ early[c] > 0 => waiter[c] # <<>>
       /\ waiter[c] # <<>> => waiter[c][1] = 1 \/ (c \in McpCalls /\ early[c] > 1) \/ (c \in ChatCalls /\ early[c] > 0)
  /\ pc[c] = "done" =>
       result[c] = 1 \/ (c \in McpCalls /\ early[c] > 1) \/ (c \in ChatCalls /\ early[c] > 0)

GatewayInv == CallTypes /\ InboxTypes /\ SocketTypes /\ \A c \in Calls : CallOK(c)

\* Somebody else's message is appended.
LEMMA UnderwayOther ==
  ASSUME NEW S, NEW q \in Seq(S), NEW c, NEW n \in Nat, NEW m \in Nat, Underway(q, c, n, m),
         NEW x \in S, x[1] # c
  PROVE  Underway(Append(q, x), c, n, m)
<1>1. PICK r : r = Append(q, x)
  BY Zenon
<1>2. /\ Len(q) \in Nat /\ Len(r) = Len(q) + 1 /\ \A i \in 1..Len(q) : r[i] = q[i] /\ i \in 1..Len(r)
      /\ \A i \in 1..Len(r) : i \in 1..Len(q) \/ r[i] = x
  BY <1>1
<1>3. \A i \in 1..Len(r) : r[i][1] = c => i \in 1..Len(q) /\ r[i] = q[i]
  BY Zenon, <1>2
<1>4. ASSUME NEW i \in 1..Len(r), NEW j \in 1..Len(r), i < j, r[i][1] = c, r[j][1] = c
      PROVE  r[i][2] < r[j][2]
  BY Zenon, <1>3, <1>4 DEF Underway
<1>5. ASSUME NEW i \in 1..Len(r), r[i][1] = c PROVE r[i][2] \in n+1..m
  BY Zenon, <1>3, <1>5 DEF Underway
<1>6. ASSUME NEW z \in n+1..m PROVE \E i \in 1..Len(r) : r[i][1] = c /\ r[i][2] = z
  <2>1. PICK i \in 1..Len(q) : q[i][1] = c /\ q[i][2] = z
    BY Zenon DEF Underway
  <2> QED
    BY Zenon, <1>2, <2>1
<1>7. Underway(r, c, n, m)
  BY Zenon, <1>4, <1>5, <1>6 DEF Underway
<1> QED
  BY Zenon, <1>1, <1>7

\* The next answer is appended.
LEMMA UnderwayNext ==
  ASSUME NEW S, NEW q \in Seq(S), NEW c, NEW n \in Nat, NEW m \in Nat, Underway(q, c, n, m),
         NEW x \in S, x[1] = c, x[2] = m + 1
  PROVE  Underway(Append(q, x), c, n, m + 1)
<1>1. PICK r, k : r = Append(q, x) /\ k = m + 1
  BY Zenon
<1>2. /\ Len(q) \in Nat /\ Len(r) = Len(q) + 1 /\ \A i \in 1..Len(q) : r[i] = q[i] /\ i \in 1..Len(r)
      /\ r[Len(r)] = x /\ Len(r) \in 1..Len(r)
      /\ \A i \in 1..Len(r) : i \in 1..Len(q) \/ i = Len(r)
      /\ \A i, j \in 1..Len(r) : i < j => i \in 1..Len(q)
  BY <1>1
<1>3. n <= k /\ k \in n+1..k /\ n+1..m \subseteq n+1..k /\ \A z \in n+1..k : z \in n+1..m \/ z = k
  BY <1>1 DEF Underway
<1>4. \A z \in n+1..m : z < k
  BY <1>1
<1>5. ASSUME NEW i \in 1..Len(r), r[i][1] = c PROVE r[i][2] \in n+1..k
  <2>1. CASE i \in 1..Len(q)
    <3>1. r[i] = q[i] /\ q[i][1] = c
      BY Zenon, <1>2, <1>5, <2>1
    <3>2. q[i][2] \in n+1..m
      BY Zenon, <2>1, <3>1 DEF Underway
    <3> QED
      BY Zenon, <1>3, <3>1, <3>2
  <2>2. CASE i = Len(r)
    BY Zenon, <1>1, <1>2, <1>3, <2>2
  <2> QED
    BY Zenon, <1>2, <2>1, <2>2
<1>6. ASSUME NEW i \in 1..Len(r), NEW j \in 1..Len(r), i < j, r[i][1] = c, r[j][1] = c
      PROVE  r[i][2] < r[j][2]
  <2>1. i \in 1..Len(q) /\ r[i] = q[i] /\ q[i][1] = c
    BY Zenon, <1>2, <1>6
  <2>2. CASE j \in 1..Len(q)
    BY Zenon, <1>2, <1>6, <2>1, <2>2 DEF Underway
  <2>3. CASE j = Len(r)
    BY ZenonT(30), <1>1, <1>2, <1>4, <2>1, <2>3 DEF Underway
  <2> QED
    BY Zenon, <1>2, <2>2, <2>3
<1>7. ASSUME NEW z \in n+1..k PROVE \E i \in 1..Len(r) : r[i][1] = c /\ r[i][2] = z
  <2>1. CASE z \in n+1..m
    <3>1. PICK i \in 1..Len(q) : q[i][1] = c /\ q[i][2] = z
      BY Zenon, <2>1 DEF Underway
    <3>2. r[i] = q[i] /\ i \in 1..Len(r)
      BY Zenon, <1>2
    <3> QED
      BY Zenon, <3>1, <3>2
  <2>2. CASE z = k
    BY Zenon, <1>1, <1>2, <2>2
  <2> QED
    BY Zenon, <1>3, <2>1, <2>2
<1>8. Underway(r, c, n, k)
  BY Zenon, <1>3, <1>5, <1>6, <1>7 DEF Underway
<1> QED
  BY Zenon, <1>1, <1>8

\* Somebody else's message is taken.
LEMMA UnderwayTail ==
  ASSUME NEW S, NEW q \in Seq(S), q # <<>>, NEW c, NEW n \in Nat, NEW m \in Nat, Underway(q, c, n, m),
         Head(q)[1] # c
  PROVE  Underway(Tail(q), c, n, m)
<1>1. PICK r : r = Tail(q)
  BY Zenon
<1>2. /\ Len(q) \in Nat /\ Len(r) = Len(q) - 1 /\ \A i \in 1..Len(r) : r[i] = q[i + 1] /\ i + 1 \in 1..Len(q)
      /\ Head(q) = q[1]
  BY <1>1
<1>3. \A i, j \in 1..Len(r) : i < j => i + 1 < j + 1
  BY <1>2
<1>4. \A i \in 1..Len(q) : i = 1 \/ \E j \in 1..Len(r) : i = j + 1
  <2> TAKE i \in 1..Len(q)
  <2>1. i = 1 \/ (i - 1 \in 1..Len(r) /\ i = (i - 1) + 1)
    BY <1>2
  <2> QED
    BY Zenon, <2>1
<1>5. ASSUME NEW z \in n+1..m PROVE \E i \in 1..Len(r) : r[i][1] = c /\ r[i][2] = z
  <2>1. PICK i \in 1..Len(q) : q[i][1] = c /\ q[i][2] = z
    BY Zenon DEF Underway
  <2>2. i # 1
    BY Zenon, <1>2, <2>1
  <2>3. PICK j \in 1..Len(r) : i = j + 1
    BY Zenon, <1>4, <2>2
  <2> QED
    BY Zenon, <1>2, <2>1, <2>3
<1>6. ASSUME NEW i \in 1..Len(r), NEW j \in 1..Len(r), i < j, r[i][1] = c, r[j][1] = c
      PROVE  r[i][2] < r[j][2]
  <2>1. PICK a \in 1..Len(q), b \in 1..Len(q) : a = i + 1 /\ b = j + 1 /\ r[i] = q[a] /\ r[j] = q[b]
    BY Zenon, <1>2
  <2>2. a < b /\ q[a][1] = c /\ q[b][1] = c
    BY Zenon, <1>3, <2>1, <1>6
  <2>3. q[a][2] < q[b][2]
    BY Zenon, <2>2 DEF Underway
  <2> QED
    BY Zenon, <2>1, <2>3
<1>7. ASSUME NEW i \in 1..Len(r), r[i][1] = c PROVE r[i][2] \in n+1..m
  BY Zenon, <1>2, <1>7 DEF Underway
<1>8. Underway(r, c, n, m)
  BY Zenon, <1>5, <1>6, <1>7 DEF Underway
<1> QED
  BY Zenon, <1>1, <1>8

\* The first answer is taken, and is the next one.
LEMMA UnderwayTake ==
  ASSUME NEW S, NEW q \in Seq(S), q # <<>>, NEW c, NEW n \in Nat, NEW m \in Nat, Underway(q, c, n, m),
         Head(q)[1] = c
  PROVE  Head(q)[2] = n + 1 /\ Underway(Tail(q), c, n + 1, m)
<1>1. PICK r, k, h : r = Tail(q) /\ k = n + 1 /\ h = Head(q)[2]
  BY Zenon
<1>2. /\ Len(q) \in Nat /\ Len(r) = Len(q) - 1 /\ \A i \in 1..Len(r) : r[i] = q[i + 1] /\ i + 1 \in 1..Len(q)
      /\ Head(q) = q[1] /\ 1 \in 1..Len(q) /\ k \in Nat
  BY <1>1
<1>3. \A i, j \in 1..Len(r) : i < j => i + 1 < j + 1
  BY <1>2
<1>4. \A i \in 1..Len(q) : i = 1 \/ \E j \in 1..Len(r) : i = j + 1
  <2> TAKE i \in 1..Len(q)
  <2>1. i = 1 \/ (i - 1 \in 1..Len(r) /\ i = (i - 1) + 1)
    BY <1>2
  <2> QED
    BY Zenon, <2>1
<1>5. h \in n+1..m
  BY Zenon, <1>1, <1>2 DEF Underway
<1>6. \A i \in 1..Len(q) : q[i][1] = c /\ i # 1 => h < q[i][2] /\ q[i][2] \in n+1..m
  <2> TAKE i \in 1..Len(q)
  <2>1. i # 1 => 1 < i
    BY <1>2
  <2> QED
    BY Zenon, <1>1, <1>2, <2>1 DEF Underway
<1>7. h = k
  <2>1. k \in n+1..m
    BY <1>1, <1>5
  <2>2. PICK i \in 1..Len(q) : q[i][1] = c /\ q[i][2] = k
    BY Zenon, <2>1 DEF Underway
  <2>3. CASE i = 1
    BY Zenon, <1>1, <1>2, <2>2, <2>3
  <2>4. CASE i # 1
    <3>1. h < k
      BY Zenon, <1>6, <2>2, <2>4
    <3> QED
      BY <1>1, <1>5, <3>1
  <2> QED
    BY Zenon, <2>3, <2>4
<1>8. k <= m /\ k+1..m \subseteq n+1..m /\ (\A z \in n+1..m : k < z => z \in k+1..m) /\ k \notin k+1..m
  BY <1>1, <1>5
<1>9. ASSUME NEW i \in 1..Len(r), r[i][1] = c PROVE r[i][2] \in k+1..m
  <2>1. i + 1 # 1
    OBVIOUS
  <2> QED
    BY Zenon, <1>2, <1>6, <1>7, <1>8, <1>9, <2>1
<1>10. \A z \in k+1..m : \E i \in 1..Len(r) : r[i][1] = c /\ r[i][2] = z
  <2> SUFFICES ASSUME NEW z \in k+1..m PROVE \E i \in 1..Len(r) : r[i][1] = c /\ r[i][2] = z
    BY Zenon
  <2>1. PICK i \in 1..Len(q) : q[i][1] = c /\ q[i][2] = z
    BY Zenon, <1>8 DEF Underway
  <2>2. i # 1
    BY Zenon, <1>1, <1>2, <1>7, <1>8, <2>1
  <2> QED
    BY Zenon, <1>2, <1>4, <2>1, <2>2
<1>11. ASSUME NEW i \in 1..Len(r), NEW j \in 1..Len(r), i < j, r[i][1] = c, r[j][1] = c
      PROVE  r[i][2] < r[j][2]
  <2>1. PICK a \in 1..Len(q), b \in 1..Len(q) : a = i + 1 /\ b = j + 1 /\ r[i] = q[a] /\ r[j] = q[b]
    BY Zenon, <1>2
  <2>2. a < b /\ q[a][1] = c /\ q[b][1] = c
    BY Zenon, <1>3, <2>1, <1>11
  <2>3. q[a][2] < q[b][2]
    BY Zenon, <2>2 DEF Underway
  <2> QED
    BY Zenon, <2>1, <2>3
<1>12. Underway(r, c, k, m)
  BY Zenon, <1>8, <1>9, <1>10, <1>11 DEF Underway
<1> QED
  BY Zenon, <1>1, <1>7, <1>12

\* GatewayInv is what AnswersArrive says, and more.
LEMMA GatewayShows == GatewayInv => AnswersArrive
<1> SUFFICES ASSUME GatewayInv PROVE AnswersArrive
  BY Zenon
<1>1. CallTypes /\ SocketTypes /\ \A c \in Calls : CallOK(c)
  BY Zenon DEF GatewayInv
<1>2. GatewaysTypeOK
  BY Zenon, <1>1 DEF CallTypes, SocketTypes, GatewaysTypeOK, Numbers
<1>3. AnswerReachesCall
  BY Zenon, <1>1 DEF CallOK, AnswerReachesCall
<1>4. FirstAnswer
  BY Zenon, <1>1 DEF CallOK, FirstAnswer
<1> QED
  BY Zenon, <1>2, <1>3, <1>4 DEF AnswersArrive

\* A call whose gateway and whose answers are left alone.
LEMMA CallSame ==
  ASSUME NEW c, CallOK(c), pc'[c] = pc[c], replies'[c] = replies[c], early'[c] = early[c],
         seen'[c] = seen[c], waiter'[c] = waiter[c], result'[c] = result[c],
         c \in McpCalls => buffered'[c] = buffered[c],
         Underway(inbox[Of(c)], c, early[c] + seen[c], replies[c])
           => Underway(inbox'[Of(c)], c, early[c] + seen[c], replies[c])
  PROVE  CallOK(c)'
BY Zenon DEF CallOK

\* No call and no answer at the start.
LEMMA GatewayStarts == GatewaysInit => GatewayInv
<1> SUFFICES ASSUME GatewaysInit PROVE GatewayInv
  BY Zenon
<1>1. /\ pc = [c \in Calls |-> "idle"] /\ replies = [c \in Calls |-> 0]
      /\ inbox = [g \in Gateway |-> <<>>]
      /\ waiter = [c \in Calls |-> <<>>] /\ waits = {}
      /\ buffered = [c \in McpCalls |-> 0] /\ result = [c \in Calls |-> 0]
      /\ open = {} /\ channel = [w \in Sockets |-> <<>>]
      /\ seen = [c \in Calls |-> 0] /\ early = [c \in Calls |-> 0] /\ events = 0
  BY Zenon DEF GatewaysInit
<1>2. CallTypes
  <2>1. 0 \in 0..MaxReplies /\ 0 \in Nat
    BY GatewaysAssumption
  <2>2. \A c \in Calls : pc[c] # "waiting"
    BY Zenon, <1>1
  <2>3. waits = {c \in Calls : pc[c] = "waiting"}
    BY Zenon, <1>1, <2>2
  <2>4. /\ pc \in [Calls -> {"idle", "opened", "failed", "waiting", "done", "timedout"}]
        /\ waiter \in [Calls -> {<<>>} \union {<<n>> : n \in Numbers}]
    BY Zenon, <1>1
  <2>5. /\ replies \in [Calls -> 0..MaxReplies]
        /\ buffered \in [McpCalls -> 0..MaxReplies] /\ result \in [Calls -> 0..MaxReplies]
        /\ seen \in [Calls -> Nat] /\ early \in [Calls -> Nat]
    BY Zenon, <1>1, <2>1
  <2> QED
    BY Zenon, <2>3, <2>4, <2>5 DEF CallTypes
<1>3. InboxTypes
  <2>1. events \in 0..MaxEvents
    BY <1>1, GatewaysAssumption
  <2>2. inbox \in [Gateway -> Seq(Posted)] /\ \A g \in Gateway : Len(inbox[g]) = 0
    BY <1>1
  <2>3. \A g \in Gateway : \A i \in 1..Len(inbox[g]) : inbox[g][i] \in Messages(g)
    BY <2>2
  <2> QED
    BY Zenon, <2>1, <2>2, <2>3 DEF InboxTypes
<1>4. SocketTypes
  BY <1>1, GatewaysAssumption DEF SocketTypes
<1>5. ASSUME NEW c \in Calls PROVE CallOK(c)
  <2>1. /\ pc[c] = "idle" /\ replies[c] = 0 /\ early[c] = 0 /\ seen[c] = 0 /\ waiter[c] = <<>>
        /\ c \in McpCalls => buffered[c] = 0
    BY Zenon, <1>1
  <2>2. Of(c) \in Gateway /\ inbox[Of(c)] = <<>>
    BY Zenon, <1>1 DEF Of, Gateway
  <2>3. Underway(inbox[Of(c)], c, early[c] + seen[c], replies[c])
    <3>1. PICK q, n, m : q = inbox[Of(c)] /\ n = early[c] + seen[c] /\ m = replies[c]
      BY Zenon
    <3>2. n = 0 /\ m = 0 /\ Len(q) = 0
      BY <2>1, <2>2, <3>1
    <3>3. Underway(q, c, n, m)
      BY <3>2 DEF Underway
    <3> QED
      BY Zenon, <3>1, <3>3
  <2>4. "idle" \notin {"waiting", "opened", "done"}
    BY Zenon
  <2> QED
    BY Zenon, <2>1, <2>3, <2>4 DEF CallOK
<1> QED
  BY Zenon, <1>2, <1>3, <1>4, <1>5 DEF GatewayInv

\* The gateway of a call.
LEMMA OfType ==
  ASSUME NEW c \in Calls
  PROVE  /\ Of(c) \in Gateway /\ c # NoCall
         /\ c \in McpCalls => Of(c) = "mcp" /\ c \notin ChatCalls
         /\ c \in ChatCalls => Of(c) = "chat" /\ c \notin McpCalls
         /\ c \in McpCalls \/ c \in ChatCalls
BY Zenon, GatewaysAssumption DEF Of, Gateway, Calls

\* The counts of a call are numbers.
LEMMA CountType ==
  ASSUME CallTypes, NEW c \in Calls
  PROVE  /\ early[c] \in Nat /\ seen[c] \in Nat /\ early[c] + seen[c] \in Nat
         /\ replies[c] \in 0..MaxReplies /\ replies[c] \in Nat
<1>1. early[c] \in Nat /\ seen[c] \in Nat /\ replies[c] \in 0..MaxReplies
  BY Zenon DEF CallTypes
<1> QED
  BY <1>1, GatewaysAssumption

\* A step of one call that leaves the subscriptions and the websockets alone.
LEMMA OneCall ==
  ASSUME GatewayInv, NEW c \in Calls, CallTypes', CallOK(c)',
         UNCHANGED <<replies, seen, early, inbox, sockets>>,
         \A d \in Calls \ {c} :
           /\ pc'[d] = pc[d] /\ waiter'[d] = waiter[d] /\ result'[d] = result[d]
           /\ d \in McpCalls => buffered'[d] = buffered[d]
  PROVE  GatewayInv'
<1>1. InboxTypes /\ SocketTypes /\ \A d \in Calls : CallOK(d)
  BY Zenon DEF GatewayInv
<1>2. UNCHANGED <<open, channel, events>>
  BY Zenon DEF sockets
<1>3. InboxTypes' /\ SocketTypes'
  BY Zenon, <1>1, <1>2 DEF InboxTypes, SocketTypes
<1>4. ASSUME NEW d \in Calls, d # c PROVE CallOK(d)'
  <2>1. CallOK(d) /\ d \in Calls \ {c}
    BY Zenon, <1>1, <1>4
  <2>2. /\ pc'[d] = pc[d] /\ waiter'[d] = waiter[d] /\ result'[d] = result[d]
        /\ d \in McpCalls => buffered'[d] = buffered[d]
    BY Zenon, <2>1
  <2> QED
    BY Zenon, <2>1, <2>2, CallSame
<1> QED
  BY Zenon, <1>3, <1>4 DEF GatewayInv

\* OpenSession: whatever the agent answers is still to come.
LEMMA OpenStep == ASSUME GatewayInv, NEW c \in Calls, OpenSession(c) PROVE GatewayInv'
<1>1. PICK to \in {"opened", "failed"} : pc' = [pc EXCEPT ![c] = to]
  BY Zenon DEF OpenSession
<1>2. /\ pc[c] = "idle" /\ CallTypes /\ CallOK(c)
      /\ UNCHANGED <<replies, waiter, waits, buffered, result, seen, early, inbox, sockets>>
  BY Zenon DEF OpenSession, GatewayInv
<1>3. /\ pc'[c] = to /\ \A d \in Calls \ {c} : pc'[d] = pc[d]
      /\ pc' \in [Calls -> {"idle", "opened", "failed", "waiting", "done", "timedout"}]
  BY Zenon, <1>1, <1>2 DEF CallTypes
<1>4. to # "waiting" /\ pc[c] # "waiting" /\ to # "done" /\ pc[c] \in {"idle", "failed", "opened", "waiting"}
      /\ pc[c] \in {"idle", "failed"}
  BY Zenon, <1>2
<1>5. CallTypes'
  <2>1. \A d \in Calls : pc'[d] = "waiting" <=> pc[d] = "waiting"
    BY Zenon, <1>3, <1>4
  <2> QED
    BY Zenon, <1>2, <1>3, <2>1 DEF CallTypes
<1>6. CallOK(c)'
  <2>1. /\ replies[c] = 0 /\ early[c] = 0 /\ seen[c] = 0 /\ (c \in McpCalls => buffered[c] = 0)
        /\ waiter[c] = <<>> /\ Underway(inbox[Of(c)], c, early[c] + seen[c], replies[c])
    BY Zenon, <1>2, <1>4 DEF CallOK
  <2>2. early[c] # 1
    BY <2>1
  <2> QED
    BY Zenon, <1>2, <1>3, <1>4, <2>1, <2>2 DEF CallOK
<1> QED
  BY Zenon, <1>2, <1>3, <1>5, <1>6, OneCall

\* callAgent and WaitForSession: the call waits, with what was kept for it.
LEMMA WaitStep ==
  ASSUME GatewayInv, NEW c \in Calls, callAgent(c) \/ WaitForSession(c)
  PROVE  GatewayInv'
<1>1. /\ CallTypes /\ CallOK(c) /\ pc[c] = "opened" /\ pc' = [pc EXCEPT ![c] = "waiting"]
      /\ waits' = waits \union {c} /\ UNCHANGED <<replies, result, seen, early, inbox, sockets>>
  BY Zenon DEF GatewayInv, callAgent, WaitForSession
<1>2. /\ pc'[c] = "waiting" /\ \A d \in Calls \ {c} : pc'[d] = pc[d]
      /\ pc' \in [Calls -> {"idle", "opened", "failed", "waiting", "done", "timedout"}]
  BY Zenon, <1>1 DEF CallTypes
<1>3. waits' = {d \in Calls : pc'[d] = "waiting"}
  BY Zenon, <1>1, <1>2 DEF CallTypes
<1>4. pc[c] # "waiting" /\ pc[c] \in {"idle", "failed", "opened", "waiting"}
      /\ "waiting" \notin {"idle", "failed"} /\ "waiting" # "opened" /\ "waiting" # "done"
      /\ "waiting" \in {"idle", "failed", "opened", "waiting"}
  BY Zenon, <1>1
<1>5. /\ seen[c] = 0 /\ waiter[c] = <<>> /\ Underway(inbox[Of(c)], c, early[c] + seen[c], replies[c])
      /\ c \in McpCalls => (early[c] = 0 <=> buffered[c] = 0) /\ (early[c] = 1 => buffered[c] = 1)
  BY Zenon, <1>1, <1>4 DEF CallOK
<1>6. early[c] \in Nat /\ seen[c] \in Nat /\ ~(seen[c] > 0)
  BY <1>1, <1>5, CountType
<1>7. /\ waiter' \in [Calls -> {<<>>} \union {<<n>> : n \in Numbers}]
      /\ buffered' \in [McpCalls -> 0..MaxReplies]
      /\ \A d \in Calls \ {c} : waiter'[d] = waiter[d] /\ (d \in McpCalls => buffered'[d] = buffered[d])
      /\ c \in McpCalls /\ early[c] > 0 => waiter'[c] # <<>>
      /\ waiter'[c] # <<>> => waiter'[c][1] = 1 \/ (c \in McpCalls /\ early[c] > 1)
  <2>1. CASE callAgent(c)
    <3>1. /\ c \in McpCalls /\ buffered' = [buffered EXCEPT ![c] = 0]
          /\ waiter' = IF buffered[c] # 0 THEN [waiter EXCEPT ![c] = <<buffered[c]>>] ELSE waiter
      BY Zenon, <2>1 DEF callAgent
    <3>2. /\ buffered \in [McpCalls -> 0..MaxReplies]
          /\ waiter \in [Calls -> {<<>>} \union {<<n>> : n \in Numbers}]
      BY Zenon, <1>1 DEF CallTypes
    <3>3. PICK b \in 0..MaxReplies : b = buffered[c]
      BY Zenon, <3>1, <3>2
    <3>4. 0 \in 0..MaxReplies /\ (b # 0 => b \in Numbers)
      BY GatewaysAssumption DEF Numbers
    <3>5. buffered' \in [McpCalls -> 0..MaxReplies] /\ \A d \in McpCalls \ {c} : buffered'[d] = buffered[d]
      BY Zenon, <3>1, <3>2, <3>4
    <3>6. CASE b = 0
      <4>1. waiter' = waiter /\ early[c] = 0
        BY Zenon, <1>5, <3>1, <3>3, <3>6
      <4>2. ~(early[c] > 0)
        BY <4>1
      <4> QED
        BY Zenon, <1>5, <3>2, <3>5, <4>1, <4>2
    <3>7. CASE b # 0
      <4>1. waiter' = [waiter EXCEPT ![c] = <<b>>] /\ <<b>> \in {<<>>} \union {<<n>> : n \in Numbers}
        BY Zenon, <3>1, <3>3, <3>4, <3>7
      <4>2. /\ waiter' \in [Calls -> {<<>>} \union {<<n>> : n \in Numbers}]
            /\ waiter'[c] = <<b>> /\ \A d \in Calls \ {c} : waiter'[d] = waiter[d]
        BY Zenon, <3>2, <4>1
      <4>3. <<b>> # <<>> /\ <<b>>[1] = b
        BY Zenon
      <4>4. b = 1 \/ early[c] > 1
        <5>1. early[c] # 0 /\ (early[c] = 1 => b = 1)
          BY Zenon, <1>5, <3>1, <3>3, <3>7
        <5>2. PICK e \in Nat : e = early[c]
          BY Zenon, <1>6
        <5>3. e # 0 => e = 1 \/ e > 1
          BY <5>2
        <5> QED
          BY Zenon, <5>1, <5>2, <5>3
      <4> QED
        BY Zenon, <3>1, <3>5, <4>2, <4>3, <4>4
    <3> QED
      BY Zenon, <3>6, <3>7
  <2>2. CASE WaitForSession(c)
    <3>1. c \in ChatCalls /\ UNCHANGED <<waiter, buffered>>
      BY Zenon, <2>2 DEF WaitForSession
    <3> QED
      BY Zenon, <1>1, <1>5, <3>1, OfType DEF CallTypes
  <2> QED
    BY Zenon, <2>1, <2>2
<1>8. CallTypes'
  BY Zenon, <1>1, <1>2, <1>3, <1>7 DEF CallTypes
<1>9. CallOK(c)'
  BY Zenon, <1>1, <1>2, <1>4, <1>5, <1>6, <1>7 DEF CallOK
<1> QED
  BY Zenon, <1>1, <1>2, <1>7, <1>8, <1>9, OneCall

\* A call that waits ends, with the answer or without.
LEMMA EndStep ==
  ASSUME GatewayInv, NEW c \in Calls, handleToolsCall(c) \/ handleSendToAgent(c) \/ Timeout(c)
  PROVE  GatewayInv'
<1>1. PICK how \in {"done", "timedout"} :
        /\ Ends(c, how)
        /\ how = "done" => waiter[c] # <<>> /\ result' = [result EXCEPT ![c] = Head(waiter[c])]
        /\ how = "timedout" => result' = result
  BY Zenon DEF handleToolsCall, handleSendToAgent, Timeout
<1>2. /\ CallTypes /\ CallOK(c) /\ pc[c] = "waiting"
      /\ UNCHANGED <<replies, seen, early, inbox, sockets>>
  BY Zenon DEF GatewayInv, handleToolsCall, handleSendToAgent, Timeout
<1>3. /\ buffered' = [d \in McpCalls |-> IF d = c THEN 0 ELSE buffered[d]]
      /\ pc' = [pc EXCEPT ![c] = how]
      /\ waits' = waits \ {c} /\ waiter' = [waiter EXCEPT ![c] = <<>>]
  BY Zenon, <1>1 DEF Ends
<1>4. /\ pc \in [Calls -> {"idle", "opened", "failed", "waiting", "done", "timedout"}]
      /\ waiter \in [Calls -> {<<>>} \union {<<n>> : n \in Numbers}]
      /\ buffered \in [McpCalls -> 0..MaxReplies] /\ result \in [Calls -> 0..MaxReplies]
  BY Zenon, <1>2 DEF CallTypes
<1>5. /\ how # "waiting" /\ how \notin {"idle", "failed", "opened", "waiting"} /\ how # "opened"
      /\ how \notin {"idle", "failed"}
      /\ how \in {"idle", "opened", "failed", "waiting", "done", "timedout"}
  BY Zenon
<1>6. /\ pc'[c] = how /\ (\A d \in Calls \ {c} : pc'[d] = pc[d])
      /\ pc' \in [Calls -> {"idle", "opened", "failed", "waiting", "done", "timedout"}]
  BY Zenon, <1>3, <1>4, <1>5
<1>7. /\ waiter'[c] = <<>> /\ (\A d \in Calls \ {c} : waiter'[d] = waiter[d])
      /\ waiter' \in [Calls -> {<<>>} \union {<<n>> : n \in Numbers}]
  BY Zenon, <1>3, <1>4
<1>8. buffered' \in [McpCalls -> 0..MaxReplies] /\ \A d \in McpCalls \ {c} : buffered'[d] = buffered[d]
  <2>1. 0 \in 0..MaxReplies
    BY GatewaysAssumption
  <2> QED
    BY Zenon, <1>3, <1>4, <2>1
<1>9. /\ result' \in [Calls -> 0..MaxReplies] /\ (\A d \in Calls \ {c} : result'[d] = result[d])
      /\ how = "done" => result'[c] = 1 \/ (c \in McpCalls /\ early[c] > 1) \/ (c \in ChatCalls /\ early[c] > 0)
  <2>1. CASE how = "done"
    <3>1. PICK n \in Numbers : waiter[c] = <<n>>
      <4>1. waiter[c] \in {<<n>> : n \in Numbers}
        BY Zenon, <1>1, <1>4, <2>1
      <4> QED
        BY Zenon, <4>1
    <3>2. n = Head(waiter[c]) /\ n = waiter[c][1] /\ n \in 0..MaxReplies /\ waiter[c] # <<>>
      BY <3>1 DEF Numbers
    <3>3. n = 1 \/ (c \in McpCalls /\ early[c] > 1) \/ (c \in ChatCalls /\ early[c] > 0)
      BY Zenon, <1>2, <3>2 DEF CallOK
    <3>4. result' = [result EXCEPT ![c] = n]
      BY Zenon, <1>1, <2>1, <3>2
    <3> QED
      BY Zenon, <1>4, <3>2, <3>3, <3>4
  <2>2. CASE how = "timedout"
    <3>1. how # "done"
      BY Zenon, <2>2
    <3> QED
      BY Zenon, <1>1, <1>4, <2>2, <3>1
  <2> QED
    BY Zenon, <2>1, <2>2
<1>10. waits' = {d \in Calls : pc'[d] = "waiting"}
  BY Zenon, <1>2, <1>3, <1>5, <1>6 DEF CallTypes
<1>11. CallTypes'
  BY Zenon, <1>2, <1>6, <1>7, <1>8, <1>9, <1>10 DEF CallTypes
<1>12. CallOK(c)'
  BY Zenon, <1>5, <1>6, <1>7, <1>9, <1>2 DEF CallOK
<1> QED
  BY Zenon, <1>2, <1>6, <1>7, <1>8, <1>9, <1>11, <1>12, OneCall

\* A message comes in by the subscription of gateway g.
LEMMA InboxAppend ==
  ASSUME InboxTypes, NEW g \in Gateway, NEW x \in Messages(g), events' \in 0..MaxEvents,
         inbox' = [inbox EXCEPT ![g] = Append(@, x)]
  PROVE  /\ InboxTypes' /\ x \in Posted /\ inbox'[g] = Append(inbox[g], x)
         /\ \A h \in Gateway \ {g} : inbox'[h] = inbox[h]
<1>1. /\ inbox \in [Gateway -> Seq(Posted)]
      /\ \A h \in Gateway : \A i \in 1..Len(inbox[h]) : inbox[h][i] \in Messages(h)
  BY Zenon DEF InboxTypes
<1>2. x \in Posted
  BY Zenon DEF Posted
<1>3. PICK q \in Seq(Posted) : q = inbox[g]
  BY Zenon, <1>1
<1>4. PICK r : r = Append(q, x)
  BY Zenon
<1>5. /\ r \in Seq(Posted) /\ Len(q) \in Nat
      /\ \A i \in 1..Len(r) : (i \in 1..Len(q) /\ r[i] = q[i]) \/ r[i] = x
  BY <1>2, <1>4
<1>6. inbox' = [inbox EXCEPT ![g] = r]
  BY Zenon, <1>3, <1>4
<1>7. /\ inbox' \in [Gateway -> Seq(Posted)] /\ inbox'[g] = r
      /\ \A h \in Gateway \ {g} : inbox'[h] = inbox[h]
  BY Zenon, <1>1, <1>5, <1>6
<1>8. ASSUME NEW h \in Gateway, NEW i \in 1..Len(inbox'[h]) PROVE inbox'[h][i] \in Messages(h)
  <2>1. CASE h = g
    <3>1. inbox'[h] = r /\ i \in 1..Len(r)
      BY Zenon, <1>7, <2>1
    <3>2. r[i] \in Messages(g)
      BY Zenon, <1>1, <1>3, <1>5, <3>1
    <3> QED
      BY Zenon, <2>1, <3>1, <3>2
  <2>2. CASE h # g
    <3>1. inbox'[h] = inbox[h]
      BY Zenon, <1>7, <2>2
    <3>2. i \in 1..Len(inbox[h])
      BY Zenon, <3>1
    <3> QED
      BY Zenon, <1>1, <3>1, <3>2
  <2> QED
    BY Zenon, <2>1, <2>2
<1> QED
  BY Zenon, <1>2, <1>3, <1>4, <1>7, <1>8 DEF InboxTypes

\* Gateway g takes the first message of its subscription.
LEMMA InboxTail ==
  ASSUME InboxTypes, NEW g \in Gateway, inbox[g] # <<>>, Took(g), UNCHANGED events
  PROVE  /\ InboxTypes' /\ Head(inbox[g]) \in Messages(g) /\ inbox'[g] = Tail(inbox[g])
         /\ \A h \in Gateway \ {g} : inbox'[h] = inbox[h]
<1>1. /\ inbox \in [Gateway -> Seq(Posted)]
      /\ \A h \in Gateway : \A i \in 1..Len(inbox[h]) : inbox[h][i] \in Messages(h)
  BY Zenon DEF InboxTypes
<1>2. PICK q \in Seq(Posted) : q = inbox[g] /\ q # <<>>
  BY Zenon, <1>1
<1>3. PICK r : r = Tail(q)
  BY Zenon
<1>4. /\ r \in Seq(Posted) /\ Len(q) \in Nat /\ 1 \in 1..Len(q) /\ Head(q) = q[1]
      /\ \A i \in 1..Len(r) : i + 1 \in 1..Len(q) /\ r[i] = q[i + 1]
  BY <1>2, <1>3
<1>5. inbox' = [inbox EXCEPT ![g] = r]
  BY Zenon, <1>2, <1>3 DEF Took
<1>6. /\ inbox' \in [Gateway -> Seq(Posted)] /\ inbox'[g] = r
      /\ \A h \in Gateway \ {g} : inbox'[h] = inbox[h]
  BY Zenon, <1>1, <1>4, <1>5
<1>7. ASSUME NEW h \in Gateway, NEW i \in 1..Len(inbox'[h]) PROVE inbox'[h][i] \in Messages(h)
  <2>1. CASE h = g
    <3>1. inbox'[h] = r /\ i \in 1..Len(r)
      BY Zenon, <1>6, <2>1
    <3>2. q[i + 1] \in Messages(g) /\ r[i] = q[i + 1]
      BY Zenon, <1>1, <1>2, <1>4, <3>1
    <3> QED
      BY Zenon, <2>1, <3>1, <3>2
  <2>2. CASE h # g
    <3>1. inbox'[h] = inbox[h]
      BY Zenon, <1>6, <2>2
    <3>2. i \in 1..Len(inbox[h])
      BY Zenon, <3>1
    <3> QED
      BY Zenon, <1>1, <3>1, <3>2
  <2> QED
    BY Zenon, <2>1, <2>2
<1>8. Head(inbox[g]) \in Messages(g)
  BY Zenon, <1>1, <1>2, <1>4
<1> QED
  BY Zenon, <1>2, <1>3, <1>6, <1>7, <1>8 DEF InboxTypes

\* The answers of a call are not disturbed by a message that is another's.
LEMMA OthersUnderway ==
  ASSUME CallTypes, InboxTypes, NEW g \in Gateway, NEW d \in Calls,
         \A h \in Gateway \ {g} : inbox'[h] = inbox[h],
         \/ \E x \in Posted : x[1] # d /\ inbox'[g] = Append(inbox[g], x)
         \/ inbox[g] # <<>> /\ Head(inbox[g])[1] # d /\ inbox'[g] = Tail(inbox[g]),
         Underway(inbox[Of(d)], d, early[d] + seen[d], replies[d])
  PROVE  Underway(inbox'[Of(d)], d, early[d] + seen[d], replies[d])
<1>1. early[d] + seen[d] \in Nat /\ replies[d] \in Nat /\ Of(d) \in Gateway
  BY Zenon, CountType, OfType
<1>2. CASE Of(d) = g
  <2>1. PICK q \in Seq(Posted) : q = inbox[g]
    BY Zenon DEF InboxTypes
  <2>2. CASE \E x \in Posted : x[1] # d /\ inbox'[g] = Append(inbox[g], x)
    <3>1. PICK x \in Posted : x[1] # d /\ inbox'[g] = Append(q, x)
      BY Zenon, <2>1, <2>2
    <3>2. Underway(q, d, early[d] + seen[d], replies[d])
      BY Zenon, <1>2, <2>1
    <3>3. Underway(Append(q, x), d, early[d] + seen[d], replies[d])
      BY Zenon, <1>1, <3>1, <3>2, UnderwayOther
    <3> QED
      BY Zenon, <1>2, <3>1, <3>3
  <2>3. CASE inbox[g] # <<>> /\ Head(inbox[g])[1] # d /\ inbox'[g] = Tail(inbox[g])
    BY Zenon, <1>1, <1>2, <2>1, <2>3, UnderwayTail
  <2> QED
    BY Zenon, <2>2, <2>3
<1>3. CASE Of(d) # g
  BY Zenon, <1>1, <1>3
<1> QED
  BY Zenon, <1>2, <1>3

\* Reply: the next answer is behind those that were not taken.
LEMMA ReplyStep == ASSUME GatewayInv, NEW c \in Calls, Reply(c) PROVE GatewayInv'
<1>1. /\ CallTypes /\ InboxTypes /\ SocketTypes /\ \A d \in Calls : CallOK(d)
  BY Zenon DEF GatewayInv
<1>2. /\ pc[c] \notin {"idle", "failed"} /\ replies[c] < MaxReplies
      /\ replies' = [replies EXCEPT ![c] = replies[c] + 1]
      /\ inbox' = [inbox EXCEPT ![Of(c)] = Append(@, <<c, replies[c] + 1>>)]
      /\ UNCHANGED <<pc, waiter, waits, buffered, result, seen, early, sockets>>
  BY Zenon DEF Reply
<1>3. UNCHANGED <<open, channel, events>>
  BY Zenon, <1>2 DEF sockets
<1>4. PICK g \in Gateway : g = Of(c)
  BY Zenon, OfType
<1>5. PICK k \in Nat : k = replies[c]
  BY Zenon, <1>1, CountType
<1>6. k + 1 \in Numbers /\ k + 1 \in 0..MaxReplies
  BY <1>2, <1>5, GatewaysAssumption DEF Numbers
<1>7. PICK x : x = <<c, k + 1>>
  BY Zenon
<1>8. x \in Messages(g) /\ x[1] = c /\ x[2] = k + 1
  BY Zenon, <1>4, <1>6, <1>7, OfType DEF Messages
<1>9. /\ InboxTypes' /\ x \in Posted /\ inbox'[g] = Append(inbox[g], x)
      /\ \A h \in Gateway \ {g} : inbox'[h] = inbox[h]
  <2>1. inbox' = [inbox EXCEPT ![g] = Append(@, x)] /\ events' \in 0..MaxEvents
    BY Zenon, <1>1, <1>2, <1>3, <1>4, <1>5, <1>7 DEF InboxTypes
  <2> QED
    BY Zenon, <1>1, <1>8, <2>1, InboxAppend
<1>10. /\ replies' \in [Calls -> 0..MaxReplies] /\ replies'[c] = k + 1
       /\ \A d \in Calls \ {c} : replies'[d] = replies[d]
  <2>1. replies \in [Calls -> 0..MaxReplies] /\ replies' = [replies EXCEPT ![c] = k + 1]
    BY Zenon, <1>1, <1>2, <1>5 DEF CallTypes
  <2> QED
    BY Zenon, <1>6, <2>1
<1>11. CallTypes' /\ SocketTypes'
  BY Zenon, <1>1, <1>2, <1>3, <1>10 DEF CallTypes, SocketTypes
<1>12. ASSUME NEW d \in Calls, d # c PROVE CallOK(d)'
  <2>1. Underway(inbox[Of(d)], d, early[d] + seen[d], replies[d]) =>
          Underway(inbox'[Of(d)], d, early[d] + seen[d], replies[d])
    BY Zenon, <1>1, <1>8, <1>9, <1>12, OthersUnderway
  <2>2. replies'[d] = replies[d]
    BY Zenon, <1>10, <1>12
  <2> QED
    BY Zenon, <1>1, <1>2, <2>1, <2>2, CallSame
<1>13. CallOK(c)'
  <2>1. ASSUME Underway(inbox[Of(c)], c, early[c] + seen[c], replies[c])
        PROVE  Underway(inbox'[Of(c)], c, early[c] + seen[c], replies'[c])
    <3>1. PICK q \in Seq(Posted) : q = inbox[g]
      BY Zenon, <1>1 DEF InboxTypes
    <3>2. early[c] + seen[c] \in Nat
      BY Zenon, <1>1, CountType
    <3>3. Underway(q, c, early[c] + seen[c], k)
      BY Zenon, <1>4, <1>5, <2>1, <3>1
    <3>4. Underway(Append(q, x), c, early[c] + seen[c], k + 1)
      BY Zenon, <1>8, <1>9, <3>2, <3>3, UnderwayNext
    <3> QED
      BY Zenon, <1>4, <1>9, <1>10, <3>1, <3>4
  <2>2. CallOK(c)
    BY Zenon, <1>1
  <2> QED
    BY Zenon, <1>2, <2>1, <2>2 DEF CallOK
<1> QED
  BY Zenon, <1>9, <1>11, <1>12, <1>13 DEF GatewayInv

\* Emit: a message of a room is nobody's answer.
LEMMA EmitStep == ASSUME GatewayInv, NEW k \in Kinds, Emit(k) PROVE GatewayInv'
<1>1. /\ CallTypes /\ InboxTypes /\ SocketTypes /\ \A d \in Calls : CallOK(d)
  BY Zenon DEF GatewayInv
<1>2. /\ events < MaxEvents /\ events' = events + 1
      /\ inbox' = IF k = "posted" THEN [inbox EXCEPT !["chat"] = Append(@, <<NoCall, events + 1>>)]
                  ELSE inbox
      /\ UNCHANGED <<calls, open, channel>>
  BY Zenon DEF Emit
<1>3. UNCHANGED <<pc, replies, waiter, waits, buffered, result, seen, early>>
  BY Zenon, <1>2 DEF calls
<1>4. events' \in 0..MaxEvents /\ events' \in 1..MaxEvents
  <2>1. events \in 0..MaxEvents
    BY Zenon, <1>1 DEF InboxTypes
  <2> QED
    BY <1>2, <2>1, GatewaysAssumption
<1>5. CallTypes' /\ SocketTypes'
  BY Zenon, <1>1, <1>2, <1>3 DEF CallTypes, SocketTypes
<1>6. CASE k = "posted"
  <2>1. PICK x : x = <<NoCall, events'>>
    BY Zenon
  <2>2. x \in Messages("chat") /\ x[1] = NoCall /\ "chat" \in Gateway
    BY Zenon, <1>4, <2>1 DEF Messages, Gateway
  <2>3. inbox' = [inbox EXCEPT !["chat"] = Append(@, x)]
    BY Zenon, <1>2, <1>6, <2>1
  <2>4. /\ InboxTypes' /\ x \in Posted /\ inbox'["chat"] = Append(inbox["chat"], x)
        /\ \A h \in Gateway \ {"chat"} : inbox'[h] = inbox[h]
    BY Zenon, <1>1, <1>4, <2>2, <2>3, InboxAppend
  <2>5. ASSUME NEW d \in Calls PROVE CallOK(d)'
    <3>1. x[1] # d
      BY Zenon, <2>2, OfType
    <3>2. Underway(inbox[Of(d)], d, early[d] + seen[d], replies[d]) =>
            Underway(inbox'[Of(d)], d, early[d] + seen[d], replies[d])
      BY Zenon, <1>1, <2>2, <2>4, <3>1, OthersUnderway
    <3> QED
      BY Zenon, <1>1, <1>3, <3>2, CallSame
  <2> QED
    BY Zenon, <1>5, <2>4, <2>5 DEF GatewayInv
<1>7. CASE k # "posted"
  <2>1. inbox' = inbox
    BY Zenon, <1>2, <1>7
  <2>2. InboxTypes'
    BY Zenon, <1>1, <1>4, <2>1 DEF InboxTypes
  <2>3. \A d \in Calls : CallOK(d)'
    BY Zenon, <1>1, <1>3, <2>1, CallSame
  <2> QED
    BY Zenon, <1>5, <2>2, <2>3 DEF GatewayInv
<1> QED
  BY Zenon, <1>6, <1>7

\* What a gateway's goroutine does with the answer it takes: to the waiter, or
\* kept for one, or dropped.
LEMMA AnswerTaken ==
  ASSUME CallTypes, InboxTypes, NEW c \in Calls, CallOK(c), NEW n \in Numbers,
         inbox[Of(c)] # <<>>, Head(inbox[Of(c)]) = <<c, n>>,
         inbox'[Of(c)] = Tail(inbox[Of(c)]), Count(c),
         UNCHANGED <<pc, replies, waits, result>>,
         IF c \in waits THEN Offer(c, n) ELSE UNCHANGED waiter,
         IF c \in McpCalls \ waits THEN buffered' = [buffered EXCEPT ![c] = n] ELSE UNCHANGED buffered
  PROVE  /\ CallTypes' /\ CallOK(c)'
         /\ \A d \in Calls \ {c} :
              /\ seen'[d] = seen[d] /\ early'[d] = early[d] /\ waiter'[d] = waiter[d]
              /\ d \in McpCalls => buffered'[d] = buffered[d]
<1>1. /\ seen \in [Calls -> Nat] /\ early \in [Calls -> Nat]
      /\ waiter \in [Calls -> {<<>>} \union {<<m>> : m \in Numbers}]
      /\ buffered \in [McpCalls -> 0..MaxReplies] /\ (c \in waits <=> pc[c] = "waiting")
  BY Zenon DEF CallTypes
<1>2. PICK s \in Nat, e \in Nat : s = seen[c] /\ e = early[c]
  BY Zenon, <1>1
<1>3. s + 1 \in Nat /\ e + 1 \in Nat /\ n \in 0..MaxReplies /\ n # 0
  BY GatewaysAssumption DEF Numbers
<1>4. /\ seen' \in [Calls -> Nat] /\ (\A d \in Calls \ {c} : seen'[d] = seen[d])
      /\ pc[c] = "waiting" => seen'[c] = s + 1
      /\ pc[c] # "waiting" => seen'[c] = s
  <2>1. seen' = IF pc[c] = "waiting" THEN [seen EXCEPT ![c] = s + 1] ELSE seen
    BY Zenon, <1>2 DEF Count
  <2> QED
    BY Zenon, <1>1, <1>2, <1>3, <2>1
<1>5. /\ early' \in [Calls -> Nat] /\ (\A d \in Calls \ {c} : early'[d] = early[d])
      /\ pc[c] = "opened" => early'[c] = e + 1
      /\ pc[c] # "opened" => early'[c] = e
  <2>1. early' = IF pc[c] = "opened" THEN [early EXCEPT ![c] = e + 1] ELSE early
    BY Zenon, <1>2 DEF Count
  <2> QED
    BY Zenon, <1>1, <1>2, <1>3, <2>1
<1>6. /\ waiter' \in [Calls -> {<<>>} \union {<<m>> : m \in Numbers}]
      /\ \A d \in Calls \ {c} : waiter'[d] = waiter[d]
      /\ c \notin waits \/ waiter[c] # <<>> => waiter'[c] = waiter[c]
      /\ c \in waits /\ waiter[c] = <<>> => waiter'[c] = <<n>>
  <2>1. waiter' = IF c \in waits /\ waiter[c] = <<>> THEN [waiter EXCEPT ![c] = <<n>>] ELSE waiter
    BY Zenon DEF Offer
  <2>2. <<n>> \in {<<>>} \union {<<m>> : m \in Numbers}
    BY Zenon
  <2> QED
    BY Zenon, <1>1, <2>1, <2>2
<1>7. /\ buffered' \in [McpCalls -> 0..MaxReplies]
      /\ \A d \in McpCalls \ {c} : buffered'[d] = buffered[d]
      /\ c \in McpCalls \ waits => buffered'[c] = n
      /\ c \in McpCalls /\ c \in waits => buffered'[c] = buffered[c]
  BY Zenon, <1>1, <1>3
<1>8. CallTypes'
  BY Zenon, <1>4, <1>5, <1>6, <1>7 DEF CallTypes
<1>9. ASSUME Underway(inbox[Of(c)], c, early[c] + seen[c], replies[c])
      PROVE  n = e + s + 1 /\ Underway(inbox'[Of(c)], c, e + s + 1, replies[c]) /\ replies[c] # 0
  <2>1. PICK q \in Seq(Posted) : q = inbox[Of(c)]
    BY Zenon, OfType DEF InboxTypes
  <2>2. e + s \in Nat /\ e + s = early[c] + seen[c] /\ replies[c] \in Nat
    BY Zenon, <1>2, CountType
  <2>3. Head(q)[1] = c /\ Head(q)[2] = n
    BY <2>1
  <2>4. Head(q)[2] = e + s + 1 /\ Underway(Tail(q), c, e + s + 1, replies[c])
    BY Zenon, <1>9, <2>1, <2>2, <2>3, UnderwayTake
  <2>5. e + s + 1 <= replies[c]
    BY Zenon, <2>4 DEF Underway
  <2>6. replies[c] # 0
    BY <2>2, <2>5
  <2> QED
    BY Zenon, <2>1, <2>3, <2>4, <2>6
<1>10. CASE pc[c] = "waiting"
  <2>1. /\ pc[c] \in {"idle", "failed", "opened", "waiting"} /\ pc[c] \notin {"idle", "failed"}
        /\ pc[c] # "opened" /\ pc[c] # "done"
    BY Zenon, <1>10
  <2>2. n = e + s + 1 /\ Underway(inbox'[Of(c)], c, e + s + 1, replies[c])
    BY Zenon, <1>9, <2>1 DEF CallOK
  <2>3. seen'[c] = s + 1 /\ early'[c] = e /\ e + (s + 1) = e + s + 1
    <3>1. e + (s + 1) = e + s + 1
      OBVIOUS
    <3> QED
      BY Zenon, <1>4, <1>5, <1>10, <2>1, <3>1
  <2>4. /\ waiter'[c] # <<>>
        /\ waiter'[c][1] = 1 \/ (c \in McpCalls /\ e > 1) \/ (c \in ChatCalls /\ e > 0)
    <3>1. CASE waiter[c] = <<>>
      <4>1. ~(s > 0) /\ (c \in McpCalls => ~(e > 0))
        BY Zenon, <1>2, <1>10, <3>1 DEF CallOK
      <4>2. n = 1 \/ (c \in ChatCalls /\ e > 0)
        <5>1. s = 0 /\ (c \in McpCalls => e = 0) /\ (e = 0 \/ e > 0)
          BY <4>1
        <5>2. e = 0 => n = 1
          BY <2>2, <5>1
        <5> QED
          BY Zenon, <5>1, <5>2, OfType
      <4>3. waiter'[c] = <<n>> /\ <<n>> # <<>> /\ <<n>>[1] = n
        <5>1. <<n>> # <<>> /\ <<n>>[1] = n
          BY Zenon
        <5> QED
          BY Zenon, <1>1, <1>6, <1>10, <3>1, <5>1
      <4> QED
        BY Zenon, <4>2, <4>3
    <3>2. CASE waiter[c] # <<>>
      BY Zenon, <1>2, <1>6, <1>10, <3>2 DEF CallOK
    <3> QED
      BY Zenon, <3>1, <3>2
  <2>5. CallOK(c)'
    BY Zenon, <1>10, <2>1, <2>2, <2>3, <2>4 DEF CallOK
  <2> QED
    BY Zenon, <1>4, <1>5, <1>6, <1>7, <1>8, <2>5
<1>11. CASE pc[c] = "opened"
  <2>1. /\ pc[c] \in {"idle", "failed", "opened", "waiting"} /\ pc[c] \notin {"idle", "failed"}
        /\ pc[c] # "waiting" /\ pc[c] # "done"
    BY Zenon, <1>11
  <2>2. n = e + s + 1 /\ Underway(inbox'[Of(c)], c, e + s + 1, replies[c]) /\ s = 0 /\ waiter[c] = <<>>
    BY Zenon, <1>2, <1>9, <1>11, <2>1 DEF CallOK
  <2>3. seen'[c] = 0 /\ early'[c] = e + 1 /\ waiter'[c] = <<>>
    BY Zenon, <1>1, <1>4, <1>5, <1>6, <1>11, <2>1, <2>2
  <2>4. (e + 1) + 0 = e + s + 1 /\ e + 1 # 0 /\ (e + 1 = 1 => n = 1)
    BY <2>2
  <2>5. c \in McpCalls => buffered'[c] = n
    BY Zenon, <1>1, <1>7, <2>1
  <2>6. CallOK(c)'
    BY Zenon, <1>3, <1>11, <2>1, <2>2, <2>3, <2>4, <2>5 DEF CallOK
  <2> QED
    BY Zenon, <1>4, <1>5, <1>6, <1>7, <1>8, <2>6
<1>12. CASE pc[c] \notin {"waiting", "opened"}
  <2>1. pc[c] # "waiting" /\ pc[c] # "opened"
    BY Zenon, <1>12
  <2>2. pc[c] \notin {"idle", "failed"}
    <3> SUFFICES ASSUME pc[c] \in {"idle", "failed"} PROVE FALSE
      BY Zenon
    <3>1. replies[c] = 0 /\ pc[c] \in {"idle", "failed", "opened", "waiting"}
      BY Zenon DEF CallOK
    <3> QED
      BY Zenon, <1>9, <3>1 DEF CallOK
  <2>3. seen'[c] = seen[c] /\ early'[c] = early[c] /\ waiter'[c] = waiter[c]
    BY Zenon, <1>1, <1>2, <1>4, <1>5, <1>6, <2>1
  <2>4. pc[c] \notin {"idle", "failed", "opened", "waiting"}
    BY Zenon, <2>1, <2>2
  <2>5. CallOK(c)'
    BY Zenon, <2>1, <2>2, <2>3, <2>4 DEF CallOK
  <2> QED
    BY Zenon, <1>4, <1>5, <1>6, <1>7, <1>8, <2>5
<1> QED
  BY Zenon, <1>10, <1>11, <1>12

\* A gateway's goroutine takes an answer of a call.
LEMMA TakeStep ==
  ASSUME GatewayInv, NEW c \in Calls, NEW n \in Numbers, SocketTypes', UNCHANGED events,
         inbox[Of(c)] # <<>>, Head(inbox[Of(c)]) = <<c, n>>, Took(Of(c)), Count(c),
         UNCHANGED <<pc, replies, waits, result>>,
         IF c \in waits THEN Offer(c, n) ELSE UNCHANGED waiter,
         IF c \in McpCalls \ waits THEN buffered' = [buffered EXCEPT ![c] = n] ELSE UNCHANGED buffered
  PROVE  GatewayInv'
<1>1. /\ CallTypes /\ InboxTypes /\ SocketTypes /\ \A d \in Calls : CallOK(d)
  BY Zenon DEF GatewayInv
<1>2. PICK g \in Gateway : g = Of(c)
  BY Zenon, OfType
<1>3. /\ InboxTypes' /\ inbox'[g] = Tail(inbox[g]) /\ \A h \in Gateway \ {g} : inbox'[h] = inbox[h]
  BY Zenon, <1>1, <1>2, InboxTail
<1>4. /\ CallTypes' /\ CallOK(c)'
      /\ \A d \in Calls \ {c} :
           /\ seen'[d] = seen[d] /\ early'[d] = early[d] /\ waiter'[d] = waiter[d]
           /\ d \in McpCalls => buffered'[d] = buffered[d]
  BY Zenon, <1>1, <1>2, <1>3, AnswerTaken
<1>5. ASSUME NEW d \in Calls, d # c PROVE CallOK(d)'
  <2>1. Head(inbox[g])[1] # d
    BY <1>2, <1>5
  <2>2. Underway(inbox[Of(d)], d, early[d] + seen[d], replies[d]) =>
          Underway(inbox'[Of(d)], d, early[d] + seen[d], replies[d])
    BY Zenon, <1>1, <1>2, <1>3, <2>1, OthersUnderway
  <2> QED
    BY Zenon, <1>1, <1>4, <1>5, <2>2, CallSame
<1> QED
  BY Zenon, <1>3, <1>4, <1>5 DEF GatewayInv

\* The MCP gateway's goroutine.
LEMMA McpStep == ASSUME GatewayInv, subscribeLoop PROVE GatewayInv'
<1>1. /\ InboxTypes /\ SocketTypes /\ inbox["mcp"] # <<>> /\ Took("mcp")
      /\ UNCHANGED <<pc, replies, waits, result, sockets>>
  BY Zenon DEF GatewayInv, subscribeLoop
<1>2. "mcp" \in Gateway /\ UNCHANGED <<open, channel, events>>
  BY Zenon, <1>1 DEF Gateway, sockets
<1>3. Head(inbox["mcp"]) \in Messages("mcp")
  BY Zenon, <1>1, <1>2, InboxTail
<1>4. PICK c \in McpCalls, n \in Numbers : Head(inbox["mcp"]) = <<c, n>>
  BY <1>3 DEF Messages
<1>5. c \in Calls /\ Of(c) = "mcp"
  BY Zenon, OfType DEF Calls
<1>6. Head(inbox["mcp"])[1] = c /\ Head(inbox["mcp"])[2] = n
  BY <1>4
<1>7. /\ IF c \in waits THEN Offer(c, n) /\ UNCHANGED buffered
         ELSE buffered' = [buffered EXCEPT ![c] = n] /\ UNCHANGED waiter
      /\ Count(c)
  BY Zenon, <1>6 DEF subscribeLoop
<1>8. SocketTypes'
  BY Zenon, <1>1, <1>2 DEF SocketTypes
<1> QED
  BY Zenon, <1>1, <1>2, <1>4, <1>5, <1>7, <1>8, TakeStep

\* UserManager.broadcast keeps within the channels.
LEMMA BroadcastTyped ==
  ASSUME SocketTypes, NEW x \in Posted, broadcast(x), UNCHANGED open
  PROVE  SocketTypes'
<1>1. /\ open \subseteq Sockets /\ channel \in [Sockets -> Seq(Posted)]
      /\ \A w \in Sockets : Len(channel[w]) <= SocketBuffer
      /\ channel' = [w \in Sockets |-> IF w \in open /\ Len(channel[w]) < SocketBuffer
                                       THEN Append(channel[w], x) ELSE channel[w]]
  BY Zenon DEF SocketTypes, broadcast
<1>2. ASSUME NEW w \in Sockets PROVE channel'[w] \in Seq(Posted) /\ Len(channel'[w]) <= SocketBuffer
  <2>1. PICK q \in Seq(Posted) : q = channel[w] /\ Len(q) <= SocketBuffer
    BY Zenon, <1>1
  <2>2. channel'[w] = q \/ (channel'[w] = Append(q, x) /\ Len(q) < SocketBuffer)
    BY Zenon, <1>1, <2>1
  <2>3. Len(q) < SocketBuffer => Append(q, x) \in Seq(Posted) /\ Len(Append(q, x)) <= SocketBuffer
    BY GatewaysAssumption
  <2> QED
    BY Zenon, <2>1, <2>2, <2>3
<1>3. channel' \in [Sockets -> Seq(Posted)]
  BY Zenon, <1>1, <1>2
<1> QED
  BY Zenon, <1>1, <1>2, <1>3 DEF SocketTypes

\* The chat gateway's goroutine: an answer, or a message of a room.
LEMMA ChatStep == ASSUME GatewayInv, StartSubscription PROVE GatewayInv'
<1>1. PICK x : x = Head(inbox["chat"])
  BY Zenon
<1>2. /\ CallTypes /\ InboxTypes /\ SocketTypes /\ inbox["chat"] # <<>> /\ Took("chat")
      /\ UNCHANGED <<pc, replies, waits, buffered, result, open, events>>
  BY Zenon DEF GatewayInv, StartSubscription
<1>3. /\ IF x[1] \in waits THEN Offer(x[1], x[2]) ELSE UNCHANGED waiter
      /\ IF x[1] \in Calls THEN Count(x[1]) ELSE UNCHANGED <<seen, early>>
      /\ broadcast(x)
  BY Zenon, <1>1 DEF StartSubscription
<1>4. "chat" \in Gateway /\ "chat" # "mcp"
  BY Zenon DEF Gateway
<1>5. /\ InboxTypes' /\ x \in Messages("chat") /\ inbox'["chat"] = Tail(inbox["chat"])
      /\ \A h \in Gateway \ {"chat"} : inbox'[h] = inbox[h]
  BY Zenon, <1>1, <1>2, <1>4, InboxTail
<1>6. SocketTypes'
  <2>1. x \in Posted
    BY Zenon, <1>4, <1>5 DEF Posted
  <2> QED
    BY Zenon, <1>2, <1>3, <2>1, BroadcastTyped
<1>7. CASE x \in ChatCalls \X Numbers
  <2>1. PICK c \in ChatCalls, n \in Numbers : x = <<c, n>>
    BY <1>7
  <2>2. x[1] = c /\ x[2] = n
    BY Zenon, <2>1
  <2>3. c \in Calls /\ Of(c) = "chat" /\ c \notin McpCalls
    BY Zenon, OfType DEF Calls
  <2> QED
    BY Zenon, <1>1, <1>2, <1>3, <1>6, <2>1, <2>2, <2>3, TakeStep
<1>8. CASE x \in {NoCall} \X (1..MaxEvents)
  <2>1. x[1] = NoCall
    BY Zenon, <1>8
  <2>2. x[1] \notin Calls /\ x[1] \notin waits
    BY Zenon, <1>2, <2>1, OfType DEF CallTypes
  <2>3. UNCHANGED <<waiter, seen, early>>
    BY Zenon, <1>3, <2>2
  <2>4. CallTypes'
    BY Zenon, <1>2, <2>3 DEF CallTypes
  <2>5. ASSUME NEW d \in Calls PROVE CallOK(d)'
    <3>1. Head(inbox["chat"])[1] # d /\ CallOK(d)
      BY Zenon, <1>1, <2>2 DEF GatewayInv
    <3>2. Underway(inbox[Of(d)], d, early[d] + seen[d], replies[d]) =>
            Underway(inbox'[Of(d)], d, early[d] + seen[d], replies[d])
      BY Zenon, <1>2, <1>4, <1>5, <3>1, OthersUnderway
    <3> QED
      BY Zenon, <1>2, <2>3, <3>1, <3>2, CallSame
  <2> QED
    BY Zenon, <1>5, <1>6, <2>4, <2>5 DEF GatewayInv
<1> QED
  BY Zenon, <1>4, <1>5, <1>7, <1>8 DEF Messages

\* Websockets come, go and are written to.
LEMMA SocketStep ==
  ASSUME GatewayInv, NEW w \in Sockets,
         handleWebSocket(w) \/ Write(w) \/ WriteActivity(w) \/ RemoveClient(w)
  PROVE  GatewayInv'
<1>1. /\ CallTypes /\ InboxTypes /\ SocketTypes /\ \A d \in Calls : CallOK(d)
  BY Zenon DEF GatewayInv
<1>2. UNCHANGED <<calls, inbox, events>>
  BY Zenon DEF handleWebSocket, Write, WriteActivity, RemoveClient
<1>3. UNCHANGED <<pc, replies, waiter, waits, buffered, result, seen, early>>
  BY Zenon, <1>2 DEF calls
<1>4. SocketTypes'
  <2>1. CASE Write(w)
    <3>1. open' = open /\ channel[w] # <<>> /\ channel' = [channel EXCEPT ![w] = Tail(@)]
      BY Zenon, <2>1 DEF Write
    <3> QED
      BY <1>1, <3>1, GatewaysAssumption DEF SocketTypes
  <2>2. CASE handleWebSocket(w) \/ WriteActivity(w) \/ RemoveClient(w)
    <3>1. channel' = channel /\ open' \subseteq open \union {w}
      BY Zenon, <2>2 DEF handleWebSocket, WriteActivity, RemoveClient
    <3> QED
      BY Zenon, <1>1, <3>1 DEF SocketTypes
  <2> QED
    BY Zenon, <2>1, <2>2
<1>5. CallTypes' /\ InboxTypes'
  BY Zenon, <1>1, <1>2, <1>3 DEF CallTypes, InboxTypes
<1>6. \A d \in Calls : CallOK(d)'
  BY Zenon, <1>1, <1>2, <1>3, CallSame
<1> QED
  BY Zenon, <1>4, <1>5, <1>6 DEF GatewayInv

\* An answer reaches the call it is for and the call returns the first one, for
\* any number of calls, answers, events and websockets, in every order of the
\* goroutine that takes answers and the calls that come to wait for them.
THEOREM AnswersAlwaysArrive == GatewaysSpec => []AnswersArrive
<1>1. GatewayInv /\ [GatewaysNext]_gatewayVars => GatewayInv'
  <2> SUFFICES ASSUME GatewayInv, [GatewaysNext]_gatewayVars PROVE GatewayInv'
    BY Zenon
  <2>1. CASE GatewaysNext
    BY Zenon, <2>1, OpenStep, ReplyStep, WaitStep, EndStep, McpStep, ChatStep, EmitStep, SocketStep
       DEF GatewaysNext
  <2>2. CASE UNCHANGED gatewayVars
    <3>1. UNCHANGED <<inbox, open, channel, events, pc, replies, waiter, waits, buffered, result, seen, early>>
      BY Zenon, <2>2 DEF gatewayVars, calls, sockets
    <3>2. /\ CallTypes /\ InboxTypes /\ SocketTypes /\ \A d \in Calls : CallOK(d)
      BY Zenon DEF GatewayInv
    <3>3. CallTypes' /\ InboxTypes' /\ SocketTypes'
      BY Zenon, <3>1, <3>2 DEF CallTypes, InboxTypes, SocketTypes
    <3>4. \A d \in Calls : CallOK(d)'
      BY Zenon, <3>1, <3>2, CallSame
    <3> QED
      BY Zenon, <3>3, <3>4 DEF GatewayInv
  <2> QED
    BY Zenon, <2>1, <2>2
<1> QED
  BY <1>1, GatewayStarts, GatewayShows, PTL DEF GatewaysSpec

-----------------------------------------------------------------------------
(* What the websockets are sent.  A message goes from the subscription's   *)
(* inbox to a websocket's channel and is written; an event goes from the   *)
(* activity bus.  No two things on their way are alike.                    *)

Places == {"inbox", "channel", "written", "activity"}
Things == (Calls \union {NoCall} \union Kinds) \X Nat

\* What is on its way to websocket w, and what it was sent.
Four(a, b, c, d) ==
  [k \in Places |-> IF k = "inbox" THEN a ELSE IF k = "channel" THEN b
                    ELSE IF k = "written" THEN c ELSE d]
Flow(w) == Four(inbox["chat"], channel[w], written[w], activity[w])

\* What may be where, with these numbers of answers and of events so far.
Shown(x)   == x[1] \notin {"posted", "other"}
Message(x) == x[1] \in Calls \union {NoCall}
Placed(r, e, k, x) ==
  /\ IF x[1] \in Calls THEN x[2] <= r[x[1]] ELSE x[2] <= e
  /\ k \in {"inbox", "channel"} => Message(x)
  /\ k = "written" => Shown(x)
  /\ k = "activity" => x[1] \in Kinds

\* Two things of which a websocket is to be sent one.
Alike(x, y) ==
  Shown(x) /\ Shown(y) /\ x[2] = y[2] /\ (x[1] = y[1] \/ (x[1] \notin Calls /\ y[1] \notin Calls))
New(x, F) == \A k \in Places : \A i \in 1..Len(F[k]) : ~Alike(x, F[k][i])

Good(r, e, F) ==
  /\ F \in [Places -> Seq(Things)]
  /\ \A k \in Places : \A i \in 1..Len(F[k]) : Placed(r, e, k, F[k][i])
  /\ \A k, l \in Places : \A i \in 1..Len(F[k]), j \in 1..Len(F[l]) :
       Alike(F[k][i], F[l][j]) => k = l /\ i = j

SocketOK(w) ==
  /\ Good(replies, events, Flow(w)) /\ Len(channel[w]) <= SocketBuffer
  /\ due[w] \in Seq(Things) /\ \A i \in 1..Len(due[w]) : Message(due[w][i])
  /\ w \notin full => InOrder(due[w], channel[w], written[w])

TellInv ==
  /\ replies \in [Calls -> Nat] /\ events \in Nat
  /\ inbox \in [Gateway -> Seq(Things)]
  /\ channel \in [Sockets -> Seq(Things)] /\ written \in [Sockets -> Seq(Things)]
  /\ activity \in [Sockets -> Seq(Things)] /\ due \in [Sockets -> Seq(Things)]
  /\ \A w \in Sockets : SocketOK(w)

\* No two things on their way are alike.
LEMMA GoodApart ==
  ASSUME NEW r, NEW e, NEW F, Good(r, e, F), NEW k \in Places, NEW l \in Places,
         NEW i \in 1..Len(F[k]), NEW j \in 1..Len(F[l]), Alike(F[k][i], F[l][j])
  PROVE  k = l /\ i = j
BY Zenon DEF Good

\* Taking the first element of a sequence leaves the others.
LEMMA FlowDrop ==
  ASSUME NEW r, NEW e, NEW F, Good(r, e, F), NEW s \in Places, F[s] # <<>>,
         NEW G, G = [F EXCEPT ![s] = Tail(F[s])]
  PROVE  /\ Good(r, e, G) /\ Head(F[s]) \in Things /\ Placed(r, e, s, Head(F[s]))
         /\ New(Head(F[s]), G)
<1>1. F \in [Places -> Seq(Things)]
  BY Zenon DEF Good
<1>2. PICK q \in Seq(Things) : q = F[s] /\ q # <<>>
  BY Zenon, <1>1
<1>3. PICK z : z = Tail(q)
  BY Zenon
<1>4. /\ z \in Seq(Things) /\ 1 \in 1..Len(q) /\ Head(q) = q[1] /\ Head(q) \in Things
      /\ \A i \in 1..Len(z) : z[i] = q[i + 1] /\ i + 1 \in 1..Len(q) /\ i + 1 # 1
      /\ \A i, j \in 1..Len(z) : i + 1 = j + 1 => i = j
  BY <1>2, <1>3
<1>5. G[s] = z /\ (\A k \in Places \ {s} : G[k] = F[k]) /\ G \in [Places -> Seq(Things)]
  BY Zenon, <1>1, <1>2, <1>3, <1>4
\* Where an element of G was in F.
<1> DEFINE From(k, i) == IF k = s THEN i + 1 ELSE i
<1>6. ASSUME NEW k \in Places, NEW i \in 1..Len(G[k])
      PROVE  /\ From(k, i) \in 1..Len(F[k]) /\ G[k][i] = F[k][From(k, i)]
             /\ k = s => From(k, i) # 1
             /\ \A j \in 1..Len(G[k]) : From(k, i) = From(k, j) => i = j
  <2>1. CASE k = s
    BY Zenon, <1>2, <1>4, <1>5, <2>1
  <2>2. CASE k # s
    BY Zenon, <1>5, <2>2
  <2> QED
    BY Zenon, <2>1, <2>2
<1> HIDE DEF From
<1>7. ASSUME NEW k \in Places, NEW i \in 1..Len(G[k])
      PROVE  Placed(r, e, k, G[k][i])
  <2>1. PICK a \in 1..Len(F[k]) : G[k][i] = F[k][a]
    BY Zenon, <1>6
  <2>2. Placed(r, e, k, F[k][a])
    BY Zenon DEF Good
  <2> QED
    BY Zenon, <2>1, <2>2
<1>8. ASSUME NEW k \in Places, NEW l \in Places, NEW i \in 1..Len(G[k]), NEW j \in 1..Len(G[l]),
             Alike(G[k][i], G[l][j])
      PROVE  k = l /\ i = j
  <2>1. PICK a \in 1..Len(F[k]) : a = From(k, i) /\ G[k][i] = F[k][a]
    BY Zenon, <1>6
  <2>2. PICK b \in 1..Len(F[l]) : b = From(l, j) /\ G[l][j] = F[l][b]
    BY Zenon, <1>6
  <2>3. Alike(F[k][a], F[l][b])
    BY Zenon, <1>8, <2>1, <2>2
  <2>4. k = l /\ a = b
    BY Zenon, <2>3 DEF Good
  <2> QED
    <3>1. j \in 1..Len(G[k]) /\ From(k, i) = From(k, j)
      BY Zenon, <2>1, <2>2, <2>4
    <3> QED
      BY Zenon, <1>6, <2>4, <3>1
<1>9. New(Head(F[s]), G)
  <2>1. ASSUME NEW k \in Places, NEW i \in 1..Len(G[k]), Alike(F[s][1], G[k][i]) PROVE FALSE
    <3>1. PICK a \in 1..Len(F[k]) : a = From(k, i) /\ G[k][i] = F[k][a]
      BY Zenon, <1>6
    <3>2. Alike(F[s][1], F[k][a]) /\ 1 \in 1..Len(F[s])
      BY Zenon, <1>2, <1>4, <2>1, <3>1
    <3>3. s = k /\ 1 = a
      BY Zenon, <3>2 DEF Good
    <3> QED
      BY Zenon, <1>6, <3>1, <3>3
  <2>2. Head(F[s]) = F[s][1]
    BY Zenon, <1>2, <1>4
  <2> QED
    BY Zenon, <2>1, <2>2 DEF New
<1>10. Placed(r, e, s, Head(F[s])) /\ Head(F[s]) \in Things
  <2>1. 1 \in 1..Len(F[s]) /\ Head(F[s]) = F[s][1] /\ Head(F[s]) \in Things
    BY Zenon, <1>2, <1>4
  <2>2. Placed(r, e, s, F[s][1])
    BY Zenon, <2>1 DEF Good
  <2> QED
    BY Zenon, <2>1, <2>2
<1> QED
  BY Zenon, <1>5, <1>7, <1>8, <1>9, <1>10 DEF Good

\* Appending something new.
LEMMA FlowAdd ==
  ASSUME NEW r, NEW e, NEW F, Good(r, e, F), NEW s \in Places, NEW x \in Things,
         Placed(r, e, s, x), New(x, F), NEW G, G = [F EXCEPT ![s] = Append(F[s], x)]
  PROVE  Good(r, e, G)
<1>1. F \in [Places -> Seq(Things)]
  BY Zenon DEF Good
<1>2. PICK q \in Seq(Things) : q = F[s]
  BY Zenon, <1>1
<1>3. PICK z : z = Append(q, x)
  BY Zenon
<1>4. /\ z \in Seq(Things)
      /\ \A i \in 1..Len(z) : (i \in 1..Len(q) /\ z[i] = q[i]) \/ (z[i] = x /\ i = Len(z))
  <2>1. z \in Seq(Things) /\ Len(q) \in Nat /\ Len(z) = Len(q) + 1 /\ z[Len(z)] = x
    BY <1>3
  <2>2. \A i \in 1..Len(q) : z[i] = q[i]
    BY <1>3
  <2>3. \A i \in 1..Len(z) : i \in 1..Len(q) \/ i = Len(z)
    BY <2>1
  <2> QED
    BY Zenon, <2>1, <2>2, <2>3
<1>5. G[s] = z /\ (\A k \in Places \ {s} : G[k] = F[k]) /\ G \in [Places -> Seq(Things)]
  BY Zenon, <1>1, <1>2, <1>3, <1>4
<1>6. ASSUME NEW k \in Places, NEW i \in 1..Len(G[k])
      PROVE  \/ i \in 1..Len(F[k]) /\ G[k][i] = F[k][i]
             \/ k = s /\ i = Len(z) /\ G[k][i] = x
  <2>1. CASE k = s
    BY Zenon, <1>2, <1>4, <1>5, <2>1
  <2>2. CASE k # s
    BY Zenon, <1>5, <2>2
  <2> QED
    BY Zenon, <2>1, <2>2
<1>7. ASSUME NEW k \in Places, NEW i \in 1..Len(G[k])
      PROVE  Placed(r, e, k, G[k][i])
  BY Zenon, <1>6 DEF Good
<1>8. ASSUME NEW k \in Places, NEW i \in 1..Len(F[k]), Alike(F[k][i], x) PROVE FALSE
  <2>1. Alike(x, F[k][i])
    BY Zenon, <1>8 DEF Alike
  <2> QED
    BY Zenon, <2>1 DEF New
<1>9. ASSUME NEW k \in Places, NEW l \in Places, NEW i \in 1..Len(G[k]), NEW j \in 1..Len(G[l]),
             Alike(G[k][i], G[l][j])
      PROVE  k = l /\ i = j
  <2>1. CASE i \in 1..Len(F[k]) /\ G[k][i] = F[k][i]
    <3>1. j \in 1..Len(F[l]) /\ G[l][j] = F[l][j]
      BY Zenon, <1>6, <1>8, <1>9, <2>1
    <3>2. Alike(F[k][i], F[l][j])
      BY Zenon, <1>9, <2>1, <3>1
    <3>3. i \in 1..Len(F[k]) /\ j \in 1..Len(F[l])
      BY Zenon, <2>1, <3>1
    <3> QED
      BY Zenon, <3>2, <3>3, GoodApart
  <2>2. CASE k = s /\ i = Len(z) /\ G[k][i] = x
    <3>1. Alike(x, G[l][j])
      BY Zenon, <1>9, <2>2
    <3>2. ASSUME j \in 1..Len(F[l]), G[l][j] = F[l][j] PROVE FALSE
      <4>1. Alike(x, F[l][j])
        BY Zenon, <3>1, <3>2
      <4> QED
        BY Zenon, <3>2, <4>1 DEF New
    <3>3. l = s /\ j = Len(z) /\ G[l][j] = x
      BY Zenon, <1>6, <3>2
    <3> QED
      BY Zenon, <2>2, <3>3
  <2> QED
    BY Zenon, <1>6, <2>1, <2>2
<1> QED
  BY Zenon, <1>5, <1>7, <1>9 DEF Good

\* What is forgotten is not sent twice.
LEMMA FlowClear ==
  ASSUME NEW r, NEW e, NEW F, Good(r, e, F), NEW s \in Places, NEW G, G = [F EXCEPT ![s] = <<>>]
  PROVE  Good(r, e, G)
<1>1. <<>> \in Seq(Things) /\ \A i \in 1..Len(<<>>) : FALSE
  OBVIOUS
<1>2. F \in [Places -> Seq(Things)]
  BY Zenon DEF Good
<1>3. G[s] = <<>> /\ (\A k \in Places \ {s} : G[k] = F[k]) /\ G \in [Places -> Seq(Things)]
  BY Zenon, <1>1, <1>2
<1>4. ASSUME NEW k \in Places, NEW i \in 1..Len(G[k]) PROVE i \in 1..Len(F[k]) /\ G[k][i] = F[k][i]
  BY Zenon, <1>1, <1>3
<1>5. ASSUME NEW k \in Places, NEW i \in 1..Len(G[k]) PROVE Placed(r, e, k, G[k][i])
  <2>1. i \in 1..Len(F[k]) /\ G[k][i] = F[k][i]
    BY Zenon, <1>4
  <2>2. Placed(r, e, k, F[k][i])
    BY Zenon, <2>1 DEF Good
  <2> QED
    BY Zenon, <2>1, <2>2
<1>6. ASSUME NEW k \in Places, NEW l \in Places, NEW i \in 1..Len(G[k]), NEW j \in 1..Len(G[l]),
             Alike(G[k][i], G[l][j])
      PROVE  k = l /\ i = j
  <2>1. i \in 1..Len(F[k]) /\ G[k][i] = F[k][i] /\ j \in 1..Len(F[l]) /\ G[l][j] = F[l][j]
    BY Zenon, <1>4
  <2>2. Alike(F[k][i], F[l][j])
    BY Zenon, <1>6, <2>1
  <2>3. i \in 1..Len(F[k]) /\ j \in 1..Len(F[l])
    BY Zenon, <2>1
  <2> QED
    BY Zenon, <2>2, <2>3, GoodApart
<1> QED
  BY Zenon, <1>3, <1>5, <1>6 DEF Good

\* More answers and events.
LEMMA FlowGrows ==
  ASSUME NEW r \in [Calls -> Nat], NEW e \in Nat, NEW F, Good(r, e, F),
         NEW s \in [Calls -> Nat], NEW f \in Nat, e <= f, \A c \in Calls : r[c] <= s[c]
  PROVE  Good(s, f, F)
<1>1. F \in [Places -> Seq(Things)]
  BY Zenon DEF Good
<1>2. ASSUME NEW k \in Places, NEW i \in 1..Len(F[k]) PROVE Placed(s, f, k, F[k][i])
  <2>1. PICK x : x = F[k][i]
    BY Zenon
  <2>2. PICK q \in Seq(Things) : q = F[k]
    BY Zenon, <1>1
  <2>3. q[i] \in Things
    BY <1>2, <2>2
  <2>4. Placed(r, e, k, x) /\ x \in Things
    BY Zenon, <1>2, <2>1, <2>2, <2>3 DEF Good
  <2>5. x[2] \in Nat
    BY Zenon, <2>4 DEF Things
  <2>6. CASE x[1] \in Calls
    <3>1. PICK a \in Nat, b \in Nat : a = r[x[1]] /\ b = s[x[1]] /\ a <= b
      BY Zenon, <2>6
    <3>2. PICK n \in Nat : n = x[2]
      BY Zenon, <2>5
    <3>3. n <= a => n <= b
      BY <3>1
    <3> QED
      BY Zenon, <2>1, <2>4, <2>6, <3>1, <3>2, <3>3 DEF Placed
  <2>7. CASE x[1] \notin Calls
    <3>1. x[2] <= e => x[2] <= f
      BY <2>5
    <3> QED
      BY Zenon, <2>1, <2>4, <2>7, <3>1 DEF Placed
  <2> QED
    BY Zenon, <2>6, <2>7
<1> QED
  BY Zenon, <1>1, <1>2 DEF Good

\* InOrder, with the lengths named.
Ordered(d, q, z, k, m, l) ==
  /\ \A i \in 1..m : q[i] = d[k + i]
  /\ \A i \in 1..k : \E j \in 1..l : z[j] = d[i]
  /\ \A j \in 1..l : z[j][1] \in Calls \union {NoCall} => \E i \in 1..k : z[j] = d[i]
  /\ \A i1, i2 \in 1..k : \A j1, j2 \in 1..l :
       z[j1] = d[i1] /\ z[j2] = d[i2] /\ i1 < i2 => j1 < j2

\* The two definitions agree.
LEMMA OrderedIs ==
  ASSUME NEW d, NEW q, NEW z, NEW k, NEW m, NEW l, k = Len(d) - m, m = Len(q), l = Len(z)
  PROVE  InOrder(d, q, z) <=> m <= Len(d) /\ Ordered(d, q, z, k, m, l)
<1>1. InOrder(d, q, z) <=>
        Len(q) <= Len(d) /\ Ordered(d, q, z, Len(d) - Len(q), Len(q), Len(z))
  BY Zenon DEF InOrder, Ordered
<1> QED
  BY Zenon, <1>1

\* A message is appended both to what is due and to the channel.
LEMMA OrderAppend ==
  ASSUME NEW d \in Seq(Things), NEW q \in Seq(Things), NEW z \in Seq(Things), InOrder(d, q, z),
         NEW x \in Things
  PROVE  InOrder(Append(d, x), Append(q, x), z)
<1>1. PICK n \in Nat, m \in Nat : n = Len(d) /\ m = Len(q)
  OBVIOUS
<1>2. PICK c, p : c = Append(d, x) /\ p = Append(q, x)
  BY Zenon
<1>3. /\ Len(c) = n + 1 /\ c[n + 1] = x /\ \A i \in 1..n : c[i] = d[i]
      /\ Len(p) = m + 1 /\ p[m + 1] = x /\ \A i \in 1..m : p[i] = q[i]
  BY <1>1, <1>2
<1>4. PICK k : k = n - m
  BY Zenon
<1>5. /\ m <= n /\ (\A i \in 1..m : q[i] = d[k + i])
      /\ (\A i \in 1..k : \E j \in 1..Len(z) : z[j] = d[i])
      /\ (\A j \in 1..Len(z) : z[j][1] \in Calls \union {NoCall} => \E i \in 1..k : z[j] = d[i])
      /\ \A i1, i2 \in 1..k : \A j1, j2 \in 1..Len(z) :
           z[j1] = d[i1] /\ z[j2] = d[i2] /\ i1 < i2 => j1 < j2
  BY Zenon, <1>1, <1>4 DEF InOrder
<1>6. /\ k \in Nat /\ (n + 1) - (m + 1) = k /\ m + 1 <= n + 1 /\ k + (m + 1) = n + 1
      /\ (\A i \in 1..k : i \in 1..n) /\ (\A i \in 1..m : k + i \in 1..n)
      /\ \A i \in 1..(m + 1) : i \in 1..m \/ i = m + 1
  BY <1>4, <1>5
<1>7. \A i \in 1..k : c[i] = d[i]
  BY Zenon, <1>3, <1>6
<1>8. ASSUME NEW i \in 1..(m + 1) PROVE p[i] = c[k + i]
  <2>1. CASE i \in 1..m
    <3>1. p[i] = q[i] /\ q[i] = d[k + i] /\ c[k + i] = d[k + i]
      BY Zenon, <1>3, <1>5, <1>6, <2>1
    <3> QED
      BY Zenon, <3>1
  <2>2. CASE i = m + 1
    <3>1. p[i] = x /\ k + i = n + 1
      BY Zenon, <1>3, <1>6, <2>2
    <3> QED
      BY Zenon, <1>3, <3>1
  <2> QED
    BY Zenon, <1>6, <2>1, <2>2
<1>9. ASSUME NEW i \in 1..k PROVE \E j \in 1..Len(z) : z[j] = c[i]
  BY Zenon, <1>5, <1>7
<1>10. ASSUME NEW j \in 1..Len(z), z[j][1] \in Calls \union {NoCall} PROVE \E i \in 1..k : z[j] = c[i]
  <2>1. PICK i \in 1..k : z[j] = d[i]
    BY Zenon, <1>5, <1>10
  <2>2. z[j] = c[i]
    BY Zenon, <1>7, <2>1
  <2> QED
    BY Zenon, <2>2
<1>11. ASSUME NEW i1 \in 1..k, NEW i2 \in 1..k, NEW j1 \in 1..Len(z), NEW j2 \in 1..Len(z),
              z[j1] = c[i1], z[j2] = c[i2], i1 < i2
       PROVE  j1 < j2
  <2>1. z[j1] = d[i1] /\ z[j2] = d[i2]
    BY Zenon, <1>7, <1>11
  <2> QED
    BY Zenon, <1>5, <1>11, <2>1
<1>12. Len(c) - Len(p) = k /\ Len(p) <= Len(c) /\ 1..Len(p) = 1..(m + 1)
  BY <1>3, <1>6
<1>13. InOrder(c, p, z)
  BY Zenon, <1>8, <1>9, <1>10, <1>11, <1>12 DEF InOrder
<1> QED
  BY Zenon, <1>2, <1>13

\* The first message of the channel is written.
LEMMA OrderWrite ==
  ASSUME NEW d \in Seq(Things), NEW q \in Seq(Things), NEW z \in Seq(Things), InOrder(d, q, z),
         q # <<>>, \A j \in 1..Len(z) : z[j] # Head(q)
  PROVE  InOrder(d, Tail(q), Append(z, Head(q)))
<1>1. PICK n \in Nat, m \in Nat, l \in Nat : n = Len(d) /\ m = Len(q) /\ l = Len(z)
  OBVIOUS
<1>2. PICK h, p, y : h = Head(q) /\ p = Tail(q) /\ y = Append(z, h)
  BY Zenon
<1>3. /\ h = q[1] /\ m >= 1 /\ Len(p) = m - 1 /\ \A i \in 1..(m - 1) : p[i] = q[i + 1]
  BY <1>1, <1>2
<1>4. Len(y) = l + 1 /\ y[l + 1] = h /\ \A i \in 1..l : y[i] = z[i]
  <2>1. h \in Things
    BY <1>2
  <2> QED
    BY <1>1, <1>2, <2>1
<1>5. PICK k : k = n - m
  BY Zenon
<1>6. /\ m <= n /\ (\A i \in 1..m : q[i] = d[k + i])
      /\ (\A i \in 1..k : \E j \in 1..l : z[j] = d[i])
      /\ (\A j \in 1..l : z[j][1] \in Calls \union {NoCall} => \E i \in 1..k : z[j] = d[i])
      /\ \A i1, i2 \in 1..k : \A j1, j2 \in 1..l :
           z[j1] = d[i1] /\ z[j2] = d[i2] /\ i1 < i2 => j1 < j2
  <2>1. m <= n /\ Ordered(d, q, z, k, m, l)
    BY Zenon, <1>1, <1>5, OrderedIs
  <2> QED
    BY Zenon, <2>1 DEF Ordered
<1>7. /\ k \in Nat /\ n - (m - 1) = k + 1 /\ m - 1 <= n /\ 1 \in 1..m /\ k + 1 \in 1..(k + 1)
      /\ l + 1 \in 1..(l + 1)
      /\ \A i \in 1..(m - 1) : i + 1 \in 1..m /\ k + (i + 1) = (k + 1) + i
  BY <1>3, <1>5, <1>6
<1>8. /\ (\A i \in 1..(k + 1) : i \in 1..k \/ i = k + 1) /\ (\A i \in 1..k : i \in 1..(k + 1))
      /\ (\A i \in 1..(l + 1) : i \in 1..l \/ i = l + 1) /\ \A i \in 1..l : i \in 1..(l + 1) /\ i < l + 1
  BY <1>7
<1>9. d[k + 1] = h
  BY Zenon, <1>3, <1>6, <1>7
<1>10. ASSUME NEW i \in 1..(m - 1) PROVE p[i] = d[(k + 1) + i]
  <2>1. p[i] = q[i + 1] /\ q[i + 1] = d[k + (i + 1)] /\ k + (i + 1) = (k + 1) + i
    BY Zenon, <1>3, <1>6, <1>7
  <2> QED
    BY Zenon, <2>1
<1>11. ASSUME NEW i \in 1..(k + 1) PROVE \E j \in 1..(l + 1) : y[j] = d[i]
  <2>1. CASE i \in 1..k
    <3>1. PICK j \in 1..l : z[j] = d[i]
      BY Zenon, <1>6, <2>1
    <3>2. j \in 1..(l + 1) /\ y[j] = d[i]
      BY Zenon, <1>4, <1>8, <3>1
    <3> QED
      BY Zenon, <3>2
  <2>2. CASE i = k + 1
    BY Zenon, <1>4, <1>7, <1>9, <2>2
  <2> QED
    BY Zenon, <1>8, <2>1, <2>2
<1>12. ASSUME NEW j \in 1..(l + 1), y[j][1] \in Calls \union {NoCall}
       PROVE  \E i \in 1..(k + 1) : y[j] = d[i]
  <2>1. CASE j \in 1..l
    <3>1. y[j] = z[j]
      BY Zenon, <1>4, <2>1
    <3>2. z[j][1] \in Calls \union {NoCall}
      BY Zenon, <1>12, <3>1
    <3>3. PICK i \in 1..k : z[j] = d[i]
      BY Zenon, <1>6, <2>1, <3>2
    <3>4. i \in 1..(k + 1) /\ y[j] = d[i]
      BY Zenon, <1>8, <3>1, <3>3
    <3> QED
      BY Zenon, <3>4
  <2>2. CASE j = l + 1
    BY Zenon, <1>4, <1>7, <1>9, <2>2
  <2> QED
    BY Zenon, <1>8, <2>1, <2>2
\* What was written before is not what is written now.
<1>13. ASSUME NEW i \in 1..k PROVE d[i] # h
  <2>1. PICK j \in 1..l : z[j] = d[i]
    BY Zenon, <1>6
  <2> QED
    BY Zenon, <1>1, <1>2, <2>1
<1>14. ASSUME NEW i1 \in 1..(k + 1), NEW i2 \in 1..(k + 1), NEW j1 \in 1..(l + 1), NEW j2 \in 1..(l + 1),
              y[j1] = d[i1], y[j2] = d[i2], i1 < i2
       PROVE  j1 < j2
  <2>1. i1 \in 1..k
    BY <1>7, <1>14
  <2>2. j1 \in 1..l /\ z[j1] = d[i1]
    <3>1. j1 # l + 1
      BY Zenon, <1>4, <1>13, <1>14, <2>1
    <3>2. j1 \in 1..l
      BY Zenon, <1>8, <3>1
    <3>3. y[j1] = z[j1]
      BY Zenon, <1>4, <3>2
    <3> QED
      BY Zenon, <1>14, <3>2, <3>3
  <2>3. CASE j2 = l + 1
    BY Zenon, <1>8, <2>2, <2>3
  <2>4. CASE j2 # l + 1
    <3>1. j2 \in 1..l
      BY Zenon, <1>8, <2>4
    <3>2. z[j2] = d[i2]
      BY Zenon, <1>4, <1>14, <3>1
    <3>3. i2 # k + 1
      BY Zenon, <1>1, <1>2, <1>9, <3>1, <3>2
    <3>4. i2 \in 1..k
      BY Zenon, <1>8, <3>3
    <3> QED
      BY Zenon, <1>6, <1>14, <2>1, <2>2, <3>1, <3>2, <3>4
  <2> QED
    BY Zenon, <2>3, <2>4
<1>15. InOrder(d, p, y)
  <2>1. Ordered(d, p, y, k + 1, m - 1, l + 1)
    BY Zenon, <1>10, <1>11, <1>12, <1>14 DEF Ordered
  <2>2. k + 1 = Len(d) - (m - 1) /\ m - 1 = Len(p) /\ l + 1 = Len(y) /\ m - 1 <= Len(d)
    BY Zenon, <1>1, <1>3, <1>4, <1>7
  <2> QED
    BY Zenon, <2>1, <2>2, OrderedIs
<1> QED
  BY Zenon, <1>2, <1>15

\* An event is written, which is no message.
LEMMA OrderEvent ==
  ASSUME NEW d \in Seq(Things), NEW q \in Seq(Things), NEW z \in Seq(Things), InOrder(d, q, z),
         NEW x \in Things, ~Message(x), \A i \in 1..Len(d) : Message(d[i])
  PROVE  InOrder(d, q, Append(z, x))
<1>1. PICK n \in Nat, m \in Nat, l \in Nat : n = Len(d) /\ m = Len(q) /\ l = Len(z)
  OBVIOUS
<1>2. PICK y : y = Append(z, x)
  BY Zenon
<1>3. Len(y) = l + 1 /\ y[l + 1] = x /\ \A i \in 1..l : y[i] = z[i]
  BY <1>1, <1>2
<1>4. PICK k : k = n - m
  BY Zenon
<1>5. /\ m <= n /\ (\A i \in 1..m : q[i] = d[k + i])
      /\ (\A i \in 1..k : \E j \in 1..l : z[j] = d[i])
      /\ (\A j \in 1..l : z[j][1] \in Calls \union {NoCall} => \E i \in 1..k : z[j] = d[i])
      /\ \A i1, i2 \in 1..k : \A j1, j2 \in 1..l :
           z[j1] = d[i1] /\ z[j2] = d[i2] /\ i1 < i2 => j1 < j2
  BY Zenon, <1>1, <1>4 DEF InOrder
<1>6. (\A i \in 1..k : i \in 1..n) /\ (\A i \in 1..l : i \in 1..(l + 1))
      /\ \A i \in 1..(l + 1) : i \in 1..l \/ i = l + 1
  BY <1>4, <1>5
<1>7. ASSUME NEW i \in 1..k, NEW j \in 1..(l + 1), y[j] = d[i] PROVE j \in 1..l /\ z[j] = d[i]
  <2>1. Message(d[i])
    BY Zenon, <1>1, <1>6
  <2>2. j # l + 1
    BY Zenon, <1>3, <1>7, <2>1
  <2>3. j \in 1..l
    BY Zenon, <1>6, <2>2
  <2>4. y[j] = z[j]
    BY Zenon, <1>3, <2>3
  <2> QED
    BY Zenon, <1>7, <2>3, <2>4
<1>8. ASSUME NEW i \in 1..k PROVE \E j \in 1..(l + 1) : y[j] = d[i]
  <2>1. PICK j \in 1..l : z[j] = d[i]
    BY Zenon, <1>5
  <2>2. j \in 1..(l + 1) /\ y[j] = d[i]
    BY Zenon, <1>3, <1>6, <2>1
  <2> QED
    BY Zenon, <2>2
<1>9. ASSUME NEW j \in 1..(l + 1), y[j][1] \in Calls \union {NoCall} PROVE \E i \in 1..k : y[j] = d[i]
  <2>1. j # l + 1
    BY Zenon, <1>3, <1>9 DEF Message
  <2>2. j \in 1..l
    BY Zenon, <1>6, <2>1
  <2>3. y[j] = z[j]
    BY Zenon, <1>3, <2>2
  <2>4. z[j][1] \in Calls \union {NoCall}
    BY Zenon, <1>9, <2>3
  <2>5. PICK i \in 1..k : z[j] = d[i]
    BY Zenon, <1>5, <2>2, <2>4
  <2>6. y[j] = d[i]
    BY Zenon, <2>3, <2>5
  <2> QED
    BY Zenon, <2>6
<1>10. ASSUME NEW i1 \in 1..k, NEW i2 \in 1..k, NEW j1 \in 1..(l + 1), NEW j2 \in 1..(l + 1),
              y[j1] = d[i1], y[j2] = d[i2], i1 < i2
       PROVE  j1 < j2
  <2>1. j1 \in 1..l /\ z[j1] = d[i1] /\ j2 \in 1..l /\ z[j2] = d[i2]
    BY Zenon, <1>7, <1>10
  <2> QED
    BY Zenon, <1>5, <1>10, <2>1
<1>11. InOrder(d, q, y)
  <2>1. Ordered(d, q, y, k, m, l + 1)
    BY Zenon, <1>5, <1>8, <1>9, <1>10 DEF Ordered
  <2> QED
    BY Zenon, <1>1, <1>3, <1>4, <1>5, <2>1, OrderedIs
<1> QED
  BY Zenon, <1>2, <1>11

\* What is on its way to a websocket, by its places.
LEMMA FlowIs ==
  ASSUME NEW w, NEW F, F = Flow(w)
  PROVE  /\ F["inbox"] = inbox["chat"] /\ F["channel"] = channel[w]
         /\ F["written"] = written[w] /\ F["activity"] = activity[w]
         /\ "inbox" \in Places /\ "channel" \in Places /\ "written" \in Places /\ "activity" \in Places
<1>1. PICK a, b, c, d : a = inbox["chat"] /\ b = channel[w] /\ c = written[w] /\ d = activity[w]
  BY Zenon
<1>2. F = Four(a, b, c, d)
  BY Zenon, <1>1 DEF Flow
<1>3. /\ F["inbox"] = a /\ F["channel"] = b /\ F["written"] = c /\ F["activity"] = d
      /\ "inbox" \in Places /\ "channel" \in Places /\ "written" \in Places /\ "activity" \in Places
  BY <1>2 DEF Four, Places
<1> QED
  BY Zenon, <1>1, <1>3

\* A thing is added to one of the places.
LEMMA FourAdd ==
  ASSUME NEW r, NEW e, NEW a, NEW b, NEW c, NEW d, NEW x \in Things,
         Good(r, e, Four(a, b, c, d)), New(x, Four(a, b, c, d))
  PROVE  /\ Placed(r, e, "inbox", x) => Good(r, e, Four(Append(a, x), b, c, d))
         /\ Placed(r, e, "channel", x) => Good(r, e, Four(a, Append(b, x), c, d))
         /\ Placed(r, e, "written", x) => Good(r, e, Four(a, b, Append(c, x), d))
         /\ Placed(r, e, "activity", x) => Good(r, e, Four(a, b, c, Append(d, x)))
<1>1. PICK F : F = Four(a, b, c, d) /\ Good(r, e, F) /\ New(x, F)
  BY Zenon
<1>2. \A s \in Places : Placed(r, e, s, x) => Good(r, e, [F EXCEPT ![s] = Append(F[s], x)])
  BY Zenon, <1>1, FlowAdd
<1>3. ASSUME Placed(r, e, "inbox", x) PROVE Good(r, e, Four(Append(a, x), b, c, d))
  <2>1. "inbox" \in Places /\ [F EXCEPT !["inbox"] = Append(F["inbox"], x)] = Four(Append(a, x), b, c, d)
    BY <1>1 DEF Four, Places
  <2>2. Good(r, e, [F EXCEPT !["inbox"] = Append(F["inbox"], x)])
    BY Zenon, <1>2, <1>3, <2>1
  <2> QED
    BY Zenon, <2>1, <2>2
<1>4. ASSUME Placed(r, e, "channel", x) PROVE Good(r, e, Four(a, Append(b, x), c, d))
  <2>1. "channel" \in Places /\ [F EXCEPT !["channel"] = Append(F["channel"], x)] = Four(a, Append(b, x), c, d)
    BY <1>1 DEF Four, Places
  <2>2. Good(r, e, [F EXCEPT !["channel"] = Append(F["channel"], x)])
    BY Zenon, <1>2, <1>4, <2>1
  <2> QED
    BY Zenon, <2>1, <2>2
<1>5. ASSUME Placed(r, e, "written", x) PROVE Good(r, e, Four(a, b, Append(c, x), d))
  <2>1. "written" \in Places /\ [F EXCEPT !["written"] = Append(F["written"], x)] = Four(a, b, Append(c, x), d)
    BY <1>1 DEF Four, Places
  <2>2. Good(r, e, [F EXCEPT !["written"] = Append(F["written"], x)])
    BY Zenon, <1>2, <1>5, <2>1
  <2> QED
    BY Zenon, <2>1, <2>2
<1>6. ASSUME Placed(r, e, "activity", x) PROVE Good(r, e, Four(a, b, c, Append(d, x)))
  <2>1. "activity" \in Places /\ [F EXCEPT !["activity"] = Append(F["activity"], x)] = Four(a, b, c, Append(d, x))
    BY Zenon, <1>1 DEF Four, Places
  <2>2. Good(r, e, [F EXCEPT !["activity"] = Append(F["activity"], x)])
    BY Zenon, <1>2, <1>6, <2>1
  <2> QED
    BY Zenon, <2>1, <2>2
<1> QED
  BY Zenon, <1>3, <1>4, <1>5, <1>6

\* The first thing of one of the places is taken.
LEMMA FourDrop ==
  ASSUME NEW r, NEW e, NEW a, NEW b, NEW c, NEW d, Good(r, e, Four(a, b, c, d))
  PROVE  /\ a # <<>> => /\ Good(r, e, Four(Tail(a), b, c, d)) /\ New(Head(a), Four(Tail(a), b, c, d))
                      /\ Head(a) \in Things /\ Placed(r, e, "inbox", Head(a))
         /\ b # <<>> => /\ Good(r, e, Four(a, Tail(b), c, d)) /\ New(Head(b), Four(a, Tail(b), c, d))
                      /\ Head(b) \in Things /\ Placed(r, e, "channel", Head(b))
         /\ d # <<>> => /\ Good(r, e, Four(a, b, c, Tail(d))) /\ New(Head(d), Four(a, b, c, Tail(d)))
                      /\ Head(d) \in Things /\ Placed(r, e, "activity", Head(d))
<1>1. PICK F : F = Four(a, b, c, d) /\ Good(r, e, F)
  BY Zenon
<1>2. \A s \in Places : F[s] # <<>> =>
        /\ Good(r, e, [F EXCEPT ![s] = Tail(F[s])]) /\ New(Head(F[s]), [F EXCEPT ![s] = Tail(F[s])])
        /\ Head(F[s]) \in Things /\ Placed(r, e, s, Head(F[s]))
  BY Zenon, <1>1, FlowDrop
<1>3. ASSUME a # <<>>
      PROVE  /\ Good(r, e, Four(Tail(a), b, c, d)) /\ New(Head(a), Four(Tail(a), b, c, d))
             /\ Head(a) \in Things /\ Placed(r, e, "inbox", Head(a))
  <2>1. /\ "inbox" \in Places /\ F["inbox"] = a
        /\ [F EXCEPT !["inbox"] = Tail(F["inbox"])] = Four(Tail(a), b, c, d)
    BY Zenon, <1>1 DEF Four, Places
  <2>2. /\ Good(r, e, [F EXCEPT !["inbox"] = Tail(F["inbox"])])
        /\ New(Head(F["inbox"]), [F EXCEPT !["inbox"] = Tail(F["inbox"])])
        /\ Head(F["inbox"]) \in Things /\ Placed(r, e, "inbox", Head(F["inbox"]))
    BY Zenon, <1>2, <1>3, <2>1
  <2> QED
    BY Zenon, <2>1, <2>2
<1>4. ASSUME b # <<>>
      PROVE  /\ Good(r, e, Four(a, Tail(b), c, d)) /\ New(Head(b), Four(a, Tail(b), c, d))
             /\ Head(b) \in Things /\ Placed(r, e, "channel", Head(b))
  <2>1. /\ "channel" \in Places /\ F["channel"] = b
        /\ [F EXCEPT !["channel"] = Tail(F["channel"])] = Four(a, Tail(b), c, d)
    BY Zenon, <1>1 DEF Four, Places
  <2>2. /\ Good(r, e, [F EXCEPT !["channel"] = Tail(F["channel"])])
        /\ New(Head(F["channel"]), [F EXCEPT !["channel"] = Tail(F["channel"])])
        /\ Head(F["channel"]) \in Things /\ Placed(r, e, "channel", Head(F["channel"]))
    BY Zenon, <1>2, <1>4, <2>1
  <2> QED
    BY Zenon, <2>1, <2>2
<1>5. ASSUME d # <<>>
      PROVE  /\ Good(r, e, Four(a, b, c, Tail(d))) /\ New(Head(d), Four(a, b, c, Tail(d)))
             /\ Head(d) \in Things /\ Placed(r, e, "activity", Head(d))
  <2>1. /\ "activity" \in Places /\ F["activity"] = d
        /\ [F EXCEPT !["activity"] = Tail(F["activity"])] = Four(a, b, c, Tail(d))
    BY Zenon, <1>1 DEF Four, Places
  <2>2. /\ Good(r, e, [F EXCEPT !["activity"] = Tail(F["activity"])])
        /\ New(Head(F["activity"]), [F EXCEPT !["activity"] = Tail(F["activity"])])
        /\ Head(F["activity"]) \in Things /\ Placed(r, e, "activity", Head(F["activity"]))
    BY Zenon, <1>2, <1>5, <2>1
  <2> QED
    BY Zenon, <2>1, <2>2
<1> QED
  BY Zenon, <1>3, <1>4, <1>5

\* The events for a websocket are forgotten.
LEMMA FourClear ==
  ASSUME NEW r, NEW e, NEW a, NEW b, NEW c, NEW d, Good(r, e, Four(a, b, c, d))
  PROVE  Good(r, e, Four(a, b, c, <<>>))
<1>1. PICK F : F = Four(a, b, c, d) /\ Good(r, e, F)
  BY Zenon
<1>2. "activity" \in Places /\ [F EXCEPT !["activity"] = <<>>] = Four(a, b, c, <<>>)
  BY <1>1 DEF Four, Places
<1>3. Good(r, e, [F EXCEPT !["activity"] = <<>>])
  BY Zenon, <1>1, <1>2, FlowClear
<1> QED
  BY Zenon, <1>2, <1>3

\* The next answer of a call is new.
LEMMA NewAnswer ==
  ASSUME NEW r \in [Calls -> Nat], NEW e \in Nat, NEW F, Good(r, e, F), NEW c \in Calls,
         NEW x, x = <<c, r[c] + 1>>
  PROVE  New(x, F)
<1>1. x[1] = c /\ x[2] = r[c] + 1
  BY Zenon
<1>2. ASSUME NEW k \in Places, NEW i \in 1..Len(F[k]), Alike(x, F[k][i]) PROVE FALSE
  <2>1. PICK y : y = F[k][i]
    BY Zenon
  <2>2. Placed(r, e, k, y) /\ Alike(x, y)
    BY Zenon, <1>2, <2>1 DEF Good
  <2>3. y[1] = c /\ y[2] = r[c] + 1
    BY Zenon, <1>1, <2>2 DEF Alike
  <2>4. r[c] + 1 <= r[c] /\ r[c] \in Nat
    BY Zenon, <2>2, <2>3 DEF Placed
  <2> QED
    BY <2>4
<1> QED
  BY Zenon, <1>2 DEF New

\* The next event is new, also when it comes as a message of a room.
LEMMA NewEvent ==
  ASSUME NEW r, NEW e \in Nat, NEW F, Good(r, e, F), NEW x, x[1] \notin Calls, x[2] = e + 1
  PROVE  New(x, F)
<1>1. ASSUME NEW k \in Places, NEW i \in 1..Len(F[k]), Alike(x, F[k][i]) PROVE FALSE
  <2>1. PICK y : y = F[k][i]
    BY Zenon
  <2>2. Placed(r, e, k, y) /\ Alike(x, y)
    BY Zenon, <1>1, <2>1 DEF Good
  <2>3. y[1] \notin Calls /\ y[2] = e + 1
    BY Zenon, <2>2 DEF Alike
  <2>4. e + 1 <= e
    BY Zenon, <2>2, <2>3 DEF Placed
  <2> QED
    BY <2>4
<1> QED
  BY Zenon, <1>1 DEF New

\* A websocket that a step leaves alone.
LEMMA SocketKept ==
  ASSUME NEW w, SocketOK(w), replies' = replies, events' = events, inbox'["chat"] = inbox["chat"],
         channel'[w] = channel[w], written'[w] = written[w], activity'[w] = activity[w],
         due'[w] = due[w], w \in full => w \in full'
  PROVE  SocketOK(w)'
<1>1. Flow(w)' = Flow(w)
  BY Zenon DEF Flow
<1> QED
  BY Zenon, <1>1 DEF SocketOK

\* Nothing is on its way at the start.
LEMMA TellStarts == GatewaysInit => TellInv
<1> SUFFICES ASSUME GatewaysInit PROVE TellInv
  BY Zenon
<1>1. /\ replies = [c \in Calls |-> 0] /\ events = 0 /\ inbox = [g \in Gateway |-> <<>>]
      /\ channel = [w \in Sockets |-> <<>>] /\ written = [w \in Sockets |-> <<>>]
      /\ activity = [w \in Sockets |-> <<>>] /\ due = [w \in Sockets |-> <<>>]
  BY Zenon DEF GatewaysInit
<1>2. /\ <<>> \in Seq(Things) /\ 0 \in Nat /\ Len(<<>>) = 0 /\ 0 <= SocketBuffer
      /\ (\A i \in 1..Len(<<>>) : FALSE) /\ (\A i \in 1..(0 - 0) : FALSE) /\ 0 <= 0
  BY GatewaysAssumption
<1>3. /\ replies \in [Calls -> Nat] /\ events \in Nat /\ inbox \in [Gateway -> Seq(Things)]
      /\ channel \in [Sockets -> Seq(Things)] /\ written \in [Sockets -> Seq(Things)]
      /\ activity \in [Sockets -> Seq(Things)] /\ due \in [Sockets -> Seq(Things)]
  BY Zenon, <1>1, <1>2
<1>4. ASSUME NEW w \in Sockets PROVE SocketOK(w)
  <2>1. /\ channel[w] = <<>> /\ written[w] = <<>> /\ activity[w] = <<>> /\ due[w] = <<>>
        /\ inbox["chat"] = <<>>
    BY Zenon, <1>1 DEF Gateway
  <2>2. PICK F : F = Flow(w)
    BY Zenon
  <2>3. F = [k \in Places |-> <<>>]
    <3>1. F = Four(<<>>, <<>>, <<>>, <<>>)
      BY Zenon, <2>1, <2>2 DEF Flow
    <3> QED
      BY <3>1 DEF Four
  <2>4. Good(replies, events, F)
    BY Zenon, <1>2, <2>3 DEF Good
  <2>5. InOrder(<<>>, <<>>, <<>>)
    BY Zenon, <1>2 DEF InOrder
  <2> QED
    BY Zenon, <1>2, <2>1, <2>2, <2>4, <2>5 DEF SocketOK
<1> QED
  BY Zenon, <1>3, <1>4 DEF TellInv

\* An answer of an agent.
LEMMA ReplyTells == ASSUME TellInv, NEW c \in Calls, Reply(c) PROVE TellInv'
<1>1. /\ replies' = [replies EXCEPT ![c] = @ + 1]
      /\ inbox' = [inbox EXCEPT ![Of(c)] = Append(@, <<c, replies[c] + 1>>)]
      /\ UNCHANGED <<events, channel, written, activity, due, full>>
  BY Zenon DEF Reply, sockets
<1>2. /\ replies \in [Calls -> Nat] /\ events \in Nat /\ inbox \in [Gateway -> Seq(Things)]
      /\ channel \in [Sockets -> Seq(Things)] /\ written \in [Sockets -> Seq(Things)]
      /\ activity \in [Sockets -> Seq(Things)] /\ due \in [Sockets -> Seq(Things)]
      /\ \A w \in Sockets : SocketOK(w)
  BY Zenon DEF TellInv
<1>3. PICK n \in Nat : n = replies[c]
  BY Zenon, <1>2
<1>4. n + 1 \in Nat /\ n <= n + 1 /\ n + 1 <= n + 1 /\ \A m \in Nat : m <= m
  BY <1>3
<1>5. PICK x : x = <<c, n + 1>>
  BY Zenon
<1>6. x[1] = c /\ x[2] = n + 1 /\ x \in Things
  BY Zenon, <1>4, <1>5 DEF Things
<1>7. /\ replies' \in [Calls -> Nat] /\ replies'[c] = n + 1 /\ events <= events
      /\ \A d \in Calls : replies[d] <= replies'[d]
  BY Zenon, <1>1, <1>2, <1>3, <1>4
<1>8. inbox' \in [Gateway -> Seq(Things)] /\ (Of(c) = "chat" => inbox'["chat"] = Append(inbox["chat"], x))
      /\ (Of(c) # "chat" => inbox'["chat"] = inbox["chat"])
  <2>1. Of(c) \in Gateway /\ "chat" \in Gateway
    BY Zenon DEF Of, Gateway
  <2>2. inbox' = [inbox EXCEPT ![Of(c)] = Append(inbox[Of(c)], x)]
    BY Zenon, <1>1, <1>3, <1>5
  <2>3. PICK q \in Seq(Things) : q = inbox[Of(c)]
    BY Zenon, <1>2, <2>1
  <2>4. Append(q, x) \in Seq(Things)
    BY <1>6
  <2> QED
    BY Zenon, <1>2, <2>1, <2>2, <2>3, <2>4
<1>9. ASSUME NEW w \in Sockets PROVE SocketOK(w)'
  <2>1. PICK F : F = Flow(w) /\ Good(replies, events, F)
    BY Zenon, <1>2 DEF SocketOK
  <2>2. Good(replies', events, F) /\ New(x, F)
    BY Zenon, <1>2, <1>3, <1>5, <1>7, <2>1, FlowGrows, NewAnswer
  <2>3. Good(replies', events, Flow(w)')
    <3>1. CASE Of(c) = "chat"
      <4>1. Placed(replies', events, "inbox", x)
        BY Zenon, <1>4, <1>6, <1>7 DEF Placed, Message
      <4>2. F = Four(inbox["chat"], channel[w], written[w], activity[w])
        BY Zenon, <2>1 DEF Flow
      <4>3. Good(replies', events, Four(Append(inbox["chat"], x), channel[w], written[w], activity[w]))
        BY Zenon, <1>6, <2>2, <4>1, <4>2, FourAdd
      <4> QED
        BY Zenon, <1>1, <1>8, <3>1, <4>3 DEF Flow
    <3>2. CASE Of(c) # "chat"
      BY Zenon, <1>1, <1>8, <2>1, <2>2, <3>2 DEF Flow
    <3> QED
      BY Zenon, <3>1, <3>2
  <2> QED
    BY Zenon, <1>1, <1>2, <2>3 DEF SocketOK
<1> QED
  BY Zenon, <1>1, <1>2, <1>7, <1>8, <1>9 DEF TellInv

\* An event at the daemon: the bus tells the websockets, and the subscription
\* brings a message of a room as well.
LEMMA EmitTells == ASSUME TellInv, NEW k \in Kinds, Emit(k) PROVE TellInv'
<1>1. /\ events' = events + 1
      /\ activity' = [w \in Sockets |-> IF w \in open /\ Len(activity[w]) < SocketBuffer
                                        THEN Append(activity[w], <<k, events + 1>>) ELSE activity[w]]
      /\ inbox' = IF k = "posted" THEN [inbox EXCEPT !["chat"] = Append(@, <<NoCall, events + 1>>)]
                  ELSE inbox
      /\ UNCHANGED <<replies, channel, written, due, full>>
  BY Zenon DEF Emit, calls
<1>2. /\ replies \in [Calls -> Nat] /\ events \in Nat /\ inbox \in [Gateway -> Seq(Things)]
      /\ channel \in [Sockets -> Seq(Things)] /\ written \in [Sockets -> Seq(Things)]
      /\ activity \in [Sockets -> Seq(Things)] /\ due \in [Sockets -> Seq(Things)]
      /\ \A w \in Sockets : SocketOK(w)
  BY Zenon DEF TellInv
<1>3. PICK e \in Nat, f \in Nat : e = events /\ f = events' /\ f = e + 1
  BY <1>1, <1>2
<1>4. e <= f /\ f <= f /\ \A m \in Nat : m <= m
  BY <1>3
<1>5. \A c \in Calls : replies[c] <= replies[c]
  BY Zenon, <1>2, <1>4
<1>6. PICK x, y : x = <<k, f>> /\ y = <<NoCall, f>>
  BY Zenon
<1>7. /\ x \in Things /\ x[1] = k /\ x[2] = f /\ k \notin Calls
      /\ y \in Things /\ y[1] = NoCall /\ y[2] = f /\ NoCall \notin Calls
  BY Zenon, <1>6, GatewaysAssumption DEF Things
<1>8. /\ Placed(replies, f, "activity", x) /\ Placed(replies, f, "inbox", y)
  BY Zenon, <1>4, <1>7 DEF Placed, Message
<1>9. /\ inbox' \in [Gateway -> Seq(Things)]
      /\ k = "posted" => inbox'["chat"] = Append(inbox["chat"], y)
      /\ k # "posted" => inbox'["chat"] = inbox["chat"]
  <2>1. PICK q \in Seq(Things) : q = inbox["chat"] /\ "chat" \in Gateway
    BY Zenon, <1>2 DEF Gateway
  <2>2. Append(q, y) \in Seq(Things)
    BY <1>7
  <2>3. inbox' = IF k = "posted" THEN [inbox EXCEPT !["chat"] = Append(inbox["chat"], y)] ELSE inbox
    BY Zenon, <1>1, <1>3, <1>6
  <2> QED
    BY Zenon, <1>2, <2>1, <2>2, <2>3
<1>10. /\ activity' \in [Sockets -> Seq(Things)]
       /\ \A w \in Sockets : activity'[w] = activity[w] \/ activity'[w] = Append(activity[w], x)
  <2>1. ASSUME NEW w \in Sockets PROVE Append(activity[w], x) \in Seq(Things)
    <3>1. PICK q \in Seq(Things) : q = activity[w]
      BY Zenon, <1>2
    <3>2. Append(q, x) \in Seq(Things)
      BY <1>7
    <3> QED
      BY Zenon, <3>1, <3>2
  <2>2. activity' = [w \in Sockets |-> IF w \in open /\ Len(activity[w]) < SocketBuffer
                                       THEN Append(activity[w], x) ELSE activity[w]]
    BY Zenon, <1>1, <1>3, <1>6
  <2> QED
    BY Zenon, <1>2, <2>1, <2>2
<1>11. ASSUME NEW w \in Sockets PROVE SocketOK(w)'
  <2>1. PICK F : F = Four(inbox["chat"], channel[w], written[w], activity[w]) /\ Good(replies, e, F)
    BY Zenon, <1>2, <1>3 DEF SocketOK, Flow
  <2>2. Good(replies, f, F)
    BY Zenon, <1>2, <1>3, <1>4, <1>5, <2>1, FlowGrows
  <2>3. PICK G : /\ G = Four(inbox'["chat"], channel[w], written[w], activity[w])
                 /\ Good(replies, f, G) /\ New(x, G)
    <3>1. CASE k = "posted"
      <4>1. New(y, F)
        BY Zenon, <1>3, <1>7, <2>1, NewEvent
      <4>2. Good(replies, f, Four(Append(inbox["chat"], y), channel[w], written[w], activity[w]))
        BY Zenon, <1>7, <1>8, <2>1, <2>2, <4>1, FourAdd
      <4>3. \A G : New(x, G)
        BY Zenon, <1>7, <3>1 DEF New, Alike, Shown
      <4> QED
        BY Zenon, <1>9, <3>1, <4>2, <4>3
    <3>2. CASE k # "posted"
      <4>1. New(x, F)
        BY Zenon, <1>3, <1>7, <2>1, NewEvent
      <4> QED
        BY Zenon, <1>9, <2>1, <2>2, <3>2, <4>1
    <3> QED
      BY Zenon, <3>1, <3>2
  <2>4. Good(replies, f, Four(inbox'["chat"], channel[w], written[w], Append(activity[w], x)))
    BY Zenon, <1>7, <1>8, <2>3, FourAdd
  <2>5. Good(replies', events', Flow(w)')
    <3>1. Flow(w)' = Four(inbox'["chat"], channel[w], written[w], activity'[w]) /\ events' = f
      BY Zenon, <1>1, <1>3 DEF Flow
    <3>2. CASE activity'[w] = activity[w]
      BY Zenon, <1>1, <2>3, <3>1, <3>2
    <3>3. CASE activity'[w] = Append(activity[w], x)
      BY Zenon, <1>1, <2>4, <3>1, <3>3
    <3> QED
      BY Zenon, <1>10, <3>2, <3>3
  <2> QED
    BY Zenon, <1>1, <1>2, <2>5 DEF SocketOK
<1> QED
  BY Zenon, <1>1, <1>2, <1>3, <1>9, <1>10, <1>11 DEF TellInv

\* broadcast: a message goes to the channels that have room.
LEMMA ChatTells == ASSUME TellInv, StartSubscription PROVE TellInv'
<1>1. PICK x : x = Head(inbox["chat"])
  BY Zenon
<1>2. /\ inbox["chat"] # <<>> /\ inbox' = [inbox EXCEPT !["chat"] = Tail(inbox["chat"])]
      /\ channel' = [w \in Sockets |-> IF w \in open /\ Len(channel[w]) < SocketBuffer
                                       THEN Append(channel[w], x) ELSE channel[w]]
      /\ full' = full \union {w \in open : Len(channel[w]) = SocketBuffer}
      /\ due' = [w \in Sockets |-> IF w \in open THEN Append(due[w], x) ELSE due[w]]
      /\ UNCHANGED <<replies, written, activity, events>>
  BY Zenon, <1>1 DEF StartSubscription, Took, broadcast
<1>3. /\ replies \in [Calls -> Nat] /\ events \in Nat /\ inbox \in [Gateway -> Seq(Things)]
      /\ channel \in [Sockets -> Seq(Things)] /\ written \in [Sockets -> Seq(Things)]
      /\ activity \in [Sockets -> Seq(Things)] /\ due \in [Sockets -> Seq(Things)]
      /\ \A w \in Sockets : SocketOK(w)
  BY Zenon DEF TellInv
<1>4. /\ inbox' \in [Gateway -> Seq(Things)] /\ inbox'["chat"] = Tail(inbox["chat"]) /\ x \in Things
  <2>1. PICK q \in Seq(Things) : q = inbox["chat"] /\ "chat" \in Gateway
    BY Zenon, <1>3 DEF Gateway
  <2>2. q # <<>> => Tail(q) \in Seq(Things) /\ Head(q) \in Things
    OBVIOUS
  <2> QED
    BY Zenon, <1>1, <1>2, <1>3, <2>1, <2>2
<1>5. ASSUME NEW q \in Seq(Things) PROVE Append(q, x) \in Seq(Things) /\ Len(Append(q, x)) = Len(q) + 1
  BY <1>4
<1>6. channel' \in [Sockets -> Seq(Things)] /\ due' \in [Sockets -> Seq(Things)]
  BY Zenon, <1>2, <1>3, <1>5
<1>7. ASSUME NEW w \in Sockets PROVE SocketOK(w)'
  <2>1. PICK b \in Seq(Things), z \in Seq(Things), d \in Seq(Things) :
          b = channel[w] /\ z = written[w] /\ d = due[w]
    BY Zenon, <1>3
  <2>2. /\ Good(replies, events, Four(inbox["chat"], b, z, activity[w])) /\ Len(b) <= SocketBuffer
        /\ (\A i \in 1..Len(d) : Message(d[i])) /\ (w \notin full => InOrder(d, b, z))
    BY Zenon, <1>3, <2>1 DEF SocketOK, Flow
  <2>3. PICK G : /\ G = Four(Tail(inbox["chat"]), b, z, activity[w]) /\ Good(replies, events, G)
                 /\ New(x, G) /\ Placed(replies, events, "inbox", x)
    <3>1. PICK a : a = inbox["chat"] /\ a # <<>> /\ x = Head(a)
      BY Zenon, <1>1, <1>2
    <3>2. /\ Good(replies, events, Four(Tail(a), b, z, activity[w]))
          /\ New(Head(a), Four(Tail(a), b, z, activity[w])) /\ Placed(replies, events, "inbox", Head(a))
      BY Zenon, <2>2, <3>1, FourDrop
    <3> QED
      BY Zenon, <3>1, <3>2
  <2>4. Message(x) /\ Placed(replies, events, "channel", x)
    <3>1. "inbox" \in {"inbox", "channel"} /\ "channel" # "written" /\ "channel" # "activity"
      BY Zenon
    <3> QED
      BY Zenon, <2>3, <3>1 DEF Placed
  <2>5. Good(replies, events, Four(Tail(inbox["chat"]), Append(b, x), z, activity[w]))
    BY Zenon, <1>4, <2>3, <2>4, FourAdd
  <2>6. \A q : channel'[w] = q => Flow(w)' = Four(Tail(inbox["chat"]), q, z, activity[w])
    BY Zenon, <1>2, <1>4, <2>1 DEF Flow
  <2>7. CASE w \in open /\ Len(b) < SocketBuffer
    <3>1. channel'[w] = Append(b, x) /\ due'[w] = Append(d, x)
      BY Zenon, <1>2, <2>1, <2>7
    <3>2. Len(Append(b, x)) <= SocketBuffer
      BY <2>7, <1>4, GatewaysAssumption
    <3>3. \A i \in 1..Len(Append(d, x)) : Message(Append(d, x)[i])
      BY <1>4, <2>2, <2>4
    <3>4. w \notin full' => InOrder(Append(d, x), Append(b, x), z)
      BY Zenon, <1>2, <1>4, <2>2, OrderAppend
    <3>5. written'[w] = z
      BY Zenon, <1>2, <2>1
    <3> QED
      BY Zenon, <1>2, <1>5, <2>5, <2>6, <3>1, <3>2, <3>3, <3>4, <3>5 DEF SocketOK
  <2>8. CASE w \in open /\ ~(Len(b) < SocketBuffer)
    <3>1. channel'[w] = b /\ due'[w] = Append(d, x) /\ written'[w] = z
      BY Zenon, <1>2, <2>1, <2>8
    <3>2. Len(b) = SocketBuffer
      BY <2>2, <2>8, GatewaysAssumption
    <3>3. w \in full'
      BY Zenon, <1>2, <2>1, <2>8, <3>2
    <3>4. \A i \in 1..Len(Append(d, x)) : Message(Append(d, x)[i])
      BY <1>4, <2>2, <2>4
    <3> QED
      BY Zenon, <1>2, <1>5, <2>2, <2>3, <2>6, <3>1, <3>3, <3>4 DEF SocketOK
  <2>9. CASE w \notin open
    <3>1. channel'[w] = b /\ due'[w] = d /\ written'[w] = z
      BY Zenon, <1>2, <2>1, <2>9
    <3>2. w \in full => w \in full'
      BY Zenon, <1>2
    <3> QED
      BY Zenon, <1>2, <2>2, <2>3, <2>6, <3>1, <3>2 DEF SocketOK
  <2> QED
    BY Zenon, <2>7, <2>8, <2>9
<1> QED
  BY Zenon, <1>2, <1>3, <1>4, <1>6, <1>7 DEF TellInv

\* The websocket's goroutine writes the next message of its channel.
LEMMA WriteTells == ASSUME TellInv, NEW w \in Sockets, Write(w) PROVE TellInv'
<1>1. /\ channel[w] # <<>> /\ written' = [written EXCEPT ![w] = Append(written[w], Head(channel[w]))]
      /\ channel' = [channel EXCEPT ![w] = Tail(channel[w])]
      /\ UNCHANGED <<replies, inbox, activity, events, due, full>>
  BY Zenon DEF Write, calls
<1>2. /\ replies \in [Calls -> Nat] /\ events \in Nat /\ inbox \in [Gateway -> Seq(Things)]
      /\ channel \in [Sockets -> Seq(Things)] /\ written \in [Sockets -> Seq(Things)]
      /\ activity \in [Sockets -> Seq(Things)] /\ due \in [Sockets -> Seq(Things)]
      /\ \A v \in Sockets : SocketOK(v)
  BY Zenon DEF TellInv
<1>3. PICK b \in Seq(Things), z \in Seq(Things), d \in Seq(Things) :
        b = channel[w] /\ z = written[w] /\ d = due[w] /\ b # <<>>
  BY Zenon, <1>1, <1>2
<1>0. PICK x, a, g : x = Head(b) /\ a = inbox["chat"] /\ g = activity[w]
  BY Zenon
<1>4. /\ Good(replies, events, Four(a, b, z, g)) /\ Len(b) <= SocketBuffer
      /\ (\A i \in 1..Len(d) : Message(d[i])) /\ (w \notin full => InOrder(d, b, z))
  BY Zenon, <1>2, <1>0, <1>3 DEF SocketOK, Flow
<1>5. /\ Good(replies, events, Four(a, Tail(b), z, g)) /\ New(x, Four(a, Tail(b), z, g))
      /\ x \in Things /\ Placed(replies, events, "channel", x)
  BY Zenon, <1>0, <1>3, <1>4, FourDrop
<1>6. /\ Tail(b) \in Seq(Things) /\ Append(z, x) \in Seq(Things) /\ Len(Tail(b)) <= SocketBuffer
  BY <1>0, <1>3, <1>4, <1>5, GatewaysAssumption
<1>7. Shown(x) /\ Placed(replies, events, "written", x)
  <2>1. Message(x)
    BY Zenon, <1>5 DEF Placed
  <2>2. Shown(x)
    BY Zenon, <2>1, GatewaysAssumption DEF Message, Shown, Kinds
  <2>3. "written" \notin {"inbox", "channel"} /\ "written" # "activity"
    BY Zenon
  <2> QED
    BY Zenon, <1>5, <2>2, <2>3 DEF Placed
<1>8. Good(replies, events, Four(a, Tail(b), Append(z, x), g))
  BY Zenon, <1>5, <1>7, FourAdd
<1>9. \A j \in 1..Len(z) : z[j] # x
  <2>1. Four(a, Tail(b), z, g)["written"] = z /\ "written" \in Places
    BY DEF Four, Places
  <2>2. \A j \in 1..Len(z) : ~Alike(x, z[j])
    BY Zenon, <1>5, <2>1 DEF New
  <2>3. Alike(x, x)
    BY Zenon, <1>7 DEF Alike
  <2> QED
    BY Zenon, <2>2, <2>3
<1>10. w \notin full => InOrder(d, Tail(b), Append(z, x))
  BY Zenon, <1>0, <1>3, <1>4, <1>9, OrderWrite
<1>11. /\ channel' \in [Sockets -> Seq(Things)] /\ written' \in [Sockets -> Seq(Things)]
       /\ channel'[w] = Tail(b) /\ written'[w] = Append(z, x)
       /\ \A v \in Sockets \ {w} : channel'[v] = channel[v] /\ written'[v] = written[v]
  BY Zenon, <1>1, <1>2, <1>0, <1>3, <1>6
<1>12. ASSUME NEW v \in Sockets PROVE SocketOK(v)'
  <2>1. CASE v = w
    <3>1. Flow(w)' = Four(a, Tail(b), Append(z, x), g)
      BY Zenon, <1>1, <1>0, <1>3, <1>11 DEF Flow
    <3> QED
      BY Zenon, <1>1, <1>0, <1>3, <1>4, <1>6, <1>8, <1>10, <1>11, <2>1, <3>1 DEF SocketOK
  <2>2. CASE v # w
    BY Zenon, <1>1, <1>2, <1>11, <2>2, SocketKept
  <2> QED
    BY Zenon, <2>1, <2>2
<1> QED
  BY Zenon, <1>1, <1>2, <1>11, <1>12 DEF TellInv

\* The websocket's goroutine takes the next event, and writes some of them.
LEMMA ActivityTells == ASSUME TellInv, NEW w \in Sockets, WriteActivity(w) PROVE TellInv'
<1>1. /\ activity[w] # <<>> /\ activity' = [activity EXCEPT ![w] = Tail(activity[w])]
      /\ written' = [written EXCEPT ![w] = written[w] \o encodeActivityEvent(Head(activity[w]))]
      /\ UNCHANGED <<replies, inbox, channel, events, due, full>>
  BY Zenon DEF WriteActivity, calls
<1>2. /\ replies \in [Calls -> Nat] /\ events \in Nat /\ inbox \in [Gateway -> Seq(Things)]
      /\ channel \in [Sockets -> Seq(Things)] /\ written \in [Sockets -> Seq(Things)]
      /\ activity \in [Sockets -> Seq(Things)] /\ due \in [Sockets -> Seq(Things)]
      /\ \A v \in Sockets : SocketOK(v)
  BY Zenon DEF TellInv
<1>3. PICK g \in Seq(Things), b \in Seq(Things), z \in Seq(Things), d \in Seq(Things) :
        g = activity[w] /\ b = channel[w] /\ z = written[w] /\ d = due[w] /\ g # <<>>
  BY Zenon, <1>1, <1>2
<1>0. PICK x, a : x = Head(g) /\ a = inbox["chat"]
  BY Zenon
<1>4. /\ Good(replies, events, Four(a, b, z, g)) /\ Len(b) <= SocketBuffer
      /\ (\A i \in 1..Len(d) : Message(d[i])) /\ (w \notin full => InOrder(d, b, z))
  BY Zenon, <1>2, <1>0, <1>3 DEF SocketOK, Flow
<1>5. /\ Good(replies, events, Four(a, b, z, Tail(g))) /\ New(x, Four(a, b, z, Tail(g)))
      /\ x \in Things /\ Placed(replies, events, "activity", x)
  BY Zenon, <1>0, <1>3, <1>4, FourDrop
<1>6. Tail(g) \in Seq(Things)
  BY <1>0, <1>3
<1>7. PICK y \in Seq(Things) :
        /\ y = z \o encodeActivityEvent(x) /\ Good(replies, events, Four(a, b, y, Tail(g)))
        /\ w \notin full => InOrder(d, b, y)
  <2>1. CASE x[1] \in {"online", "created"}
    <3>1. z \o encodeActivityEvent(x) = Append(z, x) /\ Append(z, x) \in Seq(Things)
      <4>1. encodeActivityEvent(x) = <<x>>
        BY Zenon, <2>1 DEF encodeActivityEvent
      <4>2. z \o <<x>> = Append(z, x) /\ Append(z, x) \in Seq(Things)
        BY <1>5
      <4> QED
        BY Zenon, <4>1, <4>2
    <3>2. Placed(replies, events, "written", x)
      <4>1. Shown(x)
        BY Zenon, <2>1 DEF Shown
      <4>2. "written" \notin {"inbox", "channel"} /\ "written" # "activity"
        BY Zenon
      <4> QED
        BY Zenon, <1>5, <4>1, <4>2 DEF Placed
    <3>3. Good(replies, events, Four(a, b, Append(z, x), Tail(g)))
      BY Zenon, <1>5, <3>2, FourAdd
    <3>4. ~Message(x)
      BY Zenon, <2>1, GatewaysAssumption DEF Message, Kinds
    <3>5. w \notin full => InOrder(d, b, Append(z, x))
      BY Zenon, <1>4, <1>5, <3>4, OrderEvent
    <3> QED
      BY Zenon, <3>1, <3>3, <3>5
  <2>2. CASE x[1] \notin {"online", "created"}
    <3>1. encodeActivityEvent(x) = <<>>
      BY Zenon, <2>2 DEF encodeActivityEvent
    <3>2. z \o <<>> = z
      OBVIOUS
    <3>3. z \o encodeActivityEvent(x) = z
      BY Zenon, <3>1, <3>2
    <3> QED
      BY Zenon, <1>4, <1>5, <3>3
  <2> QED
    BY Zenon, <2>1, <2>2
<1>8. /\ activity' \in [Sockets -> Seq(Things)] /\ written' \in [Sockets -> Seq(Things)]
      /\ activity'[w] = Tail(g) /\ written'[w] = y
      /\ \A v \in Sockets \ {w} : activity'[v] = activity[v] /\ written'[v] = written[v]
  BY Zenon, <1>1, <1>2, <1>0, <1>3, <1>6, <1>7
<1>9. ASSUME NEW v \in Sockets PROVE SocketOK(v)'
  <2>1. CASE v = w
    <3>1. Flow(w)' = Four(a, b, y, Tail(g))
      BY Zenon, <1>1, <1>0, <1>3, <1>8 DEF Flow
    <3> QED
      BY Zenon, <1>1, <1>0, <1>3, <1>4, <1>7, <1>8, <2>1, <3>1 DEF SocketOK
  <2>2. CASE v # w
    BY Zenon, <1>1, <1>2, <1>8, <2>2, SocketKept
  <2> QED
    BY Zenon, <2>1, <2>2
<1> QED
  BY Zenon, <1>1, <1>2, <1>8, <1>9 DEF TellInv

\* A websocket is closed; its events are forgotten.
LEMMA RemoveTells == ASSUME TellInv, NEW w \in Sockets, RemoveClient(w) PROVE TellInv'
<1>1. /\ activity' = [activity EXCEPT ![w] = <<>>]
      /\ UNCHANGED <<replies, inbox, channel, written, events, due, full>>
  BY Zenon DEF RemoveClient, calls
<1>2. /\ replies \in [Calls -> Nat] /\ events \in Nat /\ inbox \in [Gateway -> Seq(Things)]
      /\ channel \in [Sockets -> Seq(Things)] /\ written \in [Sockets -> Seq(Things)]
      /\ activity \in [Sockets -> Seq(Things)] /\ due \in [Sockets -> Seq(Things)]
      /\ \A v \in Sockets : SocketOK(v)
  BY Zenon DEF TellInv
<1>3. <<>> \in Seq(Things)
  OBVIOUS
<1>4. /\ activity' \in [Sockets -> Seq(Things)] /\ activity'[w] = <<>>
      /\ \A v \in Sockets \ {w} : activity'[v] = activity[v]
  BY Zenon, <1>1, <1>2, <1>3
<1>5. Good(replies, events, Four(inbox["chat"], channel[w], written[w], <<>>))
  BY Zenon, <1>2, FourClear DEF SocketOK, Flow
<1>6. Flow(w)' = Four(inbox["chat"], channel[w], written[w], <<>>)
  BY Zenon, <1>1, <1>4 DEF Flow
<1>7. ASSUME NEW v \in Sockets PROVE SocketOK(v)'
  <2>1. CASE v = w
    BY Zenon, <1>1, <1>2, <1>5, <1>6, <2>1 DEF SocketOK
  <2>2. CASE v # w
    BY Zenon, <1>1, <1>2, <1>4, <2>2, SocketKept
  <2> QED
    BY Zenon, <2>1, <2>2
<1> QED
  BY Zenon, <1>1, <1>2, <1>4, <1>7 DEF TellInv

\* The other steps send a websocket nothing.
LEMMA OthersTell ==
  ASSUME TellInv, UNCHANGED <<replies, channel, written, activity, events, due, full>>,
         inbox' = inbox \/ (inbox["mcp"] # <<>> /\ Took("mcp"))
  PROVE  TellInv'
<1>1. /\ replies \in [Calls -> Nat] /\ events \in Nat /\ inbox \in [Gateway -> Seq(Things)]
      /\ channel \in [Sockets -> Seq(Things)] /\ written \in [Sockets -> Seq(Things)]
      /\ activity \in [Sockets -> Seq(Things)] /\ due \in [Sockets -> Seq(Things)]
      /\ \A v \in Sockets : SocketOK(v)
  BY Zenon DEF TellInv
<1>2. inbox' \in [Gateway -> Seq(Things)] /\ inbox'["chat"] = inbox["chat"]
  <2>1. CASE inbox' = inbox
    BY Zenon, <1>1, <2>1
  <2>2. CASE Took("mcp") /\ inbox["mcp"] # <<>>
    <3>1. PICK q \in Seq(Things) : q = inbox["mcp"] /\ "mcp" \in Gateway /\ "chat" \in Gateway /\ q # <<>>
      BY Zenon, <1>1, <2>2 DEF Gateway
    <3>2. Tail(q) \in Seq(Things) /\ "mcp" # "chat"
      BY <3>1
    <3> QED
      BY Zenon, <1>1, <2>2, <3>1, <3>2 DEF Took
  <2> QED
    BY Zenon, <2>1, <2>2
<1>3. \A v \in Sockets : SocketOK(v)'
  BY Zenon, <1>1, <1>2, SocketKept
<1> QED
  BY Zenon, <1>1, <1>2, <1>3 DEF TellInv

\* The inductive invariant implies the checked one.
LEMMA TellShows == TellInv => SocketsAreTold
<1> SUFFICES ASSUME TellInv PROVE SocketsAreTold
  BY Zenon
<1>1. NothingDropped
  BY Zenon DEF TellInv, SocketOK, NothingDropped
<1>2. ASSUME NEW w \in Sockets, NEW i \in DOMAIN written[w], NEW j \in DOMAIN written[w],
             written[w][i][2] = written[w][j][2],
             \/ written[w][i][1] = written[w][j][1]
             \/ {written[w][i][1], written[w][j][1]} \intersect Calls = {}
      PROVE  i = j
  <2>1. PICK z \in Seq(Things) : z = written[w]
    BY Zenon DEF TellInv
  <2>2. DOMAIN z = 1..Len(z)
    OBVIOUS
  <2>3. PICK F : F = Flow(w) /\ Good(replies, events, F)
    BY Zenon DEF TellInv, SocketOK
  <2>4. F["written"] = z /\ "written" \in Places
    BY Zenon, <2>1, <2>3, FlowIs
  <2>5. i \in 1..Len(F["written"]) /\ j \in 1..Len(F["written"])
    BY Zenon, <2>1, <2>2, <2>4
  <2>6. Placed(replies, events, "written", z[i]) /\ Placed(replies, events, "written", z[j])
    BY Zenon, <2>3, <2>4, <2>5 DEF Good
  <2>7. Shown(z[i]) /\ Shown(z[j])
    BY Zenon, <2>6 DEF Placed
  <2>8. z[i][2] = z[j][2] /\ (z[i][1] = z[j][1] \/ {z[i][1], z[j][1]} \intersect Calls = {})
    BY Zenon, <1>2, <2>1
  <2>9. z[i][1] = z[j][1] \/ (z[i][1] \notin Calls /\ z[j][1] \notin Calls)
    BY Zenon, <2>8
  <2>10. Alike(z[i], z[j])
    BY Zenon, <2>7, <2>8, <2>9 DEF Alike
  <2>11. Alike(F["written"][i], F["written"][j])
    BY Zenon, <2>4, <2>10
  <2> QED
    BY Zenon, <2>3, <2>4, <2>5, <2>11, GoodApart
<1>3. ToldOnce
  BY Zenon, <1>2 DEF ToldOnce
<1> QED
  BY Zenon, <1>1, <1>3 DEF SocketsAreTold

\* Whatever the order of answers, events and writes, for any number of calls,
\* websockets and events and any size of the channels: a websocket whose channel
\* was never full is sent every message that came while it was open, in order
\* (UserManager.broadcast), and no websocket is told anything twice
\* (encodeActivityEvent).
THEOREM SocketsAreAlwaysTold == GatewaysSpec => []SocketsAreTold
<1>1. ASSUME TellInv, [GatewaysNext]_gatewayVars PROVE TellInv'
  <2>1. ASSUME NEW c \in Calls,
               \/ OpenSession(c) \/ callAgent(c) \/ WaitForSession(c)
               \/ handleToolsCall(c) \/ handleSendToAgent(c) \/ Timeout(c)
        PROVE  TellInv'
    BY Zenon, <1>1, <2>1, OthersTell
       DEF OpenSession, callAgent, WaitForSession, handleToolsCall, handleSendToAgent, Timeout, sockets
  <2>2. CASE subscribeLoop
    BY Zenon, <1>1, <2>2, OthersTell DEF subscribeLoop, sockets
  <2>3. ASSUME NEW w \in Sockets, handleWebSocket(w) PROVE TellInv'
    BY Zenon, <1>1, <2>3, OthersTell DEF handleWebSocket, calls
  <2>4. CASE UNCHANGED gatewayVars
    BY Zenon, <1>1, <2>4, OthersTell DEF gatewayVars, calls, sockets
  <2> QED
    BY Zenon, <1>1, <2>1, <2>2, <2>3, <2>4, ReplyTells, EmitTells, ChatTells, WriteTells, ActivityTells,
       RemoveTells DEF GatewaysNext
<1> QED
  BY <1>1, TellStarts, TellShows, PTL DEF GatewaysSpec
=============================================================================
