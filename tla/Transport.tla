------------------------------ MODULE Transport ------------------------------
(***************************************************************************)
(* GRPCTransport on every daemon, and the relays.                          *)
(*                                                                         *)
(* Send uses the connection to the peer that is in the table, or makes     *)
(* one, tries once more over a new connection when that fails, remembers   *)
(* the failure, and falls back to the relays.  Connections are made        *)
(* outside the locks, each with a receive loop that removes it from the    *)
(* table when its stream ends.  ConnectToRelays keeps a stream to every    *)
(* relay open, over which the relay forwards what others send to the node. *)
(* Streams break at any time, and the context of a call may expire.        *)
(*                                                                         *)
(* The tables peers and relayConns are one table here, as addresses of     *)
(* daemons and relays differ.                                              *)
(***************************************************************************)
EXTENDS Naturals, Sequences, FiniteSets

CONSTANTS
  Nodes,      \* daemons
  Relays,     \* relays
  Calls,      \* calls of Send, each with a message of its own
  From, To,   \* the daemon that makes a call and the one it sends to
  Keepers,    \* daemons whose ConnectToRelays calls are modelled
  Links,      \* connections that may exist at a time
  MaxFaults,  \* bound: streams that break and contexts that expire
  None

ASSUME TransportBounds ==
  /\ From \in [Calls -> Nodes] /\ To \in [Calls -> Nodes]
  /\ Keepers \subseteq Nodes /\ Nodes \intersect (Calls \union Relays) = {}
  /\ None \notin Links \union Nodes \union Relays
  /\ IsFiniteSet(Relays) /\ MaxFaults \in Nat

VARIABLES
  table,     \* peers and relayConns of each daemon
  fails,     \* directFails that are not older than directFailTTL
  call,      \* the running Send and ConnectToRelays calls
  expired,   \* calls whose context has expired
  conn,      \* connections, with their receive loop and server handler
  out, back, \* messages on a stream, to the server and to the client
  streams,   \* relay: Server.streams
  result, handed, arrived,  \* of Channel
  early,     \* connections whose loop had ended before they were stored
  raced,     \* pairs of a daemon and a relay that had two streams at a time
  breaks     \* streams that broke so far

callVars == <<call, expired>>
wireVars == <<out, back>>
histVars == <<early, raced, breaks>>
transportVars == <<table, fails, call, expired, conn, out, back, streams, result,
          handed, arrived, early, raced, breaks>>

Threads == Calls \union Keepers
Addrs   == Nodes \union Relays
NodeOf(t) == IF t \in Calls THEN From[t] ELSE t

NoLink == [from |-> None, to |-> None, up |-> FALSE, loop |-> FALSE,
           handler |-> "ended"]

\* A call at rest: a Send that was not made, or ConnectToRelays.
Rest == [pc |-> "rest", stage |-> "direct", addr |-> None, conn |-> None,
         todo |-> {}]

TransportInit ==
  /\ table = [n \in Nodes |-> [a \in Addrs |-> None]]
  /\ fails = {}
  /\ call = [t \in Threads |-> Rest]
  /\ expired = {}
  /\ conn = [k \in Links |-> NoLink]
  /\ out = [k \in Links |-> <<>>] /\ back = [k \in Links |-> <<>>]
  /\ streams = [r \in Relays |-> [n \in Nodes |-> None]]
  /\ result = [c \in Calls |-> "none"]
  /\ handed = [c \in Calls |-> 0]
  /\ arrived = [n \in Nodes |-> [c \in Calls |-> 0]]
  /\ early = {} /\ raced = {} /\ breaks = 0

-----------------------------------------------------------------------------
(* Connections.                                                            *)

Held == {call[t].conn : t \in Threads}
Stored == {table[n][a] : n \in Nodes, a \in Addrs}

\* Connections that nobody refers to any more.
Unused == {k \in Links : conn[k] = NoLink /\ k \notin Held \union Stored}

Close(k) == conn' = [conn EXCEPT ![k].up = FALSE]

\* The connection without its loop or its handler, and with neither no more.
Ended(k, part) ==
  LET e == IF part = "loop" THEN [conn[k] EXCEPT !.loop = FALSE]
                            ELSE [conn[k] EXCEPT !.handler = "ended"]
  IN conn' = [conn EXCEPT
                ![k] = IF ~e.loop /\ e.handler = "ended" THEN NoLink ELSE e]

\* connect and connectRelay: the stream is open and its loop runs.  A daemon's
\* handler only receives; the handler of a relay has yet to note the stream.
Opened(n, a, k) ==
  [conn EXCEPT ![k] = [from |-> n, to |-> a, up |-> TRUE, loop |-> TRUE,
                       handler |-> IF a \in Relays THEN "new" ELSE "in"]]

\* Another stream of the daemon is open at the relay, or was not yet noted.
Doubles(n, a) ==
  a \in Relays /\ \E k \in Links : /\ conn[k].from = n /\ conn[k].to = a
                                   /\ conn[k].handler # "ended"
                                   /\ conn[k].up \/ conn[k].handler = "new"

\* recvLoop and relayRecvLoop when the stream has ended.
LoopEnds(k) ==
  LET n == conn[k].from
      a == conn[k].to
  IN /\ conn[k].loop /\ ~conn[k].up
     /\ Ended(k, "loop")
     /\ back' = [back EXCEPT ![k] = <<>>]
     /\ table' = IF table[n][a] = k THEN [table EXCEPT ![n][a] = None] ELSE table
     /\ early' = IF table[n][a] # k /\ k \in Held THEN early \union {k}
                                                  ELSE early
     /\ UNCHANGED <<fails, callVars, out, streams, result, handed, arrived,
                    raced, breaks>>

Receive(n, c) == arrived' = [arrived EXCEPT ![n][c] = @ + 1]

\* A message that the relay has forwarded.
LoopReceives(k) ==
  /\ conn[k].loop /\ back[k] # <<>>
  /\ Receive(conn[k].from, Head(back[k]))
  /\ back' = [back EXCEPT ![k] = Tail(@)]
  /\ UNCHANGED <<table, fails, callVars, conn, out, streams, result, handed,
                 histVars>>

\* Exchange on a daemon.
ExchangeReceives(k) ==
  /\ conn[k].handler = "in" /\ conn[k].to \in Nodes /\ out[k] # <<>>
  /\ Receive(conn[k].to, Head(out[k]))
  /\ out' = [out EXCEPT ![k] = Tail(@)]
  /\ UNCHANGED <<table, fails, callVars, conn, back, streams, result, handed,
                 histVars>>

StreamBreaks(k) ==
  /\ conn[k].up /\ breaks + Cardinality(expired) < MaxFaults
  /\ breaks' = breaks + 1
  /\ Close(k)
  /\ UNCHANGED <<table, fails, callVars, wireVars, streams, result, handed,
                 arrived, early, raced>>

\* Close: the connections of the daemon, and those that others made to it.
Shutdown(n) ==
  LET open == {k \in Links : /\ conn[k].up
                             /\ \/ conn[k].to = n
                                \/ conn[k].from = n /\ table[n][conn[k].to] = k}
  IN /\ open # {} /\ breaks + Cardinality(expired) < MaxFaults
     /\ breaks' = breaks + 1
     /\ table' = [table EXCEPT ![n] = [a \in Addrs |-> None]]
     /\ conn' = [k \in Links |-> IF k \in open THEN [conn[k] EXCEPT !.up = FALSE]
                                               ELSE conn[k]]
     /\ UNCHANGED <<fails, callVars, wireVars, streams, result, handed, arrived,
                    early, raced>>

-----------------------------------------------------------------------------
(* The relay: Exchange of relay.Server.                                    *)

\* extractPubKey: each daemon has a key of its own.
KeyOf(k) == conn[k].from

RelayAccepts(k) ==
  /\ conn[k].handler = "new"
  /\ conn' = [conn EXCEPT ![k].handler = "in"]
  /\ streams' = [streams EXCEPT ![conn[k].to][KeyOf(k)] = k]
  /\ UNCHANGED <<table, fails, callVars, wireVars, result, handed, arrived,
                 histVars>>

\* Variant: looks up the key of the sender.
RelayForwards_Sender(k) ==
  /\ conn[k].handler = "in" /\ conn[k].to \in Relays /\ out[k] # <<>>
  /\ out' = [out EXCEPT ![k] = Tail(@)]
  /\ LET c == Head(out[k])
         s == streams[conn[k].to][From[c]]
     IN back' = IF s # None /\ conn[s].up
                THEN [back EXCEPT ![s] = Append(@, c)] ELSE back
  /\ UNCHANGED <<table, fails, callVars, conn, streams, result, handed,
                 arrived, histVars>>

\* The stream noted for the target may be broken.
RelayForwards(k) ==
  /\ conn[k].handler = "in" /\ conn[k].to \in Relays /\ out[k] # <<>>
  /\ out' = [out EXCEPT ![k] = Tail(@)]
  /\ LET c == Head(out[k])
         s == streams[conn[k].to][To[c]]
     IN back' = IF s # None /\ conn[s].up
                THEN [back EXCEPT ![s] = Append(@, c)] ELSE back
  /\ UNCHANGED <<table, fails, callVars, conn, streams, result, handed,
                 arrived, histVars>>

\* Variant: the entry goes even if it is that of another stream.
HandlerEnds_AnyEntry(k) ==
  LET n == KeyOf(k)
      a == conn[k].to
  IN /\ conn[k].handler = "in" /\ ~conn[k].up
     /\ Ended(k, "handler")
     /\ out' = [out EXCEPT ![k] = <<>>]
     /\ streams' = IF a \in Relays THEN [streams EXCEPT ![a][n] = None]
                                   ELSE streams
     /\ UNCHANGED <<table, fails, callVars, back, result, handed, arrived,
                    histVars>>

\* The handler of a daemon or a relay returns when its stream has ended.
HandlerEnds(k) ==
  LET n == KeyOf(k)
      a == conn[k].to
  IN /\ conn[k].handler = "in" /\ ~conn[k].up
     /\ Ended(k, "handler")
     /\ out' = [out EXCEPT ![k] = <<>>]
     /\ streams' = IF a \in Relays /\ streams[a][n] = k
                   THEN [streams EXCEPT ![a][n] = None] ELSE streams
     /\ UNCHANGED <<table, fails, callVars, back, result, handed, arrived,
                    histVars>>

-----------------------------------------------------------------------------
(* getOrConnect and getOrConnectRelay.                                     *)

Goto(t, pc) == call' = [call EXCEPT ![t].pc = pc]

\* The next relay to try, any of those left, or the end of the call.
NextRelay(t, todo) ==
  IF todo # {}
  THEN /\ \E r \in todo :
            call' = [call EXCEPT ![t] = [pc |-> "get", stage |-> "relay",
                              addr |-> r, conn |-> None, todo |-> todo \ {r}]]
       /\ UNCHANGED result
  ELSE /\ call' = [call EXCEPT ![t] = [Rest EXCEPT !.pc = IF t \in Calls
                                                  THEN "done" ELSE "rest"]]
       /\ result' = IF t \in Calls THEN [result EXCEPT ![t] = "error"]
                                   ELSE result

\* The call has a connection: Send sends, ConnectToRelays goes on.
Connected(t, k) ==
  IF t \in Calls
  THEN /\ call' = [call EXCEPT ![t].pc = "send", ![t].conn = k]
       /\ UNCHANGED result
  ELSE NextRelay(t, call[t].todo)

Get(t) ==
  LET k == table[NodeOf(t)][call[t].addr] IN
  /\ call[t].pc = "get"
  /\ IF k # None THEN Connected(t, k)
                 ELSE Goto(t, "dial") /\ UNCHANGED result
  /\ UNCHANGED <<table, fails, expired, conn, wireVars, streams, handed,
                 arrived, histVars>>

Dial(t) ==
  LET n == NodeOf(t)
      a == call[t].addr
  IN /\ call[t].pc = "dial"
     /\ \E k \in Unused :
          /\ conn' = Opened(n, a, k)
          /\ call' = [call EXCEPT ![t].pc = "store", ![t].conn = k]
          /\ early' = early \ {k}
     /\ raced' = IF Doubles(n, a) THEN raced \union {<<n, a>>} ELSE raced
     /\ UNCHANGED <<table, fails, expired, wireVars, streams, result, handed,
                    arrived, breaks>>

\* The peer is down, its key is not that of the peer map, or the context
\* expires first.
DialFails(t) ==
  /\ call[t].pc = "dial"
  /\ IF call[t].stage = "relay" THEN NextRelay(t, call[t].todo)
                                ELSE Goto(t, "failed") /\ UNCHANGED result
  /\ UNCHANGED <<table, fails, expired, conn, wireVars, streams, handed,
                 arrived, histVars>>

\* Variant: the duplicate stays open.
Store_KeepsDuplicate(t) ==
  LET n == NodeOf(t)
      a == call[t].addr
      k == call[t].conn
  IN /\ call[t].pc = "store"
     /\ IF table[n][a] # None
        THEN /\ Connected(t, table[n][a])
             /\ UNCHANGED <<table, conn>>
        ELSE /\ table' = [table EXCEPT ![n][a] = k]
             /\ Connected(t, k)
             /\ UNCHANGED conn
     /\ UNCHANGED <<fails, expired, wireVars, streams, handed, arrived,
                    histVars>>

\* Another call may have stored a connection in the meantime.
Store(t) ==
  LET n == NodeOf(t)
      a == call[t].addr
      k == call[t].conn
  IN /\ call[t].pc = "store"
     /\ IF table[n][a] # None
        THEN Close(k) /\ Connected(t, table[n][a]) /\ UNCHANGED table
        ELSE /\ table' = [table EXCEPT ![n][a] = k]
             /\ Connected(t, k)
             /\ UNCHANGED conn
     /\ UNCHANGED <<fails, expired, wireVars, streams, handed, arrived,
                    histVars>>

-----------------------------------------------------------------------------
(* Send.                                                                   *)

\* sendViaRelay: without the peer's key, or relays, there is nothing to try.
SendViaRelay(c) == NextRelay(c, Relays) \/ NextRelay(c, {})

\* Whether direct sends to the peer have failed of late.
Send(c) ==
  LET n == From[c]
      m == To[c]
  IN /\ call[c].pc = "rest"
     /\ IF <<n, m>> \in fails
        THEN SendViaRelay(c)
        ELSE /\ call' = [call EXCEPT ![c] = [Rest EXCEPT !.pc = "get", !.addr = m]]
             /\ UNCHANGED result
     /\ UNCHANGED <<table, fails, expired, conn, wireVars, streams, handed,
                    arrived, histVars>>

\* The failure is too old to count; the next Send deletes it.
Forget(f) ==
  /\ f \in fails
  /\ fails' = fails \ {f}
  /\ UNCHANGED <<table, callVars, conn, wireVars, streams, result, handed,
                 arrived, histVars>>

Expire(c) ==
  /\ call[c].pc \notin {"rest", "done"} /\ c \notin expired
  /\ breaks + Cardinality(expired) < MaxFaults
  /\ expired' = expired \union {c}
  /\ UNCHANGED <<table, fails, call, conn, wireVars, streams, result, handed,
                 arrived, histVars>>

\* The message is on the stream, or lost with it.
Write(c, k) ==
  /\ handed' = [handed EXCEPT ![c] = @ + 1]
  /\ out' = IF conn[k].up THEN [out EXCEPT ![k] = Append(@, c)] ELSE out

\* Where a call goes on when sendOnConn has failed.
GoOn(c) ==
  \/ call[c].stage = "direct" /\ Goto(c, "clean") /\ UNCHANGED result
  \/ call[c].stage = "again" /\ Goto(c, "failed") /\ UNCHANGED result
  \/ call[c].stage = "relay" /\ NextRelay(c, call[c].todo)

SendOk(c) ==
  /\ call[c].pc = "send"
  /\ Write(c, call[c].conn)
  /\ call' = [call EXCEPT ![c] = [Rest EXCEPT !.pc = "done"]]
  /\ result' = [result EXCEPT ![c] = "ok"]
  /\ UNCHANGED <<table, fails, expired, conn, back, streams, arrived, histVars>>

\* The stream is broken.
SendFails(c) ==
  /\ call[c].pc = "send" /\ ~conn[call[c].conn].up
  /\ GoOn(c)
  /\ UNCHANGED <<table, fails, expired, conn, wireVars, streams, handed,
                 arrived, histVars>>

\* The context expires: the message may be written all the same.  The remove
\* function of a relay connection takes it from the table.
SendExpires(c) ==
  LET n == From[c]
      a == call[c].addr
      k == call[c].conn
  IN /\ call[c].pc = "send" /\ c \in expired
     /\ Write(c, k) \/ UNCHANGED <<handed, out>>
     /\ table' = IF a \in Relays /\ table[n][a] = k
                 THEN [table EXCEPT ![n][a] = None] ELSE table
     /\ Close(k)
     /\ GoOn(c)
     /\ UNCHANGED <<fails, expired, back, streams, arrived, histVars>>

\* sendDirect removes the connection and makes another.
Clean(c) ==
  LET n == From[c]
      a == call[c].addr
      k == call[c].conn
  IN /\ call[c].pc = "clean"
     /\ IF table[n][a] = k
        THEN table' = [table EXCEPT ![n][a] = None] /\ Close(k)
        ELSE UNCHANGED <<table, conn>>
     /\ call' = [call EXCEPT
                   ![c].pc = IF c \in expired THEN "failed" ELSE "dial",
                   ![c].stage = "again", ![c].conn = None]
     /\ UNCHANGED <<fails, expired, wireVars, streams, result, handed, arrived,
                    histVars>>

DirectFailed(c) ==
  /\ call[c].pc = "failed"
  /\ fails' = fails \union {<<From[c], To[c]>>}
  /\ SendViaRelay(c)
  /\ UNCHANGED <<table, expired, conn, wireVars, streams, handed, arrived,
                 histVars>>

ConnectToRelays(n) ==
  /\ call[n].pc = "rest"
  /\ NextRelay(n, Relays)
  /\ UNCHANGED <<table, fails, expired, conn, wireVars, streams, handed,
                 arrived, histVars>>

-----------------------------------------------------------------------------
ThreadStep(t) == Get(t) \/ Dial(t) \/ DialFails(t) \/ Store(t)

SendStep(c) ==
  \/ SendOk(c) \/ SendFails(c) \/ SendExpires(c) \/ Clean(c)
  \/ DirectFailed(c)

StreamStep(k) ==
  \/ LoopEnds(k) \/ LoopReceives(k) \/ ExchangeReceives(k)
  \/ RelayAccepts(k) \/ RelayForwards(k) \/ HandlerEnds(k)

TransportNext ==
  \/ \E t \in Threads : ThreadStep(t)
  \/ \E c \in Calls : Send(c) \/ Expire(c) \/ SendStep(c)
  \/ \E n \in Keepers : ConnectToRelays(n)
  \/ \E k \in Links : StreamStep(k) \/ StreamBreaks(k)
  \/ \E n \in Nodes : Shutdown(n)
  \/ \E f \in Nodes \X Nodes : Forget(f)

TransportSpec == TransportInit /\ [][TransportNext]_transportVars

-----------------------------------------------------------------------------
\* Send is a lossy channel (Channel): a relay forwards a copy to its
\* destination and to nobody else, nothing arrives that was not sent, a call
\* hands over one copy directly and one to each relay at most, and when it
\* succeeds it has handed over one.
Promised == INSTANCE Channel WITH MaxCopies <- 1 + Cardinality(Relays)
ImplementsChannel == Promised!Spec

TransportTypeOK ==
  /\ table \in [Nodes -> [Addrs -> Links \union {None}]]
  /\ fails \subseteq Nodes \X Nodes
  /\ call \in [Threads ->
       [pc : {"rest", "get", "dial", "store", "send", "clean", "failed",
              "done"},
        stage : {"direct", "again", "relay"}, addr : Addrs \union {None},
        conn : Links \union {None}, todo : SUBSET Relays]]
  /\ expired \subseteq Calls
  /\ conn \in [Links -> [from : Nodes \union {None}, to : Addrs \union {None},
                         up : BOOLEAN, loop : BOOLEAN,
                         handler : {"new", "in", "ended"}]]
  /\ \A k \in Links : out[k] \in Seq(Calls) /\ back[k] \in Seq(Calls)
  /\ streams \in [Relays -> [Nodes -> Links \union {None}]]
  /\ early \subseteq Links /\ raced \subseteq Nodes \X Relays

\* Unless the context of the call expires, when it cannot know whether a copy
\* has left, Send hands over one copy, however often it tries.
OneCopy == \A c \in Calls \ expired : handed[c] <= 1

\* A broken connection does not stay in the table: its receive loop still runs
\* and will remove it, unless it ended before the connection was stored.
StaleHasReaper ==
  \A n \in Nodes, a \in Addrs :
    LET k == table[n][a] IN
    k # None /\ ~conn[k].up => conn[k].loop \/ k \in early

\* An open connection is in the table, or about to be: calls that connect to
\* the same address at a time leave no stream behind.
NoStreamLeaks ==
  \A k \in Links : conn[k].up =>
    \/ table[conn[k].from][conn[k].to] = k
    \/ \E t \in Threads : call[t].pc = "store" /\ call[t].conn = k

\* The relay can reach a daemon whose connection to it is open and noted,
\* unless the daemon had two streams to it at a time.
Routable(n, r) ==
  LET k == table[n][r] IN
  k # None /\ conn[k].up /\ conn[k].handler = "in" => streams[r][n] = k

RoutableUnlessRaced ==
  \A n \in Nodes, r \in Relays : Routable(n, r) \/ <<n, r>> \in raced

\* The tables of a daemon and the streams stay in step, whatever calls race:
\* one copy is handed over, a broken connection has a loop that removes it, and
\* no stream is left behind (getOrConnect, sendDirect, recvLoop).
TablesInStep == TransportTypeOK /\ OneCopy /\ StaleHasReaper /\ NoStreamLeaks
=============================================================================
