-------------------------------- MODULE Coord --------------------------------
(***************************************************************************)
(* Coord's registry and peer map, and the daemons that use them, in one    *)
(* team.                                                                   *)
(*                                                                         *)
(* A daemon registers a snapshot of its handles whenever they change,      *)
(* sends them with every heartbeat, and registers again when a heartbeat   *)
(* fails or coord does not know it.  Coord checks for conflicts and writes *)
(* in two steps, removes daemons it has not heard of, and broadcasts the   *)
(* peer map when its hash has changed; the hash of an update is the update *)
(* itself.  WatchPeerMap streams break and are set up again.               *)
(***************************************************************************)
EXTENDS Naturals, Sequences, FiniteSets

CONSTANTS
  Nodes,        \* daemons
  Watchers,     \* daemons whose WatchPeerMap streams are modelled
  Handles,      \* handles
  MayHost,      \* the handles the agents of each daemon use
  Streams,      \* WatchPeerMap calls on coord, each with its channel
  Capacity,     \* capacity of a watcher channel
  MaxChanges,   \* bound: changes of local handles
  MaxReaps,     \* bound: daemons the reaper removes
  None

ASSUME CoordBounds ==
  /\ None \notin Nodes \union Streams
  /\ Watchers \subseteq Nodes /\ MayHost \in [Nodes -> SUBSET Handles]
  /\ Capacity \in Nat \ {0} /\ MaxChanges \in Nat /\ MaxReaps \in Nat

VARIABLES
  local,       \* handles registered with each daemon
  changes,     \* changes so far
  registering, \* Register calls of daemons, retried until they succeed
  checked,     \* those that have passed coord's conflict check
  beating,     \* the heartbeat loop of each daemon
  nodes,       \* coord: the nodes table
  rows,        \* coord: the handles of each node
  reaps,       \* nodes reaped so far
  cast,        \* coord: the Broadcast calls
  lastHash,    \* coord: PeerMap.lastHash
  watchers,    \* coord: PeerMap.watchers
  streamPc, streamNode,  \* coord: the WatchPeerMap handlers
  chan,        \* their channels
  closed,      \* channels that were closed
  current,     \* the stream each daemon reads
  view         \* Resolver of each daemon

daemonVars == <<local, changes, beating>>
dbVars     == <<nodes, rows, reaps>>
castVars   == <<cast, lastHash>>
watchVars  == <<watchers, streamPc, streamNode, chan, closed, current, view>>
vars == <<local, changes, registering, checked, beating, nodes, rows, reaps,
          cast, lastHash, watchers, streamPc, streamNode, chan, closed,
          current, view>>

\* Broadcast is called for the heartbeats of a daemon, for its other Register
\* calls and by the reaper, for each at most once at a time.
Beat(n)   == <<n, "beat">>
Reaper    == <<None, "reap">>
Callers   == (Nodes \X {"beat", "change"}) \union {Reaper}

Quiet == [pc |-> "idle"]
Rest == [step |-> "rest", handles |-> {}]

Requests == [node : Nodes, handles : SUBSET Handles, by : {"change", "beat"}]

Init ==
  /\ local = [n \in Nodes |-> {}] /\ changes = 0
  /\ registering = {} /\ checked = {}
  /\ beating = [n \in Nodes |-> Rest]
  /\ nodes = Nodes /\ rows = [n \in Nodes |-> {}] /\ reaps = 0
  /\ cast = [c \in Callers |-> Quiet] /\ lastHash = None
  /\ watchers = [n \in Nodes |-> None]
  /\ streamPc = [s \in Streams |-> "new"]
  /\ streamNode = [s \in Streams |-> None]
  /\ chan = [s \in Streams |-> <<>>] /\ closed = {}
  /\ current = [n \in Nodes |-> None] /\ view = [n \in Nodes |-> None]

\* BuildForTeam: the nodes with their handles.
Build(N, R) == [n \in N |-> R[n]]

-----------------------------------------------------------------------------
(* Broadcast.                                                              *)

\* Nothing is built, or remembered, when there are no watchers.
NoWatchers == \A n \in Nodes : watchers[n] = None

\* A handler calls Broadcast or, with force, ForceBroadcast.  No other handler
\* changes the teams of the watchers between its write and this call.
StartCast(c, force) ==
  /\ IF NoWatchers THEN UNCHANGED cast
     ELSE /\ cast[c] = Quiet
          /\ cast' = [cast EXCEPT ![c] =
                        [pc |-> "build", force |-> force, awaited |-> TRUE]]
  /\ UNCHANGED lastHash

\* Broadcast returns, its handler too, and a heartbeat loop that waits goes on.
EndCast(c) ==
  /\ cast' = [cast EXCEPT ![c] = Quiet]
  /\ beating' = [n \in Nodes |-> IF c = Beat(n) /\ cast[c].awaited
                                 THEN Rest ELSE beating[n]]

CastBuild(c) ==
  /\ cast[c].pc = "build"
  /\ cast' = [cast EXCEPT ![c] = [pc |-> "hash", force |-> @.force,
                        awaited |-> @.awaited, update |-> Build(nodes, rows)]]
  /\ UNCHANGED <<daemonVars, registering, checked, dbVars, lastHash, watchVars>>

CastHash(c) ==
  /\ cast[c].pc = "hash"
  /\ lastHash' = cast[c].update
  /\ IF cast[c].update = lastHash /\ ~cast[c].force
     THEN EndCast(c)
     ELSE cast' = [cast EXCEPT ![c].pc = "send"] /\ UNCHANGED beating
  /\ UNCHANGED <<local, changes, registering, checked, dbVars, watchVars>>

\* A full channel drops the update.
CastSend(c) ==
  /\ cast[c].pc = "send"
  /\ chan' = [s \in Streams |->
                IF s \in {watchers[n] : n \in Nodes} /\ Len(chan[s]) < Capacity
                THEN Append(chan[s], cast[c].update) ELSE chan[s]]
  /\ EndCast(c)
  /\ UNCHANGED <<local, changes, registering, checked, dbVars, lastHash,
                 watchers, streamPc, streamNode, closed, current, view>>

-----------------------------------------------------------------------------
(* Registration.                                                           *)

\* Agents register and disconnect; onHandleChange starts a Register call with
\* a snapshot, in a goroutine of its own.
HandleChange(n, hs) ==
  /\ changes < MaxChanges /\ hs # local[n]
  /\ local' = [local EXCEPT ![n] = hs]
  /\ changes' = changes + 1
  /\ registering' = registering
                      \union {[node |-> n, handles |-> hs, by |-> "change"]}
  /\ UNCHANGED <<checked, beating, dbVars, castVars, watchVars>>

\* Variant: the lookup returns some node of the team, whatever its handles.
Free_AnyHandle(h, n) == nodes = {} \/ n \in nodes

\* LookupHandleInTeam returns one of the nodes that have the handle: the call
\* may pass if its own node is among them.  A rejected call is made again.
Free(h, n) ==
  LET holders == {m \in nodes : h \in rows[m]} IN holders = {} \/ n \in holders

RegisterCheck(r) ==
  /\ r \in registering /\ \A h \in r.handles : Free(h, r.node)
  /\ registering' = registering \ {r}
  /\ checked' = checked \union {r}
  /\ UNCHANGED <<daemonVars, dbVars, castVars, watchVars>>

\* UpsertNode and the rest of the call.
RegisterUpsert(r) ==
  /\ r \in checked
  /\ checked' = checked \ {r}
  /\ nodes' = nodes \union {r.node}
  /\ rows' = [rows EXCEPT ![r.node] = r.handles]
  /\ StartCast(<<r.node, r.by>>, FALSE)
  /\ beating' = IF r.by = "beat" /\ NoWatchers
                THEN [beating EXCEPT ![r.node] = Rest] ELSE beating
  /\ UNCHANGED <<local, changes, registering, reaps, watchVars>>

HeartbeatSend(n) ==
  /\ beating[n].step = "rest"
  /\ beating' = [beating EXCEPT ![n] = [step |-> "sent", handles |-> local[n]]]
  /\ UNCHANGED <<local, changes, registering, checked, dbVars, castVars,
                 watchVars>>

Served(n) == beating' = IF NoWatchers THEN [beating EXCEPT ![n] = Rest]
                        ELSE [beating EXCEPT ![n].step = "served"]

\* Variant: the heartbeat brings the timestamp up to date and nothing else.
Heartbeat_TimeOnly(n) ==
  /\ beating[n].step = "sent" /\ n \in nodes
  /\ Served(n)
  /\ StartCast(Beat(n), FALSE)
  /\ UNCHANGED <<local, changes, registering, checked, dbVars, watchVars>>

\* Coord takes over the handles of the heartbeat, unchecked.
Heartbeat(n) ==
  /\ beating[n].step = "sent" /\ n \in nodes
  /\ Served(n)
  /\ rows' = [rows EXCEPT ![n] = beating[n].handles]
  /\ StartCast(Beat(n), FALSE)
  /\ UNCHANGED <<local, changes, registering, checked, nodes, reaps, watchVars>>

\* The heartbeat loop waits until a call with the handles of this moment has
\* succeeded.
ReRegister(n) ==
  /\ beating' = [beating EXCEPT ![n] = [step |-> "wait", handles |-> local[n]]]
  /\ registering' = registering
                      \union {[node |-> n, handles |-> local[n], by |-> "beat"]}

\* Coord does not know the node.
HeartbeatRejected(n) ==
  /\ beating[n].step = "sent" /\ n \notin nodes
  /\ ReRegister(n)
  /\ UNCHANGED <<local, changes, checked, dbVars, castVars, watchVars>>

\* The call itself fails, before coord has served it or after.
HeartbeatError(n) ==
  /\ beating[n].step \in {"sent", "served"}
  /\ ReRegister(n)
  /\ cast' = IF cast[Beat(n)] = Quiet THEN cast
             ELSE [cast EXCEPT ![Beat(n)].awaited = FALSE]
  /\ UNCHANGED <<local, changes, checked, dbVars, lastHash, watchVars>>

\* RemoveStaleNodes and ForceBroadcast, for a daemon that coord has not heard.
Reap(n) ==
  /\ reaps < MaxReaps /\ n \in nodes
  /\ reaps' = reaps + 1
  /\ nodes' = nodes \ {n}
  /\ rows' = [rows EXCEPT ![n] = {}]
  /\ StartCast(Reaper, TRUE)
  /\ UNCHANGED <<daemonVars, registering, checked, watchVars>>

-----------------------------------------------------------------------------
(* WatchPeerMap.                                                           *)

Unused == {s \in Streams : streamPc[s] = "new"}

\* Coord builds the current map and sends it.
WatchPeerMap(n) ==
  /\ n \in Watchers /\ current[n] = None /\ Unused # {}
  /\ LET s == CHOOSE t \in Unused : TRUE IN
     /\ streamPc' = [streamPc EXCEPT ![s] = "sent"]
     /\ streamNode' = [streamNode EXCEPT ![s] = n]
     /\ current' = [current EXCEPT ![n] = s]
  /\ view' = [view EXCEPT ![n] = Build(nodes, rows)]
  /\ UNCHANGED <<daemonVars, registering, checked, dbVars, castVars, watchers,
                 chan, closed>>

AddWatcher(s) ==
  /\ streamPc[s] = "sent"
  /\ streamPc' = [streamPc EXCEPT ![s] = "watching"]
  /\ watchers' = [watchers EXCEPT ![streamNode[s]] = s]
  /\ UNCHANGED <<daemonVars, registering, checked, dbVars, castVars, streamNode,
                 chan, closed, current, view>>

WatchSend(s) ==
  LET n == streamNode[s] IN
  /\ streamPc[s] = "watching" /\ chan[s] # <<>>
  /\ chan' = [chan EXCEPT ![s] = Tail(@)]
  /\ view' = IF current[n] = s THEN [view EXCEPT ![n] = Head(chan[s])] ELSE view
  /\ UNCHANGED <<daemonVars, registering, checked, dbVars, castVars, watchers,
                 streamPc, streamNode, closed, current>>

\* Variant: closes the channel and leaves it in the map.
RemoveWatcher_KeepsEntry(n) ==
  /\ closed' = closed \union ({watchers[n]} \ {None})
  /\ UNCHANGED watchers

\* Closes whatever channel the node has, also one that a newer call added.
RemoveWatcher(n) ==
  /\ closed' = closed \union ({watchers[n]} \ {None})
  /\ watchers' = [watchers EXCEPT ![n] = None]

\* Variant: the handler returns only when the stream breaks.
WatchEnd_IgnoresClose(s) ==
  LET n == streamNode[s] IN
  /\ streamPc[s] = "watching" /\ current[n] # s
  /\ streamPc' = [streamPc EXCEPT ![s] = "ended"]
  /\ RemoveWatcher(n)
  /\ UNCHANGED <<daemonVars, registering, checked, dbVars, castVars, streamNode,
                 chan, current, view>>

\* The handler returns: the stream broke, or its channel was closed.
WatchEnd(s) ==
  LET n == streamNode[s] IN
  /\ \/ streamPc[s] \in {"sent", "watching"} /\ current[n] # s
     \/ streamPc[s] = "watching" /\ s \in closed /\ chan[s] = <<>>
  /\ streamPc' = [streamPc EXCEPT ![s] = "ended"]
  /\ IF streamPc[s] = "watching" THEN RemoveWatcher(n)
                                 ELSE UNCHANGED <<watchers, closed>>
  /\ current' = IF current[n] = s THEN [current EXCEPT ![n] = None] ELSE current
  /\ UNCHANGED <<daemonVars, registering, checked, dbVars, castVars, streamNode,
                 chan, view>>

\* The daemon loses its stream.  A stream more is kept for the case that the
\* end of this one closes the channel of the next.
StreamBreaks(n) ==
  /\ current[n] # None /\ Cardinality(Unused) > 1
  /\ current' = [current EXCEPT ![n] = None]
  /\ UNCHANGED <<daemonVars, registering, checked, dbVars, castVars, watchers,
                 streamPc, streamNode, chan, closed, view>>

-----------------------------------------------------------------------------
Next ==
  \/ \E r \in Requests : RegisterCheck(r) \/ RegisterUpsert(r)
  \/ \E n \in Nodes :
        \/ \E hs \in SUBSET MayHost[n] : HandleChange(n, hs)
        \/ HeartbeatSend(n) \/ Heartbeat(n)
        \/ HeartbeatRejected(n) \/ HeartbeatError(n)
        \/ Reap(n) \/ WatchPeerMap(n) \/ StreamBreaks(n)
  \/ \E c \in Callers : CastBuild(c) \/ CastHash(c) \/ CastSend(c)
  \/ \E s \in Streams : AddWatcher(s) \/ WatchSend(s) \/ WatchEnd(s)

Spec == Init /\ [][Next]_vars

\* Goroutines go on, tickers fire and failed calls are repeated.
Fairness ==
  /\ \A n \in Nodes :
       /\ WF_vars(\E r \in Requests : /\ r.node = n
                                      /\ RegisterCheck(r) \/ RegisterUpsert(r))
       /\ WF_vars(HeartbeatSend(n) \/ Heartbeat(n) \/ HeartbeatRejected(n))
       /\ WF_vars(WatchPeerMap(n))
  /\ \A c \in Callers : WF_vars(CastBuild(c) \/ CastHash(c) \/ CastSend(c))
  /\ \A s \in Streams : WF_vars(AddWatcher(s) \/ WatchSend(s) \/ WatchEnd(s))

FairSpec == Spec /\ Fairness

-----------------------------------------------------------------------------
(* Properties                                                              *)

\* Types, and that coord has handles only of nodes it knows.
TypeOK ==
  /\ local \in [Nodes -> SUBSET Handles] /\ changes \in Nat /\ reaps \in Nat
  /\ registering \subseteq Requests /\ checked \subseteq Requests
  /\ \A n \in Nodes : beating[n].step \in {"rest", "sent", "served", "wait"}
  /\ nodes \subseteq Nodes /\ rows \in [Nodes -> SUBSET Handles]
  /\ \A n \in Nodes : n \notin nodes => rows[n] = {}
  /\ watchers \in [Nodes -> Streams \union {None}]
  /\ streamPc \in [Streams -> {"new", "sent", "watching", "ended"}]
  /\ current \in [Nodes -> Streams \union {None}]
  /\ \A s \in Streams : Len(chan[s]) <= Capacity

\* Broadcast never sends on a closed channel and never to a handler that has
\* returned, in whatever order old and new streams of a daemon come and go.
WatchersLive ==
  \A n \in Nodes : watchers[n] # None =>
    /\ watchers[n] \notin closed
    /\ streamPc[watchers[n]] = "watching" /\ streamNode[watchers[n]] = n

\* Late snapshots, lost heartbeats and the reaper are made up for: if the
\* heartbeat loop of a daemon goes on, coord in the end has its handles.
CoordCatchesUp ==
  \A n \in Nodes :
    []<>(beating[n].step = "rest") => <>[](n \in nodes /\ rows[n] = local[n])

\* The heartbeat loop of a daemon stops only for a handle that another daemon
\* has taken.
BlockedByConflict ==
  \A n \in Nodes :
    []<>\/ beating[n].step = "rest"
        \/ \E m \in Nodes \ {n} : rows[m] \intersect beating[n].handles # {}

\* A stream whose channel an older handler has closed is noticed, and the
\* daemon gets a new one.
ClosedReopens ==
  \A n \in Watchers :
    (current[n] \in closed) ~> (current[n] \in Streams \ closed)

\* "re-register with coord so peer map updates immediately": in the end each
\* daemon has the peer map that coord has.
ViewsCatchUp ==
  \A n \in Watchers : <>[](view[n] = Build(nodes, rows))

=============================================================================
