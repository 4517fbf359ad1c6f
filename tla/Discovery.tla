----------------------------- MODULE Discovery -----------------------------
(***************************************************************************)
(* What a daemon answers about the mesh, and what the dashboard makes of   *)
(* it.  The daemon's watch on the coordinator installs an update in the    *)
(* resolver (internal/handle/resolver.go) in several calls, each under its *)
(* lock; the queries of internal/daemon/agentserver.go read their own      *)
(* handles first and the resolver afterwards, again in several calls.      *)
(* Agents register and leave, peers connect and disconnect and the daemon  *)
(* restarts between any two of them.  The dashboard (cmd/tailbus) asks for *)
(* the status on a ticker; answers may be late and overtake one another.   *)
(***************************************************************************)
EXTENDS Integers, FiniteSets

CONSTANTS
    Self, Peers,  \* this node and the others
    Agents,       \* handles
    Relay,        \* a relay
    Fetches,      \* status requests that may be in flight
    MaxChanges,   \* bound on changes of the environment
    NoNode

VARIABLES
    client,    \* who asks: queries read only, so each client is checked alone
    running,   \* the daemon runs
    mine,      \* the agents registered here -> whether they carry the tag
               \* that the query asks for
    published, \* the coordinator's latest peer map
    update,    \* the update being installed and how far that has got
    handleTo, nodes, relays, \* the resolver's caches
    conns, relayUp, \* peers and relay the transport is connected to
    listing,   \* a query in progress, or its answer
    fetches,   \* status request -> what it has read, or the message it sent
    status,    \* the status the dashboard shows
    changes

discoveryVars == <<client, running, mine, published, update, handleTo, nodes, relays, conns, relayUp,
                   listing, fetches, status, changes>>

Nodes == Peers \cup {Self}
NoStatus == [at |-> "none"]
NoAsk == [at |-> "idle", kind |-> "list", local |-> << >>, found |-> [a \in Agents |-> 0]]
Asked == [at |-> "asked"]
IdleFetch == [at |-> "idle"]

\* A peer map: the node and the tag of each handle, the nodes and the relays.
\* The coordinator lists the node that watches with the others.
Maps == {m \in [to : [Agents -> [node : Nodes \cup {NoNode}, tag : BOOLEAN]],
                nodes : {ns \in SUBSET Nodes : Self \in ns}, relays : {{Relay}}] :
            \A a \in Agents : /\ m.to[a].node \in m.nodes \cup {NoNode}
                              /\ m.to[a].node = NoNode => ~m.to[a].tag}

Unmapped == [a \in Agents |-> [node |-> NoNode, tag |-> FALSE]]
NoMap == [to |-> Unmapped, nodes |-> {}, relays |-> {}]
NoUpdateYet == [at |-> "waiting", map |-> NoMap]

DiscoveryInit ==
    /\ client \in {"agent", "dashboard"}
    /\ running = TRUE
    /\ mine = << >>
    /\ published = NoMap
    /\ update = NoUpdateYet
    /\ handleTo = Unmapped /\ nodes = {} /\ relays = {}
    /\ conns = {} /\ relayUp = FALSE
    /\ listing = NoAsk
    /\ fetches = [f \in Fetches |-> IdleFetch]
    /\ status = NoStatus
    /\ changes = 0

Resolver == <<published, update, handleTo, nodes, relays>>
Links == <<conns, relayUp>>
Dash == <<fetches, status>>

Change == changes < MaxChanges /\ changes' = changes + 1

-----------------------------------------------------------------------------
(* The environment. *)

\* An agent registers, with or without the tag, or its connection ends.
RegisterOrLeave ==
    /\ running /\ Change
    /\ \/ \E a \in Agents \ DOMAIN mine, tag \in BOOLEAN :
             mine' = [b \in DOMAIN mine \cup {a} |-> IF b = a THEN tag ELSE mine[b]]
       \/ \E a \in DOMAIN mine : mine' = [b \in DOMAIN mine \ {a} |-> mine[b]]
    /\ UNCHANGED <<client, running, Resolver, Links, listing, Dash>>

Publish ==
    /\ Change
    /\ \E m \in Maps : published' = m
    /\ UNCHANGED <<client, running, mine, update, handleTo, nodes, relays, Links, listing, Dash>>

LinkChanges ==
    /\ running /\ Change
    /\ \/ /\ \E p \in Peers : conns' = (conns \ {p}) \cup ({p} \ conns)
          /\ UNCHANGED relayUp
       \/ relayUp' = ~relayUp /\ UNCHANGED conns
    /\ UNCHANGED <<client, running, mine, Resolver, listing, Dash>>

\* A daemon that stops takes its caches, agents and connections with it; the
\* queries it was answering fail.
DaemonRestarts ==
    /\ Change
    /\ running' = ~running
    /\ mine' = << >>
    /\ update' = NoUpdateYet
    /\ handleTo' = Unmapped /\ nodes' = {} /\ relays' = {}
    /\ conns' = {} /\ relayUp' = FALSE
    /\ listing' = NoAsk
    /\ fetches' = [f \in Fetches |->
          IF fetches[f].at \in {"local", "map"} THEN [at |-> "unavailable"] ELSE fetches[f]]
    /\ UNCHANGED <<client, published, status>>

-----------------------------------------------------------------------------
(* The watch on the coordinator. *)

\* WatchPeerMap takes the next update; the resolver's caches are replaced one
\* after the other.
Recv ==
    /\ running /\ update.at = "waiting" /\ update.map # published
    /\ update' = [at |-> "map", map |-> published]
    /\ UNCHANGED <<client, running, mine, published, handleTo, nodes, relays, Links, listing, Dash, changes>>

UpdatePeerMap ==
    /\ update.at = "map"
    /\ handleTo' = update.map.to
    /\ update' = [update EXCEPT !.at = "nodes"]
    /\ UNCHANGED <<client, running, mine, published, nodes, relays, Links, listing, Dash, changes>>

UpdateNodes ==
    /\ update.at = "nodes"
    /\ nodes' = update.map.nodes
    /\ update' = [update EXCEPT !.at = "relays"]
    /\ UNCHANGED <<client, running, mine, published, handleTo, relays, Links, listing, Dash, changes>>

UpdateRelays ==
    /\ update.at = "relays"
    /\ relays' = update.map.relays
    /\ update' = [update EXCEPT !.at = "waiting"]
    /\ UNCHANGED <<client, running, mine, published, handleTo, nodes, Links, listing, Dash, changes>>

-----------------------------------------------------------------------------
(* listing for handles: ListHandles filters by tags, FindHandles ranks what  *)
(* matches a query, IntrospectHandle asks for one handle's manifest.         *)

Ask ==
    /\ client = "agent" /\ running /\ listing.at \in {"idle", "answered"}
    /\ \E kind \in {"list", "find", "introspect"} :
          listing' = [NoAsk EXCEPT !.at = "local", !.kind = kind]
    /\ UNCHANGED <<client, running, mine, Resolver, Links, Dash, changes>>

\* Under the server's lock: the agents registered here, with their manifests.
ReadLocal ==
    /\ listing.at = "local"
    /\ listing' = [listing EXCEPT !.at = "resolver", !.local = mine]
    /\ UNCHANGED <<client, running, mine, Resolver, Links, Dash, changes>>

Tagged(to) == {a \in Agents : to[a].node # NoNode /\ to[a].tag}

\* Variant: every local handle is listed, with or without the tag.
ListHandles_AnyLocal(local, to) ==
    [a \in Agents |-> IF a \in DOMAIN local \/ a \in Tagged(to) THEN 1 ELSE 0]

\* The local handles that match, and the resolver's that were not seen.
ListHandles(local, to) ==
    LET seen == {a \in DOMAIN local : local[a]} IN
    [a \in Agents |-> IF a \in seen \/ a \in Tagged(to) THEN 1 ELSE 0]

\* Every local handle enters with its own manifest, whether it matches or not,
\* the resolver's matches only where no local handle has that name; the match
\* is evaluated over the lot.
FindHandles(local, to) ==
    LET manifests == [a \in DOMAIN local \cup Tagged(to) |->
                        IF a \in DOMAIN local THEN local[a] ELSE to[a].tag]
    IN [a \in Agents |-> IF a \in DOMAIN manifests /\ manifests[a] THEN 1 ELSE 0]

IntrospectHandle(local, to) ==
    [a \in Agents |-> IF a \in DOMAIN local \/ to[a].node # NoNode THEN 1 ELSE 0]

Answer ==
    /\ listing.at = "resolver"
    /\ listing' = [listing EXCEPT !.at = "answered",
          !.found = CASE listing.kind = "list" -> ListHandles(listing.local, handleTo)
                      [] listing.kind = "find" -> FindHandles(listing.local, handleTo)
                      [] listing.kind = "introspect" -> IntrospectHandle(listing.local, handleTo)]
    /\ UNCHANGED <<client, running, mine, Resolver, Links, Dash, changes>>

-----------------------------------------------------------------------------
(* The status, and the dashboard's polling. *)

\* GetNodeStatus reads the local handles and the nodes, then the peer map, and
\* last the connections.
StatusLocal(f) ==
    /\ fetches[f].at = "asked" /\ running
    /\ fetches' = [fetches EXCEPT ![f] =
          [at |-> "local", handles |-> DOMAIN mine, nodes |-> nodes \ {Self}]]
    /\ UNCHANGED <<client, running, mine, Resolver, Links, listing, status, changes>>

StatusMap(f) ==
    /\ fetches[f].at = "local"
    /\ fetches' = [fetches EXCEPT ![f] =
          [at |-> "map", handles |-> fetches[f].handles,
           peers |-> [p \in fetches[f].nodes |-> {a \in Agents : handleTo[a].node = p}]]]
    /\ UNCHANGED <<client, running, mine, Resolver, Links, listing, status, changes>>

\* A peer is direct when its address has a connection, reachable by relay when
\* any relay is connected, and offline otherwise.
Connectivity(p) == IF p \in conns THEN "direct" ELSE IF relayUp THEN "relay" ELSE "offline"

GetNodeStatus(f) ==
    /\ fetches[f].at = "map"
    /\ fetches' = [fetches EXCEPT ![f] =
          [at |-> "status", handles |-> fetches[f].handles,
           peers |-> [p \in DOMAIN fetches[f].peers |->
                        [handles |-> fetches[f].peers[p], connectivity |-> Connectivity(p)]],
           relays |-> [r \in relays |-> relayUp]]]
    /\ UNCHANGED <<client, running, mine, Resolver, Links, listing, status, changes>>

\* The ticker or the R key asks again.
UpdateTick ==
    /\ client = "dashboard"
    /\ \E f \in Fetches : fetches[f] = IdleFetch /\ fetches' = [fetches EXCEPT ![f] = Asked]
    /\ UNCHANGED <<client, running, mine, Resolver, Links, listing, status, changes>>

\* Without a daemon the request fails; it also fails by its deadline, or with
\* an error of the daemon's own.
fetchStatus(f) ==
    /\ fetches[f].at \in {"asked", "local", "map"}
    /\ \/ ~running /\ fetches' = [fetches EXCEPT ![f] = [at |-> "unavailable"]] /\ UNCHANGED changes
       \/ running /\ Change /\ \E err \in {"unavailable", "refused"} :
             fetches' = [fetches EXCEPT ![f] = [at |-> err]]
    /\ UNCHANGED <<client, running, mine, Resolver, Links, listing, status>>

\* Variant: the last status stays.
shouldClearStatus_Never(err) == FALSE
shouldClearStatus(err) == err = "unavailable"

UpdateStatus(f) ==
    /\ fetches[f].at \in {"status", "unavailable", "refused"}
    /\ status' = IF fetches[f].at = "status" THEN fetches[f]
                 ELSE IF shouldClearStatus(fetches[f].at) THEN NoStatus ELSE status
    /\ fetches' = [fetches EXCEPT ![f] = IdleFetch]
    /\ UNCHANGED <<client, running, mine, Resolver, Links, listing, changes>>

DiscoveryNext ==
    \/ RegisterOrLeave \/ Publish \/ LinkChanges \/ DaemonRestarts
    \/ Recv \/ UpdatePeerMap \/ UpdateNodes \/ UpdateRelays
    \/ Ask \/ ReadLocal \/ Answer
    \/ UpdateTick
    \/ \E f \in Fetches : StatusLocal(f) \/ StatusMap(f) \/ GetNodeStatus(f)
                            \/ fetchStatus(f) \/ UpdateStatus(f)

\* The daemon goes on installing updates and answering, and the ticker fires.
DiscoveryFairness ==
    /\ WF_discoveryVars(Recv \/ UpdatePeerMap \/ UpdateNodes \/ UpdateRelays)
    /\ WF_discoveryVars(UpdateTick)
    /\ \A f \in Fetches :
          /\ WF_discoveryVars(StatusLocal(f) \/ StatusMap(f) \/ GetNodeStatus(f))
          /\ WF_discoveryVars(~running /\ fetchStatus(f))
          /\ WF_discoveryVars(UpdateStatus(f))

DiscoverySpec == DiscoveryInit /\ [][DiscoveryNext]_discoveryVars /\ DiscoveryFairness

-----------------------------------------------------------------------------
\* The caches, the query and the requests have their types, and this node is
\* never among the peers of its own status (GetNodeStatus skips it).
DiscoveryTypeOK ==
    /\ DOMAIN mine \subseteq Agents
    /\ handleTo \in [Agents -> [node : Nodes \cup {NoNode}, tag : BOOLEAN]]
    /\ nodes \subseteq Nodes /\ relays \subseteq {Relay} /\ conns \subseteq Peers
    /\ listing.found \in [Agents -> 0 .. 1]
    /\ \A f \in Fetches : fetches[f].at \in
          {"idle", "asked", "local", "map", "status", "unavailable", "refused"}
    /\ \A f \in Fetches : fetches[f].at = "local" => fetches[f].nodes \subseteq Peers

\* The plain listing and ranked discovery agree on who carries a tag, and
\* neither lists an agent twice, except while the peer map holds an outdated
\* manifest of an agent of this node (ListHandles merges two tables by the
\* handles it has seen match, FindHandles by the handles registered here).
ListAgreesWithFind ==
    (/\ listing.at = "resolver"
     /\ \A a \in DOMAIN listing.local : handleTo[a].node # NoNode => handleTo[a].tag = listing.local[a])
      => ListHandles(listing.local, handleTo) = FindHandles(listing.local, handleTo)

\* Ranked discovery never offers an agent of this node by an outdated
\* manifest of the peer map: what this node knows first-hand decides
\* (FindHandles keeps the local entry).
LocalManifestDecides ==
    listing.at = "answered" /\ listing.kind = "find"
      => \A a \in DOMAIN listing.local : listing.found[a] = 1 => listing.local[a]

\* The status shown is about this moment once things are quiet: the agents
\* here, the other nodes of the peer map with their agents, how each is
\* reached, and the relays; and nothing at all when no daemon runs.
TrueStatus ==
    IF running
    THEN [at |-> "status", handles |-> DOMAIN mine,
          peers |-> [p \in published.nodes \ {Self} |->
                       [handles |-> {a \in Agents : published.to[a].node = p},
                        connectivity |-> Connectivity(p)]],
          relays |-> [r \in published.relays |-> relayUp]]
    ELSE NoStatus

\* The dashboard ends up showing the truth: when the environment stays as it
\* is, late and failed answers are overtaken by a status that agrees with the
\* daemon, its peers and its links, and stays so (GetNodeStatus, fetchStatus,
\* shouldClearStatus and the ticker).
StatusConverges == client = "dashboard" => <>[](status = TrueStatus)
===========================================================================
