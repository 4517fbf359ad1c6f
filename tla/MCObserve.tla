----------------------------- MODULE MCObserve -----------------------------
(***************************************************************************)
(* The parts of a node that observe it, checked side by side: each         *)
(* behaviour runs one of them, chosen initially, while the others rest.    *)
(***************************************************************************)
EXTENDS TraceStore, ActivityBus, Dashboard, Discovery, Lookup

VARIABLE part

observeVars == <<part, traceVars, busVars, dashVars, discoveryVars, lookupVars>>

Init ==
    /\ part \in {"trace", "bus", "dashboard", "discovery", "lookup"}
    /\ TraceInit /\ BusInit /\ DashInit /\ DiscoveryInit /\ LookupInit
    /\ part # "dashboard" => ~up
    /\ part # "discovery" => client = "agent"
    /\ part # "lookup" => table = "sessions"

Next ==
    \/ part = "trace" /\ TraceNext /\ UNCHANGED <<part, busVars, dashVars, discoveryVars, lookupVars>>
    \/ part = "bus" /\ BusNext /\ UNCHANGED <<part, traceVars, dashVars, discoveryVars, lookupVars>>
    \/ part = "dashboard" /\ DashNext /\ UNCHANGED <<part, traceVars, busVars, discoveryVars, lookupVars>>
    \/ part = "discovery" /\ DiscoveryNext /\ UNCHANGED <<part, traceVars, busVars, dashVars, lookupVars>>
    \/ part = "lookup" /\ LookupNext /\ UNCHANGED <<part, traceVars, busVars, dashVars, discoveryVars>>

\* The fairness of Dashboard and Discovery, each asked only of its own part.
Fairness ==
    /\ WF_dashVars(part = "dashboard" /\ WatchActivity)
    /\ WF_dashVars(part = "dashboard" /\ watchActivity)
    /\ WF_dashVars(part = "dashboard" /\ UpdateActivity)
    /\ WF_dashVars(part = "dashboard" /\ UpdateActivityErr)
    /\ WF_dashVars(part = "dashboard" /\ UpdateWatchRetry)
    /\ WF_discoveryVars(part = "discovery" /\ (Recv \/ UpdatePeerMap \/ UpdateNodes \/ UpdateRelays))
    /\ WF_discoveryVars(part = "discovery" /\ UpdateTick)
    /\ \A f \in Fetches :
          /\ WF_discoveryVars(part = "discovery" /\ (StatusLocal(f) \/ StatusMap(f) \/ GetNodeStatus(f)))
          /\ WF_discoveryVars(part = "discovery" /\ ~running /\ fetchStatus(f))
          /\ WF_discoveryVars(part = "discovery" /\ UpdateStatus(f))

Spec == Init /\ [][Next]_observeVars /\ Fairness

\* Queries over the tables of a node agree with each other and with what the
\* node knows first-hand: listing with ranked discovery, ranks with names, tools
\* with the handles they stand for, chains with the open sessions, and the
\* state of a node with those of its handles (FindHandles, handleToolsList,
\* detectFlowChains, nodeState).
QueriesAgree ==
    /\ DiscoveryTypeOK /\ ListAgreesWithFind /\ LocalManifestDecides
    /\ MatchesByName /\ ToolsLeadBack /\ ChainsCoverSessions /\ NodeShowsWorst

\* The dashboard is subscribed again after every break, and shows the true
\* status once things are quiet (watchRetryMsg, fetchStatus).
DashboardSettles == WatchResumes /\ StatusConverges
===========================================================================
