------------------------------ MODULE Lookup ------------------------------
(***************************************************************************)
(* Functions that compute an answer from a table, against what they are    *)
(* for: ranked discovery (internal/handle/resolver.go), the tool names of  *)
(* the MCP gateway (internal/mcp/gateway.go) and the session chains of the *)
(* dashboard (cmd/tailbus/dashboard.go).  The state is the table, grown    *)
(* one entry at a time; the properties quantify over the queries.          *)
(* A name is a sequence of its dot-separated parts.                        *)
(***************************************************************************)
EXTENDS Integers, Sequences, FiniteSets, SequencesExt, FiniteSetsExt

CONSTANTS
    MaxHandle,    \* handles are 1 .. MaxHandle, in the order of their names
    DottedHandle, \* the handle with a dot in its name
    MaxSessions   \* bound on the sessions

ASSUME LookupAssumption == MaxHandle \in Nat \ {0} /\ MaxSessions \in Nat

VARIABLES
    table,     \* which of the two tables is in use
    manifests, \* handle -> manifest
    sessions   \* the sessions of a status, in the order they are listed

lookupVars == <<table, manifests, sessions>>

HandleIds == 1 .. MaxHandle
NameOf(h) == IF h = DottedHandle THEN <<h, "x">> ELSE <<h>>

\* A manifest: what it offers, and its commands by name.
Manifest(caps, domains, tags, commands, version) ==
    [caps |-> caps, domains |-> domains, tags |-> tags, commands |-> commands, version |-> version]
SomeManifests ==
    {Manifest({}, {}, {}, {}, ""), Manifest({"c"}, {}, {}, {<<"k">>}, ""),
     Manifest({"c", "d"}, {"m"}, {"t"}, {<<"k">>, <<"x">>}, "v"),
     Manifest({"d"}, {"m"}, {}, {<<"k", "l">>}, "v"), Manifest({"c"}, {"m"}, {"t"}, {}, "v")}

Query(caps, domains, tags, command, version) ==
    [caps |-> caps, domains |-> domains, tags |-> tags, command |-> command, version |-> version]
Queries ==
    {Query(c, d, t, k, v) : c \in {<< >>, <<"c">>, <<"c", "c">>, <<"d", "c">>}, d \in {<< >>, <<"m">>},
                            t \in {<< >>, <<"t">>}, k \in {<< >>, <<"k">>}, v \in {"", "v"}}

LookupInit ==
    /\ table \in {"manifests", "sessions"}
    /\ manifests = << >>
    /\ sessions = << >>

Learn ==
    /\ table = "manifests"
    /\ \E h \in HandleIds \ DOMAIN manifests, m \in SomeManifests :
          manifests' = [g \in DOMAIN manifests \cup {h} |-> IF g = h THEN m ELSE manifests[g]]
    /\ UNCHANGED <<table, sessions>>

OpenSession ==
    /\ table = "sessions" /\ Len(sessions) < MaxSessions
    /\ \E from, to \in HandleIds, state \in {"open", "resolved"} :
          sessions' = Append(sessions, [from |-> from, to |-> to, state |-> state])
    /\ UNCHANGED <<table, manifests>>

LookupNext == Learn \/ OpenSession

LookupSpec == LookupInit /\ [][LookupNext]_lookupVars

-----------------------------------------------------------------------------
(* Discovery. *)

containsAll(values, required) == Range(required) \subseteq values
hasCommand(commands, name) == name \in commands

\* The score of a match; every constraint of the query is mandatory.
evaluateMatch(m, q) ==
    [ok |-> /\ containsAll(m.caps, q.caps)
            /\ containsAll(m.domains, q.domains)
            /\ containsAll(m.tags, q.tags)
            /\ q.command # << >> => hasCommand(m.commands, q.command)
            /\ q.version # "" => m.version = q.version,
     score |-> 100 * Len(q.caps) + 30 * Len(q.domains) + 10 * Len(q.tags)
                 + (IF q.command # << >> THEN 20 ELSE 0) + (IF q.version # "" THEN 10 ELSE 0)]

\* By score, the best first, then by name; at most limit of them unless it is 0.
FindMatches(entries_, q, limit) ==
    LET Score(h) == evaluateMatch(entries_[h], q).score
        hits == {h \in DOMAIN entries_ : evaluateMatch(entries_[h], q).ok}
        ranked == SetToSortSeq(hits, LAMBDA g, h : IF Score(g) # Score(h) THEN Score(g) > Score(h) ELSE g < h)
    IN IF limit > 0 /\ Len(ranked) > limit THEN SubSeq(ranked, 1, limit) ELSE ranked

-----------------------------------------------------------------------------
(* Tools. *)

\* Each command of a handle is a tool, and a handle without commands is one.
handleToolsList ==
    UNION {IF manifests[h].commands # {}
           THEN {[name |-> NameOf(h) \o c, handle |-> h, command |-> c] : c \in manifests[h].commands}
           ELSE {[name |-> NameOf(h), handle |-> h, command |-> << >>]} : h \in DOMAIN manifests}

\* The name is cut at its last dot.
parseToolName(name) ==
    IF Len(name) = 1 THEN [handle |-> name, command |-> << >>]
    ELSE [handle |-> Front(name), command |-> <<Last(name)>>]

-----------------------------------------------------------------------------
(* Session chains. *)

Edges == SelectSeq(sessions, LAMBDA s : s.state = "open")
Outgoing(h) == SelectSeq(Edges, LAMBDA s : s.from = h)
Incoming(h) == SelectSeq(Edges, LAMBDA s : s.to = h)

\* From the end of a chain along the first session its handle opened, until
\* there is none or it leads to a handle already visited.
RECURSIVE Follow(_, _)
Follow(chain, visited) ==
    LET out == Outgoing(Last(chain)) IN
    IF out = << >> \/ out[1].to \in visited THEN [chain |-> chain, visited |-> visited]
    ELSE Follow(Append(chain, out[1].to), visited \cup {out[1].to})

RECURSIVE Chains(_, _)
Chains(roots, visited) ==
    IF roots = << >> THEN << >>
    ELSE LET f == Follow(<<Head(roots)>>, visited \cup {Head(roots)})
             rest == Chains(Tail(roots), f.visited)
         IN IF Len(f.chain) > 1 THEN <<f.chain>> \o rest ELSE rest

\* Roots are the handles that open a session and take part in none as target,
\* in the order of their names.
detectFlowChains ==
    LET roots == {h \in HandleIds : Outgoing(h) # << >> /\ Incoming(h) = << >>} IN
    Chains(SetToSortSeq(roots, <), {})

-----------------------------------------------------------------------------
\* Whatever the table and the query, discovery returns the handles that meet
\* every constraint, in the order of their names, and the first ones when a
\* limit is given: the score depends on the query alone, so it never puts one
\* match before another (FindMatches, evaluateMatch).
MatchesByName ==
    table = "manifests" => \A q \in Queries, limit \in 0 .. 2 :
       LET Meets(h) == /\ Range(q.caps) \subseteq manifests[h].caps
                       /\ Range(q.domains) \subseteq manifests[h].domains
                       /\ Range(q.tags) \subseteq manifests[h].tags
                       /\ q.command \in manifests[h].commands \cup {<< >>}
                       /\ q.version \in {manifests[h].version, ""}
           all == SelectSeq([i \in HandleIds |-> i], LAMBDA h : h \in DOMAIN manifests /\ Meets(h))
           n == IF limit = 0 \/ Len(all) < limit THEN Len(all) ELSE limit
       IN FindMatches(manifests, q, limit) = SubSeq(all, 1, n)

\* A tool the gateway lists leads back to the agent and command it was listed
\* for, also when the agent's name has a dot; only the dot of a command's own
\* name, or of an agent listed without commands, sends a call elsewhere
\* (handleToolsList against parseToolName).
ToolsLeadBack ==
    \A tool \in handleToolsList :
       (Len(tool.command) = 1 \/ (tool.command = << >> /\ Len(tool.name) = 1))
         => parseToolName(tool.name) = [handle |-> NameOf(tool.handle), command |-> tool.command]

\* Whether open sessions lead from one handle to another in at most n steps.
RECURSIVE Reaches(_, _, _)
Reaches(g, h, n) ==
    g = h \/ (n > 0 /\ \E i \in DOMAIN Edges : Edges[i].from = g /\ Reaches(Edges[i].to, h, n - 1))

\* The chains the dashboard draws are paths of open sessions, no handle is in
\* two places, and where every handle opens and receives at most one session
\* each open session that is not on a cycle is in a chain (detectFlowChains).
ChainsCoverSessions ==
    LET chains == detectFlowChains
        Links == {<<c, i>> \in (DOMAIN chains) \X (1 .. MaxHandle) : i < Len(chains[c])}
        Linked(e) == \E l \in Links : chains[l[1]][l[2]] = e.from /\ chains[l[1]][l[2] + 1] = e.to
        plain == \A h \in HandleIds : Len(Outgoing(h)) <= 1 /\ Len(Incoming(h)) <= 1
    IN /\ \A l \in Links : \E i \in DOMAIN Edges :
             Edges[i].from = chains[l[1]][l[2]] /\ Edges[i].to = chains[l[1]][l[2] + 1]
       /\ \A c \in DOMAIN chains : IsInjective(chains[c])
       /\ \A c, d \in DOMAIN chains : c # d => Range(chains[c]) \cap Range(chains[d]) = {}
       /\ plain => \A i \in DOMAIN Edges : Reaches(Edges[i].to, Edges[i].from, MaxHandle) \/ Linked(Edges[i])
===========================================================================
