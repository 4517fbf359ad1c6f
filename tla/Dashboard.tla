----------------------------- MODULE Dashboard -----------------------------
(***************************************************************************)
(* The terminal dashboard (cmd/tailbus/dashboard.go) against the daemon it *)
(* watches.  The dashboard is an Elm-style loop: Update handles one        *)
(* message at a time and returns commands, which run concurrently and come *)
(* back as messages.  A watch command opens a connection of its own, reads *)
(* one event and closes it: the events of the daemon                       *)
(* (internal/daemon/activitybus.go) between two watches are lost.  The     *)
(* daemon may stop and start again.  Layout, animation and the choice of   *)
(* panels are left out; the status requests are the subject of Discovery.  *)
(***************************************************************************)
EXTENDS Integers, Sequences

CONSTANTS
    Turns,        \* turn IDs
    Requester, Worker, \* handles: who asks for turns and who takes them
    MaxPosts,     \* bound on the events of the daemon
    WatchBuffer,  \* capacity of a watcher's channel
    MaxActivity,  \* entries the activity panel keeps
    MaxBoots,     \* bound on daemon incarnations
    NoTurn, NoHandle, NoEvent

ASSUME DashAssumption ==
    /\ WatchBuffer \in Nat \ {0} /\ MaxActivity \in Nat \ {0}
    /\ MaxPosts \in Nat /\ MaxBoots \in Nat
    /\ Turns \intersect {Requester, Worker, NoTurn} = {}

VARIABLES
    up,        \* a daemon runs
    boots, posts,
    stream,    \* the daemon's channel for the watch in progress: closed or
               \* a sequence of events
    watch,     \* the watch command: what it is doing, or the message it sent
    busyTurns, \* turn -> [to, state], for the turns shown as busy
    handleLastStatus, \* handles whose last turn failed
    entries,   \* the activity panel: numbers of events, oldest first
    quitting,
    openTurns, \* history: the turns that are open by the events emitted
    failed,    \* history: the handles whose last lifecycle event was a failure
    unseen     \* history: the turns and handles of which news was lost

dashVars == <<up, boots, posts, stream, watch, busyTurns, handleLastStatus,
              entries, quitting, openTurns, failed, unseen>>

Closed == [open |-> FALSE, ch |-> << >>]
Watch(at) == [at |-> at, event |-> NoEvent]
Handles == {Requester, Worker}

isTurnReplyKind(kind) == kind \in {"reply_ok", "reply_error"}
isTurnLifecycleKind(kind) ==
    kind \in {"turn_request", "turn_progress", "turn_timeout"} \/ isTurnReplyKind(kind)

\* An event of the daemon: a lifecycle message of a turn, or anything else.
\* Who asks posts requests and timeouts, who works posts progress and replies;
\* the turn ID and the target are fields an agent may leave out.
Posts(n) ==
    {[n |-> n, kind |-> "other", from |-> Requester, target |-> NoHandle, turn |-> NoTurn]}
      \cup [n : {n}, kind : {"turn_request", "turn_timeout"}, from : {Requester},
            target : {Worker, NoHandle}, turn : Turns \cup {NoTurn}]
      \cup [n : {n}, kind : {"turn_progress"}, from : {Worker},
            target : {Worker, NoHandle}, turn : Turns \cup {NoTurn}]
      \cup [n : {n}, kind : {"reply_ok", "reply_error"}, from : {Worker},
            target : {NoHandle}, turn : Turns \cup {NoTurn}]

ASSUME EventAssumption == \A n \in 1..MaxPosts : NoEvent \notin Posts(n)

TargetOrAuthor(event) == IF event.target # NoHandle THEN event.target ELSE event.from

\* The handle whose state an event changes, and whether it opens the turn.
About(event) == IF isTurnReplyKind(event.kind) THEN event.from ELSE TargetOrAuthor(event)
Opens(event) ==
    event.kind = "turn_progress" \/ (event.kind = "turn_request" /\ event.target # NoHandle)
Closes(event) == event.kind = "turn_timeout" \/ isTurnReplyKind(event.kind)
Fails(event) == event.kind \in {"turn_timeout", "reply_error"}

\* What an event is news of: its turn and its handle.
Subjects(event) ==
    IF isTurnLifecycleKind(event.kind)
    THEN {About(event)} \cup (IF Opens(event) \/ Closes(event) THEN {event.turn} \ {NoTurn} ELSE {})
    ELSE {}
SubjectsOf(events) == UNION {Subjects(events[i]) : i \in DOMAIN events}

DashInit ==
    /\ up \in BOOLEAN /\ boots = (IF up THEN 1 ELSE 0) /\ posts = 0
    /\ stream = Closed
    /\ watch = Watch("calling")
    /\ busyTurns = << >>
    /\ handleLastStatus = {}
    /\ entries = << >>
    /\ quitting = FALSE
    /\ openTurns = {} /\ failed = {}
    /\ unseen = {}

Daemon == <<up, boots, posts, openTurns, failed>>
Panel == <<busyTurns, handleLastStatus, entries>>

-----------------------------------------------------------------------------
(* The daemon. *)

\* Emit offers the event to the channel of every watcher and drops it where
\* the channel is full; without a watcher it goes nowhere.
Emit(event) ==
    IF stream.open /\ Len(stream.ch) < WatchBuffer
    THEN stream' = [stream EXCEPT !.ch = Append(@, event)] /\ unseen' = unseen
    ELSE stream' = stream /\ unseen' = unseen \cup Subjects(event)

Post ==
    /\ up /\ posts < MaxPosts
    /\ posts' = posts + 1
    /\ \E event \in Posts(posts + 1) :
          /\ Emit(event)
          /\ openTurns' = IF Opens(event) THEN openTurns \cup ({event.turn} \ {NoTurn})
                          ELSE IF Closes(event) THEN openTurns \ {event.turn} ELSE openTurns
          /\ failed' = IF ~isTurnLifecycleKind(event.kind) THEN failed
                       ELSE IF Fails(event) THEN failed \cup {About(event)} ELSE failed \ {About(event)}
    /\ UNCHANGED <<up, boots, watch, Panel, quitting>>

\* A daemon that stops ends its streams, with whatever their channels hold.
DaemonStops ==
    /\ up
    /\ up' = FALSE
    /\ stream' = Closed
    /\ unseen' = unseen \cup SubjectsOf(stream.ch)
    /\ watch' = IF watch.at = "reading" THEN Watch("failed") ELSE watch
    /\ UNCHANGED <<boots, posts, Panel, quitting, openTurns, failed>>

DaemonStarts ==
    /\ ~up /\ boots < MaxBoots
    /\ boots' = boots + 1
    /\ up' = TRUE
    /\ UNCHANGED <<posts, stream, watch, Panel, quitting, openTurns, failed, unseen>>

-----------------------------------------------------------------------------
(* The watch command. *)

\* WatchActivity dials anew; the daemon subscribes a fresh channel, or there
\* is no daemon and the command comes back with an error.
WatchActivity ==
    /\ watch.at = "calling"
    /\ IF ~up
       THEN watch' = Watch("failed") /\ stream' = stream
       ELSE watch' = Watch("reading") /\ stream' = [open |-> TRUE, ch |-> << >>]
    /\ UNCHANGED <<Daemon, Panel, quitting, unseen>>

\* The command returns the first event and closes the connection, which ends
\* the subscription: what else the channel holds is lost.
watchActivity ==
    /\ watch.at = "reading" /\ stream.ch # << >>
    /\ watch' = [at |-> "got", event |-> Head(stream.ch)]
    /\ stream' = Closed
    /\ unseen' = unseen \cup SubjectsOf(Tail(stream.ch))
    /\ UNCHANGED <<Daemon, Panel, quitting>>

-----------------------------------------------------------------------------
(* Update, by message. *)

shouldDisplayActivity(event) == event.kind # "turn_progress"

\* A new entry goes to the end, and the oldest goes when there are too many.
AddEntry(s, n) == LET t == Append(s, n) IN
    IF Len(t) > MaxActivity THEN SubSeq(t, Len(t) - MaxActivity + 1, Len(t)) ELSE t

SetTurn(t, entry) == [u \in DOMAIN busyTurns \cup {t} |-> IF u = t THEN entry ELSE busyTurns[u]]
DropTurn(t) == [u \in DOMAIN busyTurns \ {t} |-> busyTurns[u]]

\* Variant: a timeout does not end a turn.
updateBusyTurns_NoTimeout(event) ==
    CASE event.turn = NoTurn -> busyTurns
      [] Opens(event) /\ event.turn # NoTurn ->
             SetTurn(event.turn, [to |-> TargetOrAuthor(event), state |-> "working"])
      [] isTurnReplyKind(event.kind) /\ event.turn # NoTurn -> DropTurn(event.turn)
      [] OTHER -> busyTurns

\* A request names its target or is ignored; progress without one is of its
\* author, and leaves the target of a turn that is already busy alone.
updateBusyTurns(event) ==
    CASE event.turn = NoTurn -> busyTurns
      [] event.turn # NoTurn /\ event.kind = "turn_request" /\ event.target # NoHandle ->
             SetTurn(event.turn, [to |-> event.target, state |-> "working"])
      [] event.turn # NoTurn /\ event.kind = "turn_progress" ->
             SetTurn(event.turn, [to |-> IF event.turn \in DOMAIN busyTurns THEN busyTurns[event.turn].to
                                         ELSE TargetOrAuthor(event), state |-> "working"])
      [] event.turn # NoTurn /\ (event.kind = "turn_timeout" \/ isTurnReplyKind(event.kind)) ->
             DropTurn(event.turn)
      [] OTHER -> busyTurns

updateHandleTurnState(event) ==
    CASE event.kind \in {"turn_request", "turn_progress"} -> handleLastStatus \ {TargetOrAuthor(event)}
      [] event.kind = "turn_timeout" -> handleLastStatus \cup {TargetOrAuthor(event)}
      [] event.kind = "reply_ok" -> handleLastStatus \ {event.from}
      [] event.kind = "reply_error" -> handleLastStatus \cup {event.from}
      [] OTHER -> handleLastStatus

UpdateActivity ==
    /\ watch.at = "got"
    /\ entries' = IF shouldDisplayActivity(watch.event)
                   THEN AddEntry(entries, watch.event.n) ELSE entries
    /\ busyTurns' = updateBusyTurns(watch.event)
    /\ handleLastStatus' = updateHandleTurnState(watch.event)
    /\ watch' = Watch("calling")
    /\ UNCHANGED <<Daemon, stream, quitting, unseen>>

UpdateActivityErr ==
    /\ watch.at = "failed"
    /\ watch' = Watch("retry")
    /\ UNCHANGED <<Daemon, stream, Panel, quitting, unseen>>

UpdateWatchRetry ==
    /\ watch.at = "retry"
    /\ watch' = Watch("calling")
    /\ UNCHANGED <<Daemon, stream, Panel, quitting, unseen>>

\* The animation tick also marks turns without news for too long as stalled.
pruneBusyTurns ==
    /\ ~quitting
    /\ \E old \in SUBSET {t \in DOMAIN busyTurns : busyTurns[t].state = "working"} :
          /\ old # {}
          /\ busyTurns' = [t \in DOMAIN busyTurns |->
                 IF t \in old THEN [busyTurns[t] EXCEPT !.state = "stalled"] ELSE busyTurns[t]]
    /\ UNCHANGED <<Daemon, stream, watch, handleLastStatus, entries,
                   quitting, unseen>>

\* The keys that change this state: q ends the program, which closes its
\* connection, and c clears the activity panel.
UpdateKey ==
    /\ ~quitting
    /\ \/ /\ quitting' = TRUE
          /\ stream' = Closed
          /\ watch' = Watch("none")
          /\ UNCHANGED entries
       \/ entries' = << >> /\ UNCHANGED <<quitting, stream, watch>>
    /\ UNCHANGED <<Daemon, busyTurns, handleLastStatus, unseen>>

DashNext ==
    \/ Post \/ DaemonStops \/ DaemonStarts
    \/ WatchActivity \/ watchActivity
    \/ UpdateActivity \/ UpdateActivityErr \/ UpdateWatchRetry
    \/ pruneBusyTurns \/ UpdateKey

\* The Elm loop runs every command it was given and handles every message;
\* the retry timer fires.
DashFairness ==
    /\ WF_dashVars(WatchActivity) /\ WF_dashVars(watchActivity)
    /\ WF_dashVars(UpdateActivity) /\ WF_dashVars(UpdateActivityErr)
    /\ WF_dashVars(UpdateWatchRetry)

DashSpec == DashInit /\ [][DashNext]_dashVars /\ DashFairness

-----------------------------------------------------------------------------
(* What the panels show. *)

handleState(h) ==
    LET shown == {busyTurns[t].state : t \in {u \in DOMAIN busyTurns : busyTurns[u].to = h}} IN
    CASE "working" \in shown -> "working"
      [] shown = {"stalled"} -> "stalled"
      [] shown = {} /\ h \in handleLastStatus -> "error"
      [] OTHER -> "idle"

\* A node's state over its handles in the order they are listed.
nodeState(handles) ==
    LET worst[i \in 0..Len(handles)] ==
          IF i = 0 THEN "idle"
          ELSE LET state == handleState(handles[i]) IN
               IF worst[i - 1] = "working" \/ state = "idle"
                    \/ (state = "error" /\ worst[i - 1] = "stalled")
               THEN worst[i - 1] ELSE state
    IN worst[Len(handles)]

-----------------------------------------------------------------------------
\* The stream, the watch command, the busy turns and the panel have their
\* types, and the panel never holds more than MaxActivity entries.
DashTypeOK ==
    /\ watch.at \in {"calling", "reading", "got", "failed", "retry", "none"}
    /\ stream.open \in BOOLEAN /\ Len(stream.ch) <= WatchBuffer
    /\ DOMAIN busyTurns \subseteq Turns
    /\ \A t \in DOMAIN busyTurns : busyTurns[t] \in [to : Handles, state : {"working", "stalled"}]
    /\ handleLastStatus \subseteq Handles
    /\ Len(entries) <= MaxActivity

InTransit ==
    SubjectsOf(stream.ch) \cup (IF watch.event # NoEvent THEN Subjects(watch.event) ELSE {})

\* The turns shown as busy are the open ones: a turn is in busyTurns exactly
\* when the last message of its lifecycle opened it, unless the dashboard was
\* not watching when some message of that turn was posted or has not handled
\* it yet (updateBusyTurns over a stream that is reopened for every event).
BusyAgrees ==
    \A t \in Turns \ (unseen \cup InTransit) :
       ~quitting => (t \in DOMAIN busyTurns <=> t \in openTurns)

\* A handle without a busy turn is shown in error exactly when the last turn
\* message about it was a timeout or a failed reply, with the same provisos
\* (updateHandleTurnState, handleState).
ErrorAgrees ==
    \A h \in Handles \ (unseen \cup InTransit) :
       (~quitting /\ \A t \in DOMAIN busyTurns : busyTurns[t].to # h)
         => (handleState(h) = "error" <=> h \in failed)

\* Events are shown in the order they were posted and never twice, although
\* every event is read over a connection of its own (watchActivity).
ShownInOrder ==
    \A i, j \in DOMAIN entries : i < j => entries[i] < entries[j]

\* A node is shown in the worst state of its handles, in whatever order they
\* are listed: working before stalled before error before idle (nodeState).
NodeShowsWorst ==
    LET rank == [state \in {"idle", "error", "stalled", "working"} |->
                   CASE state = "idle" -> 0 [] state = "error" -> 1
                     [] state = "stalled" -> 2 [] OTHER -> 3]
    IN \A hs \in {<<Requester, Worker>>, <<Worker, Requester>>} :
          /\ \A h \in Handles : rank[handleState(h)] <= rank[nodeState(hs)]
          /\ \E h \in Handles : handleState(h) = nodeState(hs)

\* The dashboard comes back to a daemon that stays up: its watch loop never
\* dies with a connection (activityErrMsg, watchRetryMsg), so again and again
\* it is subscribed to the daemon's events, unless it was quit.
WatchResumes == []<>(up => stream.open \/ quitting)

\* The dashboard shows turns and handles as they are and events in their
\* order, except for what it has not seen (updateBusyTurns, handleState).
DashboardAgrees ==
    DashTypeOK /\ BusyAgrees /\ ErrorAgrees /\ ShownInOrder
===========================================================================
