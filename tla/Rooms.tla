-------------------------------- MODULE Rooms --------------------------------
(***************************************************************************)
(* One shared room: RoomManager on every daemon.                           *)
(*                                                                         *)
(* The home daemon owns the room.  A command of an agent runs there in a   *)
(* goroutine that works on a copy of the stored RoomInfo: resolveRoomInfo  *)
(* loads it, the command changes it, and StoreRoom, StoreRoomEvent, coord's *)
(* UpsertRoom and publishEvent follow without a lock over all of them.     *)
(* Other daemons keep copies, from results, from events and from the peer  *)
(* map.  What was sent may arrive late, never, or more than once.  A daemon *)
(* that has no copy when an event arrives takes the daemon of the sender   *)
(* for the home daemon.                                                    *)
(***************************************************************************)
EXTENDS Naturals, FiniteSets, FiniteSetsExt

CONSTANTS
  Nodes, Home,  \* daemons, and the one the room was created on
  Handles,      \* agents
  NodeOf,       \* the daemon of each agent, as the resolvers know it
  Creator,      \* the agent that creates the room
  ChatUser,     \* the user of the web chat on a daemon
  Commands,     \* room commands, one request id each
  Workers,      \* goroutines that execute commands
  Serial,       \* a daemon executes one command on the room at a time
  Retention,    \* RoomManager.retention
  MayFail,      \* whether a bbolt transaction or UpsertRoom may fail
  MaxRuns,      \* bound: executions of one command
  MaxCrashes,   \* bound: crashes of all daemons
  None          \* no room, no event

ASSUME PlacementAssumption ==
  /\ Home \in Nodes /\ Creator \in Handles /\ ChatUser \in Handles
  /\ NodeOf \in [Handles -> Nodes] /\ NodeOf[Creator] = Home
ASSUME RoomBounds ==
  /\ Serial \in BOOLEAN /\ MayFail \in BOOLEAN
  /\ Retention \in Nat \ {0} /\ MaxRuns \in Nat /\ MaxCrashes \in Nat

Types == {"join", "leave", "post", "close", "read"}
Requests == [type : Types, handle : Handles]
Rooms == [home : Nodes, members : SUBSET Handles, status : {"open", "closed"},
          next : Nat \ {0}]
Events == [id : Commands, seq : Nat \ {0}, type : Types, sender : Handles,
           members : SUBSET Handles]

ASSUME NoneAssumption == None \notin Rooms \union Requests

VARIABLES
  up, crashes,
  room,      \* the rooms bucket of each daemon
  log,       \* the room log of each daemon, a set of events
  coordRoom, \* the room in coord's database
  known,     \* Resolver.rooms of each daemon
  cmd,       \* type and agent of each command
  reply,     \* what its agent knows: "none", "waiting", "ok", "error"
  runs,      \* executions of each command
  sent,      \* commands, results and events sent to other daemons
  work,      \* the executing goroutines
  lastSeen,  \* history: room_seq of the event an agent was given last
  logged,    \* history: events that the home daemon has logged
  misled     \* history: some daemon took another one for the home daemon

storeVars == <<room, log, logged>>
cmdVars   == <<cmd, reply, runs>>
seenVars  == <<lastSeen, misled>>
vars == <<up, crashes, room, log, coordRoom, known, cmd, reply, runs, sent,
          work, lastSeen, logged, misled>>

Idle == [pc |-> "idle"]

Init ==
  /\ up = Nodes /\ crashes = 0
  /\ room = [n \in Nodes |-> None] /\ log = [n \in Nodes |-> {}]
  /\ coordRoom = None /\ known = [n \in Nodes |-> None]
  /\ cmd = [c \in Commands |-> None]
  /\ reply = [c \in Commands |-> "none"]
  /\ runs = [c \in Commands |-> 0]
  /\ sent = {}
  /\ work = [w \in Workers |-> Idle]
  /\ lastSeen = [h \in Handles |-> 0] /\ logged = {} /\ misled = FALSE

-----------------------------------------------------------------------------
(* Coord's tables, the copies of the daemons and what is read from them.   *)

\* Store.UpsertRoom at coord: the room and its members in one transaction.
CoordUpsert(r) == coordRoom' = r

LookupRoom == {coordRoom} \ {None}
ListRoomsForHandle(h) == {r \in LookupRoom : h \in r.members}

LoadRooms(n) == {room[n]} \ {None}
ListRoomsForMember(n, h) == {r \in {known[n]} \ {None} : h \in r.members}

\* What a daemon shows of a room: its own copy before the resolver's.
DashboardRooms(n) ==
  IF LoadRooms(n) # {} THEN LoadRooms(n)
  ELSE UNION {ListRoomsForMember(n, h) : h \in {g \in Handles : NodeOf[g] = n}}

ReplayRoomEvents(n, since) == {e \in log[n] : e.seq > since}

\* If UpsertRoom fails the creator does not learn the room's id, and the room
\* is not used.
CreateRoom(members) ==
  LET r == [home |-> Home, members |-> members \union {Creator},
            status |-> "open", next |-> 1]
  IN /\ Home \in up /\ room[Home] = None
     /\ room' = [room EXCEPT ![Home] = r]
     /\ CoordUpsert(r)
     /\ UNCHANGED <<up, crashes, log, known, cmdVars, sent, work, seenVars, logged>>

\* Coord leaves rooms out of the hash it compares before a broadcast, so a
\* daemon has the room as it was at some time.  The resolver's copy is read
\* only while the daemon has none of its own, and updated here only then.
UpdateRooms(n) ==
  /\ n \in up /\ coordRoom # None /\ room[n] = None
  /\ known' = [known EXCEPT ![n] = coordRoom]
  /\ UNCHANGED <<up, crashes, storeVars, coordRoom, cmdVars, sent, work, seenVars>>

ResolveRoomInfo(n) == IF room[n] # None THEN room[n] ELSE known[n]

-----------------------------------------------------------------------------
(* Executing a command.                                                    *)

Allowed(r, t, h) ==
  CASE t = "join" -> r.status = "open"
    [] t = "post" -> r.status = "open" /\ h \in r.members
    [] OTHER      -> h \in r.members

\* The room is not known, or a check of the command fails.
Rejected(r, t, h) == IF r = None THEN TRUE ELSE ~Allowed(r, t, h)

\* Reads, and the join of a member, change nothing.
ReadOnly(r, t, h) == t = "read" \/ (t = "join" /\ h \in r.members)

\* Variant: the copy keeps NextSeq.
Changed_KeepsSeq(r, t, h) ==
  [r EXCEPT !.members = IF t = "join" THEN @ \union {h}
                        ELSE IF t = "leave" THEN @ \ {h} ELSE @,
            !.status = IF t = "close" THEN "closed" ELSE @]

Changed(r, t, h) ==
  [r EXCEPT !.members = IF t = "join" THEN @ \union {h}
                        ELSE IF t = "leave" THEN @ \ {h} ELSE @,
            !.status = IF t = "close" THEN "closed" ELSE @,
            !.next = @ + 1]

NextEvent(r, c) ==
  [id |-> c, seq |-> r.next, type |-> cmd'[c].type, sender |-> cmd'[c].handle,
   members |-> Changed(r, cmd'[c].type, cmd'[c].handle).members]

Result(c, ok, r) == [kind |-> "result", id |-> c, ok |-> ok, room |-> r]

\* The command ends on daemon n: a local agent gets the result, the daemon of
\* a remote one is sent it.
Finish(c, n, ok, r, more) ==
  IF NodeOf[cmd'[c].handle] = n
  THEN /\ reply' = [reply EXCEPT ![c] = IF ok THEN "ok" ELSE "error"]
       /\ sent' = sent \union more
  ELSE /\ sent' = sent \union more \union {Result(c, ok, IF ok THEN r ELSE None)}
       /\ UNCHANGED reply

Busy(n) == \E w \in Workers : work[w] # Idle /\ work[w].at = n

\* executeCommand up to its first transaction, on the copy r of the room.
Execute(w, c, n, r) ==
  LET t == cmd'[c].type
      h == cmd'[c].handle
  IN /\ work[w] = Idle
     /\ ~(Serial /\ Busy(n))
     /\ runs' = [runs EXCEPT ![c] = @ + 1]
     /\ IF Rejected(r, t, h)
        THEN Finish(c, n, FALSE, None, {}) /\ UNCHANGED work
        ELSE IF ReadOnly(r, t, h)
        THEN Finish(c, n, TRUE, r, {}) /\ UNCHANGED work
        ELSE /\ work' = [work EXCEPT ![w] =
                  [pc |-> "storeRoom", at |-> n, id |-> c,
                   room |-> Changed(r, t, h), event |-> NextEvent(r, c)]]
             /\ UNCHANGED <<reply, sent>>

\* JoinRoom, LeaveRoom, PostMessage, ListMembers, Replay and CloseRoom make a
\* command with a request id of its own.
RoomCommand(c, t, h) ==
  /\ cmd[c] = None
  /\ cmd' = [cmd EXCEPT ![c] = [type |-> t, handle |-> h]]

\* The command runs here, or is sent to the home daemon and waited for.
withRoomControl(c, n, w) ==
  LET r == ResolveRoomInfo(n)
  IN /\ r # None
     /\ IF r.home = n
        THEN Execute(w, c, n, r)
        ELSE /\ reply' = [reply EXCEPT ![c] = "waiting"]
             /\ sent' = sent \union {[kind |-> "command", id |-> c, to |-> r.home]}
             /\ UNCHANGED <<work, runs>>

\* The room calls of AgentServer, by the connection that owns the handle: it is
\* one to the daemon that the handle is registered on.
Command(c, t, h, w) ==
  /\ NodeOf[h] \in up
  /\ RoomCommand(c, t, h)
  /\ withRoomControl(c, NodeOf[h], w)
  /\ UNCHANGED <<up, crashes, storeVars, coordRoom, known, seenVars>>

\* The web chat joins, posts and replays for its user.
Chat(c, w) == \E t \in {"join", "post", "read"} : Command(c, t, ChatUser, w)

\* Runs whatever arrives, also on a daemon that is not the room's home.
HandleRemoteCommand(c, n, w) ==
  /\ n \in up /\ [kind |-> "command", id |-> c, to |-> n] \in sent
  /\ runs[c] < MaxRuns
  /\ UNCHANGED cmd
  /\ Execute(w, c, n, ResolveRoomInfo(n))
  /\ UNCHANGED <<up, crashes, storeVars, coordRoom, known, seenVars>>

\* A step of persistAndPublish fails and the command returns the error.
Fails(w) ==
  /\ MayFail
  /\ UNCHANGED cmd
  /\ Finish(work[w].id, work[w].at, FALSE, None, {})
  /\ work' = [work EXCEPT ![w] = Idle]

Goes(w, pc) ==
  /\ work' = [work EXCEPT ![w].pc = pc]
  /\ UNCHANGED <<cmd, reply, sent>>

StoreRoom(w) ==
  /\ work[w].pc = "storeRoom"
  /\ \/ /\ room' = [room EXCEPT ![work[w].at] = work[w].room]
        /\ Goes(w, "storeEvent")
     \/ Fails(w) /\ UNCHANGED room
  /\ UNCHANGED <<up, crashes, log, coordRoom, known, runs, seenVars, logged>>

\* The loop after the Put deletes the first key while there are too many: one.
Retain(L) ==
  IF Cardinality(L) > Retention
  THEN {e \in L : e.seq # Min({f.seq : f \in L})} ELSE L

\* A Put on the key of an event replaces the event.
StoreRoomEvent(w) ==
  LET n == work[w].at
      e == work[w].event
  IN /\ work[w].pc = "storeEvent"
     /\ \/ /\ log' = [log EXCEPT ![n] =
                        Retain({f \in @ : f.seq # e.seq} \union {e})]
           /\ logged' = IF n = Home THEN logged \union {e} ELSE logged
           /\ Goes(w, "upsert")
        \/ Fails(w) /\ UNCHANGED <<log, logged>>
     /\ UNCHANGED <<up, crashes, room, coordRoom, known, runs, seenVars>>

\* Variant: an error of UpsertRoom is only logged.
UpsertRoom_Ignores(w) ==
  /\ work[w].pc = "upsert" /\ Goes(w, "publish")
  /\ CoordUpsert(work[w].room) \/ UNCHANGED coordRoom
  /\ UNCHANGED <<up, crashes, storeVars, known, runs, seenVars>>

\* A call that fails may have changed coord's database.
UpsertRoom(w) ==
  /\ work[w].pc = "upsert"
  /\ \/ CoordUpsert(work[w].room) /\ Goes(w, "publish")
     \/ Fails(w) /\ (CoordUpsert(work[w].room) \/ UNCHANGED coordRoom)
  /\ UNCHANGED <<up, crashes, storeVars, known, runs, seenVars>>

\* DeliverRoomEventLocal on daemon n.
Deliver(e, n) ==
  lastSeen' = [h \in Handles |->
                 IF h \in e.members \ {e.sender} /\ NodeOf[h] = n
                 THEN e.seq ELSE lastSeen[h]]

\* Variant: local agents get the event from a goroutine of its own, later.
PublishEvent_Async(w) ==
  LET n == work[w].at
      e == work[w].event
      peers == {NodeOf[h] : h \in e.members \ {e.sender}}
  IN /\ work[w].pc = "publish"
     /\ UNCHANGED cmd
     /\ Finish(work[w].id, n, TRUE, work[w].room,
               {[kind |-> "event", event |-> e, to |-> p] : p \in peers})
     /\ work' = [work EXCEPT ![w] = Idle]
     /\ UNCHANGED <<up, crashes, storeVars, coordRoom, known, runs, seenVars>>

PublishEvent(w) ==
  LET n == work[w].at
      e == work[w].event
      peers == {NodeOf[h] : h \in e.members \ {e.sender}} \ {n}
  IN /\ work[w].pc = "publish"
     /\ Deliver(e, n)
     /\ UNCHANGED cmd
     /\ Finish(work[w].id, n, TRUE, work[w].room,
               {[kind |-> "event", event |-> e, to |-> p] : p \in peers})
     /\ work' = [work EXCEPT ![w] = Idle]
     /\ UNCHANGED <<up, crashes, storeVars, coordRoom, known, runs, misled>>

-----------------------------------------------------------------------------
(* Results, events and timeouts on the other daemons.                      *)

HandleRemoteCommandResult(m) ==
  LET n == NodeOf[cmd[m.id].handle] IN
  /\ m.kind = "result" /\ n \in up
  /\ room' = IF m.room = None THEN room ELSE [room EXCEPT ![n] = m.room]
  /\ reply' = IF reply[m.id] = "waiting"
              THEN [reply EXCEPT ![m.id] = IF m.ok THEN "ok" ELSE "error"]
              ELSE reply
  /\ UNCHANGED <<up, crashes, log, coordRoom, known, cmd, runs, sent, work,
                 seenVars, logged>>

\* The 10 s deadline of withRoomControl.
TimesOut(c) ==
  /\ reply[c] = "waiting"
  /\ reply' = [reply EXCEPT ![c] = "error"]
  /\ UNCHANGED <<up, crashes, storeVars, coordRoom, known, cmd, runs, sent, work,
                 seenVars>>

\* Variant: counts the event itself as the next one.
CacheRoomFromEvent_Ahead(r, e) ==
  [home |-> IF r = None THEN NodeOf[e.sender] ELSE r.home,
   members |-> e.members,
   status |-> IF e.type = "close" THEN "closed"
              ELSE IF r = None THEN "open" ELSE r.status,
   next |-> IF r = None THEN e.seq + 2 ELSE Max({r.next, e.seq + 2})]

\* A daemon without the room takes the sender's daemon for its home.
CacheRoomFromEvent(r, e) ==
  [home |-> IF r = None THEN NodeOf[e.sender] ELSE r.home,
   members |-> e.members,
   status |-> IF e.type = "close" THEN "closed"
              ELSE IF r = None THEN "open" ELSE r.status,
   next |-> IF r = None THEN e.seq + 1 ELSE Max({r.next, e.seq + 1})]

HandleRoomEvent(m) ==
  /\ m.kind = "event" /\ m.to \in up
  /\ room' = [room EXCEPT ![m.to] = CacheRoomFromEvent(@, m.event)]
  /\ misled' = (misled \/ room'[m.to].home # Home)
  /\ Deliver(m.event, m.to)
  /\ UNCHANGED <<up, crashes, log, coordRoom, known, cmdVars, sent, work, logged>>

Crash(n) ==
  /\ n \in up /\ crashes < MaxCrashes
  /\ up' = up \ {n} /\ crashes' = crashes + 1
  /\ known' = [known EXCEPT ![n] = None]
  /\ work' = [w \in Workers |->
                IF work[w] # Idle /\ work[w].at = n THEN Idle ELSE work[w]]
  /\ reply' = [c \in Commands |->
                 IF cmd[c] # None /\ NodeOf[cmd[c].handle] = n /\ reply[c] # "ok"
                 THEN "error" ELSE reply[c]]
  /\ UNCHANGED <<storeVars, coordRoom, cmd, runs, sent, seenVars>>

Restart(n) ==
  /\ n \in Nodes \ up
  /\ up' = up \union {n}
  /\ UNCHANGED <<crashes, storeVars, coordRoom, known, cmdVars, sent, work, seenVars>>

-----------------------------------------------------------------------------
Next ==
  \/ \E members \in SUBSET Handles : CreateRoom(members)
  \/ \E c \in Commands :
        \/ \E t \in Types, h \in Handles, w \in Workers : Command(c, t, h, w)
        \/ \E w \in Workers : Chat(c, w)
        \/ \E n \in Nodes, w \in Workers : HandleRemoteCommand(c, n, w)
        \/ TimesOut(c)
  \/ \E w \in Workers :
        StoreRoom(w) \/ StoreRoomEvent(w) \/ UpsertRoom(w) \/ PublishEvent(w)
  \/ \E m \in sent : HandleRemoteCommandResult(m) \/ HandleRoomEvent(m)
  \/ \E n \in Nodes : UpdateRooms(n) \/ Crash(n) \/ Restart(n)

Spec == Init /\ [][Next]_vars

-----------------------------------------------------------------------------
(* Properties                                                              *)

\* Types, and that a daemon that is down executes nothing.
TypeOK ==
  /\ up \subseteq Nodes /\ crashes \in Nat
  /\ room \in [Nodes -> Rooms \union {None}] /\ log \in [Nodes -> SUBSET Events]
  /\ coordRoom \in Rooms \union {None} /\ known \in [Nodes -> Rooms \union {None}]
  /\ cmd \in [Commands -> Requests \union {None}]
  /\ reply \in [Commands -> {"none", "waiting", "ok", "error"}]
  /\ runs \in [Commands -> Nat]
  /\ \A w \in Workers : work[w] # Idle => work[w].at \in up
  /\ lastSeen \in [Handles -> Nat] /\ logged \subseteq Events /\ misled \in BOOLEAN

\* "Ordered append-only room event log": an event leaves the log of the home
\* daemon only as its oldest one, to make room for a newer one, and no event
\* is replaced by another with its room_seq.  Like those below it is stated for
\* behaviours in which no daemon was misled about the home daemon: from then on
\* two daemons execute commands on the room (cacheRoomFromEvent).
AppendOnly ==
  [][~misled' => \A e \in log[Home] \ log'[Home] :
       /\ Cardinality(log'[Home]) = Retention
       /\ \A f \in log'[Home] : f.seq > e.seq]_vars

\* "home-daemon authority": no other daemon logs events of the room.
OnlyHomeLogs == \A n \in Nodes \ {Home} : log[n] = {}

\* "close semantics": after the close event the log has no message and no
\* join; leaving, and closing again, stay possible.
ClosedIsFinal ==
  \A e \in logged : e.type = "close" =>
    \A f \in logged : f.seq > e.seq => f.type \in {"leave", "close"}

\* The home daemon leads: no copy that a daemon acts on or shows, and no copy
\* at coord, has a NextSeq that the home daemon has not reached, unless a
\* daemon was misled about the home.
HomeLeads ==
  ~misled => \A r \in LookupRoom \union UNION {DashboardRooms(n) \union ({ResolveRoomInfo(n)} \ {None}) :
                                     n \in Nodes} :
    room[Home] # None /\ r.next <= room[Home].next

\* "with replay": replay gives the last Retention events that were logged, and
\* no others, whatever failed or was cut off in between (StoreRoomEvent).
ReplayIsWindow ==
  ReplayRoomEvents(Home, 0) =
    {e \in logged : Cardinality({f \in logged : f.seq > e.seq}) < Retention}

\* ListRooms asks coord.  Once the last command that changed the room has
\* returned without an error, coord lists the room as the home daemon has it,
\* also after an earlier command failed or was cut off (persistAndPublish).
Told(c) == reply[c] = "ok" \/ \E m \in sent : m.kind = "result" /\ m.id = c /\ m.ok
ListsAgree ==
  \A e \in logged :
    (e.seq + 1 = room[Home].next /\ Told(e.id) /\ runs[e.id] = 1) =>
      \A h \in Handles :
        ListRoomsForHandle(h) = {r \in LoadRooms(Home) : h \in r.members}

\* What an agent was told, or is on its way to it, was logged: after an error,
\* a crash or a repeated command, replay still gives it.
ToldIsLogged ==
  /\ \A c \in Commands :
       (reply[c] = "ok" /\ cmd[c].type \in {"post", "close"})
         => \E e \in logged : e.id = c
  /\ \A m \in sent : m.kind = "event" => m.event \in logged

\* "all seeing the same conversation in the same order": the agents of the
\* home daemon never see an event after a later one, unless a daemon was misled
\* about the home.
SeenInOrder ==
  [][~misled' => \A h \in Handles : NodeOf[h] = Home => lastSeen'[h] >= lastSeen[h]]_vars

\* What the daemons, coord and replay show of the room is what the home daemon
\* logged, and a closed room stays closed (persistAndPublish), unless a daemon
\* was misled about the home.
RoomAgrees ==
  /\ TypeOK
  /\ ~misled =>
       OnlyHomeLogs /\ ClosedIsFinal /\ ReplayIsWindow /\ ListsAgree /\ ToldIsLogged
=============================================================================
