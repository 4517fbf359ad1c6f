---------------------------- MODULE Rooms_proofs ----------------------------
(***************************************************************************)
(* Proofs about a room whose home daemon executes one command at a time,   *)
(* until a daemon takes another one for the home daemon.                   *)
(***************************************************************************)
EXTENDS Rooms, Sizes, TLAPS

\* A goroutine that executes a command, and what daemons send one another.
Jobs == [pc : {"storeRoom", "storeEvent", "upsert", "publish"}, at : Nodes, id : Commands,
         room : Rooms, event : Events]
CommandMsg == [kind : {"command"}, id : Commands, to : Nodes]
ResultMsg == [kind : {"result"}, id : Commands, ok : BOOLEAN, room : Rooms \union {None}]
EventMsg == [kind : {"event"}, event : Events, to : Nodes]

\* Goroutines and messages, which belong to commands that were given.
TrafficOK ==
  /\ reply \in [Commands -> {"none", "waiting", "ok", "error"}]
  /\ sent \subseteq CommandMsg \union ResultMsg \union EventMsg
  /\ \A m \in sent : m.kind # "event" => cmd[m.id] # None
  /\ work \in [Workers -> Jobs \union {Idle}]
  /\ \A w \in Workers : work[w] # Idle => work[w].at \in up /\ cmd[work[w].id] # None

\* TypeOK, and the types of what it leaves out.
TypeInv == TypeOK /\ TrafficOK

\* r is the room as the home daemon had it at some time.
Behind(r) == room[Home] # None /\ r.home = Home /\ r.next <= room[Home].next

\* The copies of the daemons and of coord.
CopiesInv ==
  /\ \A n \in Nodes : /\ room[n] # None => Behind(room[n])
                      /\ known[n] # None => Behind(known[n])
  /\ coordRoom # None => Behind(coordRoom)

\* A post or a close that returned is logged.
Kept(c) == cmd[c].type \in {"post", "close"} => \E e \in logged : e.id = c

\* Commands go to the home daemon; results and events come from it.
MsgOK(m) ==
  /\ m.kind = "command" => m.to = Home
  /\ m.kind = "result" =>
       /\ NodeOf[cmd[m.id].handle] # Home /\ (m.room # None => Behind(m.room))
       /\ m.ok => runs[m.id] >= 1 /\ Kept(m.id)
  /\ m.kind = "event" => m.to # Home /\ m.event \in logged
SentInv == \A m \in sent : MsgOK(m)

\* An event that is not logged yet comes after those that are, and after no
\* close unless it may.
Fresh(e) ==
  /\ \A f \in logged : f.seq < e.seq
  /\ e.type \notin {"leave", "close"} => \A f \in logged : f.type # "close"

\* The goroutine of w: it alone works on the room, from the copy that the home
\* daemon has until it stores its own.
JobOK(w) ==
  /\ work[w].at = Home /\ room[Home] # None /\ runs[work[w].id] >= 1
  /\ work[w].event.id = work[w].id
  /\ work[w].room.home = Home /\ work[w].room.next = work[w].event.seq + 1
  /\ work[w].event.type = "close" => work[w].room.status = "closed"
  /\ work[w].pc \in {"storeRoom", "storeEvent"} => Fresh(work[w].event)
  /\ work[w].pc = "storeRoom" =>
       /\ work[w].event.seq = room[Home].next
       /\ room[Home].status = "closed" => work[w].room.status = "closed"
  /\ work[w].pc # "storeRoom" => room[Home] = work[w].room
  /\ work[w].pc \in {"upsert", "publish"} => work[w].event \in logged
  /\ work[w].pc = "publish" => coordRoom = work[w].room
  /\ runs[work[w].id] = 1 => ~Told(work[w].id)
  /\ \A v \in Workers : work[v] # Idle => v = w
WorkInv == \A w \in Workers : work[w] # Idle => JobOK(w)

\* L holds the newest Retention events of S.
Window(S, L) ==
  /\ IsFiniteSet(S) /\ L \subseteq S
  /\ \A e \in L, f \in S : f.seq > e.seq => f \in L
  /\ Cardinality(L) <= Retention /\ (L = S \/ Cardinality(L) = Retention)

\* The log of the home daemon.
LogInv ==
  /\ \A n \in Nodes \ {Home} : log[n] = {}
  /\ \A e \in logged : room[Home] # None /\ e.seq < room[Home].next /\ runs[e.id] >= 1
  /\ \A e, f \in logged : e.seq = f.seq => e = f
  /\ \A e \in logged : e.type = "close" => room[Home].status = "closed"
  /\ ClosedIsFinal
  /\ Window(logged, log[Home])

\* What the agents know, and what coord lists.
AgentInv ==
  /\ \A c \in Commands : reply[c] = "ok" => cmd[c] # None /\ runs[c] >= 1 /\ Kept(c)
  /\ \A e \in logged : (e.seq + 1 = room[Home].next /\ Told(e.id) /\ runs[e.id] = 1) =>
                          coordRoom = room[Home]
  /\ \A h \in Handles : NodeOf[h] = Home =>
       lastSeen[h] = 0 \/ (room[Home] # None /\ lastSeen[h] < room[Home].next)

RoomInv == CopiesInv /\ SentInv /\ WorkInv /\ LogInv /\ AgentInv

Invariant == TypeInv /\ (~misled => RoomInv)

-----------------------------------------------------------------------------
(* The operators of the model.                                             *)

\* The number a room gives next is a number.
LEMMA NextIsNat == ASSUME NEW r \in Rooms PROVE r.next \in Nat /\ r.next <= r.next
BY DEF Rooms

\* So is the number of an event.
LEMMA SeqIsNat == ASSUME NEW e \in Events PROVE e.seq \in Nat
BY Zenon DEF Events

\* A step that executes no command.
LEMMA RunsStay ==
  ASSUME TypeInv, runs' = runs
  PROVE  \A d \in Commands : runs[d] <= runs'[d]
<1>1. runs \in [Commands -> Nat]
  BY Zenon DEF TypeInv, TypeOK
<1> QED
  BY <1>1


\* A command changes a copy of the room into the next one.
LEMMA ChangedType ==
  ASSUME NEW r \in Rooms, NEW t \in Types, NEW h \in Handles
  PROVE  /\ Changed(r, t, h) \in Rooms /\ Changed(r, t, h).home = r.home
         /\ Changed(r, t, h).next = r.next + 1
         /\ (t = "close" \/ r.status = "closed") => Changed(r, t, h).status = "closed"
<1>1. PICK m : m = IF t = "join" THEN r.members \union {h}
                   ELSE IF t = "leave" THEN r.members \ {h} ELSE r.members
  BY Zenon
<1>2. PICK s : s = IF t = "close" THEN "closed" ELSE r.status
  BY Zenon
<1>3. m \in SUBSET Handles /\ s \in {"open", "closed"}
  BY Zenon, <1>1, <1>2 DEF Rooms
<1>4. Changed(r, t, h) = [r EXCEPT !.members = m, !.status = s, !.next = r.next + 1]
  BY Zenon, <1>1, <1>2 DEF Changed
<1>5. PICK x : x = [home |-> r.home, members |-> m, status |-> s, next |-> r.next + 1]
  BY Zenon
<1>6. Changed(r, t, h) = x
  BY Zenon, <1>4, <1>5 DEF Rooms
<1>7. x \in Rooms /\ x.home = r.home /\ x.next = r.next + 1 /\ x.status = s
  BY <1>3, <1>5 DEF Rooms
<1>8. (t = "close" \/ r.status = "closed") => s = "closed"
  BY Zenon, <1>2
<1> QED
  BY Zenon, <1>6, <1>7, <1>8

\* What a command starts with, from the copy r of the room.
Starts(x, c, n, r) ==
  /\ x \in Jobs /\ x.pc = "storeRoom" /\ x.at = n /\ x.id = c /\ x.event.id = c
  /\ x.room.home = r.home /\ x.room.next = r.next + 1 /\ x.event.seq = r.next
  /\ (x.event.type = "close" \/ r.status = "closed") => x.room.status = "closed"
  /\ x.event.type \notin {"leave", "close"} => r.status = "open"

\* executeCommand refuses the command, answers it, or starts to change the room.
LEMMA ExecuteCases ==
  ASSUME NEW w \in Workers, NEW c \in Commands, NEW n \in Nodes, NEW r \in Rooms \union {None},
         cmd'[c] \in Requests, Execute(w, c, n, r)
  PROVE  \/ Finish(c, n, FALSE, None, {}) /\ work' = work
         \/ /\ r # None /\ cmd'[c].type \in {"read", "join"}
            /\ Finish(c, n, TRUE, r, {}) /\ work' = work
         \/ /\ r # None /\ UNCHANGED <<reply, sent>>
            /\ \E x : Starts(x, c, n, r) /\ work' = [work EXCEPT ![w] = x]
<1> DEFINE t == cmd'[c].type
           h == cmd'[c].handle
<1>1. t \in Types /\ h \in Handles
  BY Zenon DEF Requests
<1>2. CASE Rejected(r, t, h)
  BY Zenon, <1>2 DEF Execute
<1>3. CASE ~Rejected(r, t, h) /\ ReadOnly(r, t, h)
  BY Zenon, <1>3 DEF Execute, Rejected, ReadOnly
<1>4. CASE ~Rejected(r, t, h) /\ ~ReadOnly(r, t, h)
  <2> DEFINE x == [pc |-> "storeRoom", at |-> n, id |-> c,
                   room |-> Changed(r, t, h), event |-> NextEvent(r, c)]
  <2>1. r \in Rooms /\ r # None /\ Allowed(r, t, h)
    BY Zenon, <1>4 DEF Rejected
  <2>2. work' = [work EXCEPT ![w] = x] /\ UNCHANGED <<reply, sent>>
    BY Zenon, <1>4 DEF Execute
  <2>3. /\ Changed(r, t, h) \in Rooms /\ Changed(r, t, h).home = r.home
        /\ Changed(r, t, h).next = r.next + 1 /\ Changed(r, t, h).members \in SUBSET Handles
        /\ (t = "close" \/ r.status = "closed") => Changed(r, t, h).status = "closed"
    <3>1. Changed(r, t, h) \in Rooms
      BY Zenon, <1>1, <2>1, ChangedType
    <3>2. Changed(r, t, h).members \in SUBSET Handles
      BY Zenon, <3>1 DEF Rooms
    <3> HIDE DEF t, h
    <3> QED
      BY Zenon, <1>1, <2>1, <3>1, <3>2, ChangedType
  <2>4. /\ NextEvent(r, c) \in Events /\ NextEvent(r, c).id = c /\ NextEvent(r, c).seq = r.next
        /\ NextEvent(r, c).type = t
    BY Zenon, <1>1, <2>1, <2>3 DEF NextEvent, Events, Rooms
  <2>5. t \notin {"leave", "close"} => r.status = "open"
    BY Zenon, <1>1, <1>4, <2>1 DEF Allowed, Types, ReadOnly
  <2>6. Starts(x, c, n, r)
    <3> HIDE DEF t, h
    <3>1. x \in Jobs
      BY Zenon, <2>3, <2>4 DEF Jobs
    <3> QED
      BY Zenon, <2>3, <2>4, <2>5, <3>1 DEF Starts
  <2> HIDE DEF x
  <2> QED
    BY Zenon, <2>1, <2>2, <2>6
<1> QED
  BY Zenon, <1>2, <1>3, <1>4

\* How a command ends: for the agent, and in what is sent.
Ends(c, n, ok, r, more) ==
  /\ reply' \in [Commands -> {"none", "waiting", "ok", "error"}]
  /\ \A d \in Commands : reply'[d] = "ok" => reply[d] = "ok" \/ (ok /\ d = c)
  /\ sent \subseteq sent' /\ more \subseteq sent'
  /\ \A m \in sent' : \/ m \in sent \union more
                      \/ /\ m \in ResultMsg /\ m.id = c /\ m.ok = ok
                         /\ NodeOf[cmd'[c].handle] # n /\ (m.room # None => m.room = r)

\* The end of a command's goroutine sets its reply and sends at most a result.
LEMMA FinishEnds ==
  ASSUME NEW c \in Commands, NEW n \in Nodes, NEW ok \in BOOLEAN, NEW r \in Rooms \union {None},
         NEW more, reply \in [Commands -> {"none", "waiting", "ok", "error"}],
         Finish(c, n, ok, r, more)
  PROVE  Ends(c, n, ok, r, more)
<1> DEFINE m == Result(c, ok, IF ok THEN r ELSE None)
<1>1. m \in ResultMsg /\ m.id = c /\ m.ok = ok /\ (m.room # None => m.room = r)
  BY Zenon DEF Result, ResultMsg
<1>2. CASE NodeOf[cmd'[c].handle] = n
  BY Zenon, <1>2 DEF Finish, Ends
<1>3. CASE NodeOf[cmd'[c].handle] # n
  <2>1. sent' = sent \union more \union {m} /\ reply' = reply
    BY Zenon, <1>3 DEF Finish
  <2> HIDE DEF m
  <2> QED
    BY Zenon, <1>1, <1>3, <2>1 DEF Ends
<1> QED
  BY Zenon, <1>2, <1>3

-----------------------------------------------------------------------------
(* Types.                                                                  *)

\* A request id keeps its command.
CmdKept == \A d \in Commands : cmd[d] # None => cmd'[d] = cmd[d]

\* The types of what ends a command.
LEMMA EndsType ==
  ASSUME TypeInv, NEW c \in Commands, NEW n, NEW ok, NEW r, NEW more, more \subseteq EventMsg,
         Ends(c, n, ok, r, more), cmd'[c] # None, CmdKept
  PROVE  /\ reply' \in [Commands -> {"none", "waiting", "ok", "error"}]
         /\ sent' \subseteq CommandMsg \union ResultMsg \union EventMsg
         /\ \A m \in sent' : m.kind # "event" => cmd'[m.id] # None
<1>1. ASSUME NEW m \in sent'
      PROVE  /\ m \in CommandMsg \union ResultMsg \union EventMsg
             /\ m.kind # "event" => cmd'[m.id] # None
  <2>1. CASE m \in sent
    <3>1. m \in CommandMsg \union ResultMsg \union EventMsg /\ (m.kind # "event" => cmd[m.id] # None)
      BY Zenon, <2>1 DEF TypeInv, TrafficOK
    <3>2. m.kind # "event" => m.id \in Commands
      BY Zenon, <3>1 DEF CommandMsg, ResultMsg, EventMsg
    <3> QED
      BY Zenon, <3>1, <3>2 DEF CmdKept
  <2>2. CASE m \in more
    BY Zenon, <2>2 DEF EventMsg
  <2>3. CASE m \in ResultMsg /\ m.id = c
    BY Zenon, <2>3
  <2> QED
    BY Zenon, <2>1, <2>2, <2>3 DEF Ends
<1> QED
  BY Zenon, <1>1 DEF Ends

\* Crash aside, a daemon that runs keeps running.
LEMMA WorkType ==
  ASSUME TypeInv, up' = up, CmdKept, NEW w \in Workers,
         NEW x \in Jobs \union {Idle}, x # Idle => x.at \in up /\ cmd'[x.id] # None,
         work' = work \/ work' = [work EXCEPT ![w] = x]
  PROVE  /\ work' \in [Workers -> Jobs \union {Idle}]
         /\ \A v \in Workers : work'[v] # Idle => work'[v].at \in up' /\ cmd'[work'[v].id] # None
<1>1. /\ work \in [Workers -> Jobs \union {Idle}]
      /\ \A v \in Workers : work[v] # Idle => work[v].at \in up /\ cmd[work[v].id] # None
  BY Zenon DEF TypeInv, TrafficOK
<1>2. work' \in [Workers -> Jobs \union {Idle}] /\ \A v \in Workers : work'[v] = work[v] \/ work'[v] = x
  BY Zenon, <1>1
<1>3. \A v \in Workers : work[v] # Idle => work[v].id \in Commands
  BY Zenon, <1>1 DEF Jobs
<1>4. ASSUME NEW v \in Workers, work'[v] # Idle
      PROVE  work'[v].at \in up' /\ cmd'[work'[v].id] # None
  <2>1. CASE work'[v] = work[v]
    BY Zenon, <1>1, <1>3, <1>4, <2>1 DEF CmdKept
  <2>2. CASE work'[v] = x
    BY Zenon, <1>4, <2>2
  <2> QED
    BY Zenon, <1>2, <2>1, <2>2
<1> QED
  BY Zenon, <1>2, <1>4

\* executeCommand.
LEMMA ExecuteType ==
  ASSUME TypeInv, NEW w \in Workers, NEW c \in Commands, NEW n \in up, NEW r \in Rooms \union {None},
         cmd' \in [Commands -> Requests \union {None}], cmd'[c] # None, CmdKept,
         Execute(w, c, n, r),
         UNCHANGED <<up, crashes, storeVars, coordRoom, known, seenVars>>
  PROVE  TypeInv'
<1>1. /\ TypeOK /\ n \in Nodes /\ cmd'[c] \in Requests
      /\ runs' = [runs EXCEPT ![c] = @ + 1]
  BY Zenon DEF TypeInv, TypeOK, Execute
<1>2. TrafficOK'
  <2>1. ASSUME NEW ok \in BOOLEAN, NEW s \in Rooms \union {None}, Finish(c, n, ok, s, {}), work' = work
        PROVE  TrafficOK'
    <3>1. PICK z : z = {}
      BY Zenon
    <3>5. Ends(c, n, ok, s, z) /\ z \subseteq EventMsg
      BY Zenon, <1>1, <2>1, <3>1, FinishEnds DEF TypeOK
    <3>2. up' = up /\ Idle \in Jobs \union {Idle}
      BY Zenon
    <3>3. /\ reply' \in [Commands -> {"none", "waiting", "ok", "error"}]
          /\ sent' \subseteq CommandMsg \union ResultMsg \union EventMsg
          /\ \A m \in sent' : m.kind # "event" => cmd'[m.id] # None
      BY Zenon, <3>5, EndsType
    <3>4. /\ work' \in [Workers -> Jobs \union {Idle}]
          /\ \A v \in Workers : work'[v] # Idle => work'[v].at \in up' /\ cmd'[work'[v].id] # None
      BY Zenon, <2>1, <3>2, WorkType
    <3> QED
      BY Zenon, <3>3, <3>4 DEF TrafficOK
  <2>2. ASSUME NEW x, Starts(x, c, n, r), work' = [work EXCEPT ![w] = x], UNCHANGED <<reply, sent>>
        PROVE  TrafficOK'
    <3>1. x \in Jobs /\ x.at \in up /\ cmd'[x.id] # None /\ up' = up
      BY Zenon, <2>2 DEF Starts
    <3>2. /\ work' \in [Workers -> Jobs \union {Idle}]
          /\ \A v \in Workers : work'[v] # Idle => work'[v].at \in up' /\ cmd'[work'[v].id] # None
      BY Zenon, <2>2, <3>1, WorkType
    <3>5. PICK z : z = {}
      BY Zenon
    <3>3. Ends(c, n, FALSE, None, z) /\ z \subseteq EventMsg
      BY Zenon, <1>1, <2>2, <3>5 DEF Ends, TypeOK
    <3>4. /\ reply' \in [Commands -> {"none", "waiting", "ok", "error"}]
          /\ sent' \subseteq CommandMsg \union ResultMsg \union EventMsg
          /\ \A m \in sent' : m.kind # "event" => cmd'[m.id] # None
      BY Zenon, <3>3, EndsType
    <3> QED
      BY Zenon, <3>2, <3>4 DEF TrafficOK
  <2>3. None \in Rooms \union {None}
    BY Zenon
  <2> QED
    BY Zenon, <1>1, <2>1, <2>2, <2>3, ExecuteCases
<1>3. UNCHANGED <<up, crashes, room, log, logged, coordRoom, known, lastSeen, misled>>
  BY Zenon DEF storeVars, seenVars
<1>4. runs' \in [Commands -> Nat]
  BY <1>1 DEF TypeOK
<1>5. TypeOK'
  BY Zenon, <1>1, <1>2, <1>3, <1>4 DEF TypeOK, TrafficOK
<1> QED
  BY Zenon, <1>2, <1>5 DEF TypeInv

\* What a daemon knows of the room is a room.
LEMMA ResolveType ==
  ASSUME TypeInv, NEW n \in Nodes
  PROVE  ResolveRoomInfo(n) \in Rooms \union {None}
  BY Zenon DEF TypeInv, TypeOK, ResolveRoomInfo

\* The goroutine of w goes on, or fails and ends its command.
Proceeds(w) ==
  \/ \E pc \in {"storeEvent", "upsert", "publish"} : Goes(w, pc)
  \/ Fails(w)

\* A step of persistAndPublish, but for what it stores.
LEMMA ProceedsType ==
  ASSUME TypeInv, NEW w \in Workers, work[w] # Idle, Proceeds(w), up' = up
  PROVE  cmd' = cmd /\ TrafficOK'
<1>1. /\ work[w] \in Jobs /\ work[w].at \in up /\ cmd[work[w].id] # None
      /\ work[w].id \in Commands /\ work[w].at \in Nodes
      /\ reply \in [Commands -> {"none", "waiting", "ok", "error"}]
  BY Zenon DEF TypeInv, TypeOK, TrafficOK, Jobs
<1>2. CASE Fails(w)
  <2>1. PICK z : z = {}
    BY Zenon
  <2>2. PICK c \in Commands, n \in Nodes : c = work[w].id /\ n = work[w].at
    BY Zenon, <1>1
  <2>3. cmd' = cmd /\ CmdKept /\ Finish(c, n, FALSE, None, z) /\ work' = [work EXCEPT ![w] = Idle]
    BY Zenon, <1>2, <2>1, <2>2 DEF Fails, CmdKept
  <2>4. FALSE \in BOOLEAN /\ None \in Rooms \union {None} /\ Idle \in Jobs \union {Idle}
        /\ z \subseteq EventMsg
    BY Zenon, <2>1
  <2>5. Ends(c, n, FALSE, None, z)
    BY Zenon, <1>1, <2>3, <2>4, FinishEnds
  <2>6. /\ reply' \in [Commands -> {"none", "waiting", "ok", "error"}]
        /\ sent' \subseteq CommandMsg \union ResultMsg \union EventMsg
        /\ \A m \in sent' : m.kind # "event" => cmd'[m.id] # None
    BY Zenon, <1>1, <2>2, <2>3, <2>4, <2>5, EndsType
  <2> QED
    BY Zenon, <2>3, <2>4, <2>6, WorkType DEF TrafficOK
<1>3. ASSUME NEW pc \in {"storeEvent", "upsert", "publish"}, Goes(w, pc)
      PROVE  cmd' = cmd /\ TrafficOK'
  <2>1. PICK x : x = [work[w] EXCEPT !.pc = pc]
    BY Zenon
  <2>2. x \in Jobs /\ x.at = work[w].at /\ x.id = work[w].id
    BY Zenon, <1>1, <2>1 DEF Jobs
  <2>3. /\ work' = [work EXCEPT ![w] = x] /\ cmd' = cmd /\ CmdKept /\ reply' = reply /\ sent' = sent
        /\ (x # Idle => x.at \in up /\ cmd'[x.id] # None)
    BY Zenon, <1>1, <1>3, <2>1, <2>2 DEF Goes, CmdKept
  <2>4. /\ reply' \in [Commands -> {"none", "waiting", "ok", "error"}]
        /\ sent' \subseteq CommandMsg \union ResultMsg \union EventMsg
        /\ \A m \in sent' : m.kind # "event" => cmd'[m.id] # None
    BY Zenon, <1>1, <2>3 DEF TypeInv, TrafficOK
  <2>5. x \in Jobs \union {Idle}
    BY Zenon, <2>2
  <2> QED
    BY Zenon, <2>3, <2>4, <2>5, WorkType DEF TrafficOK
<1> QED
  BY Zenon, <1>2, <1>3 DEF Proceeds

\* The larger one of two numbers is one of them.
LEMMA MaxOfTwo == ASSUME NEW a \in Nat, NEW b \in Nat PROVE Max({a, b}) \in {a, b}
<1>1. \E x \in {a, b} : \A y \in {a, b} : x >= y
  BY SMT
<1> QED
  BY Zenon, <1>1 DEF Max

\* cacheRoomFromEvent makes a room of what the daemon has, if it has one, and
\* counts no further than the event or what it has.
LEMMA CacheType ==
  ASSUME NEW r \in Rooms \union {None}, NEW e \in Events
  PROVE  /\ CacheRoomFromEvent(r, e) \in Rooms
         /\ r # None => CacheRoomFromEvent(r, e).home = r.home
         /\ \/ CacheRoomFromEvent(r, e).next = e.seq + 1
            \/ r # None /\ CacheRoomFromEvent(r, e).next = r.next
<1>1. PICK h : h = IF r = None THEN NodeOf[e.sender] ELSE r.home
  BY Zenon
<1>2. PICK s : s = IF e.type = "close" THEN "closed" ELSE IF r = None THEN "open" ELSE r.status
  BY Zenon
<1>3. PICK n : n = IF r = None THEN e.seq + 1 ELSE Max({r.next, e.seq + 1})
  BY Zenon
<1>4. h \in Nodes /\ (r # None => h = r.home)
  BY Zenon, <1>1, PlacementAssumption DEF Rooms, Events
<1>5. s \in {"open", "closed"}
  BY Zenon, <1>2 DEF Rooms
<1>6. n \in Nat /\ (n = e.seq + 1 \/ (r # None /\ n = r.next))
  <2>1. CASE r = None
    BY <1>3, <2>1 DEF Events
  <2>2. CASE r # None
    <3>1. r.next \in Nat /\ e.seq + 1 \in Nat
      BY <2>2 DEF Rooms, Events
    <3>2. Max({r.next, e.seq + 1}) \in {r.next, e.seq + 1}
      BY Zenon, <3>1, MaxOfTwo
    <3>3. n = r.next \/ n = e.seq + 1
      BY Zenon, <1>3, <2>2, <3>2
    <3> QED
      BY Zenon, <2>2, <3>1, <3>3
  <2> QED
    BY Zenon, <2>1, <2>2
<1>7. CacheRoomFromEvent(r, e) = [home |-> h, members |-> e.members, status |-> s, next |-> n]
  BY Zenon, <1>1, <1>2, <1>3 DEF CacheRoomFromEvent
<1>8. PICK x : x = [home |-> h, members |-> e.members, status |-> s, next |-> n]
  BY Zenon
<1>9. x \in Rooms /\ x.home = h /\ x.next = n
  BY <1>4, <1>5, <1>6, <1>8 DEF Rooms, Events
<1> QED
  BY Zenon, <1>4, <1>6, <1>7, <1>8, <1>9

\* The room commands of an agent.
LEMMA CommandType ==
  ASSUME TypeInv, NEW c \in Commands, NEW t \in Types, NEW h \in Handles, NEW w \in Workers,
         Command(c, t, h, w)
  PROVE  TypeInv' /\ CmdKept /\ cmd'[c] \in Requests
<1>1. PICK n \in up, r \in Rooms \union {None} : n = NodeOf[h] /\ r = ResolveRoomInfo(n) /\ n \in Nodes
  BY Zenon, ResolveType, PlacementAssumption DEF Command
<1>2. /\ cmd[c] = None /\ cmd' = [cmd EXCEPT ![c] = [type |-> t, handle |-> h]]
      /\ cmd \in [Commands -> Requests \union {None}]
      /\ UNCHANGED <<up, crashes, storeVars, coordRoom, known, seenVars>>
  BY Zenon DEF Command, RoomCommand, TypeInv, TypeOK
<1>3. [type |-> t, handle |-> h] \in Requests
  BY Zenon DEF Requests
<1>4. /\ cmd' \in [Commands -> Requests \union {None}] /\ cmd'[c] \in Requests /\ cmd'[c] # None
      /\ CmdKept
  BY Zenon, <1>2, <1>3, NoneAssumption DEF CmdKept
<1>5. CASE Execute(w, c, n, r)
  BY Zenon, <1>2, <1>4, <1>5, ExecuteType
<1>6. CASE /\ r # None
           /\ reply' = [reply EXCEPT ![c] = "waiting"]
           /\ sent' = sent \union {[kind |-> "command", id |-> c, to |-> r.home]}
           /\ UNCHANGED <<work, runs>>
  <2>1. UNCHANGED <<up, crashes, room, log, logged, coordRoom, known, lastSeen, misled>>
    BY Zenon, <1>2 DEF storeVars, seenVars
  <2>2. reply' \in [Commands -> {"none", "waiting", "ok", "error"}]
    BY Zenon, <1>6 DEF TypeInv, TypeOK
  <2>3. r.home \in Nodes
    BY Zenon, <1>6 DEF Rooms
  <2>4. /\ sent' \subseteq CommandMsg \union ResultMsg \union EventMsg
        /\ \A m \in sent' : m.kind # "event" => cmd'[m.id] # None
    <3>1. ASSUME NEW m \in sent
          PROVE  /\ m \in CommandMsg \union ResultMsg \union EventMsg
                 /\ m.kind # "event" => cmd'[m.id] # None
      <4>1. m \in CommandMsg \union ResultMsg \union EventMsg /\ (m.kind # "event" => cmd[m.id] # None)
        BY Zenon, <3>1 DEF TypeInv, TrafficOK
      <4>2. m.kind # "event" => m.id \in Commands
        BY Zenon, <4>1 DEF CommandMsg, ResultMsg, EventMsg
      <4> QED
        BY Zenon, <1>4, <4>1, <4>2 DEF CmdKept
    <3>2. PICK m : m = [kind |-> "command", id |-> c, to |-> r.home]
      BY Zenon
    <3>3. m \in CommandMsg /\ m.id = c
      BY Zenon, <2>3, <3>2 DEF CommandMsg
    <3>4. sent' = sent \union {m}
      BY Zenon, <1>6, <3>2
    <3> QED
      BY Zenon, <1>4, <3>1, <3>3, <3>4
  <2>5. up' = up /\ work' = work /\ Idle \in Jobs \union {Idle}
    BY Zenon, <1>2, <1>6
  <2>6. /\ work' \in [Workers -> Jobs \union {Idle}]
        /\ \A v \in Workers : work'[v] # Idle => work'[v].at \in up' /\ cmd'[work'[v].id] # None
    BY Zenon, <1>4, <2>5, WorkType
  <2>7. TrafficOK'
    BY Zenon, <2>2, <2>4, <2>6 DEF TrafficOK
  <2>8. TypeOK'
    BY Zenon, <1>4, <1>6, <2>1, <2>2, <2>6 DEF TypeInv, TypeOK
  <2> QED
    BY Zenon, <1>4, <2>7, <2>8 DEF TypeInv
<1>7. Execute(w, c, n, r) \/ <1>6!1
  BY Zenon, <1>1 DEF Command, withRoomControl
<1> QED
  BY Zenon, <1>4, <1>5, <1>6, <1>7

\* A command that arrives at a daemon.
LEMMA RemoteType ==
  ASSUME TypeInv, NEW c \in Commands, NEW n \in Nodes, NEW w \in Workers, HandleRemoteCommand(c, n, w)
  PROVE  TypeInv' /\ CmdKept /\ cmd'[c] \in Requests
<1>1. PICK m : m = [kind |-> "command", id |-> c, to |-> n]
  BY Zenon
<1>2. m \in sent /\ m.kind # "event" /\ m.id = c
  BY Zenon, <1>1 DEF HandleRemoteCommand
<1>3. cmd' = cmd /\ cmd[c] # None
  BY Zenon, <1>2 DEF HandleRemoteCommand, TypeInv, TrafficOK
<1>4. cmd' \in [Commands -> Requests \union {None}] /\ cmd'[c] \in Requests /\ CmdKept
  BY Zenon, <1>3 DEF TypeInv, TypeOK, CmdKept
<1>5. PICK r \in Rooms \union {None} : r = ResolveRoomInfo(n)
  BY Zenon, ResolveType
<1>6. /\ n \in up /\ Execute(w, c, n, r)
      /\ UNCHANGED <<up, crashes, storeVars, coordRoom, known, seenVars>>
  BY Zenon, <1>5 DEF HandleRemoteCommand
<1> QED
  BY Zenon, <1>3, <1>4, <1>6, ExecuteType

\* Only a goroutine that executes a command has something to store.
LEMMA BusyType ==
  ASSUME TypeInv, NEW w \in Workers, work[w].pc \in {"storeRoom", "storeEvent", "upsert", "publish"}
  PROVE  /\ work[w] # Idle /\ work[w] \in Jobs /\ work[w].at \in up /\ work[w].at \in Nodes
         /\ work[w].room \in Rooms /\ work[w].event \in Events /\ work[w].id \in Commands
         /\ cmd[work[w].id] \in Requests
<1>1. work[w] # Idle
  BY DEF Idle
<1>2. work[w] \in Jobs /\ work[w].at \in up /\ cmd[work[w].id] # None
  BY Zenon, <1>1 DEF TypeInv, TrafficOK
<1>3. /\ work[w].at \in Nodes /\ work[w].room \in Rooms /\ work[w].event \in Events
      /\ work[w].id \in Commands
  BY Zenon, <1>2 DEF Jobs
<1> QED
  BY Zenon, <1>1, <1>2, <1>3 DEF TypeInv, TypeOK

\* The steps of persistAndPublish before the last.
LEMMA StoreType ==
  ASSUME TypeInv, NEW w \in Workers, StoreRoom(w) \/ StoreRoomEvent(w) \/ UpsertRoom(w)
  PROVE  TypeInv' /\ CmdKept
<1>1. work[w].pc \in {"storeRoom", "storeEvent", "upsert", "publish"} /\ up' = up /\ Proceeds(w)
  BY Zenon DEF StoreRoom, StoreRoomEvent, UpsertRoom, Proceeds
<1>2. /\ work[w] # Idle /\ work[w].at \in Nodes /\ work[w].room \in Rooms /\ work[w].event \in Events
  BY Zenon, <1>1, BusyType
<1>3. cmd' = cmd /\ TrafficOK' /\ CmdKept
  BY Zenon, <1>1, <1>2, ProceedsType DEF CmdKept
<1>4. room' \in [Nodes -> Rooms \union {None}]
  BY Zenon, <1>2 DEF StoreRoom, StoreRoomEvent, UpsertRoom, TypeInv, TypeOK, storeVars
<1>5. log' \in [Nodes -> SUBSET Events] /\ logged' \subseteq Events
  <2>1. CASE StoreRoomEvent(w)
    <3>1. PICK n \in Nodes, e \in Events : n = work[w].at /\ e = work[w].event
      BY Zenon, <1>2
    <3>2. \A L \in SUBSET Events : Retain({f \in L : f.seq # e.seq} \union {e}) \in SUBSET Events
      BY Zenon DEF Retain
    <3>3. log \in [Nodes -> SUBSET Events] /\ logged \subseteq Events
      BY Zenon DEF TypeInv, TypeOK
    <3>4. \/ log' = [log EXCEPT ![n] = Retain({f \in log[n] : f.seq # e.seq} \union {e})]
          \/ log' = log
      BY Zenon, <2>1, <3>1 DEF StoreRoomEvent
    <3>5. logged' \subseteq Events
      BY <2>1, <3>1, <3>3 DEF StoreRoomEvent
    <3>6. PICK z \in SUBSET Events : z = Retain({f \in log[n] : f.seq # e.seq} \union {e})
      BY Zenon, <3>2, <3>3
    <3>7. log' = [log EXCEPT ![n] = z] \/ log' = log
      BY Zenon, <3>4, <3>6
    <3> QED
      BY Zenon, <3>3, <3>5, <3>7
  <2>2. CASE StoreRoom(w) \/ UpsertRoom(w)
    BY Zenon, <2>2 DEF StoreRoom, UpsertRoom, TypeInv, TypeOK, storeVars
  <2> QED
    BY Zenon, <2>1, <2>2
<1>6. coordRoom' \in Rooms \union {None}
  BY Zenon, <1>2 DEF StoreRoom, StoreRoomEvent, UpsertRoom, CoordUpsert, TypeInv, TypeOK
<1>7. UNCHANGED <<up, crashes, known, runs, lastSeen, misled>>
  BY Zenon DEF StoreRoom, StoreRoomEvent, UpsertRoom, seenVars
<1>8. TypeOK'
  BY Zenon, <1>3, <1>4, <1>5, <1>6, <1>7 DEF TypeInv, TypeOK, TrafficOK
<1> QED
  BY Zenon, <1>3, <1>8 DEF TypeInv

\* publishEvent.
LEMMA DeliverType ==
  ASSUME TypeInv, NEW e \in Events, NEW n, Deliver(e, n)
  PROVE  lastSeen' \in [Handles -> Nat]
<1>1. lastSeen \in [Handles -> Nat] /\ e.seq \in Nat
  BY Zenon DEF TypeInv, TypeOK, Events
<1> QED
  BY Zenon, <1>1 DEF Deliver

\* publishEvent ends its goroutine and sends the event to other daemons.
LEMMA PublishType ==
  ASSUME TypeInv, NEW w \in Workers, PublishEvent(w)
  PROVE  /\ TypeInv' /\ CmdKept
         /\ \E more : /\ Ends(work[w].id, work[w].at, TRUE, work[w].room, more)
                      /\ \A m \in more : /\ m \in EventMsg /\ m.kind = "event" /\ m.to # work[w].at
                                         /\ m.event = work[w].event
<1>1. /\ work[w] # Idle /\ work[w] \in Jobs /\ work[w].at \in up /\ work[w].at \in Nodes
      /\ work[w].room \in Rooms /\ work[w].event \in Events /\ work[w].id \in Commands
      /\ cmd[work[w].id] \in Requests
  <2>1. work[w].pc \in {"storeRoom", "storeEvent", "upsert", "publish"}
    BY Zenon DEF PublishEvent
  <2> QED
    BY Zenon, <2>1, BusyType
<1>2. PICK n \in Nodes, e \in Events, c \in Commands, r \in Rooms :
        n = work[w].at /\ e = work[w].event /\ c = work[w].id /\ r = work[w].room
  BY Zenon, <1>1
<1>3. PICK more : more = {[kind |-> "event", event |-> e, to |-> p] :
                            p \in {NodeOf[h] : h \in e.members \ {e.sender}} \ {n}}
  BY Zenon
<1>4. ASSUME NEW m \in more
      PROVE  m \in EventMsg /\ m.kind = "event" /\ m.to # n /\ m.event = e
  <2>1. PICK h \in e.members : m = [kind |-> "event", event |-> e, to |-> NodeOf[h]] /\ NodeOf[h] # n
    BY Zenon, <1>3
  <2>2. NodeOf[h] \in Nodes
    BY Zenon, PlacementAssumption DEF Events
  <2> QED
    BY Zenon, <2>1, <2>2 DEF EventMsg
<1>5. /\ cmd' = cmd /\ CmdKept /\ Finish(c, n, TRUE, r, more) /\ Deliver(e, n)
      /\ work' = [work EXCEPT ![w] = Idle]
      /\ UNCHANGED <<up, crashes, storeVars, coordRoom, known, runs, misled>>
  BY Zenon, <1>2, <1>3 DEF PublishEvent, CmdKept
<1>6. /\ reply \in [Commands -> {"none", "waiting", "ok", "error"}] /\ TRUE \in BOOLEAN
      /\ r \in Rooms \union {None} /\ Idle \in Jobs \union {Idle} /\ more \subseteq EventMsg
  BY Zenon, <1>4 DEF TypeInv, TrafficOK
<1>7. Ends(c, n, TRUE, r, more)
  BY Zenon, <1>5, <1>6, FinishEnds
<1>8. cmd'[c] # None
  BY Zenon, <1>1, <1>2, <1>5, NoneAssumption
<1>9. /\ reply' \in [Commands -> {"none", "waiting", "ok", "error"}]
      /\ sent' \subseteq CommandMsg \union ResultMsg \union EventMsg
      /\ \A m \in sent' : m.kind # "event" => cmd'[m.id] # None
  BY Zenon, <1>5, <1>6, <1>7, <1>8, EndsType
<1>10. up' = up
  BY Zenon, <1>5
<1>11. /\ work' \in [Workers -> Jobs \union {Idle}]
       /\ \A v \in Workers : work'[v] # Idle => work'[v].at \in up' /\ cmd'[work'[v].id] # None
  BY Zenon, <1>5, <1>6, <1>10, WorkType
<1>12. TrafficOK'
  BY Zenon, <1>9, <1>11 DEF TrafficOK
<1>13. lastSeen' \in [Handles -> Nat]
  BY Zenon, <1>5, DeliverType
<1>14. UNCHANGED <<up, crashes, room, log, logged, coordRoom, known, runs, misled>>
  BY Zenon, <1>5 DEF storeVars
<1>15. TypeOK'
  BY Zenon, <1>5, <1>9, <1>11, <1>13, <1>14 DEF TypeInv, TypeOK
<1> QED
  BY Zenon, <1>2, <1>4, <1>5, <1>7, <1>12, <1>15 DEF TypeInv

\* Goroutines and messages stay as they are.
LEMMA StillType ==
  ASSUME TypeInv, UNCHANGED <<up, cmd, sent, work>>,
         reply' \in [Commands -> {"none", "waiting", "ok", "error"}]
  PROVE  TrafficOK' /\ CmdKept /\ \A w \in Workers : work'[w] # Idle => work'[w].at \in up'
  BY Zenon DEF TypeInv, TypeOK, TrafficOK, CmdKept

\* CreateRoom, a peer map, a timeout and a restart.
LEMMA QuietType ==
  ASSUME TypeInv,
         \/ \E members \in SUBSET Handles : CreateRoom(members)
         \/ \E n \in Nodes : UpdateRooms(n) \/ Restart(n)
         \/ \E c \in Commands : TimesOut(c)
  PROVE  TypeInv' /\ CmdKept
<1>1. CASE \E members \in SUBSET Handles : CreateRoom(members)
  <2>1. PICK members \in SUBSET Handles : CreateRoom(members)
    BY Zenon, <1>1
  <2>2. PICK r : r = [home |-> Home, members |-> members \union {Creator}, status |-> "open", next |-> 1]
    BY Zenon
  <2>3. r \in Rooms
    BY <2>2, PlacementAssumption DEF Rooms
  <2>4. /\ room' = [room EXCEPT ![Home] = r] /\ coordRoom' = r
        /\ UNCHANGED <<up, crashes, log, known, cmd, reply, runs, sent, work, lastSeen, misled, logged>>
    BY Zenon, <2>1, <2>2 DEF CreateRoom, CoordUpsert, cmdVars, seenVars
  <2>5. room' \in [Nodes -> Rooms \union {None}]
    BY Zenon, <2>3, <2>4 DEF TypeInv, TypeOK
  <2>6. TrafficOK' /\ CmdKept
    BY Zenon, <2>4, StillType DEF TypeInv, TrafficOK
  <2>7. coordRoom' \in Rooms \union {None}
    BY Zenon, <2>3, <2>4
  <2> QED
    BY Zenon, <2>4, <2>5, <2>6, <2>7 DEF TypeInv, TypeOK
<1>2. ASSUME NEW n \in Nodes, UpdateRooms(n)
      PROVE  TypeInv' /\ CmdKept
  <2>1. UNCHANGED <<up, crashes, room, log, coordRoom, cmd, reply, runs, sent, work, lastSeen, misled, logged>>
    BY Zenon, <1>2 DEF UpdateRooms, storeVars, cmdVars, seenVars
  <2>2. known' \in [Nodes -> Rooms \union {None}]
    BY Zenon, <1>2 DEF UpdateRooms, TypeInv, TypeOK
  <2>3. TrafficOK' /\ CmdKept
    BY Zenon, <2>1, StillType DEF TypeInv, TrafficOK
  <2> QED
    BY Zenon, <2>1, <2>2, <2>3 DEF TypeInv, TypeOK
<1>3. ASSUME NEW c \in Commands, TimesOut(c)
      PROVE  TypeInv' /\ CmdKept
  <2>1. UNCHANGED <<up, crashes, room, log, coordRoom, known, cmd, runs, sent, work, lastSeen, misled, logged>>
    BY Zenon, <1>3 DEF TimesOut, storeVars, seenVars
  <2>2. reply' \in [Commands -> {"none", "waiting", "ok", "error"}]
    BY Zenon, <1>3 DEF TimesOut, TypeInv, TypeOK
  <2>3. TrafficOK' /\ CmdKept
    BY Zenon, <2>1, <2>2, StillType DEF TypeInv, TrafficOK
  <2> QED
    BY Zenon, <2>1, <2>2, <2>3 DEF TypeInv, TypeOK
<1>4. ASSUME NEW n \in Nodes, Restart(n)
      PROVE  TypeInv' /\ CmdKept
  <2>1. UNCHANGED <<crashes, room, log, coordRoom, known, cmd, reply, runs, sent, work, lastSeen, misled, logged>>
    BY Zenon, <1>4 DEF Restart, storeVars, cmdVars, seenVars
  <2>2. up' \subseteq Nodes /\ up \subseteq up'
    BY Zenon, <1>4 DEF Restart, TypeInv, TypeOK
  <2>3. TrafficOK' /\ CmdKept /\ \A w \in Workers : work'[w] # Idle => work'[w].at \in up'
    BY Zenon, <2>1, <2>2 DEF TypeInv, TypeOK, TrafficOK, CmdKept
  <2> QED
    BY Zenon, <2>1, <2>2, <2>3 DEF TypeInv, TypeOK
<1> QED
  BY Zenon, <1>1, <1>2, <1>3, <1>4

\* A crash ends the goroutines of the daemon.
LEMMA CrashType ==
  ASSUME TypeInv, NEW n \in Nodes, Crash(n)
  PROVE  TypeInv' /\ CmdKept
<1>1. UNCHANGED <<room, log, coordRoom, cmd, runs, sent, lastSeen, misled, logged>>
  BY Zenon DEF Crash, storeVars, seenVars
<1>2. /\ up' = up \ {n} /\ crashes' = crashes + 1
      /\ known' = [known EXCEPT ![n] = None]
      /\ work' = [w \in Workers |-> IF work[w] # Idle /\ work[w].at = n THEN Idle ELSE work[w]]
  BY Zenon DEF Crash
<1>3. reply' \in [Commands -> {"none", "waiting", "ok", "error"}]
  BY Zenon DEF Crash, TypeInv, TypeOK
<1>4. work' \in [Workers -> Jobs \union {Idle}]
  BY Zenon, <1>2 DEF TypeInv, TrafficOK
<1>5. ASSUME NEW w \in Workers, work'[w] # Idle
      PROVE  work'[w].at \in up' /\ cmd'[work'[w].id] # None
  <2>1. work'[w] = work[w] /\ work[w].at # n
    BY Zenon, <1>2, <1>5
  <2>2. work[w].at \in up /\ cmd[work[w].id] # None
    BY Zenon, <1>5, <2>1 DEF TypeInv, TrafficOK
  <2> QED
    BY Zenon, <1>1, <1>2, <2>1, <2>2
<1>6. TrafficOK' /\ CmdKept
  BY Zenon, <1>1, <1>3, <1>4, <1>5 DEF TypeInv, TrafficOK, CmdKept
<1>7. up' \subseteq Nodes /\ crashes' \in Nat /\ known' \in [Nodes -> Rooms \union {None}]
  BY <1>2 DEF TypeInv, TypeOK
<1> QED
  BY Zenon, <1>1, <1>3, <1>5, <1>6, <1>7 DEF TypeInv, TypeOK

\* A result or an event arrives.
LEMMA ArrivalType ==
  ASSUME TypeInv, NEW m \in sent, HandleRemoteCommandResult(m) \/ HandleRoomEvent(m)
  PROVE  TypeInv' /\ CmdKept
<1>1. m \in CommandMsg \union ResultMsg \union EventMsg
  BY Zenon DEF TypeInv, TrafficOK
<1>2. CASE HandleRemoteCommandResult(m)
  <2>1. UNCHANGED <<up, crashes, log, coordRoom, known, cmd, runs, sent, work, lastSeen, misled, logged>>
    BY Zenon, <1>2 DEF HandleRemoteCommandResult, seenVars
  <2>2. m.room \in Rooms \union {None}
    BY Zenon, <1>1, <1>2 DEF HandleRemoteCommandResult, CommandMsg, ResultMsg, EventMsg
  <2>3. PICK n : n = NodeOf[cmd[m.id].handle]
    BY Zenon
  <2>4. room' = room \/ room' = [room EXCEPT ![n] = m.room]
    BY Zenon, <1>2, <2>3 DEF HandleRemoteCommandResult
  <2>5. room' \in [Nodes -> Rooms \union {None}]
    BY Zenon, <2>2, <2>4 DEF TypeInv, TypeOK
  <2>6. reply' \in [Commands -> {"none", "waiting", "ok", "error"}]
    BY Zenon, <1>2 DEF HandleRemoteCommandResult, TypeInv, TypeOK
  <2>7. TrafficOK' /\ CmdKept
    BY Zenon, <2>1, <2>6, StillType DEF TypeInv, TrafficOK
  <2> QED
    BY Zenon, <2>1, <2>5, <2>6, <2>7 DEF TypeInv, TypeOK
<1>3. CASE HandleRoomEvent(m)
  <2>1. UNCHANGED <<up, crashes, log, coordRoom, known, cmd, reply, runs, sent, work, logged>>
    BY Zenon, <1>3 DEF HandleRoomEvent, cmdVars
  <2>2. PICK e \in Events, n \in Nodes : e = m.event /\ n = m.to
    BY Zenon, <1>1, <1>3 DEF HandleRoomEvent, CommandMsg, ResultMsg, EventMsg
  <2>3. room \in [Nodes -> Rooms \union {None}]
    BY Zenon DEF TypeInv, TypeOK
  <2>4. PICK x : x = CacheRoomFromEvent(room[n], e)
    BY Zenon
  <2>5. x \in Rooms
    BY Zenon, <2>2, <2>3, <2>4, CacheType
  <2>6. room' = [room EXCEPT ![n] = x] /\ Deliver(e, n) /\ misled' = (misled \/ room'[n].home # Home)
    BY Zenon, <1>3, <2>2, <2>4 DEF HandleRoomEvent
  <2>7. room' \in [Nodes -> Rooms \union {None}]
    BY Zenon, <2>3, <2>5, <2>6
  <2>8. lastSeen' \in [Handles -> Nat]
    BY Zenon, <2>6, DeliverType
  <2>9. misled' \in BOOLEAN
    BY Zenon, <2>6
  <2>10. TrafficOK' /\ CmdKept
    BY Zenon, <2>1, StillType DEF TypeInv, TrafficOK
  <2> QED
    BY Zenon, <2>1, <2>7, <2>8, <2>9, <2>10 DEF TypeInv, TypeOK
<1> QED
  BY Zenon, <1>2, <1>3

\* The room commands of the web chat are those of an agent.
LEMMA ChatIsCommand ==
  ASSUME NEW c \in Commands, NEW w \in Workers, Chat(c, w)
  PROVE  \E t \in Types, h \in Handles : Command(c, t, h, w)
<1>1. PICK t \in {"join", "post", "read"} : Command(c, t, ChatUser, w)
  BY Zenon DEF Chat
<1>2. t \in Types /\ ChatUser \in Handles
  BY Zenon, PlacementAssumption DEF Types
<1> QED
  BY Zenon, <1>1, <1>2

\* TypeInv is an invariant.
LEMMA TypeStep == TypeInv /\ [Next]_vars => TypeInv' /\ CmdKept
<1> SUFFICES ASSUME TypeInv, [Next]_vars PROVE TypeInv' /\ CmdKept
  BY Zenon
<1>1. CASE UNCHANGED vars
  <2>1. UNCHANGED <<up, crashes, room, log, coordRoom, known, cmd, reply, runs, sent, work, lastSeen,
                    misled, logged>>
    BY Zenon, <1>1 DEF vars
  <2> QED
    BY Zenon, <2>1 DEF TypeInv, TypeOK, TrafficOK, CmdKept
<1>2. CASE Next
  BY Zenon, <1>2, QuietType, CommandType, ChatIsCommand, RemoteType, StoreType, PublishType, ArrivalType,
     CrashType DEF Next
<1> QED
  BY Zenon, <1>1, <1>2

-----------------------------------------------------------------------------
(* What a step keeps.                                                      *)

\* The room counts on, requests and events stay, and executions add up.
Grows ==
  /\ CmdKept /\ logged \subseteq logged'
  /\ room[Home] # None => room'[Home] # None /\ room[Home].next <= room'[Home].next
  /\ \A c \in Commands : runs[c] <= runs'[c]

\* A copy of the room stays behind the home daemon.
LEMMA BehindKept ==
  ASSUME TypeInv, TypeInv', Grows, NEW r \in Rooms, Behind(r)
  PROVE  Behind(r)'
<1>1. /\ room[Home] # None /\ r.home = Home /\ r.next <= room[Home].next
      /\ room'[Home] # None /\ room[Home].next <= room'[Home].next
  BY Zenon DEF Behind, Grows
<1>2. room[Home] \in Rooms /\ room'[Home] \in Rooms
  BY Zenon, <1>1, PlacementAssumption DEF TypeInv, TypeOK
<1>3. r.next \in Nat /\ room[Home].next \in Nat /\ room'[Home].next \in Nat
  BY Zenon, <1>2 DEF Rooms
<1>4. r.next <= room'[Home].next
  BY <1>1, <1>3
<1> QED
  BY Zenon, <1>1, <1>4 DEF Behind

\* What was logged stays logged.
LEMMA KeptKept ==
  ASSUME Grows, NEW c \in Commands, cmd[c] # None, Kept(c)
  PROVE  Kept(c)'
<1>1. cmd'[c] = cmd[c] /\ logged \subseteq logged'
  BY Zenon DEF Grows, CmdKept
<1> QED
  BY Zenon, <1>1 DEF Kept

\* A message stays what it was.
LEMMA MsgKept ==
  ASSUME TypeInv, TypeInv', Grows, NEW m \in sent, MsgOK(m)
  PROVE  MsgOK(m)'
<1>1. m \in CommandMsg \union ResultMsg \union EventMsg /\ (m.kind # "event" => cmd[m.id] # None)
  BY Zenon DEF TypeInv, TrafficOK
<1>2. CASE m.kind = "result"
  <2>1. m.id \in Commands /\ m.room \in Rooms \union {None} /\ m.kind # "command" /\ m.kind # "event"
    BY Zenon, <1>1, <1>2 DEF CommandMsg, ResultMsg, EventMsg
  <2>2. cmd[m.id] # None /\ cmd'[m.id] = cmd[m.id]
    BY Zenon, <1>1, <2>1 DEF Grows, CmdKept
  <2>3. /\ NodeOf[cmd[m.id].handle] # Home /\ (m.room # None => Behind(m.room))
        /\ m.ok => runs[m.id] >= 1 /\ Kept(m.id)
    BY Zenon, <1>2 DEF MsgOK
  <2>4. m.room # None => Behind(m.room)'
    BY Zenon, <2>1, <2>3, BehindKept
  <2>5. m.ok => runs'[m.id] >= 1
    <3>1. runs[m.id] \in Nat /\ runs'[m.id] \in Nat
      BY Zenon, <2>1 DEF TypeInv, TypeOK
    <3>2. runs[m.id] <= runs'[m.id]
      BY Zenon, <2>1 DEF Grows
    <3> QED
      BY SMTT(20), <2>3, <3>1, <3>2
  <2>6. m.ok => Kept(m.id)'
    BY Zenon, <2>1, <2>2, <2>3, KeptKept
  <2> QED
    BY Zenon, <2>1, <2>2, <2>3, <2>4, <2>5, <2>6 DEF MsgOK
<1>3. CASE m.kind # "result"
  BY Zenon, <1>3 DEF MsgOK, Grows
<1> QED
  BY Zenon, <1>2, <1>3

\* The copies, when the new ones are behind the home daemon too.
LEMMA CopiesStep ==
  ASSUME TypeInv, TypeInv', Grows, CopiesInv,
         \A n \in Nodes : room'[n] = room[n] \/ room'[n] = None \/ Behind(room[n])',
         \A n \in Nodes : known'[n] = known[n] \/ known'[n] = None \/ Behind(known[n])',
         coordRoom' = coordRoom \/ Behind(coordRoom)'
  PROVE  CopiesInv'
<1>1. ASSUME NEW n \in Nodes, room'[n] # None
      PROVE  Behind(room[n])'
  <2>1. PICK r : r = room[n]
    BY Zenon
  <2>2. CASE room'[n] = room[n]
    <3>1. r \in Rooms /\ Behind(r) /\ room'[n] = r
      BY Zenon, <1>1, <2>1, <2>2 DEF TypeInv, TypeOK, CopiesInv
    <3>2. Behind(r)'
      BY Zenon, <3>1, BehindKept
    <3> QED
      BY Zenon, <3>1, <3>2 DEF Behind
  <2> QED
    BY Zenon, <1>1, <2>2
<1>2. ASSUME NEW n \in Nodes, known'[n] # None
      PROVE  Behind(known[n])'
  <2>1. PICK r : r = known[n]
    BY Zenon
  <2>2. CASE known'[n] = known[n]
    <3>1. r \in Rooms /\ Behind(r) /\ known'[n] = r
      BY Zenon, <1>2, <2>1, <2>2 DEF TypeInv, TypeOK, CopiesInv
    <3>2. Behind(r)'
      BY Zenon, <3>1, BehindKept
    <3> QED
      BY Zenon, <3>1, <3>2 DEF Behind
  <2> QED
    BY Zenon, <1>2, <2>2
<1>3. coordRoom' # None => Behind(coordRoom)'
  <2> SUFFICES ASSUME coordRoom' # None, coordRoom' = coordRoom PROVE Behind(coordRoom)'
    BY Zenon
  <2>1. PICK r : r = coordRoom
    BY Zenon
  <2>2. r \in Rooms /\ Behind(r) /\ coordRoom' = r
    BY Zenon, <2>1 DEF TypeInv, TypeOK, CopiesInv
  <2>3. Behind(r)'
    BY Zenon, <2>2, BehindKept
  <2> QED
    BY Zenon, <2>2, <2>3 DEF Behind
<1> QED
  BY Zenon, <1>1, <1>2, <1>3 DEF CopiesInv

\* The log, when nothing is logged.
LEMMA LogSame ==
  ASSUME TypeInv, TypeInv', Grows, LogInv, UNCHANGED <<log, logged>>,
         room[Home] # None /\ room[Home].status = "closed" => room'[Home].status = "closed"
  PROVE  LogInv'
<1>1. ASSUME NEW e \in logged
      PROVE  room'[Home] # None /\ e.seq < room'[Home].next /\ runs'[e.id] >= 1
  <2>1. room[Home] # None /\ e.seq < room[Home].next /\ runs[e.id] >= 1
    BY Zenon DEF LogInv
  <2>2. room'[Home] # None /\ room[Home].next <= room'[Home].next
    BY Zenon, <2>1 DEF Grows
  <2>3. e \in Events /\ room[Home] \in Rooms /\ room'[Home] \in Rooms
    BY Zenon, <2>1, <2>2, PlacementAssumption DEF TypeInv, TypeOK
  <2>4. e.seq \in Nat /\ e.id \in Commands /\ room[Home].next \in Nat /\ room'[Home].next \in Nat
    BY Zenon, <2>3 DEF Events, Rooms
  <2>5. runs[e.id] <= runs'[e.id] /\ runs[e.id] \in Nat /\ runs'[e.id] \in Nat
    BY Zenon, <2>4 DEF Grows, TypeInv, TypeOK
  <2> QED
    BY <2>1, <2>2, <2>4, <2>5
<1>2. \A e \in logged : e.type = "close" => room'[Home].status = "closed"
  BY Zenon DEF LogInv
<1>3. log' = log /\ logged' = logged
  BY Zenon
<1> QED
  BY Zenon, <1>1, <1>2, <1>3 DEF LogInv, ClosedIsFinal

\* An agent that was told, or will be, gave the command, and it was executed.
LEMMA ToldHas ==
  ASSUME TypeInv, SentInv, AgentInv, NEW c \in Commands, Told(c)
  PROVE  cmd[c] # None /\ runs[c] >= 1 /\ Kept(c)
<1>1. CASE reply[c] = "ok"
  BY Zenon, <1>1 DEF AgentInv
<1>2. ASSUME NEW m \in sent, m.kind = "result", m.id = c, m.ok
      PROVE  cmd[c] # None /\ runs[c] >= 1 /\ Kept(c)
  <2>1. m.kind # "event"
    BY Zenon, <1>2
  <2> QED
    BY Zenon, <1>2, <2>1 DEF SentInv, MsgOK, TypeInv, TrafficOK
<1> QED
  BY Zenon, <1>1, <1>2 DEF Told

\* A step that leaves the home daemon's room and log alone and tells no agent
\* more than it was told or will be.
Quiet ==
  /\ UNCHANGED <<log, logged, runs>> /\ room'[Home] = room[Home] /\ CmdKept
  /\ \A w \in Workers : work'[w] = Idle \/ work'[w] = work[w]
  /\ \A c \in Commands : reply'[c] = "ok" => Told(c)
  /\ \A m \in sent' : m \in sent \/ (MsgOK(m)' /\ ~(m.kind = "result" /\ m.ok))
  /\ coordRoom' = coordRoom \/ (room[Home] # None /\ coordRoom' = room[Home])
  /\ \A h \in Handles : NodeOf[h] = Home => lastSeen'[h] = lastSeen[h]
  /\ \A n \in Nodes : room'[n] = room[n] \/ room'[n] = None \/ Behind(room[n])'
  /\ \A n \in Nodes : known'[n] = known[n] \/ known'[n] = None \/ Behind(known[n])'

\* Such a step preserves the invariant of the room.
LEMMA QuietStep ==
  ASSUME TypeInv, TypeInv', RoomInv, Quiet
  PROVE  RoomInv'
<1>1. CopiesInv /\ SentInv /\ WorkInv /\ LogInv /\ AgentInv
  BY Zenon DEF RoomInv
<1>2. /\ log' = log /\ logged' = logged /\ runs' = runs /\ room'[Home] = room[Home] /\ CmdKept
  BY Zenon DEF Quiet
<1>3. Grows
  <2>1. \A c \in Commands : runs[c] <= runs'[c]
    BY <1>2 DEF TypeInv, TypeOK
  <2>2. room[Home] # None => room'[Home] # None /\ room[Home].next <= room'[Home].next
    <3>1. room[Home] # None => room[Home] \in Rooms
      BY Zenon, PlacementAssumption DEF TypeInv, TypeOK
    <3> QED
      BY SMTT(20), <1>2, <3>1 DEF Rooms
  <2> QED
    BY Zenon, <1>2, <2>1, <2>2 DEF Grows
<1>4. CopiesInv'
  <2>1. coordRoom' = coordRoom \/ Behind(coordRoom)'
    <3> SUFFICES ASSUME room[Home] # None, coordRoom' = room[Home] PROVE Behind(coordRoom)'
      BY Zenon DEF Quiet
    <3>1. room[Home].home = Home /\ room[Home].next <= room[Home].next
      BY Zenon, <1>1, PlacementAssumption DEF CopiesInv, Behind
    <3> QED
      BY Zenon, <1>2, <3>1 DEF Behind
  <2> QED
    BY Zenon, <1>1, <1>3, <2>1, CopiesStep DEF Quiet
<1>5. SentInv'
  BY Zenon, <1>1, <1>3, MsgKept DEF Quiet, SentInv
<1>6. \A c \in Commands : Told(c)' => Told(c)
  BY Zenon DEF Quiet, Told
<1>7. WorkInv'
  <2> SUFFICES ASSUME NEW w \in Workers, work'[w] # Idle PROVE JobOK(w)'
    BY Zenon DEF WorkInv
  <2>1. work'[w] = work[w] /\ JobOK(w)
    BY Zenon, <1>1 DEF Quiet, WorkInv
  <2>2. work[w].id \in Commands
    BY Zenon, <2>1 DEF TypeInv, TrafficOK, Jobs
  <2>3. \A v \in Workers : work'[v] # Idle => v = w
    BY Zenon, <2>1 DEF Quiet, JobOK
  <2>4. work'[w].pc = "publish" => coordRoom' = work'[w].room
    <3> SUFFICES ASSUME work[w].pc = "publish" PROVE coordRoom' = work[w].room
      BY Zenon, <2>1
    <3>1. work[w].pc # "storeRoom"
      BY Zenon
    <3> QED
      BY Zenon, <2>1, <3>1 DEF Quiet, JobOK
  <2>5. runs'[work'[w].id] = 1 => ~Told(work[w].id)'
    <3>1. PICK c \in Commands : c = work[w].id
      BY Zenon, <2>2
    <3>2. runs'[c] = 1 => ~Told(c)'
      BY Zenon, <1>2, <1>6, <2>1, <3>1 DEF JobOK
    <3> QED
      BY Zenon, <2>1, <3>1, <3>2 DEF Told
  <2>6. work'[w].pc \in {"storeRoom", "storeEvent"} => Fresh(work[w].event)'
    BY Zenon, <1>2, <2>1 DEF JobOK, Fresh
  <2> QED
    BY Zenon, <1>2, <2>1, <2>3, <2>4, <2>5, <2>6 DEF JobOK
<1>8. LogInv'
  BY Zenon, <1>1, <1>2, <1>3, LogSame
<1>9. AgentInv'
  <2>1. ASSUME NEW c \in Commands, reply'[c] = "ok"
        PROVE  cmd'[c] # None /\ runs'[c] >= 1 /\ Kept(c)'
    <3>1. Told(c)
      BY Zenon, <2>1 DEF Quiet
    <3>2. cmd[c] # None /\ runs[c] >= 1 /\ Kept(c)
      BY Zenon, <1>1, <3>1, ToldHas
    <3>3. Kept(c)'
      BY Zenon, <1>3, <3>2, KeptKept
    <3> QED
      BY Zenon, <1>2, <3>2, <3>3 DEF CmdKept
  <2>2. ASSUME NEW e \in logged', e.seq + 1 = room'[Home].next, Told(e.id)', runs'[e.id] = 1
        PROVE  coordRoom' = room'[Home]
    <3>1. e \in logged /\ e.id \in Commands
      BY Zenon, <1>2 DEF TypeInv, TypeOK, Events
    <3>2. Told(e.id) /\ e.seq + 1 = room[Home].next /\ runs[e.id] = 1
      BY Zenon, <1>2, <1>6, <2>2, <3>1
    <3>3. coordRoom = room[Home]
      BY Zenon, <1>1, <3>1, <3>2 DEF AgentInv
    <3> QED
      BY Zenon, <1>2, <3>3 DEF Quiet
  <2>3. \A h \in Handles : NodeOf[h] = Home =>
          lastSeen'[h] = 0 \/ (room'[Home] # None /\ lastSeen'[h] < room'[Home].next)
    BY Zenon, <1>1, <1>2 DEF Quiet, AgentInv
  <2> QED
    BY Zenon, <2>1, <2>2, <2>3 DEF AgentInv
<1> QED
  BY Zenon, <1>4, <1>5, <1>7, <1>8, <1>9 DEF RoomInv

\* Nothing that Quiet leaves open, but the part a step is about.
LEMMA StillQuiet ==
  ASSUME TypeInv, NEW c \in Commands
  PROVE  reply[c] = "ok" => Told(c)
  BY Zenon DEF Told

\* A peer map brings the room as coord has it.
LEMMA UpdateStep ==
  ASSUME TypeInv, TypeInv', RoomInv, NEW n \in Nodes, UpdateRooms(n)
  PROVE  RoomInv'
<1>1. /\ UNCHANGED <<log, logged, runs, room, cmd, work, reply, sent, coordRoom, lastSeen>>
      /\ known' = [known EXCEPT ![n] = coordRoom] /\ coordRoom # None
  BY Zenon DEF UpdateRooms, storeVars, cmdVars, seenVars
<1>2. \A k \in Nodes : known'[k] = known[k] \/ Behind(known[k])'
  <2>1. Behind(coordRoom)
    BY Zenon, <1>1 DEF RoomInv, CopiesInv
  <2>2. \A k \in Nodes : known'[k] = known[k] \/ known'[k] = coordRoom
    BY Zenon, <1>1 DEF TypeInv, TypeOK
  <2> QED
    BY Zenon, <1>1, <2>1, <2>2 DEF Behind
<1>3. Quiet
  BY Zenon, <1>1, <1>2, StillQuiet DEF Quiet, CmdKept
<1> QED
  BY Zenon, <1>3, QuietStep

\* A deadline passes, or a daemon starts again.
LEMMA WaitStep ==
  ASSUME TypeInv, TypeInv', RoomInv,
         (\E c \in Commands : TimesOut(c)) \/ (\E n \in Nodes : Restart(n))
  PROVE  RoomInv'
<1>1. UNCHANGED <<log, logged, runs, room, known, cmd, work, sent, coordRoom, lastSeen>>
  BY Zenon DEF TimesOut, Restart, storeVars, cmdVars, seenVars
<1>2. \A d \in Commands : reply'[d] = "ok" => reply[d] = "ok"
  BY Zenon DEF TimesOut, Restart, cmdVars, TypeInv, TypeOK
<1>3. Quiet
  BY Zenon, <1>1, <1>2, StillQuiet DEF Quiet, CmdKept
<1> QED
  BY Zenon, <1>3, QuietStep

\* A daemon crashes.
LEMMA CrashStep ==
  ASSUME TypeInv, TypeInv', RoomInv, NEW n \in Nodes, Crash(n)
  PROVE  RoomInv'
<1>1. UNCHANGED <<log, logged, runs, room, cmd, sent, coordRoom, lastSeen>>
  BY Zenon DEF Crash, storeVars, seenVars
<1>2. \A d \in Commands : reply'[d] = "ok" => reply[d] = "ok"
  BY Zenon DEF Crash
<1>3. \A k \in Nodes : known'[k] = known[k] \/ known'[k] = None
  BY Zenon DEF Crash, TypeInv, TypeOK
<1>4. \A w \in Workers : work'[w] = Idle \/ work'[w] = work[w]
  BY Zenon DEF Crash
<1>5. Quiet
  BY Zenon, <1>1, <1>2, <1>3, <1>4, StillQuiet DEF Quiet, CmdKept
<1> QED
  BY Zenon, <1>5, QuietStep

\* A result arrives: never at the home daemon.
LEMMA ResultStep ==
  ASSUME TypeInv, TypeInv', RoomInv, NEW m \in sent, HandleRemoteCommandResult(m)
  PROVE  RoomInv'
<1>1. PICK n : n = NodeOf[cmd[m.id].handle]
  BY Zenon
<1>2. /\ UNCHANGED <<log, logged, runs, known, cmd, work, sent, coordRoom, lastSeen>>
      /\ m.kind = "result"
      /\ room' = IF m.room = None THEN room ELSE [room EXCEPT ![n] = m.room]
  BY Zenon, <1>1 DEF HandleRemoteCommandResult, seenVars
<1>3. n # Home /\ (m.room # None => Behind(m.room))
  BY Zenon, <1>1, <1>2 DEF RoomInv, SentInv, MsgOK
<1>4. \A k \in Nodes : room'[k] = room[k] \/ (k # Home /\ m.room # None /\ room'[k] = m.room)
  BY Zenon, <1>2, <1>3 DEF TypeInv, TypeOK
<1>5. room'[Home] = room[Home]
  BY Zenon, <1>4, PlacementAssumption
<1>6. \A k \in Nodes : room'[k] = room[k] \/ Behind(room[k])'
  BY Zenon, <1>3, <1>4, <1>5 DEF Behind
<1>7. \A d \in Commands : reply'[d] = "ok" => reply[d] = "ok" \/ (d = m.id /\ m.ok)
  BY Zenon DEF HandleRemoteCommandResult, TypeInv, TypeOK
<1>8. \A d \in Commands : reply'[d] = "ok" => Told(d)
  BY Zenon, <1>2, <1>7 DEF Told
<1>9. Quiet
  BY Zenon, <1>2, <1>5, <1>6, <1>8 DEF Quiet, CmdKept
<1> QED
  BY Zenon, <1>9, QuietStep

\* An event arrives: never at the home daemon.
LEMMA EventStep ==
  ASSUME TypeInv, TypeInv', RoomInv, NEW m \in sent, HandleRoomEvent(m), ~misled'
  PROVE  /\ RoomInv'
         /\ \A h \in Handles : NodeOf[h] = Home => lastSeen'[h] = lastSeen[h]
<1>1. m.kind = "event" /\ UNCHANGED <<log, logged, runs, known, cmd, reply, work, sent, coordRoom>>
  BY Zenon DEF HandleRoomEvent, cmdVars
<1>2. m \in CommandMsg \union ResultMsg \union EventMsg
  BY Zenon DEF TypeInv, TrafficOK
<1>3. PICK e \in Events, n \in Nodes : e = m.event /\ n = m.to
  BY Zenon, <1>1, <1>2 DEF CommandMsg, ResultMsg, EventMsg
<1>4. n # Home /\ e \in logged
  BY Zenon, <1>1, <1>3 DEF RoomInv, SentInv, MsgOK
<1>5. PICK x : x = CacheRoomFromEvent(room[n], e)
  BY Zenon
<1>6. room' = [room EXCEPT ![n] = x] /\ Deliver(e, n) /\ misled' = (misled \/ room'[n].home # Home)
  BY Zenon, <1>3, <1>5 DEF HandleRoomEvent
<1>7. /\ \A k \in Nodes : room'[k] = room[k] \/ (k = n /\ room'[k] = x)
      /\ room'[n] = x /\ room[n] \in Rooms \union {None}
  BY Zenon, <1>6 DEF TypeInv, TypeOK
<1>8. room'[Home] = room[Home] /\ x.home = Home
  BY Zenon, <1>4, <1>6, <1>7, PlacementAssumption
<1>9. room[Home] # None /\ x.next <= room[Home].next
  <2>1. room[Home] # None /\ e.seq < room[Home].next
    BY Zenon, <1>4 DEF RoomInv, LogInv
  <2>2. x.next = e.seq + 1 \/ (room[n] # None /\ x.next = room[n].next)
    BY Zenon, <1>5, <1>7, CacheType
  <2>3. room[n] # None => room[n].next <= room[Home].next
    BY Zenon DEF RoomInv, CopiesInv, Behind
  <2>4. e.seq \in Nat /\ room[Home].next \in Nat
    BY Zenon, <2>1, PlacementAssumption DEF Events, Rooms, TypeInv, TypeOK
  <2> QED
    BY <2>1, <2>2, <2>3, <2>4
<1>10. \A k \in Nodes : room'[k] = room[k] \/ Behind(room[k])'
  BY Zenon, <1>7, <1>8, <1>9 DEF Behind
<1>11. \A h \in Handles : NodeOf[h] = Home => lastSeen'[h] = lastSeen[h]
  BY Zenon, <1>4, <1>6 DEF Deliver
<1>12. Quiet
  BY Zenon, <1>1, <1>8, <1>10, <1>11, StillQuiet DEF Quiet, CmdKept
<1> QED
  BY Zenon, <1>11, <1>12, QuietStep

\* A goroutine of the home daemon.
LEMMA BusyJob ==
  ASSUME TypeInv, RoomInv, NEW w \in Workers,
         work[w].pc \in {"storeRoom", "storeEvent", "upsert", "publish"}
  PROVE  /\ JobOK(w) /\ work[w] \in Jobs /\ work[w].at = Home
         /\ work[w].room \in Rooms /\ work[w].event \in Events /\ work[w].id \in Commands
         /\ cmd[work[w].id] \in Requests
<1>1. /\ work[w] # Idle /\ work[w] \in Jobs /\ work[w].room \in Rooms /\ work[w].event \in Events
      /\ work[w].id \in Commands /\ cmd[work[w].id] \in Requests
  BY Zenon, BusyType
<1>2. JobOK(w)
  BY Zenon, <1>1 DEF RoomInv, WorkInv
<1> QED
  BY Zenon, <1>1, <1>2 DEF JobOK

\* A step of persistAndPublish fails.
LEMMA FailStep ==
  ASSUME TypeInv, TypeInv', RoomInv, NEW w \in Workers,
         work[w].pc \in {"storeRoom", "storeEvent", "upsert", "publish"}, Fails(w),
         UNCHANGED <<room, log, logged, runs, known, lastSeen>>,
         coordRoom' = coordRoom \/ (work[w].pc # "storeRoom" /\ coordRoom' = work[w].room)
  PROVE  RoomInv'
<1>1. /\ JobOK(w) /\ work[w].at = Home /\ work[w].id \in Commands
  BY Zenon, BusyJob
<1>2. PICK c \in Commands : c = work[w].id
  BY Zenon, <1>1
<1>3. PICK z : z = {}
  BY Zenon
<1>4. cmd' = cmd /\ CmdKept /\ Finish(c, Home, FALSE, None, z) /\ work' = [work EXCEPT ![w] = Idle]
  BY Zenon, <1>1, <1>2, <1>3 DEF Fails, CmdKept
<1>5. /\ FALSE \in BOOLEAN /\ None \in Rooms \union {None} /\ Home \in Nodes
      /\ reply \in [Commands -> {"none", "waiting", "ok", "error"}]
  BY Zenon, PlacementAssumption DEF TypeInv, TypeOK
<1>6. Ends(c, Home, FALSE, None, z)
  BY Zenon, <1>4, <1>5, FinishEnds
<1>7. ASSUME NEW m \in sent', m \notin sent
      PROVE  MsgOK(m)' /\ ~(m.kind = "result" /\ m.ok)
  <2>1. /\ m \in ResultMsg /\ m.id = c /\ m.ok = FALSE
        /\ NodeOf[cmd'[c].handle] # Home /\ m.room = None
    BY Zenon, <1>3, <1>6, <1>7 DEF Ends
  <2>2. m.kind = "result" /\ m.kind # "command" /\ m.kind # "event"
    BY Zenon, <2>1 DEF ResultMsg
  <2> QED
    BY Zenon, <2>1, <2>2 DEF MsgOK
<1>8. \A d \in Commands : reply'[d] = "ok" => Told(d)
  BY Zenon, <1>6 DEF Ends, Told
<1>9. \A v \in Workers : work'[v] = Idle \/ work'[v] = work[v]
  BY Zenon, <1>4 DEF TypeInv, TrafficOK
<1>10. coordRoom' = coordRoom \/ (room[Home] # None /\ coordRoom' = room[Home])
  BY Zenon, <1>1 DEF JobOK
<1>11. Quiet
  BY Zenon, <1>4, <1>7, <1>8, <1>9, <1>10 DEF Quiet
<1> QED
  BY Zenon, <1>11, QuietStep

\* An agent's command is sent to the home daemon.
LEMMA ForwardStep ==
  ASSUME TypeInv, TypeInv', RoomInv, CmdKept, NEW c \in Commands, NEW r \in Rooms, r.home = Home,
         reply' = [reply EXCEPT ![c] = "waiting"],
         sent' = sent \union {[kind |-> "command", id |-> c, to |-> r.home]},
         UNCHANGED <<room, log, logged, runs, known, coordRoom, lastSeen, work>>
  PROVE  RoomInv'
<1>1. PICK m : m = [kind |-> "command", id |-> c, to |-> Home]
  BY Zenon
<1>2. m.kind = "command" /\ m.to = Home /\ m.kind # "result" /\ m.kind # "event"
  BY Zenon, <1>1
<1>3. \A k \in sent' : k \in sent \/ k = m
  BY Zenon, <1>1
<1>4. \A d \in Commands : reply'[d] = "ok" => reply[d] = "ok"
  BY Zenon DEF TypeInv, TypeOK
<1>5. \A k \in sent' : k \in sent \/ (MsgOK(k)' /\ ~(k.kind = "result" /\ k.ok))
  BY Zenon, <1>2, <1>3 DEF MsgOK
<1>6. Quiet
  BY Zenon, <1>4, <1>5, StillQuiet DEF Quiet
<1> QED
  BY Zenon, <1>6, QuietStep

\* Nothing runs on the home daemon, so nothing runs.
LEMMA AllIdle ==
  ASSUME RoomInv, ~Busy(Home), NEW w \in Workers
  PROVE  work[w] = Idle
  BY Zenon DEF RoomInv, WorkInv, JobOK, Busy

\* What the home daemon knows of the room is its own room.
LEMMA HomeResolves == ASSUME RoomInv PROVE ResolveRoomInfo(Home) = room[Home]
<1>1. room[Home] = None => known[Home] = None
  BY Zenon, PlacementAssumption DEF RoomInv, CopiesInv, Behind
<1> QED
  BY Zenon, <1>1 DEF ResolveRoomInfo

\* executeCommand on the home daemon, which executes nothing else.
LEMMA ExecuteStep ==
  ASSUME Serial, TypeInv, TypeInv', RoomInv, CmdKept, NEW w \in Workers, NEW c \in Commands,
         cmd'[c] \in Requests, Execute(w, c, Home, room[Home]),
         UNCHANGED <<storeVars, coordRoom, known, seenVars>>
  PROVE  RoomInv'
<1>1. CopiesInv /\ SentInv /\ WorkInv /\ LogInv /\ AgentInv
  BY Zenon DEF RoomInv
<1>2. /\ UNCHANGED <<room, log, logged, coordRoom, known, lastSeen>>
      /\ runs' = [runs EXCEPT ![c] = @ + 1] /\ ~Busy(Home)
      /\ Home \in Nodes /\ room[Home] \in Rooms \union {None}
      /\ cmd'[c] # None
  BY Zenon, PlacementAssumption, NoneAssumption DEF Execute, storeVars, seenVars, TypeInv, TypeOK
<1>3. \A v \in Workers : work[v] = Idle
  BY Zenon, <1>2, AllIdle
<1>4. /\ runs'[c] = runs[c] + 1 /\ runs[c] \in Nat
      /\ \A d \in Commands : runs[d] <= runs'[d] /\ (d # c => runs'[d] = runs[d])
  <2>1. runs \in [Commands -> Nat] /\ runs' = [runs EXCEPT ![c] = runs[c] + 1]
    BY Zenon, <1>2 DEF TypeInv, TypeOK
  <2> QED
    BY <2>1
<1>5. Grows
  <2>1. room[Home] # None => room'[Home] # None /\ room[Home].next <= room'[Home].next
    <3>1. room' = room /\ (room[Home] # None => room[Home] \in Rooms)
      BY Zenon, <1>2
    <3> QED
      BY Zenon, <3>1, NextIsNat
  <2> QED
    BY Zenon, <1>2, <1>4, <2>1 DEF Grows
<1>6. CopiesInv' /\ LogInv'
  BY Zenon, <1>1, <1>2, <1>5, CopiesStep, LogSame
<1>7. \A h \in Handles : NodeOf[h] = Home =>
          lastSeen'[h] = 0 \/ (room'[Home] # None /\ lastSeen'[h] < room'[Home].next)
  BY Zenon, <1>1, <1>2 DEF AgentInv
<1>8. ASSUME NEW d \in Commands, reply[d] = "ok"
      PROVE  cmd'[d] # None /\ runs'[d] >= 1 /\ Kept(d)'
  <2>1. cmd[d] # None /\ runs[d] >= 1 /\ Kept(d)
    BY Zenon, <1>1, <1>8 DEF AgentInv
  <2>2. runs[d] \in Nat /\ runs'[d] \in Nat /\ runs[d] <= runs'[d]
    BY Zenon, <1>4 DEF TypeInv, TypeOK
  <2>3. runs'[d] >= 1
    <3>1. PICK x, y : x = runs[d] /\ y = runs'[d]
      BY Zenon
    <3>2. x >= 1 /\ x \in Nat /\ y \in Nat /\ x <= y
      BY Zenon, <2>1, <2>2, <3>1
    <3>3. y >= 1
      BY <3>2
    <3> QED
      BY Zenon, <3>1, <3>3
  <2> QED
    BY Zenon, <1>5, <2>1, <2>3, KeptKept DEF CmdKept
<1>9. ASSUME NEW e \in logged, e.seq + 1 = room'[Home].next, runs'[e.id] = 1,
             e.id # c => Told(e.id)
      PROVE  coordRoom' = room'[Home]
  <2>1. e.id \in Commands /\ runs[e.id] >= 1
    BY Zenon, <1>1, <1>9 DEF LogInv, TypeInv, TypeOK, Events
  <2>2. e.id # c
    <3>1. PICK x : x = runs[c]
      BY Zenon
    <3>2. e.id = c => x >= 1 /\ x \in Nat /\ x + 1 = 1
      BY Zenon, <1>4, <1>9, <2>1, <3>1
    <3>3. ~(x >= 1 /\ x \in Nat /\ x + 1 = 1)
      OBVIOUS
    <3> QED
      BY Zenon, <3>2, <3>3
  <2>3. runs[e.id] = 1 /\ e.seq + 1 = room[Home].next /\ Told(e.id)
    BY Zenon, <1>2, <1>4, <1>9, <2>1, <2>2
  <2> QED
    BY Zenon, <1>1, <1>2, <1>9, <2>3 DEF AgentInv
<1>10. ASSUME NEW ok \in BOOLEAN, NEW s \in Rooms \union {None}, Finish(c, Home, ok, s, {}), work' = work,
              s # None => s = room[Home], ok => cmd'[c].type \in {"read", "join"}
       PROVE  SentInv' /\ WorkInv' /\ AgentInv'
  <2>1. PICK z : z = {}
    BY Zenon
  <2>2. reply \in [Commands -> {"none", "waiting", "ok", "error"}] /\ Finish(c, Home, ok, s, z)
    BY Zenon, <1>10, <2>1 DEF TypeInv, TypeOK
  <2>3. Ends(c, Home, ok, s, z)
    BY Zenon, <1>2, <2>2, FinishEnds
  <2>4. ASSUME NEW m \in sent', m \notin sent
        PROVE  /\ m \in ResultMsg /\ m.id = c /\ m.ok = ok
               /\ NodeOf[cmd'[c].handle] # Home /\ (m.room # None => m.room = s)
    BY Zenon, <2>1, <2>3, <2>4 DEF Ends
  <2>5. ok => Kept(c)'
    <3>1. ok => cmd'[c].type \notin {"post", "close"}
      BY Zenon, <1>10
    <3> QED
      BY Zenon, <3>1 DEF Kept
  <2>6. runs'[c] >= 1
    BY <1>4
  <2>7. SentInv'
    <3> SUFFICES ASSUME NEW m \in sent' PROVE MsgOK(m)'
      BY Zenon DEF SentInv
    <3>1. CASE m \in sent
      BY Zenon, <1>1, <1>5, <3>1, MsgKept DEF SentInv
    <3>2. CASE m \notin sent
      <4>1. /\ m \in ResultMsg /\ m.id = c /\ m.ok = ok
            /\ NodeOf[cmd'[c].handle] # Home /\ (m.room # None => m.room = s)
        BY Zenon, <2>4, <3>2
      <4>2. m.kind = "result" /\ m.kind # "command" /\ m.kind # "event"
        BY Zenon, <4>1 DEF ResultMsg
      <4>3. m.room # None => Behind(m.room)'
        <5>1. room[Home] # None => Behind(room[Home])
          BY Zenon, <1>1, <1>2 DEF CopiesInv
        <5> QED
          BY Zenon, <1>2, <1>10, <4>1, <5>1 DEF Behind
      <4> QED
        BY Zenon, <2>5, <2>6, <4>1, <4>2, <4>3 DEF MsgOK
    <3> QED
      BY Zenon, <3>1, <3>2
  <2>8. WorkInv'
    BY Zenon, <1>3, <1>10 DEF WorkInv
  <2>9. \A d \in Commands : d # c /\ Told(d)' => Told(d)
    BY Zenon, <2>3, <2>4 DEF Told, Ends
  <2>10. \A d \in Commands : reply'[d] = "ok" => cmd'[d] # None /\ runs'[d] >= 1 /\ Kept(d)'
    BY Zenon, <1>2, <1>8, <2>3, <2>5, <2>6 DEF Ends
  <2>11. \A e \in logged' : (e.seq + 1 = room'[Home].next /\ Told(e.id)' /\ runs'[e.id] = 1) =>
                               coordRoom' = room'[Home]
    <3>1. \A e \in logged : e.id \in Commands
      BY Zenon DEF TypeInv, TypeOK, Events
    <3> QED
      BY Zenon, <1>2, <1>9, <2>9, <3>1
  <2> QED
    BY Zenon, <1>7, <2>7, <2>8, <2>10, <2>11 DEF AgentInv
<1>11. ASSUME NEW x, Starts(x, c, Home, room[Home]), room[Home] # None, work' = [work EXCEPT ![w] = x],
              UNCHANGED <<reply, sent>>
       PROVE  SentInv' /\ WorkInv' /\ AgentInv'
  <2>1. SentInv'
    BY Zenon, <1>1, <1>5, <1>11, MsgKept DEF SentInv
  <2>2. \A d \in Commands : Told(d)' => Told(d)
    BY Zenon, <1>11 DEF Told
  <2>3. /\ \A d \in Commands : reply'[d] = "ok" => cmd'[d] # None /\ runs'[d] >= 1 /\ Kept(d)'
    BY Zenon, <1>8, <1>11
  <2>4. \A e \in logged' : (e.seq + 1 = room'[Home].next /\ Told(e.id)' /\ runs'[e.id] = 1) =>
                              coordRoom' = room'[Home]
    <3>1. \A e \in logged : e.id \in Commands
      BY Zenon DEF TypeInv, TypeOK, Events
    <3> QED
      BY Zenon, <1>2, <1>9, <2>2, <3>1
  <2>5. AgentInv'
    BY Zenon, <1>7, <2>3, <2>4 DEF AgentInv
  <2>6. /\ x \in Jobs /\ x.pc = "storeRoom" /\ x.at = Home /\ x.id = c /\ x.event.id = c
        /\ x.room.home = room[Home].home /\ x.room.next = room[Home].next + 1
        /\ x.event.seq = room[Home].next
        /\ (x.event.type = "close" \/ room[Home].status = "closed") => x.room.status = "closed"
        /\ x.event.type \notin {"leave", "close"} => room[Home].status = "open"
    BY Zenon, <1>11 DEF Starts
  <2>7. /\ work'[w] = x /\ \A v \in Workers : work'[v] # Idle => v = w
    BY Zenon, <1>3, <1>11 DEF TypeInv, TrafficOK
  <2>8. room[Home].home = Home
    BY Zenon, <1>1, <1>2, <1>11 DEF CopiesInv, Behind
  <2>9. Fresh(x.event)'
    <3>1. \A f \in logged : f.seq < x.event.seq
      BY Zenon, <1>1, <2>6 DEF LogInv
    <3>2. x.event.type \notin {"leave", "close"} => \A f \in logged : f.type # "close"
      <4>1. "open" # "closed"
        BY Zenon
      <4> QED
        BY Zenon, <1>1, <2>6, <4>1 DEF LogInv
    <3> QED
      BY Zenon, <1>2, <3>1, <3>2 DEF Fresh
  <2>10. runs'[c] = 1 => ~Told(c)'
    <3>1. Told(c) => runs[c] >= 1
      BY Zenon, <1>1, ToldHas
    <3>2. runs'[c] = 1 => runs[c] = 0
      BY <1>4
    <3>3. ~(0 >= 1)
      OBVIOUS
    <3> QED
      BY Zenon, <2>2, <3>1, <3>2, <3>3
  <2>11. JobOK(w)'
    <3>1. runs'[c] >= 1 /\ x.pc # "publish" /\ x.pc \notin {"upsert", "publish"}
      BY <1>4, <2>6
    <3>2. Told(work[w].id)' => Told(c)'
      BY Zenon, <2>6, <2>7 DEF Told
    <3>3. Fresh(work[w].event)'
      BY Zenon, <2>7, <2>9 DEF Fresh
    <3> QED
      BY Zenon, <1>2, <1>11, <2>6, <2>7, <2>8, <2>10, <3>1, <3>2, <3>3 DEF JobOK
  <2>12. WorkInv'
    BY Zenon, <2>7, <2>11 DEF WorkInv
  <2> QED
    BY Zenon, <2>1, <2>5, <2>12
<1>12. SentInv' /\ WorkInv' /\ AgentInv'
  <2>1. None \in Rooms \union {None} /\ TRUE \in BOOLEAN /\ FALSE \in BOOLEAN
    BY Zenon
  <2> QED
    BY Zenon, <1>2, <1>10, <1>11, <2>1, ExecuteCases
<1> QED
  BY Zenon, <1>6, <1>12 DEF RoomInv

-----------------------------------------------------------------------------
(* The window of the log.                                                  *)

\* The least of a set of numbers is one of them.
LEMMA MinIsLeast ==
  ASSUME SizeLaws, NEW T \in SUBSET Nat, T # {}
  PROVE  Min(T) \in T /\ \A y \in T : Min(T) <= y
  BY Zenon DEF SizeLaws, LeastExists, Min

\* StoreRoomEvent appends an event and keeps the newest ones.
LEMMA WindowAppend ==
  ASSUME SizeLaws, NEW S \in SUBSET Events, NEW L, Window(S, L),
         \A g, f \in S : g.seq = f.seq => g = f,
         NEW e \in Events, \A f \in S : f.seq < e.seq
  PROVE  Window(S \union {e}, Retain(L \union {e}))
<1>1. /\ IsFiniteSet(S) /\ L \subseteq S /\ Cardinality(L) <= Retention
      /\ L = S \/ Cardinality(L) = Retention
      /\ \A g \in L, f \in S : f.seq > g.seq => f \in L
  BY Zenon DEF Window
<1>2. \A f \in S : f.seq \in Nat /\ f.seq < e.seq /\ e.seq \in Nat
  BY Zenon DEF Events
<1>3. e \notin S /\ e \notin L
  BY <1>1, <1>2
<1>4. IsFiniteSet(L) /\ IsFiniteSet(S \union {e}) /\ Cardinality(L) \in Nat
  BY Zenon, <1>1 DEF SizeLaws, SizeOfPart, SizeWith, SizeIsNat
<1>5. PICK M : M = L \union {e}
  BY Zenon
<1>6. IsFiniteSet(M) /\ Cardinality(M) = Cardinality(L) + 1
  BY Zenon, <1>3, <1>4, <1>5 DEF SizeLaws, SizeWith
<1>7. M \subseteq S \union {e} /\ \A g \in M : g.seq \in Nat
  BY Zenon, <1>1, <1>5 DEF Events
<1>8. ASSUME NEW g \in M, NEW f \in S \union {e}, f.seq > g.seq
      PROVE  f \in M
  <2>1. CASE f = e
    BY Zenon, <1>5, <2>1
  <2>2. CASE f # e
    <3>1. f \in S /\ f.seq < e.seq /\ f.seq \in Nat /\ e.seq \in Nat
      BY Zenon, <1>2, <2>2
    <3>2. g # e
      BY <1>8, <3>1
    <3>3. g \in L
      BY Zenon, <1>5, <3>2
    <3> QED
      BY Zenon, <1>1, <1>5, <1>8, <3>1, <3>3
  <2> QED
    BY Zenon, <2>1, <2>2
<1>9. Retention \in Nat
  BY Zenon, RoomBounds
<1>10. CASE Cardinality(L) # Retention
  <2>1. L = S /\ ~(Cardinality(M) > Retention) /\ Cardinality(M) <= Retention
    BY <1>1, <1>4, <1>6, <1>9, <1>10
  <2>2. Retain(M) = M /\ M = S \union {e}
    BY Zenon, <1>5, <2>1 DEF Retain
  <2> QED
    BY Zenon, <1>4, <1>5, <1>7, <1>8, <2>1, <2>2 DEF Window
<1>11. CASE Cardinality(L) = Retention
  <2>1. Cardinality(M) > Retention
    BY <1>6, <1>9, <1>11
  <2>2. PICK T : T = {f.seq : f \in M}
    BY Zenon
  <2>3. T \in SUBSET Nat /\ T # {}
    BY <1>5, <1>7, <2>2
  <2>4. Min(T) \in T /\ \A y \in T : Min(T) <= y
    BY Zenon, <2>3, MinIsLeast
  <2>5. PICK o \in M : o.seq = Min(T) /\ \A g \in M : o.seq <= g.seq
    BY Zenon, <2>2, <2>4
  <2>6. Retain(M) = {g \in M : g.seq # o.seq}
    BY Zenon, <2>1, <2>2, <2>5 DEF Retain
  <2>7. \A g \in M : g.seq = o.seq => g = o
    <3>1. ASSUME NEW g \in M, g.seq = o.seq PROVE g = o
      <4>1. g \in S \/ g = e
        BY Zenon, <1>7
      <4>2. o \in S \/ o = e
        BY Zenon, <1>7, <2>5
      <4>3. CASE g \in S /\ o \in S
        BY Zenon, <3>1, <4>3
      <4>4. ~(g \in S /\ o = e) /\ ~(o \in S /\ g = e)
        BY <1>2, <3>1
      <4> QED
        BY Zenon, <4>1, <4>2, <4>3, <4>4
    <3> QED
      BY Zenon, <3>1
  <2>8. Retain(M) = M \ {o}
    BY Zenon, <2>6, <2>7
  <2>9. Cardinality(M \ {o}) = Retention
    <3>1. Cardinality(M \ {o}) = Cardinality(M) - 1
      BY Zenon, <1>6, <2>5 DEF SizeLaws, SizeWithout
    <3> QED
      BY <1>6, <1>9, <1>11, <3>1
  <2>10. ASSUME NEW g \in M \ {o}, NEW f \in S \union {e}, f.seq > g.seq
         PROVE  f \in M \ {o}
    <3>1. f \in M
      BY Zenon, <1>8, <2>10
    <3>2. f # o
      <4>1. o.seq \in Nat /\ g.seq \in Nat /\ o.seq <= g.seq
        BY Zenon, <1>7, <2>5, <2>10
      <4> QED
        BY <2>10, <4>1
    <3> QED
      BY Zenon, <3>1, <3>2
  <2>11. PICK N : N = M \ {o}
    BY Zenon
  <2>12. N \subseteq S \union {e} /\ Cardinality(N) = Retention /\ Cardinality(N) <= Retention
    BY <1>7, <1>9, <2>9, <2>11
  <2>13. Window(S \union {e}, N)
    BY Zenon, <1>4, <2>10, <2>11, <2>12 DEF Window
  <2> QED
    BY Zenon, <1>5, <2>8, <2>11, <2>13
<1> QED
  BY Zenon, <1>10, <1>11

-----------------------------------------------------------------------------
(* The steps of the home daemon.                                           *)

\* A room command of an agent.
LEMMA CommandStep ==
  ASSUME Serial, TypeInv, TypeInv', RoomInv, NEW c \in Commands, NEW t \in Types, NEW h \in Handles,
         NEW w \in Workers, Command(c, t, h, w)
  PROVE  RoomInv'
<1>1. CmdKept /\ cmd'[c] \in Requests
  BY Zenon, CommandType
<1>2. PICK n \in Nodes, r \in Rooms \union {None} : n = NodeOf[h] /\ r = ResolveRoomInfo(n)
  BY Zenon, ResolveType, PlacementAssumption
<1>3. /\ r # None /\ UNCHANGED <<storeVars, coordRoom, known, seenVars>>
      /\ IF r.home = n
         THEN Execute(w, c, n, r)
         ELSE /\ reply' = [reply EXCEPT ![c] = "waiting"]
              /\ sent' = sent \union {[kind |-> "command", id |-> c, to |-> r.home]}
              /\ UNCHANGED <<work, runs>>
  BY Zenon, <1>2 DEF Command, withRoomControl
<1>4. r \in Rooms /\ r.home = Home
  BY Zenon, <1>2, <1>3 DEF RoomInv, CopiesInv, Behind, ResolveRoomInfo
<1>5. CASE r.home = n
  <2>1. Execute(w, c, Home, room[Home])
    BY Zenon, <1>2, <1>3, <1>4, <1>5, HomeResolves
  <2> QED
    BY Zenon, <1>1, <1>3, <2>1, ExecuteStep
<1>6. CASE r.home # n
  <2>1. UNCHANGED <<room, log, logged, runs, known, coordRoom, lastSeen, work>>
    BY Zenon, <1>3, <1>6 DEF storeVars, seenVars
  <2> QED
    BY Zenon, <1>1, <1>3, <1>4, <1>6, <2>1, ForwardStep
<1> QED
  BY Zenon, <1>5, <1>6

\* A command that arrives.
LEMMA RemoteStep ==
  ASSUME Serial, TypeInv, TypeInv', RoomInv, NEW c \in Commands, NEW n \in Nodes, NEW w \in Workers,
         HandleRemoteCommand(c, n, w)
  PROVE  RoomInv'
<1>1. CmdKept /\ cmd'[c] \in Requests
  BY Zenon, RemoteType
<1>2. PICK m : m = [kind |-> "command", id |-> c, to |-> n]
  BY Zenon
<1>3. m \in sent /\ m.kind = "command" /\ m.to = n
  BY Zenon, <1>2 DEF HandleRemoteCommand
<1>4. n = Home
  BY Zenon, <1>3 DEF RoomInv, SentInv, MsgOK
<1>5. Execute(w, c, Home, room[Home]) /\ UNCHANGED <<storeVars, coordRoom, known, seenVars>>
  BY Zenon, <1>4, HomeResolves DEF HandleRemoteCommand
<1> QED
  BY Zenon, <1>1, <1>5, ExecuteStep

\* A goroutine goes on: only it runs, and no agent is told anything.
LEMMA GoesOn ==
  ASSUME TypeInv, TypeInv', RoomInv, NEW w \in Workers, JobOK(w), work[w] \in Jobs, NEW pc, Goes(w, pc)
  PROVE  /\ CmdKept /\ \A c \in Commands : Told(c)' <=> Told(c)
         /\ work'[w].pc = pc /\ work'[w].at = work[w].at /\ work'[w].id = work[w].id
         /\ work'[w].room = work[w].room /\ work'[w].event = work[w].event
         /\ \A v \in Workers : work'[v] # Idle => v = w
         /\ reply' = reply /\ sent' = sent /\ cmd' = cmd
<1>1. work' = [work EXCEPT ![w].pc = pc] /\ reply' = reply /\ sent' = sent /\ cmd' = cmd
  BY Zenon DEF Goes
<1>2. /\ work'[w].pc = pc /\ work'[w].at = work[w].at /\ work'[w].id = work[w].id
      /\ work'[w].room = work[w].room /\ work'[w].event = work[w].event
      /\ \A v \in Workers : v # w => work'[v] = work[v]
  BY Zenon, <1>1 DEF TypeInv, TrafficOK, Jobs
<1>3. \A v \in Workers : work'[v] # Idle => v = w
  BY Zenon, <1>2 DEF JobOK
<1> QED
  BY Zenon, <1>1, <1>2, <1>3 DEF CmdKept, Told

\* StoreRoom.
LEMMA StoreRoomStep ==
  ASSUME TypeInv, TypeInv', RoomInv, NEW w \in Workers, StoreRoom(w)
  PROVE  RoomInv'
<1>1. /\ work[w].pc = "storeRoom"
      /\ UNCHANGED <<up, crashes, log, coordRoom, known, runs, lastSeen, logged>>
  BY Zenon DEF StoreRoom, seenVars
<1>2. /\ JobOK(w) /\ work[w] \in Jobs /\ work[w].at = Home /\ work[w].room \in Rooms
      /\ work[w].event \in Events /\ work[w].id \in Commands
  BY Zenon, <1>1, BusyJob
<1>3. CASE Fails(w) /\ UNCHANGED room
  <2>1. work[w].pc \in {"storeRoom", "storeEvent", "upsert", "publish"}
    BY Zenon, <1>1
  <2> QED
    BY Zenon, <1>1, <1>3, <2>1, FailStep
<1>4. CASE room' = [room EXCEPT ![work[w].at] = work[w].room] /\ Goes(w, "storeEvent")
  <2>1. CopiesInv /\ SentInv /\ WorkInv /\ LogInv /\ AgentInv
    BY Zenon DEF RoomInv
  <2>2. /\ CmdKept /\ \A c \in Commands : Told(c)' <=> Told(c)
        /\ work'[w].pc = "storeEvent" /\ work'[w].at = Home /\ work'[w].id = work[w].id
        /\ work'[w].room = work[w].room /\ work'[w].event = work[w].event
        /\ \A v \in Workers : work'[v] # Idle => v = w
        /\ reply' = reply /\ sent' = sent /\ cmd' = cmd
    BY Zenon, <1>2, <1>4, GoesOn
  <2>3. room'[Home] = work[w].room /\ \A n \in Nodes : n # Home => room'[n] = room[n]
    BY Zenon, <1>2, <1>4, PlacementAssumption DEF TypeInv, TypeOK
  <2>4. /\ room[Home] # None /\ work[w].room.home = Home
        /\ work[w].room.next = work[w].event.seq + 1 /\ work[w].event.seq = room[Home].next
        /\ room[Home].status = "closed" => work[w].room.status = "closed"
        /\ Fresh(work[w].event) /\ runs[work[w].id] >= 1 /\ work[w].event.id = work[w].id
        /\ work[w].event.type = "close" => work[w].room.status = "closed"
        /\ runs[work[w].id] = 1 => ~Told(work[w].id)
    BY Zenon, <1>1, <1>2 DEF JobOK
  <2>5. /\ room[Home].next \in Nat /\ room'[Home] # None
        /\ room'[Home].next = room[Home].next + 1 /\ room[Home].next <= room'[Home].next
    <3>1. room[Home] \in Rooms
      BY Zenon, <2>4, PlacementAssumption DEF TypeInv, TypeOK
    <3>2. room[Home].next \in Nat
      BY Zenon, <3>1 DEF Rooms
    <3> QED
      BY SMTT(20), <1>2, <2>3, <2>4, <3>2, NoneAssumption
  <2>6. Grows
    <3>1. \A c \in Commands : runs[c] <= runs'[c]
      BY <1>1 DEF TypeInv, TypeOK
    <3> QED
      BY Zenon, <1>1, <2>2, <2>5, <3>1 DEF Grows
  <2>7. Behind(room[Home])'
    <3>1. room'[Home].next <= room'[Home].next
      BY <2>5
    <3> QED
      BY Zenon, <2>3, <2>4, <2>5, <3>1 DEF Behind
  <2>8. CopiesInv'
    BY Zenon, <1>1, <2>1, <2>3, <2>6, <2>7, CopiesStep
  <2>9. SentInv'
    BY Zenon, <2>1, <2>2, <2>6, MsgKept DEF SentInv
  <2>10. LogInv'
    BY Zenon, <1>1, <2>1, <2>3, <2>4, <2>6, LogSame
  <2>11. WorkInv'
    <3>1. Fresh(work[w].event)'
      BY Zenon, <1>1, <2>2, <2>4 DEF Fresh
    <3>2. work'[w].pc # "storeRoom" /\ work'[w].pc \notin {"upsert", "publish"} /\ work'[w].pc # "publish"
      BY Zenon, <2>2
    <3>3. runs'[work[w].id] = 1 => ~Told(work[w].id)'
      <4>1. PICK c \in Commands : c = work[w].id
        BY Zenon, <1>2
      <4>2. Told(work[w].id)' => Told(c)'
        BY Zenon, <2>2, <4>1 DEF Told
      <4>3. runs[c] = 1 => ~Told(c)
        BY Zenon, <2>4, <4>1
      <4> QED
        BY Zenon, <1>1, <2>2, <4>1, <4>2, <4>3
    <3>4. JobOK(w)'
      BY Zenon, <1>1, <2>2, <2>3, <2>4, <2>5, <3>1, <3>2, <3>3 DEF JobOK
    <3> QED
      BY Zenon, <2>2, <3>4 DEF WorkInv
  <2>12. AgentInv'
    <3>1. \A c \in Commands : reply'[c] = "ok" => cmd'[c] # None /\ runs'[c] >= 1 /\ Kept(c)'
      BY Zenon, <1>1, <2>1, <2>2, <2>6, KeptKept DEF AgentInv
    <3>2. \A e \in logged' : e.seq + 1 # room'[Home].next
      <4>1. \A e \in logged : e.seq < room[Home].next /\ e.seq \in Nat
        BY Zenon, <2>1 DEF LogInv, TypeInv, TypeOK, Events
      <4> QED
        BY SMTT(20), <1>1, <2>5, <4>1
    <3>3. \A k \in Handles : NodeOf[k] = Home =>
            lastSeen'[k] = 0 \/ (room'[Home] # None /\ lastSeen'[k] < room'[Home].next)
      <4>1. \A k \in Handles : lastSeen[k] \in Nat
        BY Zenon DEF TypeInv, TypeOK
      <4>2. \A k \in Handles : NodeOf[k] = Home => lastSeen[k] = 0 \/ lastSeen[k] < room[Home].next
        BY Zenon, <2>1 DEF AgentInv
      <4> QED
        BY SMTT(20), <1>1, <2>5, <4>1, <4>2
    <3> QED
      BY Zenon, <3>1, <3>2, <3>3 DEF AgentInv
  <2> QED
    BY Zenon, <2>8, <2>9, <2>10, <2>11, <2>12 DEF RoomInv
<1> QED
  BY Zenon, <1>3, <1>4 DEF StoreRoom

\* The log of the home daemon after StoreRoomEvent.
LEMMA LogAppend ==
  ASSUME SizeLaws, TypeInv, TypeInv', LogInv, Grows, NEW e \in Events, Fresh(e),
         room[Home] # None, room'[Home] = room[Home], e.seq < room[Home].next,
         runs' = runs, runs[e.id] >= 1, e.type = "close" => room[Home].status = "closed",
         logged' = logged \union {e},
         log' = [log EXCEPT ![Home] = Retain({f \in @ : f.seq # e.seq} \union {e})]
  PROVE  LogInv' /\ Window(logged', log'[Home]) /\ log'[Home] = Retain(log[Home] \union {e})
<1>1. PICK L : L = log[Home]
  BY Zenon
<1>2. /\ Window(logged, L) /\ \A g, f \in logged : g.seq = f.seq => g = f
      /\ \A f \in logged : f.seq < e.seq
      /\ e.type \notin {"leave", "close"} => \A f \in logged : f.type # "close"
      /\ logged \in SUBSET Events
  BY Zenon, <1>1 DEF LogInv, Fresh, TypeInv, TypeOK
<1>3. \A f \in logged : f.seq \in Nat /\ e.seq \in Nat
  BY Zenon, <1>2 DEF Events
<1>4. L \subseteq logged
  BY Zenon, <1>2 DEF Window
<1>5. {f \in L : f.seq # e.seq} = L
  BY <1>2, <1>3, <1>4
<1>6. log'[Home] = Retain(L \union {e}) /\ \A n \in Nodes : n # Home => log'[n] = log[n]
  <2>1. PICK z : z = Retain({f \in log[Home] : f.seq # e.seq} \union {e})
    BY Zenon
  <2>2. log' = [log EXCEPT ![Home] = z]
    BY Zenon, <2>1
  <2>3. log'[Home] = z /\ \A n \in Nodes : n # Home => log'[n] = log[n]
    BY Zenon, <2>2, PlacementAssumption DEF TypeInv, TypeOK
  <2> QED
    BY Zenon, <1>1, <1>5, <2>1, <2>3
<1>7. Window(logged', log'[Home])
  <2>1. PICK S \in SUBSET Events : S = logged
    BY Zenon, <1>2
  <2>2. Window(S, L) /\ (\A g, f \in S : g.seq = f.seq => g = f) /\ \A f \in S : f.seq < e.seq
    BY Zenon, <1>2, <2>1
  <2>3. Window(S \union {e}, Retain(L \union {e}))
    BY Zenon, <2>2, WindowAppend
  <2> QED
    BY Zenon, <1>6, <2>1, <2>3
<1>8. \A n \in Nodes \ {Home} : log'[n] = {}
  BY Zenon, <1>6 DEF LogInv
<1>9. \A f \in logged' : room'[Home] # None /\ f.seq < room'[Home].next /\ runs'[f.id] >= 1
  BY Zenon DEF LogInv
<1>10. \A g, f \in logged' : g.seq = f.seq => g = f
  <2>1. \A f \in logged : f.seq # e.seq
    BY <1>2, <1>3
  <2> QED
    BY Zenon, <1>2, <2>1
<1>11. \A f \in logged' : f.type = "close" => room'[Home].status = "closed"
  BY Zenon DEF LogInv
<1>12. ClosedIsFinal'
  <2> SUFFICES ASSUME NEW g \in logged', g.type = "close", NEW f \in logged', f.seq > g.seq
               PROVE  f.type \in {"leave", "close"}
    BY Zenon DEF ClosedIsFinal
  <2>1. CASE g \in logged /\ f \in logged
    BY Zenon, <2>1 DEF LogInv, ClosedIsFinal
  <2>2. CASE g \in logged /\ f = e
    BY Zenon, <1>2, <2>2
  <2>3. CASE g = e
    <3>2. f = e \/ f \in logged
      BY Zenon
    <3>3. f \in logged => ~(f.seq > e.seq)
      BY SMTT(20), <1>2, <1>3
    <3>4. ~(e.seq > e.seq)
      BY DEF Events
    <3> QED
      BY Zenon, <2>3, <3>2, <3>3, <3>4
  <2> QED
    BY Zenon, <2>1, <2>2, <2>3
<1> QED
  BY Zenon, <1>1, <1>6, <1>7, <1>8, <1>9, <1>10, <1>11, <1>12 DEF LogInv

\* StoreRoomEvent, when the event is stored.
LEMMA LoggedStep ==
  ASSUME SizeLaws, TypeInv, TypeInv', RoomInv, NEW w \in Workers, work[w].pc = "storeEvent",
         Goes(w, "upsert"), logged' = logged \union {work[w].event},
         log' = [log EXCEPT ![Home] = Retain({f \in @ : f.seq # work[w].event.seq} \union {work[w].event})],
         UNCHANGED <<room, coordRoom, known, runs, lastSeen>>
  PROVE  RoomInv' /\ Fresh(work[w].event) /\ log'[Home] = Retain(log[Home] \union {work[w].event})
<1>1. CopiesInv /\ SentInv /\ WorkInv /\ LogInv /\ AgentInv
  BY Zenon DEF RoomInv
<1>2. /\ JobOK(w) /\ work[w] \in Jobs /\ work[w].at = Home /\ work[w].room \in Rooms
      /\ work[w].event \in Events /\ work[w].id \in Commands
  BY Zenon, BusyJob
<1>3. /\ CmdKept /\ \A c \in Commands : Told(c)' <=> Told(c)
      /\ work'[w].pc = "upsert" /\ work'[w].at = Home /\ work'[w].id = work[w].id
      /\ work'[w].room = work[w].room /\ work'[w].event = work[w].event
      /\ \A v \in Workers : work'[v] # Idle => v = w
      /\ reply' = reply /\ sent' = sent /\ cmd' = cmd
  BY Zenon, <1>2, GoesOn
<1>4. PICK e \in Events, c \in Commands : e = work[w].event /\ c = work[w].id
  BY Zenon, <1>2
<1>5. /\ room[Home] # None /\ room[Home] = work[w].room /\ work[w].room.home = Home
      /\ work[w].room.next = e.seq + 1 /\ Fresh(e) /\ runs[c] >= 1 /\ e.id = c
      /\ e.type = "close" => work[w].room.status = "closed"
      /\ runs[c] = 1 => ~Told(c)
  BY Zenon, <1>2, <1>4 DEF JobOK
<1>6. e.seq \in Nat /\ e.seq < room[Home].next
  <2>1. PICK x : x = e.seq
    BY Zenon
  <2>2. x \in Nat /\ room[Home].next = x + 1
    BY Zenon, <1>5, <2>1, SeqIsNat
  <2>3. x < x + 1
    BY <2>2
  <2> QED
    BY Zenon, <2>1, <2>2, <2>3
<1>7. Grows
  <2>1. \A d \in Commands : runs[d] <= runs'[d]
    BY Zenon, RunsStay
  <2>2. room[Home].next <= room'[Home].next
    <3>1. room' = room /\ room[Home] \in Rooms
      BY Zenon, <1>2, <1>5
    <3> QED
      BY Zenon, <3>1, NextIsNat
  <2> QED
    BY Zenon, <1>3, <2>1, <2>2 DEF Grows
<1>8. CopiesInv'
  BY Zenon, <1>1, <1>7, CopiesStep
<1>9. SentInv'
  BY Zenon, <1>1, <1>3, <1>7, MsgKept DEF SentInv
<1>10. LogInv' /\ log'[Home] = Retain(log[Home] \union {e})
  <2>1. /\ logged' = logged \union {e} /\ room' = room /\ runs' = runs
        /\ log' = [log EXCEPT ![Home] = Retain({f \in @ : f.seq # e.seq} \union {e})]
    BY Zenon, <1>4
  <2>2. e.type = "close" => room[Home].status = "closed"
    BY Zenon, <1>5
  <2>3. runs[e.id] >= 1 /\ room'[Home] = room[Home]
    BY Zenon, <1>5
  <2> QED
    BY Zenon, <1>1, <1>5, <1>6, <1>7, <2>1, <2>2, <2>3, LogAppend
<1>11. WorkInv'
  <2>1. /\ work'[w].pc # "storeRoom" /\ work'[w].pc # "publish"
        /\ work'[w].pc \notin {"storeRoom", "storeEvent"}
    BY Zenon, <1>3
  <2>2. work'[w].event \in logged'
    BY Zenon, <1>3
  <2>3. runs'[work'[w].id] = 1 => ~Told(work[w].id)'
    <3>1. Told(work[w].id)' => Told(c)'
      BY Zenon, <1>3, <1>4 DEF Told
    <3> QED
      BY Zenon, <1>3, <1>4, <1>5, <3>1
  <2>4. JobOK(w)'
    BY Zenon, <1>3, <1>4, <1>5, <2>1, <2>2, <2>3 DEF JobOK
  <2> QED
    BY Zenon, <1>3, <2>4 DEF WorkInv
<1>12. AgentInv'
  <2>1. \A d \in Commands : reply'[d] = "ok" => cmd'[d] # None /\ runs'[d] >= 1 /\ Kept(d)'
    BY Zenon, <1>1, <1>3, <1>7, KeptKept DEF AgentInv
  <2>2. \A f \in logged' : ~(f.seq + 1 = room'[Home].next /\ Told(f.id)' /\ runs'[f.id] = 1)
    <3> SUFFICES ASSUME NEW f \in logged', f.seq + 1 = room[Home].next, Told(f.id)', runs[f.id] = 1
                 PROVE  FALSE
      BY Zenon
    <3>1. CASE f = e
      BY Zenon, <1>3, <1>5, <3>1
    <3>2. CASE f \in logged
      <4>1. f.seq < e.seq /\ f.seq \in Nat
        BY Zenon, <1>5, <3>2 DEF Fresh, TypeInv, TypeOK, Events
      <4> QED
        BY SMTT(20), <1>5, <1>6, <4>1
    <3> QED
      BY Zenon, <1>4, <3>1, <3>2
  <2> QED
    BY Zenon, <1>1, <2>1, <2>2 DEF AgentInv
<1> QED
  BY Zenon, <1>4, <1>5, <1>8, <1>9, <1>10, <1>11, <1>12 DEF RoomInv

\* StoreRoomEvent.
LEMMA StoreEventStep ==
  ASSUME SizeLaws, TypeInv, TypeInv', RoomInv, NEW w \in Workers, StoreRoomEvent(w)
  PROVE  /\ RoomInv'
         /\ log'[Home] = log[Home] \/
              (Fresh(work[w].event) /\ log'[Home] = Retain(log[Home] \union {work[w].event}))
<1>1. /\ work[w].pc = "storeEvent"
      /\ UNCHANGED <<room, coordRoom, known, runs, lastSeen>>
  BY Zenon DEF StoreRoomEvent, seenVars
<1>2. work[w].pc \in {"storeRoom", "storeEvent", "upsert", "publish"}
  BY Zenon, <1>1
<1>3. work[w].at = Home
  BY Zenon, <1>2, BusyJob
<1>4. CASE Fails(w) /\ UNCHANGED <<log, logged>>
  BY Zenon, <1>1, <1>2, <1>4, FailStep
<1>5. CASE /\ log' = [log EXCEPT ![Home] =
                        Retain({f \in @ : f.seq # work[w].event.seq} \union {work[w].event})]
           /\ logged' = logged \union {work[w].event} /\ Goes(w, "upsert")
  BY Zenon, <1>1, <1>5, LoggedStep
<1> QED
  BY Zenon, <1>3, <1>4, <1>5 DEF StoreRoomEvent

\* UpsertRoom: from now on coord has the room as the home daemon has it.
LEMMA UpsertStep ==
  ASSUME TypeInv, TypeInv', RoomInv, NEW w \in Workers, UpsertRoom(w)
  PROVE  RoomInv'
<1>1. /\ work[w].pc = "upsert" /\ UNCHANGED <<room, log, logged, known, runs, lastSeen>>
  BY Zenon DEF UpsertRoom, storeVars, seenVars
<1>2. /\ work[w].pc \in {"storeRoom", "storeEvent", "upsert", "publish"} /\ work[w].pc # "storeRoom"
  BY Zenon, <1>1
<1>3. /\ JobOK(w) /\ work[w] \in Jobs /\ work[w].at = Home /\ work[w].room \in Rooms
      /\ work[w].event \in Events /\ work[w].id \in Commands
  BY Zenon, <1>2, BusyJob
<1>4. CASE Fails(w) /\ (CoordUpsert(work[w].room) \/ UNCHANGED coordRoom)
  BY Zenon, <1>1, <1>2, <1>4, FailStep DEF CoordUpsert
<1>5. CASE CoordUpsert(work[w].room) /\ Goes(w, "publish")
  <2>1. CopiesInv /\ SentInv /\ WorkInv /\ LogInv /\ AgentInv
    BY Zenon DEF RoomInv
  <2>2. /\ CmdKept /\ \A c \in Commands : Told(c)' <=> Told(c)
        /\ work'[w].pc = "publish" /\ work'[w].at = Home /\ work'[w].id = work[w].id
        /\ work'[w].room = work[w].room /\ work'[w].event = work[w].event
        /\ \A v \in Workers : work'[v] # Idle => v = w
        /\ reply' = reply /\ sent' = sent /\ cmd' = cmd
    BY Zenon, <1>3, <1>5, GoesOn
  <2>3. /\ room[Home] # None /\ room[Home] = work[w].room /\ work[w].room.home = Home
        /\ coordRoom' = room[Home] /\ work[w].event \in logged
    BY Zenon, <1>1, <1>3, <1>5 DEF JobOK, CoordUpsert
  <2>4. room[Home].next <= room[Home].next
    BY Zenon, <1>3, <2>3, NextIsNat
  <2>5. Grows
    <3>1. \A c \in Commands : runs[c] <= runs'[c]
      BY Zenon, <1>1, RunsStay
    <3> QED
      BY Zenon, <1>1, <2>2, <2>4, <3>1 DEF Grows
  <2>6. CopiesInv'
    <3>1. Behind(coordRoom)'
      BY Zenon, <1>1, <2>3, <2>4 DEF Behind
    <3> QED
      BY Zenon, <1>1, <2>1, <2>5, <3>1, CopiesStep
  <2>7. SentInv'
    BY Zenon, <2>1, <2>2, <2>5, MsgKept DEF SentInv
  <2>8. LogInv'
    BY Zenon, <1>1, <2>1, <2>5, LogSame
  <2>9. WorkInv'
    <3>1. work'[w].pc # "storeRoom" /\ work'[w].pc \notin {"storeRoom", "storeEvent"}
      BY Zenon, <2>2
    <3>2. runs'[work'[w].id] = 1 => ~Told(work[w].id)'
      <4>1. PICK c \in Commands : c = work[w].id
        BY Zenon, <1>3
      <4>2. Told(work[w].id)' => Told(c)'
        BY Zenon, <2>2, <4>1 DEF Told
      <4>3. runs[c] = 1 => ~Told(c)
        BY Zenon, <1>3, <4>1 DEF JobOK
      <4> QED
        BY Zenon, <1>1, <2>2, <4>1, <4>2, <4>3
    <3>3. JobOK(w)'
      BY Zenon, <1>1, <1>3, <2>2, <2>3, <3>1, <3>2 DEF JobOK
    <3> QED
      BY Zenon, <2>2, <3>3 DEF WorkInv
  <2>10. AgentInv'
    <3>1. \A c \in Commands : reply'[c] = "ok" => cmd'[c] # None /\ runs'[c] >= 1 /\ Kept(c)'
      BY Zenon, <1>1, <2>1, <2>2, <2>5, KeptKept DEF AgentInv
    <3> QED
      BY Zenon, <1>1, <2>1, <2>3, <3>1 DEF AgentInv
  <2> QED
    BY Zenon, <2>6, <2>7, <2>8, <2>9, <2>10 DEF RoomInv
<1> QED
  BY Zenon, <1>4, <1>5 DEF UpsertRoom

\* publishEvent.
LEMMA PublishStep ==
  ASSUME TypeInv, TypeInv', RoomInv, NEW w \in Workers, PublishEvent(w)
  PROVE  /\ RoomInv'
         /\ \A h \in Handles : NodeOf[h] = Home => lastSeen'[h] >= lastSeen[h]
<1>1. /\ work[w].pc = "publish" /\ UNCHANGED <<room, log, logged, known, runs, coordRoom>>
      /\ cmd' = cmd /\ CmdKept /\ work' = [work EXCEPT ![w] = Idle]
      /\ Deliver(work[w].event, work[w].at)
  BY Zenon DEF PublishEvent, storeVars, CmdKept
<1>2. /\ work[w].pc \in {"storeRoom", "storeEvent", "upsert", "publish"} /\ work[w].pc # "storeRoom"
  BY Zenon, <1>1
<1>3. /\ JobOK(w) /\ work[w] \in Jobs /\ work[w].at = Home /\ work[w].room \in Rooms
      /\ work[w].event \in Events /\ work[w].id \in Commands /\ cmd[work[w].id] \in Requests
  BY Zenon, <1>2, BusyJob
<1>4. PICK e \in Events, c \in Commands, r \in Rooms :
        e = work[w].event /\ c = work[w].id /\ r = work[w].room
  BY Zenon, <1>3
<1>5. PICK more : /\ Ends(c, Home, TRUE, r, more)
                  /\ \A m \in more : m \in EventMsg /\ m.kind = "event" /\ m.to # Home /\ m.event = e
  BY Zenon, <1>3, <1>4, PublishType
<1>6. CopiesInv /\ SentInv /\ WorkInv /\ LogInv /\ AgentInv
  BY Zenon DEF RoomInv
<1>7. /\ room[Home] # None /\ room[Home] = r /\ r.home = Home /\ r.next = e.seq + 1
      /\ coordRoom = r /\ e \in logged /\ runs[c] >= 1 /\ e.id = c
      /\ \A v \in Workers : work[v] # Idle => v = w
  BY Zenon, <1>1, <1>3, <1>4 DEF JobOK
<1>8. r.next <= r.next /\ e.seq \in Nat
  BY Zenon, NextIsNat, SeqIsNat
<1>9. Grows
  <2>1. \A d \in Commands : runs[d] <= runs'[d]
    BY Zenon, <1>1, RunsStay
  <2> QED
    BY Zenon, <1>1, <1>7, <1>8, <2>1 DEF Grows
<1>10. CopiesInv'
  BY Zenon, <1>1, <1>6, <1>9, CopiesStep
<1>11. Kept(c)'
  BY Zenon, <1>1, <1>7 DEF Kept
<1>12. SentInv'
  <2> SUFFICES ASSUME NEW m \in sent' PROVE MsgOK(m)'
    BY Zenon DEF SentInv
  <2>1. CASE m \in sent
    BY Zenon, <1>6, <1>9, <2>1, MsgKept DEF SentInv
  <2>2. CASE m \in more
    <3>1. m.kind = "event" /\ m.kind # "command" /\ m.kind # "result"
      BY Zenon, <1>5, <2>2
    <3> QED
      BY Zenon, <1>1, <1>5, <1>7, <2>2, <3>1 DEF MsgOK
  <2>3. CASE /\ m \in ResultMsg /\ m.id = c /\ m.ok = TRUE
             /\ NodeOf[cmd'[c].handle] # Home /\ (m.room # None => m.room = r)
    <3>1. m.kind = "result" /\ m.kind # "command" /\ m.kind # "event"
      BY Zenon, <2>3 DEF ResultMsg
    <3>2. m.room # None => Behind(m.room)'
      BY Zenon, <1>1, <1>7, <1>8, <2>3 DEF Behind
    <3> QED
      BY Zenon, <1>1, <1>7, <1>11, <2>3, <3>1, <3>2 DEF MsgOK
  <2> QED
    BY Zenon, <1>5, <2>1, <2>2, <2>3 DEF Ends
<1>13. LogInv'
  BY Zenon, <1>1, <1>6, <1>9, LogSame
<1>14. WorkInv'
  <2>1. \A v \in Workers : work'[v] = Idle
    BY Zenon, <1>1, <1>7 DEF TypeInv, TrafficOK
  <2> QED
    BY Zenon, <2>1 DEF WorkInv
<1>15. \A h \in Handles : lastSeen'[h] = lastSeen[h] \/ lastSeen'[h] = e.seq
  BY Zenon, <1>1, <1>4 DEF Deliver
<1>16. \A h \in Handles : NodeOf[h] = Home =>
         lastSeen'[h] < room'[Home].next \/ lastSeen'[h] = 0
  <2>1. PICK x : x = e.seq
    BY Zenon
  <2>2. x < x + 1
    BY <1>8, <2>1
  <2>3. room'[Home].next = x + 1 /\ room' = room
    BY Zenon, <1>1, <1>7, <2>1
  <2>4. \A h \in Handles : lastSeen'[h] = lastSeen[h] \/ lastSeen'[h] = x
    BY Zenon, <1>15, <2>1
  <2> QED
    BY Zenon, <1>6, <2>2, <2>3, <2>4 DEF AgentInv
<1>17. AgentInv'
  <2>1. \A d \in Commands : reply'[d] = "ok" => cmd'[d] # None /\ runs'[d] >= 1 /\ Kept(d)'
    <3>1. ASSUME NEW d \in Commands, reply[d] = "ok"
          PROVE  cmd'[d] # None /\ runs'[d] >= 1 /\ Kept(d)'
      BY Zenon, <1>1, <1>6, <1>9, <3>1, KeptKept DEF AgentInv
    <3>2. cmd'[c] # None
      BY Zenon, <1>1, <1>3, <1>4, NoneAssumption
    <3> QED
      BY Zenon, <1>1, <1>5, <1>7, <1>11, <3>1, <3>2 DEF Ends
  <2> QED
    BY Zenon, <1>1, <1>7, <1>16, <2>1 DEF AgentInv
<1>18. ASSUME NEW h \in Handles, NodeOf[h] = Home PROVE lastSeen'[h] >= lastSeen[h]
  <2>1. lastSeen[h] \in Nat
    BY Zenon DEF TypeInv, TypeOK
  <2>2. lastSeen[h] = 0 \/ lastSeen[h] < e.seq + 1
    BY Zenon, <1>6, <1>7, <1>18 DEF AgentInv
  <2> QED
    BY SMTT(20), <1>8, <1>15, <2>1, <2>2
<1> QED
  BY Zenon, <1>10, <1>12, <1>13, <1>14, <1>17, <1>18 DEF RoomInv

\* CreateRoom: there is nothing of the room before.
LEMMA CreateStep ==
  ASSUME TypeInv, TypeInv', RoomInv, NEW members \in SUBSET Handles, CreateRoom(members)
  PROVE  RoomInv'
<1>1. PICK r : r = [home |-> Home, members |-> members \union {Creator}, status |-> "open", next |-> 1]
  BY Zenon
<1>2. r.home = Home /\ r.next = 1 /\ 1 <= 1 /\ r \in Rooms
  BY <1>1, PlacementAssumption DEF Rooms
<1>3. /\ room[Home] = None /\ room' = [room EXCEPT ![Home] = r] /\ coordRoom' = r
      /\ UNCHANGED <<log, known, cmd, reply, runs, sent, work, lastSeen, logged>>
  BY Zenon, <1>1 DEF CreateRoom, CoordUpsert, cmdVars, seenVars
<1>4. room'[Home] = r /\ r # None /\ Home \in Nodes /\ \A n \in Nodes : n # Home => room'[n] = room[n]
  BY Zenon, <1>2, <1>3, PlacementAssumption, NoneAssumption DEF TypeInv, TypeOK
<1>5. CopiesInv /\ SentInv /\ WorkInv /\ LogInv /\ AgentInv
  BY Zenon DEF RoomInv
<1>6. \A n \in Nodes : room[n] = None /\ known[n] = None
  BY Zenon, <1>3, <1>5 DEF CopiesInv, Behind
<1>7. CopiesInv'
  BY Zenon, <1>2, <1>3, <1>4, <1>6 DEF CopiesInv, Behind
<1>8. logged = {} /\ logged' = {}
  BY Zenon, <1>3, <1>5 DEF LogInv
<1>9. WorkInv'
  BY Zenon, <1>3, <1>5 DEF WorkInv, JobOK
<1>10. SentInv'
  <2> SUFFICES ASSUME NEW m \in sent PROVE MsgOK(m)'
    BY Zenon, <1>3 DEF SentInv
  <2>1. MsgOK(m)
    BY Zenon, <1>5 DEF SentInv
  <2>2. Kept(m.id)' <=> Kept(m.id)
    BY Zenon, <1>3 DEF Kept
  <2> QED
    BY Zenon, <1>3, <2>1, <2>2 DEF MsgOK, Behind
<1>11. LogInv'
  <2>1. Window({}, log'[Home]) /\ \A n \in Nodes \ {Home} : log'[n] = {}
    BY Zenon, <1>3, <1>5, <1>8 DEF LogInv
  <2> QED
    BY Zenon, <1>8, <2>1 DEF LogInv, ClosedIsFinal
<1>12. AgentInv'
  <2>1. \A c \in Commands : Kept(c) => Kept(c)'
    BY Zenon, <1>3 DEF Kept
  <2>2. \A h \in Handles : NodeOf[h] = Home => lastSeen'[h] = 0
    BY Zenon, <1>3, <1>5 DEF AgentInv
  <2> QED
    BY Zenon, <1>3, <1>5, <1>8, <2>1, <2>2 DEF AgentInv
<1> QED
  BY Zenon, <1>7, <1>9, <1>10, <1>11, <1>12 DEF RoomInv

-----------------------------------------------------------------------------
(* The theorems.                                                           *)

\* Nothing has happened at the start.
LEMMA RoomStarts == ASSUME SizeLaws PROVE Init => Invariant
<1> SUFFICES ASSUME Init PROVE Invariant
  BY Zenon
<1>1. /\ up = Nodes /\ crashes = 0 /\ coordRoom = None /\ sent = {} /\ logged = {} /\ misled = FALSE
      /\ room = [n \in Nodes |-> None] /\ log = [n \in Nodes |-> {}] /\ known = [n \in Nodes |-> None]
      /\ cmd = [c \in Commands |-> None] /\ reply = [c \in Commands |-> "none"]
      /\ runs = [c \in Commands |-> 0] /\ work = [w \in Workers |-> Idle]
      /\ lastSeen = [h \in Handles |-> 0]
  BY Zenon DEF Init
<1>2. TypeOK
  <2>1. /\ room \in [Nodes -> Rooms \union {None}] /\ known \in [Nodes -> Rooms \union {None}]
        /\ log \in [Nodes -> SUBSET Events] /\ cmd \in [Commands -> Requests \union {None}]
        /\ reply \in [Commands -> {"none", "waiting", "ok", "error"}]
        /\ runs \in [Commands -> Nat] /\ lastSeen \in [Handles -> Nat]
    BY Zenon, <1>1
  <2>2. /\ up \subseteq Nodes /\ crashes \in Nat /\ coordRoom \in Rooms \union {None}
        /\ logged \subseteq Events /\ misled \in BOOLEAN
    BY Zenon, <1>1
  <2>3. \A w \in Workers : work[w] = Idle
    BY Zenon, <1>1
  <2> QED
    BY Zenon, <2>1, <2>2, <2>3 DEF TypeOK
<1>3. TrafficOK
  <2>1. reply \in [Commands -> {"none", "waiting", "ok", "error"}] /\ work \in [Workers -> Jobs \union {Idle}]
    BY Zenon, <1>1
  <2>2. sent = {} /\ \A w \in Workers : work[w] = Idle
    BY Zenon, <1>1
  <2> QED
    BY Zenon, <2>1, <2>2 DEF TrafficOK
<1>4. CopiesInv /\ SentInv /\ WorkInv
  BY Zenon, <1>1 DEF CopiesInv, SentInv, WorkInv
<1>5. LogInv
  <2>1. Window({}, {})
    <3>1. Cardinality({}) = 0 /\ IsFiniteSet({})
      BY Zenon DEF SizeLaws, SizeOfEmpty
    <3>2. 0 <= Retention
      BY RoomBounds
    <3> QED
      BY Zenon, <3>1, <3>2 DEF Window
  <2> QED
    BY Zenon, <1>1, <2>1, PlacementAssumption DEF LogInv, ClosedIsFinal
<1>6. AgentInv
  <2>1. "none" # "ok"
    BY Zenon
  <2> QED
    BY Zenon, <1>1, <2>1 DEF AgentInv
<1> QED
  BY Zenon, <1>2, <1>3, <1>4, <1>5, <1>6 DEF Invariant, TypeInv, RoomInv

\* A daemon that was misled stays so.
LEMMA MisledStays == [Next]_vars => (~misled' => ~misled)
<1> SUFFICES ASSUME [Next]_vars, misled PROVE misled'
  BY Zenon
<1>1. CASE UNCHANGED vars
  BY Zenon, <1>1 DEF vars
<1>2. CASE Next
  <2>1. CASE \E m \in sent : HandleRoomEvent(m)
    BY Zenon, <2>1 DEF HandleRoomEvent
  <2>2. CASE \E w \in Workers : PublishEvent(w)
    BY Zenon, <2>2 DEF PublishEvent
  <2>3. CASE ~(\E m \in sent : HandleRoomEvent(m)) /\ ~(\E w \in Workers : PublishEvent(w))
    <3>1. seenVars' = seenVars
      BY Zenon, <1>2, <2>3 DEF Next, CreateRoom, Command, Chat, HandleRemoteCommand, TimesOut, StoreRoom,
         StoreRoomEvent, UpsertRoom, HandleRemoteCommandResult, UpdateRooms, Crash, Restart
    <3> QED
      BY Zenon, <3>1 DEF seenVars
  <2> QED
    BY Zenon, <2>1, <2>2, <2>3
<1> QED
  BY Zenon, <1>1, <1>2

\* With one command at a time the invariant is inductive.
LEMMA RoomSteps == ASSUME SizeLaws, Serial PROVE Invariant /\ [Next]_vars => Invariant'
<1> SUFFICES ASSUME Invariant, [Next]_vars PROVE Invariant'
  BY Zenon
<1>1. TypeInv /\ TypeInv'
  BY Zenon, TypeStep DEF Invariant
<1> SUFFICES ASSUME ~misled' PROVE RoomInv'
  BY Zenon, <1>1 DEF Invariant
<1>2. RoomInv
  BY Zenon, MisledStays DEF Invariant
<1>3. CASE UNCHANGED vars
  <2>1. UNCHANGED <<up, crashes, room, log, coordRoom, known, cmd, reply, runs, sent, work, lastSeen,
                    misled, logged>>
    BY Zenon, <1>3 DEF vars
  <2>2. Quiet
    BY Zenon, <1>1, <2>1, StillQuiet DEF Quiet, CmdKept
  <2> QED
    BY Zenon, <1>1, <1>2, <2>2, QuietStep
<1>4. CASE Next
  <2>1. CASE \E n \in Nodes : UpdateRooms(n) \/ Crash(n) \/ Restart(n)
    BY Zenon, <1>1, <1>2, <2>1, UpdateStep, CrashStep, WaitStep
  <2>2. CASE \E m \in sent : HandleRemoteCommandResult(m) \/ HandleRoomEvent(m)
    BY Zenon, <1>1, <1>2, <2>2, ResultStep, EventStep
  <2>3. CASE \E w \in Workers : StoreRoom(w) \/ StoreRoomEvent(w) \/ UpsertRoom(w) \/ PublishEvent(w)
    BY Zenon, <1>1, <1>2, <2>3, StoreRoomStep, StoreEventStep, UpsertStep, PublishStep
  <2>4. CASE \E c \in Commands : TimesOut(c)
    BY Zenon, <1>1, <1>2, <2>4, WaitStep
  <2>5. CASE \E c \in Commands, w \in Workers :
               \/ \E t \in Types, h \in Handles : Command(c, t, h, w)
               \/ Chat(c, w)
               \/ \E n \in Nodes : HandleRemoteCommand(c, n, w)
    BY Zenon, <1>1, <1>2, <2>5, CommandStep, ChatIsCommand, RemoteStep
  <2>6. CASE \E members \in SUBSET Handles : CreateRoom(members)
    BY Zenon, <1>1, <1>2, <2>6, CreateStep
  <2> QED
    BY Zenon, <1>4, <2>1, <2>2, <2>3, <2>4, <2>5, <2>6 DEF Next
<1> QED
  BY Zenon, <1>3, <1>4

\* The newest Retention events are those with fewer than Retention newer ones.
LEMMA WindowShown ==
  ASSUME SizeLaws, NEW S \in SUBSET Events, NEW L, Window(S, L),
         \A g, f \in S : g.seq = f.seq => g = f
  PROVE  L = {e \in S : Cardinality({f \in S : f.seq > e.seq}) < Retention}
<1>1. /\ IsFiniteSet(S) /\ L \subseteq S /\ Cardinality(L) <= Retention
      /\ L = S \/ Cardinality(L) = Retention
      /\ \A g \in L, f \in S : f.seq > g.seq => f \in L
  BY Zenon DEF Window
<1>2. \A f \in S : f.seq \in Nat
  BY Zenon DEF Events
<1>3. L \in SUBSET S /\ IsFiniteSet(L) /\ Cardinality(L) \in Nat /\ Retention \in Nat
  <2>1. L \in SUBSET S
    BY Zenon, <1>1
  <2>2. IsFiniteSet(L)
    BY Zenon, <1>1, <2>1 DEF SizeLaws, SizeOfPart
  <2>3. Cardinality(L) \in Nat
    BY Zenon, <2>2 DEF SizeLaws, SizeIsNat
  <2> QED
    BY Zenon, <2>1, <2>2, <2>3, RoomBounds
<1>4. ASSUME NEW e \in L PROVE Cardinality({f \in S : f.seq > e.seq}) < Retention
  <2>1. PICK N : N = {f \in S : f.seq > e.seq}
    BY Zenon
  <2>2. N \in SUBSET (L \ {e})
    BY SMTT(20), <1>1, <1>2, <2>1
  <2>3. IsFiniteSet(L \ {e}) /\ Cardinality(L \ {e}) = Cardinality(L) - 1
    BY Zenon, <1>3 DEF SizeLaws, SizeWithout
  <2>4. IsFiniteSet(N) /\ Cardinality(N) <= Cardinality(L \ {e})
    BY Zenon, <2>2, <2>3 DEF SizeLaws, SizeOfPart
  <2>5. Cardinality(N) \in Nat
    BY Zenon, <2>4 DEF SizeLaws, SizeIsNat
  <2>6. Cardinality(N) < Retention
    BY <1>1, <1>3, <2>3, <2>4, <2>5
  <2> QED
    BY Zenon, <2>1, <2>6
<1>5. ASSUME NEW e \in S, e \notin L PROVE ~(Cardinality({f \in S : f.seq > e.seq}) < Retention)
  <2>1. PICK N : N = {f \in S : f.seq > e.seq}
    BY Zenon
  <2>2. Cardinality(L) = Retention
    BY Zenon, <1>1, <1>5
  <2>3. ASSUME NEW g \in L PROVE g \in N
    <3>1. g \in S /\ g.seq \in Nat /\ e.seq \in Nat
      BY Zenon, <1>1, <1>2
    <3>2. ~(e.seq > g.seq) /\ g.seq # e.seq
      BY Zenon, <1>1, <1>5, <3>1
    <3>3. g.seq > e.seq
      BY <3>1, <3>2
    <3> QED
      BY Zenon, <2>1, <3>1, <3>3
  <2>4. N \in SUBSET S /\ L \in SUBSET N
    BY Zenon, <2>1, <2>3
  <2>5. IsFiniteSet(N)
    BY Zenon, <1>1, <2>4 DEF SizeLaws, SizeOfPart
  <2>6. Cardinality(L) <= Cardinality(N) /\ Cardinality(N) \in Nat
    BY Zenon, <2>4, <2>5 DEF SizeLaws, SizeOfPart, SizeIsNat
  <2>7. ~(Cardinality(N) < Retention)
    BY <1>3, <2>2, <2>6
  <2> QED
    BY Zenon, <2>1, <2>7
<1> QED
  BY Zenon, <1>1, <1>4, <1>5

\* What the agents and the daemons see, from the invariant.
LEMMA RoomShows == ASSUME SizeLaws PROVE Invariant => HomeLeads /\ RoomAgrees
<1> SUFFICES ASSUME Invariant PROVE HomeLeads /\ RoomAgrees
  BY Zenon
<1>1. TypeInv /\ TypeOK /\ (~misled => RoomInv)
  BY Zenon DEF Invariant, TypeInv
<1>2. ASSUME ~misled PROVE HomeLeads
  <2>1. CopiesInv
    BY Zenon, <1>1, <1>2 DEF RoomInv
  <2>2. \A n \in Nodes : room[n] # None => room[Home] # None /\ room[n].next <= room[Home].next
    BY Zenon, <2>1 DEF CopiesInv, Behind
  <2>3. \A n \in Nodes : known[n] # None => room[Home] # None /\ known[n].next <= room[Home].next
    BY Zenon, <2>1 DEF CopiesInv, Behind
  <2>4. coordRoom # None => room[Home] # None /\ coordRoom.next <= room[Home].next
    BY Zenon, <2>1 DEF CopiesInv, Behind
  <2>5. \A n \in Nodes : \A r \in DashboardRooms(n) :
          r # None /\ (r = room[n] \/ r = known[n])
    BY Zenon DEF DashboardRooms, LoadRooms, ListRoomsForMember
  <2>6. \A n \in Nodes : ResolveRoomInfo(n) = room[n] \/ ResolveRoomInfo(n) = known[n]
    BY Zenon DEF ResolveRoomInfo
  <2>7. ASSUME NEW r, r \in LookupRoom PROVE room[Home] # None /\ r.next <= room[Home].next
    BY Zenon, <2>4, <2>7 DEF LookupRoom
  <2>8. ASSUME NEW n \in Nodes, NEW r, r \in DashboardRooms(n) \union ({ResolveRoomInfo(n)} \ {None})
        PROVE  room[Home] # None /\ r.next <= room[Home].next
    <3>1. r # None /\ (r = room[n] \/ r = known[n])
      BY Zenon, <2>5, <2>6, <2>8
    <3>2. CASE r = room[n]
      <4>1. room[n] # None
        BY Zenon, <3>1, <3>2
      <4> QED
        BY Zenon, <2>2, <3>2, <4>1
    <3>3. CASE r = known[n]
      <4>1. known[n] # None
        BY Zenon, <3>1, <3>3
      <4> QED
        BY Zenon, <2>3, <3>3, <4>1
    <3> QED
      BY Zenon, <3>1, <3>2, <3>3
  <2> QED
    BY Zenon, <2>7, <2>8 DEF HomeLeads
<1>3. ASSUME ~misled
      PROVE  OnlyHomeLogs /\ ClosedIsFinal /\ ReplayIsWindow /\ ListsAgree /\ ToldIsLogged
  <2>1. LogInv /\ AgentInv /\ SentInv
    BY Zenon, <1>1, <1>3 DEF RoomInv
  <2>2. OnlyHomeLogs /\ ClosedIsFinal
    BY Zenon, <2>1 DEF LogInv, OnlyHomeLogs
  <2>3. ReplayIsWindow
    <3>1. PICK S \in SUBSET Events : S = logged
      BY Zenon, <1>1 DEF TypeOK
    <3>2. PICK L : L = log[Home]
      BY Zenon
    <3>3. Window(S, L) /\ \A g, f \in S : g.seq = f.seq => g = f
      BY Zenon, <2>1, <3>1, <3>2 DEF LogInv
    <3>4. L = {e \in S : Cardinality({f \in S : f.seq > e.seq}) < Retention}
      BY Zenon, <3>3, WindowShown
    <3>5. \A e \in L : e.seq > 0
      <4>1. L \subseteq Events
        BY Zenon, <3>3 DEF Window
      <4> QED
        BY <4>1 DEF Events
    <3>6. ReplayRoomEvents(Home, 0) = L
      BY Zenon, <3>2, <3>5 DEF ReplayRoomEvents
    <3> QED
      BY Zenon, <3>1, <3>4, <3>6 DEF ReplayIsWindow
  <2>4. ListsAgree
    BY Zenon, <2>1 DEF AgentInv, ListsAgree, ListRoomsForHandle, LookupRoom, LoadRooms
  <2>5. ToldIsLogged
    BY Zenon, <2>1 DEF AgentInv, SentInv, MsgOK, Kept, ToldIsLogged
  <2> QED
    BY Zenon, <2>2, <2>3, <2>4, <2>5
<1> QED
  BY Zenon, <1>1, <1>2, <1>3 DEF HomeLeads, RoomAgrees

\* An event that was logged stays so.
LEMMA LoggedGrows == [Next]_vars => logged \subseteq logged'
<1> SUFFICES ASSUME [Next]_vars PROVE logged \subseteq logged'
  BY Zenon
<1>1. CASE UNCHANGED vars
  BY Zenon, <1>1 DEF vars
<1>2. CASE \E w \in Workers : StoreRoomEvent(w)
  BY Zenon, <1>2 DEF StoreRoomEvent
<1>3. CASE Next /\ ~(\E w \in Workers : StoreRoomEvent(w))
  <2>1. logged' = logged \/ storeVars' = storeVars
    BY Zenon, <1>3 DEF Next, CreateRoom, Command, Chat, HandleRemoteCommand, TimesOut, StoreRoom,
       UpsertRoom, PublishEvent, HandleRemoteCommandResult, HandleRoomEvent, UpdateRooms, Crash, Restart
  <2> QED
    BY Zenon, <2>1 DEF storeVars
<1> QED
  BY Zenon, <1>1, <1>2, <1>3

\* An event leaves the log only when newer ones fill it.
LEMMA LogAppends ==
  ASSUME Invariant, Invariant', [Next]_vars, ~misled'
  PROVE  \A e \in log[Home] \ log'[Home] :
           /\ Cardinality(log'[Home]) = Retention
           /\ \A f \in log'[Home] : f.seq > e.seq
<1> SUFFICES ASSUME NEW e \in log[Home] \ log'[Home]
             PROVE  /\ Cardinality(log'[Home]) = Retention
                    /\ \A f \in log'[Home] : f.seq > e.seq
  BY Zenon
<1>1. LogInv /\ LogInv' /\ logged' \in SUBSET Events
  BY Zenon, MisledStays DEF Invariant, RoomInv, TypeInv, TypeOK
<1>2. e \in logged' /\ e \notin log'[Home]
  BY Zenon, <1>1, LoggedGrows DEF LogInv, Window
<1>3. Window(logged, log[Home])'
  BY Zenon, <1>1 DEF LogInv
<1>4. PICK S, L : S = logged' /\ L = log'[Home]
  BY Zenon
<1>5. /\ L \subseteq S /\ (L = S \/ Cardinality(L) = Retention)
      /\ \A g \in L, f \in S : f.seq > g.seq => f \in L
  BY Zenon, <1>3, <1>4 DEF Window
<1>6. \A g, f \in S : g.seq = f.seq => g = f
  BY Zenon, <1>1, <1>4 DEF LogInv
<1>7. ASSUME NEW f \in L PROVE f.seq > e.seq
  <2>1. f \in S /\ e \in S /\ e \notin L
    BY Zenon, <1>2, <1>4, <1>5
  <2>2. ~(e.seq > f.seq) /\ e.seq # f.seq
    BY Zenon, <1>5, <1>6, <2>1
  <2>3. e.seq \in Nat /\ f.seq \in Nat
    BY Zenon, <1>1, <1>4, <2>1 DEF Events
  <2> QED
    BY <2>2, <2>3
<1> QED
  BY Zenon, <1>2, <1>4, <1>5, <1>7

\* The home daemon delivers in the order of the log.
LEMMA HomeSees ==
  ASSUME Invariant, Invariant', [Next]_vars, ~misled'
  PROVE  \A h \in Handles : NodeOf[h] = Home => lastSeen'[h] >= lastSeen[h]
<1>1. RoomInv /\ TypeInv /\ TypeInv'
  BY Zenon, MisledStays DEF Invariant
<1>2. \A h \in Handles : lastSeen[h] \in Nat /\ (lastSeen'[h] = lastSeen[h] => lastSeen'[h] >= lastSeen[h])
  BY <1>1 DEF TypeInv, TypeOK
<1>3. CASE UNCHANGED vars
  <2>1. lastSeen' = lastSeen
    BY Zenon, <1>3 DEF vars
  <2> QED
    BY Zenon, <1>2, <2>1
<1>4. CASE \E m \in sent : HandleRoomEvent(m)
  BY Zenon, <1>1, <1>2, <1>4, EventStep
<1>5. CASE \E w \in Workers : PublishEvent(w)
  BY Zenon, <1>1, <1>5, PublishStep
<1>6. CASE Next /\ ~(\E m \in sent : HandleRoomEvent(m)) /\ ~(\E w \in Workers : PublishEvent(w))
  <2>1. seenVars' = seenVars
    BY Zenon, <1>6 DEF Next, CreateRoom, Command, Chat, HandleRemoteCommand, TimesOut, StoreRoom,
       StoreRoomEvent, UpsertRoom, HandleRemoteCommandResult, UpdateRooms, Crash, Restart
  <2>2. lastSeen' = lastSeen
    BY Zenon, <2>1 DEF seenVars
  <2> QED
    BY Zenon, <1>2, <2>2
<1> QED
  BY Zenon, <1>3, <1>4, <1>5, <1>6

-----------------------------------------------------------------------------
(* The laws of sizes hold.  The theorems about finite sets enter here, and *)
(* not in the context of the proofs above.                                 *)

F == INSTANCE FiniteSetTheorems

\* Every law of Sizes is a theorem about finite sets.
LEMMA SizeLawsHold == SizeLaws
<1>1. \A S : F!IsFiniteSet(S) <=> IsFiniteSet(S)
  BY Zenon DEF F!IsFiniteSet, IsFiniteSet
<1>2. \A S : F!Cardinality(S) = Cardinality(S)
  BY Zenon DEF F!Cardinality, Cardinality
<1>3. SizeIsNat
  BY Zenon, <1>1, <1>2, F!FS_CardinalityType DEF SizeIsNat
<1>4. SizeOfEmpty /\ SizeOfOne
  BY Zenon, <1>1, <1>2, F!FS_EmptySet, F!FS_Singleton DEF SizeOfEmpty, SizeOfOne
<1>5. SizeOfPart
  BY Zenon, <1>1, <1>2, F!FS_Subset DEF SizeOfPart
<1>6. SizeWith
  BY Zenon, <1>1, <1>2, F!FS_AddElement DEF SizeWith
<1>7. SizeWithout
  BY Zenon, <1>1, <1>2, F!FS_RemoveElement DEF SizeWithout
<1>8. SizeInto
  <2> SUFFICES ASSUME NEW S, NEW T, NEW f \in [S -> T], IsFiniteSet(T),
                      \A x, y \in S : f[x] = f[y] => x = y
               PROVE  IsFiniteSet(S) /\ Cardinality(S) <= Cardinality(T)
    BY Zenon DEF SizeInto
  <2>1. f \in F!Injection(S, T)
    BY Zenon DEF F!Injection, F!IsInjective
  <2> QED
    BY Zenon, <1>1, <1>2, <2>1, F!FS_Injection
<1>9. LeastExists
  <2> SUFFICES ASSUME NEW T \in SUBSET Nat, T # {} PROVE \E x \in T : \A y \in T : x <= y
    BY Zenon DEF LeastExists
  <2>1. PICK R : R = F!OpToRel(<, Nat)
    BY Zenon
  <2>2. PICK x \in T : \A y \in T : ~(<<y, x>> \in R)
    BY Zenon, <2>1, F!NatLessThanWellFounded, F!WFMin
  <2>3. ASSUME NEW y \in T PROVE x <= y
    <3>1. ~(<<y, x>> \in R) /\ x \in Nat /\ y \in Nat
      BY Zenon, <2>2
    <3>2. ~(y < x)
      BY Zenon, <2>1, <3>1 DEF F!OpToRel
    <3> QED
      BY <3>1, <3>2
  <2> QED
    BY Zenon, <2>3
<1> QED
  BY Zenon, <1>3, <1>4, <1>5, <1>6, <1>7, <1>8, <1>9 DEF SizeLaws

\* The invariant holds in every state, for any number of daemons, agents and
\* commands and any retention, when commands do not overlap (Serial).
LEMMA RoomAlways == ASSUME Serial PROVE Spec => []Invariant
<1>1. Init => Invariant
  BY Zenon, SizeLawsHold, RoomStarts
<1>2. Invariant /\ [Next]_vars => Invariant'
  BY Zenon, SizeLawsHold, RoomSteps
<1> QED
  BY <1>1, <1>2, PTL DEF Spec

\* No copy of the room is ahead of the home daemon's: not at coord, not what
\* another daemon stores, resolves or shows (cacheRoomFromEvent, UpdateRooms).
THEOREM HomeAlwaysLeads == ASSUME Serial PROVE Spec => []HomeLeads
<1>1. Invariant => HomeLeads
  BY Zenon, SizeLawsHold, RoomShows
<1> QED
  BY <1>1, RoomAlways, PTL

\* Replay is the window of the newest Retention events logged, coord lists the
\* room as the home daemon has it once a command returned, what agents were
\* told is logged, and nothing but leave and close follows a close, whatever
\* step of persistAndPublish failed or was cut off by a crash.
THEOREM RoomsAgree == ASSUME Serial PROVE Spec => []RoomAgrees
<1>1. Invariant => RoomAgrees
  BY Zenon, SizeLawsHold, RoomShows
<1> QED
  BY <1>1, RoomAlways, PTL

\* The log of the home daemon loses an event only to retention: the oldest one,
\* while Retention newer ones are kept (StoreRoomEvent).
THEOREM LogIsAppendOnly == ASSUME Serial PROVE Spec => AppendOnly
<1>1. Invariant /\ Invariant' /\ [Next]_vars =>
        [~misled' => \A e \in log[Home] \ log'[Home] :
           /\ Cardinality(log'[Home]) = Retention
           /\ \A f \in log'[Home] : f.seq > e.seq]_vars
  BY Zenon, LogAppends
<1>2. Spec => [][Next]_vars
  BY Zenon DEF Spec
<1> QED
  BY <1>1, <1>2, RoomAlways, PTL DEF AppendOnly

\* Agents of the home daemon see the events in the order of the log
\* (persistAndPublish delivers before the next command is executed).
THEOREM EventsSeenInOrder == ASSUME Serial PROVE Spec => SeenInOrder
<1>1. Invariant /\ Invariant' /\ [Next]_vars =>
        [~misled' => \A h \in Handles : NodeOf[h] = Home => lastSeen'[h] >= lastSeen[h]]_vars
  BY Zenon, HomeSees
<1>2. Spec => [][Next]_vars
  BY Zenon DEF Spec
<1> QED
  BY <1>1, <1>2, RoomAlways, PTL DEF SeenInOrder
=============================================================================
