------------------------------ MODULE Sessions ------------------------------
(***************************************************************************)
(* One session in the session stores of the two daemons it lives on.       *)
(*                                                                         *)
(* OpenSession, SendMessage, ResolveSession, openMentionSession and the    *)
(* SESSION_OPEN case of DeliverToLocal work on a clone of the session:     *)
(* Get returns a copy, NextSequence and Resolve change the copy, Put       *)
(* stores it in the map and, after the lock is released, on disk.  A call  *)
(* is a process with a step for each of these.  A record is its state and  *)
(* NextSeq.                                                                *)
(***************************************************************************)
EXTENDS Naturals

CONSTANTS
  Nodes,        \* daemons
  Opener,       \* the daemon of the handle that opens the session
  Peer,         \* the daemon of the other handle, possibly the same one
  Calls,        \* handler goroutines
  Serial,       \* calls on the session do not overlap on one daemon
  FailingDisks, \* daemons on which StoreSession may return an error
  MaxSeq,       \* bound: NextSeq
  MaxCrashes    \* bound: crashes of all daemons

ASSUME NodesAssumption == Opener \in Nodes /\ Peer \in Nodes
ASSUME SessionBounds ==
  /\ Serial \in BOOLEAN
  /\ FailingDisks \subseteq Nodes
  /\ MaxSeq \in Nat
  /\ MaxCrashes \in Nat

VARIABLES
  up,         \* daemons that run
  crashes,    \* crashes so far
  memState,   \* State of the session in the map, "absent" if it is not there
  memNext,    \* its NextSeq
  aged,       \* daemons whose copy has an UpdatedAt older than the TTL
  evicting,   \* evict calls between unlock and RemoveSession
  diskState,  \* State of the session on disk
  diskNext,   \* its NextSeq
  pc,         \* next step of each call: Put, persist, Route, none
  op,         \* what the call does
  at,         \* on which daemon
  seq,        \* the sequence number it took; its clone has NextSeq seq + 1
  opened,     \* a SESSION_OPEN envelope is on its way, or may be sent again
  floor,      \* history: largest number of a call that returned before this one
  returned,   \* history: largest number of a call that has returned
  persisted,  \* history: daemons that had the session on disk
  resolved,   \* history: daemons that put a resolved copy into the map
  closed,     \* history: daemons on which a ResolveSession has returned
  recreated,  \* history: daemons that created a resolved session again
  diskErr     \* history: daemons on which a StoreSession failed

memVars  == <<memState, memNext, aged, evicting>>
diskVars == <<diskState, diskNext>>
callVars == <<pc, op, at, seq, floor>>
histVars == <<returned, persisted, resolved, closed, recreated, diskErr>>
vars == <<up, crashes, memState, memNext, aged, evicting, diskState, diskNext,
          pc, op, at, seq, opened, floor, returned, persisted, resolved,
          closed, recreated, diskErr>>

Ops == {"none", "open", "mention", "send", "resolve", "deliver"}

Init ==
  /\ up = Nodes /\ crashes = 0
  /\ memState = [n \in Nodes |-> "absent"] /\ memNext = [n \in Nodes |-> 0]
  /\ aged = {} /\ evicting = {}
  /\ diskState = [n \in Nodes |-> "absent"] /\ diskNext = [n \in Nodes |-> 0]
  /\ pc = [c \in Calls |-> "idle"] /\ op = [c \in Calls |-> "none"]
  /\ at = [c \in Calls |-> Opener]
  /\ seq = [c \in Calls |-> 0] /\ floor = [c \in Calls |-> 0]
  /\ opened = FALSE
  /\ returned = [n \in Nodes |-> 0]
  /\ persisted = {} /\ resolved = {} /\ closed = {} /\ recreated = {}
  /\ diskErr = {}

-----------------------------------------------------------------------------
(* The first step of a call: verify, Get, validate, NextSequence.          *)

Idle(n) == \A c \in Calls : pc[c] = "idle" \/ at[c] # n

Begin(c, n, o, s, next) ==
  /\ n \in up /\ pc[c] = "idle"
  /\ Serial => Idle(n)
  /\ s < MaxSeq
  /\ pc' = [pc EXCEPT ![c] = next]
  /\ op' = [op EXCEPT ![c] = o]
  /\ at' = [at EXCEPT ![c] = n]
  /\ seq' = [seq EXCEPT ![c] = s]
  /\ floor' = [floor EXCEPT ![c] = returned[n]]
  /\ UNCHANGED <<up, crashes, memVars, diskVars, opened, histVars>>

\* The session gets its id here, so this happens once.
Fresh ==
  /\ \A c \in Calls : op[c] \notin {"open", "mention"}
  /\ Opener \notin persisted \union diskErr /\ memState[Opener] = "absent"

OpenSession(c) == Fresh /\ Begin(c, Opener, "open", 1, "put")

\* A session that an @-mention opens takes no sequence number.
OpenMentionSession(c) == Fresh /\ Begin(c, Opener, "mention", 0, "put")

SendMessage(c, n) ==
  /\ memState[n] = "open"
  /\ Begin(c, n, "send", memNext[n], "put")

\* ResolveSession routes the final message before it changes the store.
ResolveSession(c, n) ==
  /\ memState[n] = "open"
  /\ Begin(c, n, "resolve", memNext[n], "route")

DeliverSessionOpen(c) ==
  /\ opened
  /\ memState[Peer] = "absent"
  /\ Begin(c, Peer, "deliver", 0, "put")

-----------------------------------------------------------------------------
(* The other steps of a call.                                              *)

\* The calls in C are over.
End(C) ==
  /\ pc' = [c \in Calls |-> IF c \in C THEN "idle" ELSE pc[c]]
  /\ op' = [c \in Calls |-> IF c \in C THEN "none" ELSE op[c]]
  /\ at' = [c \in Calls |-> IF c \in C THEN Opener ELSE at[c]]
  /\ seq' = [c \in Calls |-> IF c \in C THEN 0 ELSE seq[c]]
  /\ floor' = [c \in Calls |-> IF c \in C THEN 0 ELSE floor[c]]

\* Variant: ResolveSession forgets to call Resolve.
CloneState_StaysOpen(c) == "open"

\* Session.Resolve on the clone of a ResolveSession.
CloneState(c) == IF op[c] = "resolve" THEN "resolved" ELSE "open"

\* Variant: the clone is stored before NextSequence counts.
PutMemory_Uncounted(c) ==
  /\ pc[c] = "put"
  /\ pc' = [pc EXCEPT ![c] = "persist"]
  /\ memState' = [memState EXCEPT ![at[c]] = CloneState(c)]
  /\ memNext' = [memNext EXCEPT ![at[c]] = seq[c]]
  /\ UNCHANGED <<up, crashes, aged, evicting, diskVars, op, at, seq, floor,
                 opened, histVars>>

\* Store.Put under the lock.
PutMemory(c) ==
  LET n == at[c] IN
  /\ pc[c] = "put"
  /\ pc' = [pc EXCEPT ![c] = "persist"]
  /\ memState' = [memState EXCEPT ![n] = CloneState(c)]
  /\ memNext' = [memNext EXCEPT ![n] = seq[c] + 1]
  /\ aged' = aged \ {n}
  /\ returned' = IF op[c] = "deliver" THEN [returned EXCEPT ![n] = 0]
                                      ELSE returned
  /\ resolved' = IF op[c] = "resolve" THEN resolved \union {n} ELSE resolved
  /\ recreated' = IF op[c] = "deliver" /\ n \in resolved
                  THEN recreated \union {n} ELSE recreated
  /\ UNCHANGED <<up, crashes, evicting, diskVars, op, at, seq, floor, opened,
                 persisted, closed, diskErr>>

\* Store.Put after the lock: StoreSession, whose error is ignored.
Persist(c) ==
  LET n == at[c] IN
  /\ pc[c] = "persist"
  /\ pc' = [pc EXCEPT ![c] = IF op[c] \in {"resolve", "deliver"} THEN "return"
                                                                 ELSE "route"]
  /\ \/ /\ diskState' = [diskState EXCEPT ![n] = CloneState(c)]
        /\ diskNext' = [diskNext EXCEPT ![n] = seq[c] + 1]
        /\ persisted' = persisted \union {n}
        /\ UNCHANGED diskErr
     \/ /\ n \in FailingDisks
        /\ diskErr' = diskErr \union {n}
        /\ UNCHANGED <<diskVars, persisted>>
  /\ UNCHANGED <<up, crashes, memVars, op, at, seq, floor, opened, returned,
                 resolved, closed, recreated>>

\* Route may fail, also after the envelope is on the wire: then the call
\* returns an error, and ResolveSession leaves the session open.
Route(c) ==
  /\ pc[c] = "route"
  /\ \/ /\ pc' = [pc EXCEPT ![c] = IF op[c] = "resolve" THEN "put" ELSE "return"]
        /\ UNCHANGED <<op, at, seq, floor>>
     \/ End({c})
  /\ opened' \in IF op[c] \in {"open", "mention"} /\ Opener # Peer
                 THEN {opened, TRUE} ELSE {opened}
  /\ UNCHANGED <<up, crashes, memVars, diskVars, histVars>>

Return(c) ==
  LET n == at[c] IN
  /\ pc[c] = "return"
  /\ End({c})
  /\ closed' = IF op[c] = "resolve" THEN closed \union {n} ELSE closed
  /\ returned' = IF op[c] \in {"open", "mention", "send"} /\ seq[c] > returned[n]
                 THEN [returned EXCEPT ![n] = seq[c]] ELSE returned
  /\ UNCHANGED <<up, crashes, memVars, diskVars, opened, persisted, resolved,
                 recreated, diskErr>>

-----------------------------------------------------------------------------
(* Eviction, crash and restart.                                            *)

\* The TTL is five minutes and a call lasts seconds: no call is under way on a
\* daemon whose copy reaches that age.
Age(n) ==
  /\ n \in up \ aged /\ memState[n] # "absent" /\ Idle(n)
  /\ aged' = aged \union {n}
  /\ UNCHANGED <<up, crashes, memState, memNext, evicting, diskVars, callVars,
                 opened, histVars>>

\* Variant: the sweep looks at the age only.
Evict_AnyState(n) ==
  /\ n \in aged \ evicting
  /\ memState' = [memState EXCEPT ![n] = "absent"]
  /\ aged' = aged \ {n}
  /\ evicting' = evicting \union {n}
  /\ UNCHANGED <<up, crashes, memNext, diskVars, callVars, opened, histVars>>

Evict(n) ==
  /\ n \in aged \ evicting /\ memState[n] = "resolved"
  /\ memState' = [memState EXCEPT ![n] = "absent"]
  /\ aged' = aged \ {n}
  /\ evicting' = evicting \union {n}
  /\ UNCHANGED <<up, crashes, memNext, diskVars, callVars, opened, histVars>>

\* Variant: the record stays on disk.
RemoveSession_Skips(n) ==
  /\ n \in evicting
  /\ evicting' = evicting \ {n}
  /\ UNCHANGED <<up, crashes, memState, memNext, aged, diskVars, callVars,
                 opened, histVars>>

RemoveSession(n) ==
  /\ n \in evicting
  /\ diskState' = [diskState EXCEPT ![n] = "absent"]
  /\ evicting' = evicting \ {n}
  /\ UNCHANGED <<up, crashes, memState, memNext, aged, diskNext, callVars,
                 opened, histVars>>

Crash(n) ==
  /\ n \in up /\ crashes < MaxCrashes
  /\ up' = up \ {n}
  /\ crashes' = crashes + 1
  /\ memState' = [memState EXCEPT ![n] = "absent"]
  /\ aged' = aged \ {n} /\ evicting' = evicting \ {n}
  /\ End({c \in Calls : at[c] = n})
  /\ UNCHANGED <<memNext, diskVars, opened, histVars>>

\* Run puts what LoadSessions returns into the map, with its old UpdatedAt.
Restart(n) ==
  /\ n \in Nodes \ up
  /\ up' = up \union {n}
  /\ memState' = [memState EXCEPT ![n] = diskState[n]]
  /\ memNext' = [memNext EXCEPT ![n] = diskNext[n]]
  /\ UNCHANGED <<crashes, aged, evicting, diskVars, callVars, opened, histVars>>

-----------------------------------------------------------------------------
Next ==
  \/ \E c \in Calls :
        \/ OpenSession(c) \/ OpenMentionSession(c) \/ DeliverSessionOpen(c)
        \/ \E n \in {Opener, Peer} : SendMessage(c, n) \/ ResolveSession(c, n)
        \/ PutMemory(c) \/ Persist(c) \/ Route(c) \/ Return(c)
  \/ \E n \in Nodes :
        \/ Age(n) \/ Evict(n) \/ RemoveSession(n)
        \/ Crash(n) \/ Restart(n)

Spec == Init /\ [][Next]_vars

\* Handlers run to their end, the eviction ticker fires, daemons are restarted.
Fairness ==
  /\ \A c \in Calls :
       WF_vars(PutMemory(c)) /\ WF_vars(Persist(c)) /\ WF_vars(Return(c))
         /\ WF_vars(Route(c))
  /\ \A n \in Nodes :
       WF_vars(Age(n)) /\ WF_vars(Evict(n)) /\ WF_vars(RemoveSession(n))
         /\ WF_vars(Restart(n))

FairSpec == Spec /\ Fairness

-----------------------------------------------------------------------------
(* Properties                                                              *)

States == {"absent", "open", "resolved"}

StoreType ==
  /\ up \subseteq Nodes /\ crashes \in Nat
  /\ memState \in [Nodes -> States] /\ memNext \in [Nodes -> Nat]
  /\ aged \subseteq up /\ evicting \subseteq up
  /\ diskState \in [Nodes -> States] /\ diskNext \in [Nodes -> Nat]

CallType ==
  /\ pc \in [Calls -> {"idle", "put", "persist", "route", "return"}]
  /\ op \in [Calls -> Ops]
  /\ at \in [Calls -> Nodes]
  /\ seq \in [Calls -> Nat] /\ floor \in [Calls -> Nat]

HistoryType ==
  /\ opened \in BOOLEAN
  /\ returned \in [Nodes -> Nat]
  /\ persisted \subseteq Nodes /\ resolved \subseteq Nodes
  /\ closed \subseteq Nodes /\ recreated \subseteq Nodes
  /\ diskErr \subseteq Nodes

\* The types, and that only a running daemon evicts.
TypeOK == StoreType /\ CallType /\ HistoryType

\* "Per-session monotonic ordering": a SendMessage that begins after another
\* call on this daemon has returned carries a larger sequence number, whatever
\* crashes and restarts lie between them.
MonotonicSequence ==
  \A c \in Calls :
    (op[c] = "send" /\ at[c] \notin diskErr) => seq[c] > floor[c]

\* ResolveSession closes the session: once it has returned, neither the map
\* nor the disk has the session open, unless a late SESSION_OPEN made it anew.
ResolvedIsFinal ==
  \A n \in closed \ (recreated \union diskErr) :
    memState[n] # "open" /\ diskState[n] # "open"

\* "Sessions survive daemon restarts": until it is resolved, a session that
\* was stored is on disk, and a running daemon has it.
SessionsSurvive ==
  \A n \in persisted \ resolved :
    diskState[n] = "open" /\ (n \in up => memState[n] = "open")

\* Map and disk agree whenever no call and no eviction is under way, unless a
\* late SESSION_OPEN came between the two halves of an eviction.
StoreAgrees ==
  \A n \in up \ (evicting \union diskErr \union recreated) :
    Idle(n) => /\ diskState[n] = memState[n]
               /\ memState[n] # "absent" => diskNext[n] = memNext[n]

\* "Resolved sessions evicted from disk on TTL sweep", for the daemon that
\* resolved it: its copy leaves the map, if only for a late SESSION_OPEN to
\* create it again, unless the disk failed to take what was resolved.
ResolverEvicts ==
  \A n \in Nodes :
    n \in closed ~> memState[n] = "absent" \/ n \in recreated \union diskErr

=============================================================================
