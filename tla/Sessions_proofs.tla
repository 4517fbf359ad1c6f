-------------------------- MODULE Sessions_proofs --------------------------
(***************************************************************************)
(* What a daemon keeps of its sessions across crashes and restarts, for    *)
(* any number of calls, crashes and sequence numbers, with and without     *)
(* failing transactions.  Then the bridge of an agent, for any number of   *)
(* requests and messages.                                                  *)
(***************************************************************************)
EXTENDS Sessions, Bridge, TLAPS

-----------------------------------------------------------------------------
(* The session stores.                                                     *)

Active(c) == pc[c] # "idle"

\* Where a resolved copy can come from, and which calls are under way.
SurviveInv ==
  /\ \A c \in Calls : op[c] = "none" <=> pc[c] = "idle"
  /\ \A c \in Calls : Active(c) => at[c] \in up
  /\ \A n \in Nodes :
       (memState[n] = "resolved" \/ diskState[n] = "resolved") => n \in resolved
  /\ evicting \subseteq resolved
  /\ \A c \in Calls :
       pc[c] = "persist" =>
         IF op[c] = "resolve" THEN at[c] \in resolved
         ELSE at[c] \in resolved \/ memState[at[c]] = "open"
  /\ SessionsSurvive

\* No two calls on one daemon.
Exclusive ==
  \A c, d \in Calls : (Active(c) /\ Active(d) /\ at[c] = at[d]) => c = d

Numbering == {"open", "mention", "send"}

\* What one call knows of the store while no other call runs on its daemon.
CallInv(c) ==
  LET n == at[c] IN
  /\ op[c] \in Numbering =>
       /\ returned[n] = floor[c]
       /\ floor[c] < seq[c] + 1
       /\ op[c] = "send" => floor[c] < seq[c]
       /\ (pc[c] # "put" /\ memState[n] = "open") => memNext[n] = seq[c] + 1
       /\ pc[c] \in {"route", "return"} =>
            /\ n \in persisted
            /\ diskState[n] = "open" => diskNext[n] = seq[c] + 1
  /\ (op[c] = "deliver" /\ pc[c] # "put") => returned[n] = 0

\* The numbers that have been returned are below the next one, in the map and
\* on disk.
Ahead(n) ==
  /\ memState[n] = "open" => returned[n] < memNext[n]
  /\ diskState[n] = "open" => returned[n] < diskNext[n]
  /\ returned[n] > 0 => n \in persisted

SequenceInv ==
  /\ \A n \in Nodes : diskState[n] # "absent" => diskNext[n] > 0
  /\ \A n \in Nodes \ diskErr : Ahead(n)
  /\ \A c \in Calls : (Active(c) /\ at[c] \notin diskErr) => CallInv(c)

\* A ResolveSession past its Put, and a daemon on which one has returned.
FinalInv ==
  /\ closed \subseteq resolved
  /\ closed \subseteq persisted \union diskErr
  /\ \A c \in Calls :
       op[c] = "resolve" =>
         /\ pc[c] \in {"persist", "return"} =>
              at[c] \in resolved /\ memState[at[c]] # "open"
         /\ pc[c] = "return" =>
              /\ at[c] \in persisted \union diskErr
              /\ diskState[at[c]] # "open" \/ at[c] \in diskErr
  /\ \A c \in Calls :
       (Active(c) /\ at[c] \in closed \ (recreated \union diskErr))
         => op[c] = "deliver" /\ pc[c] = "put"
  /\ ResolvedIsFinal

-----------------------------------------------------------------------------
(* Type correctness.                                                       *)

\* The types of the stores, the calls and the histories.
THEOREM TypeCorrect == Spec => []TypeOK
<1>1. Init => TypeOK
  <2> SUFFICES ASSUME Init PROVE TypeOK
    BY Zenon
  <2>1. opened \in BOOLEAN
    BY Zenon DEF Init
  <2> QED
    BY Zenon, <2>1, NodesAssumption
       DEF Init, TypeOK, StoreType, CallType, HistoryType, States, Ops
<1>2. TypeOK /\ [Next]_vars => TypeOK'
  <2> SUFFICES ASSUME TypeOK, [Next]_vars PROVE TypeOK'
    BY Zenon
  <2> USE NodesAssumption DEF TypeOK, StoreType, CallType, HistoryType
  <2>1. CASE UNCHANGED vars
    BY Zenon, <2>1 DEF vars
  <2>2. ASSUME NEW c \in Calls, OpenSession(c)
        PROVE  TypeOK'
    BY Zenon, <2>2 DEF OpenSession, Begin, Fresh, memVars, diskVars, histVars, Ops
  <2>3. ASSUME NEW c \in Calls, OpenMentionSession(c)
        PROVE  TypeOK'
    BY Zenon, <2>3 DEF OpenMentionSession, Begin, Fresh, memVars, diskVars,
       histVars, Ops
  <2>4. ASSUME NEW c \in Calls, DeliverSessionOpen(c)
        PROVE  TypeOK'
    BY Zenon, <2>4 DEF DeliverSessionOpen, Begin, memVars, diskVars, histVars, Ops
  <2>5. ASSUME NEW c \in Calls, NEW n \in Nodes, SendMessage(c, n)
        PROVE  TypeOK'
    BY Zenon, <2>5 DEF SendMessage, Begin, memVars, diskVars, histVars, Ops
  <2>6. ASSUME NEW c \in Calls, NEW n \in Nodes, ResolveSession(c, n)
        PROVE  TypeOK'
    BY Zenon, <2>6 DEF ResolveSession, Begin, memVars, diskVars, histVars, Ops
  <2>7. ASSUME NEW c \in Calls, PutMemory(c)
        PROVE  TypeOK'
    BY SMTT(20), <2>7 DEF PutMemory, CloneState, diskVars, States
  <2>8. ASSUME NEW c \in Calls, Persist(c)
        PROVE  TypeOK'
    BY SMTT(20), <2>8 DEF Persist, CloneState, memVars, diskVars, States
  <2>9. ASSUME NEW c \in Calls, Route(c)
        PROVE  TypeOK'
    <3>1. CallType'
      BY SMTT(20), <2>9 DEF Route, End, Ops
    <3>2. opened' \in BOOLEAN
      BY Zenon, <2>9, Zenon DEF Route
    <3> QED BY Zenon, <2>9, <3>1, <3>2 DEF Route, memVars, diskVars, histVars
  <2>10. ASSUME NEW c \in Calls, Return(c)
        PROVE  TypeOK'
    BY Zenon, <2>10 DEF Return, End, memVars, diskVars, Ops
  <2>11. ASSUME NEW n \in Nodes, Age(n)
        PROVE  TypeOK'
    BY Zenon, <2>11 DEF Age, diskVars, callVars, histVars
  <2>12. ASSUME NEW n \in Nodes, Evict(n)
        PROVE  TypeOK'
    BY Zenon, <2>12 DEF Evict, diskVars, callVars, histVars, States
  <2>13. ASSUME NEW n \in Nodes, RemoveSession(n)
        PROVE  TypeOK'
    BY Zenon, <2>13 DEF RemoveSession, callVars, histVars, States
  <2>14. ASSUME NEW n \in Nodes, Crash(n)
        PROVE  TypeOK'
    BY SMTT(20), <2>14 DEF Crash, End, diskVars, histVars, States, Ops
  <2>15. ASSUME NEW n \in Nodes, Restart(n)
        PROVE  TypeOK'
    BY Zenon, <2>15 DEF Restart, diskVars, callVars, histVars
  <2> QED
    BY Zenon, <2>1, <2>2, <2>3, <2>4, <2>5, <2>6, <2>7, <2>8, <2>9, <2>10, <2>11,
       <2>12, <2>13, <2>14, <2>15, NodesAssumption DEF Next
<1> QED BY <1>1, <1>2, PTL DEF Spec

-----------------------------------------------------------------------------
(* Sessions survive restarts, however calls overlap.                       *)

\* The inductive invariant behind StoredSessionsSurvive.
LEMMA SurviveInvHolds == Spec => []SurviveInv
<1>1. Init => SurviveInv
  BY DEF Init, SurviveInv, SessionsSurvive, Active
<1>2. TypeOK /\ SurviveInv /\ [Next]_vars => SurviveInv'
  <2> SUFFICES ASSUME TypeOK, SurviveInv, [Next]_vars PROVE SurviveInv'
    BY Zenon
  <2> USE NodesAssumption
      DEF TypeOK, StoreType, CallType, HistoryType, SurviveInv,
          SessionsSurvive, Active
  <2>1. CASE UNCHANGED vars
    BY Zenon, <2>1 DEF vars
  <2>2. ASSUME NEW c \in Calls, OpenSession(c)
        PROVE  SurviveInv'
    BY <2>2 DEF OpenSession, Begin, Fresh, memVars, diskVars, histVars
  <2>3. ASSUME NEW c \in Calls, OpenMentionSession(c)
        PROVE  SurviveInv'
    BY <2>3 DEF OpenMentionSession, Begin, Fresh, memVars, diskVars, histVars
  <2>4. ASSUME NEW c \in Calls, DeliverSessionOpen(c)
        PROVE  SurviveInv'
    BY <2>4 DEF DeliverSessionOpen, Begin, memVars, diskVars, histVars
  <2>5. ASSUME NEW c \in Calls, NEW n \in Nodes, SendMessage(c, n)
        PROVE  SurviveInv'
    BY <2>5 DEF SendMessage, Begin, memVars, diskVars, histVars
  <2>6. ASSUME NEW c \in Calls, NEW n \in Nodes, ResolveSession(c, n)
        PROVE  SurviveInv'
    BY <2>6 DEF ResolveSession, Begin, memVars, diskVars, histVars
  <2>7. ASSUME NEW c \in Calls, PutMemory(c)
        PROVE  SurviveInv'
    BY <2>7 DEF PutMemory, CloneState, diskVars
  <2>8. ASSUME NEW c \in Calls, Persist(c)
        PROVE  SurviveInv'
    BY SMTT(20), <2>8 DEF Persist, CloneState, memVars, diskVars
  <2>9. ASSUME NEW c \in Calls, Route(c)
        PROVE  SurviveInv'
    BY SMTT(20), <2>9 DEF Route, End, memVars, diskVars, histVars
  <2>10. ASSUME NEW c \in Calls, Return(c)
        PROVE  SurviveInv'
    BY Zenon, <2>10 DEF Return, End, memVars, diskVars
  <2>11. ASSUME NEW n \in Nodes, Age(n)
        PROVE  SurviveInv'
    BY Zenon, <2>11 DEF Age, diskVars, callVars, histVars
  <2>12. ASSUME NEW n \in Nodes, Evict(n)
        PROVE  SurviveInv'
    BY <2>12 DEF Evict, diskVars, callVars, histVars
  <2>13. ASSUME NEW n \in Nodes, RemoveSession(n)
        PROVE  SurviveInv'
    BY <2>13 DEF RemoveSession, callVars, histVars
  <2>14. ASSUME NEW n \in Nodes, Crash(n)
        PROVE  SurviveInv'
    BY Zenon, <2>14 DEF Crash, End, diskVars, histVars
  <2>15. ASSUME NEW n \in Nodes, Restart(n)
        PROVE  SurviveInv'
    BY <2>15 DEF Restart, diskVars, callVars, histVars
  <2> QED
    BY Zenon, <2>1, <2>2, <2>3, <2>4, <2>5, <2>6, <2>7, <2>8, <2>9, <2>10, <2>11,
       <2>12, <2>13, <2>14, <2>15, NodesAssumption DEF Next
<1> QED BY <1>1, <1>2, TypeCorrect, PTL DEF Spec

\* A session that was stored stays on disk, and in the map of a running
\* daemon, until a resolved copy of it was put into the map.
THEOREM StoredSessionsSurvive == Spec => []SessionsSurvive
<1>1. SurviveInv => SessionsSurvive
  BY Zenon DEF SurviveInv
<1> QED BY <1>1, SurviveInvHolds, PTL

-----------------------------------------------------------------------------
(* What holds when calls on the session do not overlap on one daemon.      *)

\* The calls that are under way run on different daemons.
LEMMA CallsAreExclusive == ASSUME Serial PROVE Spec => []Exclusive
<1>1. Init => Exclusive
  BY Zenon DEF Init, Exclusive, Active
<1>2. TypeOK /\ Exclusive /\ [Next]_vars => Exclusive'
  <2> SUFFICES ASSUME TypeOK, Exclusive, [Next]_vars PROVE Exclusive'
    BY Zenon
  <2> USE DEF TypeOK, CallType, Exclusive, Active
  <2>1. CASE UNCHANGED vars
    BY Zenon, <2>1 DEF vars
  <2>2. ASSUME NEW c \in Calls, OpenSession(c)
        PROVE  Exclusive'
    BY Zenon, <2>2 DEF OpenSession, Begin, Idle
  <2>3. ASSUME NEW c \in Calls, OpenMentionSession(c)
        PROVE  Exclusive'
    BY Zenon, <2>3 DEF OpenMentionSession, Begin, Idle
  <2>4. ASSUME NEW c \in Calls, DeliverSessionOpen(c)
        PROVE  Exclusive'
    BY SMTT(20), <2>4 DEF DeliverSessionOpen, Begin, Idle
  <2>5. ASSUME NEW c \in Calls, NEW n \in Nodes, SendMessage(c, n)
        PROVE  Exclusive'
    BY SMTT(20), <2>5 DEF SendMessage, Begin, Idle
  <2>6. ASSUME NEW c \in Calls, NEW n \in Nodes, ResolveSession(c, n)
        PROVE  Exclusive'
    BY SMTT(20), <2>6 DEF ResolveSession, Begin, Idle
  <2>7. ASSUME NEW c \in Calls, PutMemory(c)
        PROVE  Exclusive'
    BY Zenon, <2>7 DEF PutMemory
  <2>8. ASSUME NEW c \in Calls, Persist(c)
        PROVE  Exclusive'
    BY Zenon, <2>8 DEF Persist
  <2>9. ASSUME NEW c \in Calls, Route(c)
        PROVE  Exclusive'
    BY SMTT(20), <2>9 DEF Route, End
  <2>10. ASSUME NEW c \in Calls, Return(c)
        PROVE  Exclusive'
    BY Zenon, <2>10 DEF Return, End
  <2>11. ASSUME NEW n \in Nodes, Age(n)
        PROVE  Exclusive'
    BY Zenon, <2>11 DEF Age, callVars
  <2>12. ASSUME NEW n \in Nodes, Evict(n)
        PROVE  Exclusive'
    BY Zenon, <2>12 DEF Evict, callVars
  <2>13. ASSUME NEW n \in Nodes, RemoveSession(n)
        PROVE  Exclusive'
    BY Zenon, <2>13 DEF RemoveSession, callVars
  <2>14. ASSUME NEW n \in Nodes, Crash(n)
        PROVE  Exclusive'
    BY Zenon, <2>14 DEF Crash, End
  <2>15. ASSUME NEW n \in Nodes, Restart(n)
        PROVE  Exclusive'
    BY Zenon, <2>15 DEF Restart, callVars
  <2> QED
    BY Zenon, <2>1, <2>2, <2>3, <2>4, <2>5, <2>6, <2>7, <2>8, <2>9, <2>10, <2>11,
       <2>12, <2>13, <2>14, <2>15, NodesAssumption DEF Next
<1> QED BY <1>1, <1>2, TypeCorrect, PTL DEF Spec

\* NextSeq is on disk before the number it follows is on the wire: a call that
\* begins after another one returned takes a larger number, across crashes.
THEOREM SequencesIncrease == ASSUME Serial PROVE Spec => []MonotonicSequence
<1>1. Init => SequenceInv
  BY SMTT(20) DEF Init, SequenceInv, Ahead, Active
<1>2. TypeOK /\ SurviveInv /\ Exclusive /\ SequenceInv /\ [Next]_vars
        => SequenceInv'
  <2> SUFFICES ASSUME TypeOK, SurviveInv, Exclusive, SequenceInv, [Next]_vars
               PROVE  SequenceInv'
    BY Zenon
  <2> USE NodesAssumption
      DEF TypeOK, StoreType, CallType, HistoryType, SequenceInv, Ahead, CallInv,
          Active, Numbering
  <2>1. CASE UNCHANGED vars
    BY Zenon, <2>1 DEF vars
  <2>2. ASSUME NEW c \in Calls, OpenSession(c)
        PROVE  SequenceInv'
    BY SMTT(20), <2>2 DEF OpenSession, Begin, Idle, Fresh, memVars, diskVars, histVars
  <2>3. ASSUME NEW c \in Calls, OpenMentionSession(c)
        PROVE  SequenceInv'
    BY SMTT(20), <2>3 DEF OpenMentionSession, Begin, Idle, Fresh, memVars, diskVars,
       histVars
  <2>4. ASSUME NEW c \in Calls, DeliverSessionOpen(c)
        PROVE  SequenceInv'
    BY <2>4 DEF DeliverSessionOpen, Begin, Idle, memVars, diskVars, histVars
  <2>5. ASSUME NEW c \in Calls, NEW n \in Nodes, SendMessage(c, n)
        PROVE  SequenceInv'
    BY SMTT(20), <2>5 DEF SendMessage, Begin, Idle, memVars, diskVars, histVars
  <2>6. ASSUME NEW c \in Calls, NEW n \in Nodes, ResolveSession(c, n)
        PROVE  SequenceInv'
    BY <2>6 DEF ResolveSession, Begin, Idle, memVars, diskVars, histVars
  <2>7. ASSUME NEW c \in Calls, PutMemory(c)
        PROVE  SequenceInv'
    <3>1. Active(c) /\ at[c] \in Nodes
      BY Zenon, <2>7 DEF PutMemory
    <3>2. \A d \in Calls \ {c} : Active(d) => at[d] # at[c]
      BY Zenon, <3>1 DEF Exclusive
    <3>3. \A n \in Nodes \ diskErr : Ahead(n)'
      BY SMTT(20), <3>1, <2>7 DEF PutMemory, CloneState, diskVars, Ops, SurviveInv
    <3>4. ASSUME NEW d \in Calls \ {c}, Active(d), at[d] \notin diskErr
          PROVE  CallInv(d)'
      <4>1. at[d] # at[c] /\ CallInv(d)
        BY Zenon, <3>2, <3>4
      <4> QED BY Zenon, <3>1, <4>1, <2>7 DEF PutMemory, diskVars
    <3>5. at[c] \notin diskErr => CallInv(c)'
      BY Zenon, <3>1, <2>7 DEF PutMemory, CloneState, diskVars
    <3> QED BY <3>3, <3>4, <3>5, <2>7 DEF PutMemory, diskVars
  <2>8. ASSUME NEW c \in Calls, Persist(c)
        PROVE  SequenceInv'
    <3>1. Active(c) /\ at[c] \in Nodes
      BY Zenon, <2>8 DEF Persist
    <3>2. \A d \in Calls \ {c} : Active(d) => at[d] # at[c]
      BY Zenon, <3>1 DEF Exclusive
    <3>3. \A n \in Nodes \ diskErr' : Ahead(n)'
      BY SMTT(20), <3>1, <2>8 DEF Persist, CloneState, memVars, diskVars, Ops, SurviveInv
    <3>4. ASSUME NEW d \in Calls \ {c}, Active(d), at[d] \notin diskErr'
          PROVE  CallInv(d)'
      <4>1. at[d] # at[c] /\ at[d] \notin diskErr
        BY Zenon, <3>2, <3>4, <2>8 DEF Persist
      <4>2. CallInv(d)
        BY Zenon, <3>4, <4>1
      <4> QED BY Zenon, <3>1, <4>1, <4>2, <2>8 DEF Persist, memVars, diskVars
    <3>5. at[c] \notin diskErr' => CallInv(c)'
      BY Zenon, <3>1, <2>8 DEF Persist, CloneState, memVars, diskVars
    <3>6. \A n \in Nodes : diskState'[n] # "absent" => diskNext'[n] > 0
      BY SMTT(20), <3>1, <2>8 DEF Persist, diskVars
    <3>7. at' = at
      BY Zenon, <2>8 DEF Persist
    <3>8. \A d \in Calls \ {c} : Active(d)' => Active(d)
      BY Zenon, <2>8 DEF Persist, Active
    <3>9. ASSUME NEW d \in Calls, Active(d)', at'[d] \notin diskErr' PROVE CallInv(d)'
      BY Zenon, <3>4, <3>5, <3>7, <3>8, <3>9
    <3> QED BY Zenon, <3>3, <3>6, <3>9 DEF SequenceInv
  <2>9. ASSUME NEW c \in Calls, Route(c)
        PROVE  SequenceInv'
    BY SMTT(20), <2>9 DEF Route, End, memVars, diskVars, histVars
  <2>10. ASSUME NEW c \in Calls, Return(c)
        PROVE  SequenceInv'
    <3>1. Active(c) /\ at[c] \in Nodes
      BY Zenon, <2>10 DEF Return
    <3>2. \A d \in Calls \ {c} : Active(d) => at[d] # at[c]
      BY Zenon, <3>1 DEF Exclusive
    <3>3. \A n \in Nodes \ diskErr : Ahead(n)'
      BY SMTT(20), <3>1, <2>10 DEF Return, memVars, diskVars, Ops, SurviveInv
    <3>4. ASSUME NEW d \in Calls \ {c}, Active(d), at[d] \notin diskErr
          PROVE  CallInv(d)'
      <4>1. at[d] # at[c] /\ CallInv(d)
        BY Zenon, <3>2, <3>4
      <4> QED BY Zenon, <3>1, <4>1, <2>10 DEF Return, End, memVars, diskVars
    <3> QED BY Zenon, <3>3, <3>4, <2>10 DEF Return, End, memVars, diskVars
  <2>11. ASSUME NEW n \in Nodes, Age(n)
        PROVE  SequenceInv'
    BY Zenon, <2>11 DEF Age, diskVars, callVars, histVars
  <2>12. ASSUME NEW n \in Nodes, Evict(n)
        PROVE  SequenceInv'
    BY Zenon, <2>12 DEF Evict, diskVars, callVars, histVars
  <2>13. ASSUME NEW n \in Nodes, RemoveSession(n)
        PROVE  SequenceInv'
    BY <2>13 DEF RemoveSession, callVars, histVars
  <2>14. ASSUME NEW n \in Nodes, Crash(n)
        PROVE  SequenceInv'
    BY <2>14 DEF Crash, End, diskVars, histVars
  <2>15. ASSUME NEW n \in Nodes, Restart(n)
        PROVE  SequenceInv'
    BY SMTT(20), <2>15 DEF Restart, diskVars, callVars, histVars, SurviveInv
  <2> QED
    BY ZenonT(30), <2>1, <2>2, <2>3, <2>4, <2>5, <2>6, <2>7, <2>8, <2>9, <2>10, <2>11,
       <2>12, <2>13, <2>14, <2>15, NodesAssumption DEF Next
<1>3. TypeOK /\ SurviveInv /\ SequenceInv => MonotonicSequence
  BY Zenon DEF TypeOK, CallType, SurviveInv, SequenceInv, CallInv, Active, Numbering,
         MonotonicSequence
<1> QED
  BY <1>1, <1>2, <1>3, TypeCorrect, SurviveInvHolds, CallsAreExclusive, PTL
     DEF Spec

\* After ResolveSession has returned, the session is open neither in the map
\* nor on disk, across crashes, unless a late SESSION_OPEN created it again.
THEOREM ResolveIsFinal == ASSUME Serial PROVE Spec => []ResolvedIsFinal
<1>1. Init => FinalInv
  BY Zenon DEF Init, FinalInv, ResolvedIsFinal, Active
<1>2. TypeOK /\ SurviveInv /\ Exclusive /\ FinalInv /\ [Next]_vars => FinalInv'
  <2> SUFFICES ASSUME TypeOK, SurviveInv, Exclusive, FinalInv, [Next]_vars
               PROVE  FinalInv'
    BY Zenon
  <2> USE NodesAssumption
      DEF TypeOK, StoreType, CallType, HistoryType, FinalInv, ResolvedIsFinal,
          Active
  <2>1. CASE UNCHANGED vars
    BY Zenon, <2>1 DEF vars
  <2>2. ASSUME NEW c \in Calls, OpenSession(c)
        PROVE  FinalInv'
    BY <2>2 DEF OpenSession, Begin, Idle, Fresh, memVars, diskVars, histVars
  <2>3. ASSUME NEW c \in Calls, OpenMentionSession(c)
        PROVE  FinalInv'
    BY <2>3 DEF OpenMentionSession, Begin, Idle, Fresh, memVars, diskVars,
       histVars
  <2>4. ASSUME NEW c \in Calls, DeliverSessionOpen(c)
        PROVE  FinalInv'
    BY <2>4 DEF DeliverSessionOpen, Begin, Idle, memVars, diskVars, histVars
  <2>5. ASSUME NEW c \in Calls, NEW n \in Nodes, SendMessage(c, n)
        PROVE  FinalInv'
    BY <2>5 DEF SendMessage, Begin, Idle, memVars, diskVars, histVars
  <2>6. ASSUME NEW c \in Calls, NEW n \in Nodes, ResolveSession(c, n)
        PROVE  FinalInv'
    BY <2>6 DEF ResolveSession, Begin, Idle, memVars, diskVars, histVars
  <2>7. ASSUME NEW c \in Calls, PutMemory(c)
        PROVE  FinalInv'
    BY SMTT(20), <2>7 DEF PutMemory, CloneState, diskVars, Exclusive, SurviveInv
  <2>8. ASSUME NEW c \in Calls, Persist(c)
        PROVE  FinalInv'
    BY SMTT(20), <2>8 DEF Persist, CloneState, memVars, diskVars, Exclusive, SurviveInv
  <2>9. ASSUME NEW c \in Calls, Route(c)
        PROVE  FinalInv'
    BY SMTT(20), <2>9 DEF Route, End, memVars, diskVars, histVars
  <2>10. ASSUME NEW c \in Calls, Return(c)
        PROVE  FinalInv'
    BY SMTT(20), <2>10 DEF Return, End, memVars, diskVars, Exclusive, SurviveInv
  <2>11. ASSUME NEW n \in Nodes, Age(n)
        PROVE  FinalInv'
    BY Zenon, <2>11 DEF Age, diskVars, callVars, histVars
  <2>12. ASSUME NEW n \in Nodes, Evict(n)
        PROVE  FinalInv'
    BY Zenon, <2>12 DEF Evict, diskVars, callVars, histVars
  <2>13. ASSUME NEW n \in Nodes, RemoveSession(n)
        PROVE  FinalInv'
    BY Zenon, <2>13 DEF RemoveSession, callVars, histVars
  <2>14. ASSUME NEW n \in Nodes, Crash(n)
        PROVE  FinalInv'
    BY Zenon, <2>14 DEF Crash, End, diskVars, histVars
  <2>15. ASSUME NEW n \in Nodes, Restart(n)
        PROVE  FinalInv'
    BY <2>15 DEF Restart, diskVars, callVars, histVars, SurviveInv
  <2> QED
    BY Zenon, <2>1, <2>2, <2>3, <2>4, <2>5, <2>6, <2>7, <2>8, <2>9, <2>10, <2>11,
       <2>12, <2>13, <2>14, <2>15, NodesAssumption DEF Next
<1>3. FinalInv => ResolvedIsFinal
  BY Zenon DEF FinalInv
<1> QED
  BY <1>1, <1>2, <1>3, TypeCorrect, SurviveInvHolds, CallsAreExclusive, PTL
     DEF Spec

-----------------------------------------------------------------------------
(* Map and disk.                                                           *)

Agree(n) ==
  /\ diskState[n] = memState[n]
  /\ memState[n] # "absent" => diskNext[n] = memNext[n]

\* A call whose clone is still to be put into the map found the session open.
FoundOpen(c) ==
  \/ op[c] = "send" /\ pc[c] = "put"
  \/ op[c] = "resolve" /\ pc[c] \in {"route", "put"}

\* Map and disk differ only between the two halves of a Put or of an eviction.
\* The clone that a call persists is the one in the map, which is too young to
\* be evicted; what is evicted was stored before, so that only a late
\* SESSION_OPEN can put it back.
AgreeInv ==
  /\ \A n \in Nodes : diskState[n] # "absent" => n \in persisted
  /\ recreated \subseteq resolved /\ resolved \subseteq persisted \union diskErr
  /\ \A n \in evicting \ recreated : memState[n] = "absent"
  /\ \A c \in Calls :
       /\ pc[c] = "persist" => /\ at[c] \notin aged
                               /\ memState[at[c]] = CloneState(c)
                               /\ memNext[at[c]] = seq[c] + 1
       /\ FoundOpen(c) => memState[at[c]] = "open"
       /\ op[c] \in {"open", "mention"} /\ pc[c] = "put" => at[c] \notin persisted \union diskErr
  /\ \A n \in up \ (evicting \union diskErr \union recreated) :
       (\A c \in Calls : at[c] = n => pc[c] # "persist") => Agree(n)

\* StoreAgrees: while no call and no eviction is under way on a daemon, its map
\* and its disk hold the same session, across crashes and restarts, unless the
\* disk failed or a late SESSION_OPEN came between the halves of an eviction.
THEOREM StoresAgree == ASSUME Serial PROVE Spec => []StoreAgrees
<1>1. Init => AgreeInv
  BY DEF Init, AgreeInv, Agree, FoundOpen
<1>2. TypeOK /\ SurviveInv /\ Exclusive /\ AgreeInv /\ [Next]_vars => AgreeInv'
  <2> SUFFICES ASSUME TypeOK, SurviveInv, Exclusive, AgreeInv, [Next]_vars
               PROVE  AgreeInv'
    BY Zenon
  <2> USE NodesAssumption
      DEF TypeOK, StoreType, CallType, HistoryType, AgreeInv, Agree, FoundOpen,
          CloneState, Active
  <2>1. CASE UNCHANGED vars
    BY <2>1 DEF vars
  <2>2. ASSUME NEW c \in Calls, OpenSession(c)
        PROVE  AgreeInv'
    BY <2>2 DEF OpenSession, Begin, Idle, Fresh, memVars, diskVars, histVars
  <2>3. ASSUME NEW c \in Calls, OpenMentionSession(c)
        PROVE  AgreeInv'
    BY <2>3 DEF OpenMentionSession, Begin, Idle, Fresh, memVars, diskVars, histVars
  <2>4. ASSUME NEW c \in Calls, DeliverSessionOpen(c)
        PROVE  AgreeInv'
    BY <2>4 DEF DeliverSessionOpen, Begin, Idle, memVars, diskVars, histVars
  <2>5. ASSUME NEW c \in Calls, NEW n \in Nodes, SendMessage(c, n)
        PROVE  AgreeInv'
    BY <2>5 DEF SendMessage, Begin, Idle, memVars, diskVars, histVars
  <2>6. ASSUME NEW c \in Calls, NEW n \in Nodes, ResolveSession(c, n)
        PROVE  AgreeInv'
    BY SMTT(20), <2>6 DEF ResolveSession, Begin, Idle, memVars, diskVars, histVars
  <2>7. ASSUME NEW c \in Calls, PutMemory(c)
        PROVE  AgreeInv'
    <3>1. PICK n \in Nodes : n = at[c]
      BY Zenon
    <3>2. /\ pc[c] = "put" /\ pc' = [pc EXCEPT ![c] = "persist"]
          /\ memState' = [memState EXCEPT ![n] = CloneState(c)]
          /\ memNext' = [memNext EXCEPT ![n] = seq[c] + 1]
          /\ aged' = aged \ {n}
          /\ resolved' = IF op[c] = "resolve" THEN resolved \union {n} ELSE resolved
          /\ recreated' = IF op[c] = "deliver" /\ n \in resolved
                          THEN recreated \union {n} ELSE recreated
          /\ UNCHANGED <<up, evicting, diskState, diskNext, op, at, seq, persisted, diskErr>>
      BY Zenon, <2>7, <3>1 DEF PutMemory, diskVars
    <3>3. \A d \in Calls \ {c} : Active(d) => at[d] # n
      BY Zenon, <3>1, <3>2 DEF Exclusive
    <3>4. \A m \in Nodes : diskState'[m] # "absent" => m \in persisted'
      BY Zenon, <3>2
    <3>5. recreated' \subseteq resolved' /\ resolved' \subseteq persisted' \union diskErr'
      <4>1. op[c] = "resolve" => n \in resolved \/ n \in persisted \union diskErr
        <5> SUFFICES ASSUME op[c] = "resolve", n \notin resolved \union diskErr PROVE n \in persisted
          BY Zenon
        <5>1. n \in up \ (evicting \union diskErr \union recreated) /\ memState[n] = "open"
          BY Zenon, <3>1, <3>2 DEF SurviveInv
        <5>2. \A d \in Calls : at[d] = n => pc[d] # "persist"
          BY Zenon, <3>2, <3>3
        <5>3. diskState[n] = "open"
          BY Zenon, <5>1, <5>2
        <5> QED
          BY Zenon, <5>3
      <4> QED
        BY <3>2, <4>1
    <3>6. \A m \in evicting' \ recreated' : memState'[m] = "absent"
      <4>1. n \in evicting => n \in recreated'
        BY <3>1, <3>2 DEF SurviveInv, Ops
      <4> QED
        BY <3>2, <4>1
    <3>7. \A d \in Calls \ {c} : /\ pc'[d] = pc[d]
                                 /\ Active(d) => /\ memState'[at[d]] = memState[at[d]]
                                                 /\ memNext'[at[d]] = memNext[at[d]]
      BY <3>1, <3>2, <3>3
    <3>8. \A d \in Calls \ {c} :
            /\ pc'[d] = "persist" => /\ at'[d] \notin aged'
                                     /\ memState'[at'[d]] = CloneState(d)'
                                     /\ memNext'[at'[d]] = seq'[d] + 1
            /\ FoundOpen(d)' => memState'[at'[d]] = "open"
            /\ op'[d] \in {"open", "mention"} /\ pc'[d] = "put" =>
                 at'[d] \notin persisted' \union diskErr'
      BY <3>2, <3>7
    <3>9. /\ pc'[c] = "persist" /\ at'[c] \notin aged'
          /\ memState'[at'[c]] = CloneState(c)' /\ memNext'[at'[c]] = seq'[c] + 1
      BY <3>1, <3>2
    <3>10. \A m \in up' \ (evicting' \union diskErr' \union recreated') :
             (\A d \in Calls : at'[d] = m => pc'[d] # "persist") => Agree(m)'
      <4> SUFFICES ASSUME NEW m \in up' \ (evicting' \union diskErr' \union recreated'), m # n,
                          \A d \in Calls : at'[d] = m => pc'[d] # "persist"
                   PROVE  Agree(m)'
        BY Zenon, <3>1, <3>2, <3>9
      <4>1. Agree(m)
        BY Zenon, <3>1, <3>2, <3>7
      <4> QED
        BY <3>2, <4>1
    <3> QED
      BY <3>4, <3>5, <3>6, <3>8, <3>9, <3>10
  <2>8. ASSUME NEW c \in Calls, Persist(c)
        PROVE  AgreeInv'
    BY <2>8 DEF Persist, memVars, diskVars, SurviveInv, Exclusive
  <2>9. ASSUME NEW c \in Calls, Route(c)
        PROVE  AgreeInv'
    BY <2>9 DEF Route, End, memVars, diskVars, histVars
  <2>10. ASSUME NEW c \in Calls, Return(c)
        PROVE  AgreeInv'
    BY <2>10 DEF Return, End, memVars, diskVars
  <2>11. ASSUME NEW n \in Nodes, Age(n)
        PROVE  AgreeInv'
    BY <2>11 DEF Age, Idle, diskVars, callVars, histVars
  <2>12. ASSUME NEW n \in Nodes, Evict(n)
        PROVE  AgreeInv'
    BY <2>12 DEF Evict, diskVars, callVars, histVars
  <2>13. ASSUME NEW n \in Nodes, RemoveSession(n)
        PROVE  AgreeInv'
    BY SMTT(20), <2>13 DEF RemoveSession, callVars, histVars
  <2>14. ASSUME NEW n \in Nodes, Crash(n)
        PROVE  AgreeInv'
    BY <2>14 DEF Crash, End, diskVars, histVars, SurviveInv
  <2>15. ASSUME NEW n \in Nodes, Restart(n)
        PROVE  AgreeInv'
    BY SMTT(20), <2>15 DEF Restart, diskVars, callVars, histVars, SurviveInv
  <2> HIDE DEF TypeOK, AgreeInv
  <2> QED
    BY Zenon, <2>1, <2>2, <2>3, <2>4, <2>5, <2>6, <2>7, <2>8, <2>9, <2>10, <2>11,
       <2>12, <2>13, <2>14, <2>15, NodesAssumption DEF Next
<1>3. AgreeInv => StoreAgrees
  BY Zenon DEF AgreeInv, Agree, StoreAgrees, Idle
<1> QED
  BY <1>1, <1>2, <1>3, TypeCorrect, SurviveInvHolds, CallsAreExclusive, PTL
     DEF Spec

-----------------------------------------------------------------------------
(* A bridge, the SDK and attach *)

\* A line for the SDK is a message, or the response to the request whose id it has.
Lines == {l \in [message : BOOLEAN, id : Requests \union {NoOne}, of : Requests \union {NoOne},
                 ok : BOOLEAN] : l.message \/ (l.id \in Requests /\ l.of = l.id)}

\* A sequence of lines has a response to a request, with this outcome.
Said(q, r, ok) == \E i \in 1..Len(q) : ~q[i].message /\ q[i].id = r /\ q[i].ok = ok

\* A sequence holds nothing twice.
Once(q) == \A i, j \in 1..Len(q) : q[i] = q[j] => i = j

\* A request is on its way to the bridge, or being executed.
Waits(r) == r \in Range(input) \/ r = scanner \/ r = current

\* A register request that the bridge has granted, and whose caller waits.
Granted(r) == /\ kind[r] = "register" /\ future[r] = "pending"
              /\ Said(output, r, TRUE) /\ ~Said(output, r, FALSE)

\* The state of the bridge and of attach.
LoopInv ==
  /\ user \in {"sdk", "child", "exec"} /\ kind \in [Requests -> CommandKinds \union {"none", "message"}]
  /\ scanner \in Requests \union {"reading", "eof", "gone"}
  /\ bridge \in {"initial", "idle", "executing", "waiting", "exited"}
  /\ (bridge = "executing") = (current # NoOne) /\ current \in Requests \union {NoOne}
  /\ stream \in {"none", "live", "broken"} /\ arrived \in 0..MaxMessages
  /\ (bridgeHandle => stream # "none")
  /\ input \in Seq(Requests) /\ queue \in Seq(Requests)
  /\ (user # "child" => child = "none")

\* The state of the SDK.
SdkInv ==
  /\ future \in [Requests -> {"none", "pending", "done", "failed", "died", "cancelled"}]
  /\ answeredBy \in [Requests -> Requests \union {NoOne}] /\ OwnResponse
  /\ pendingIds \subseteq Requests /\ pendingOrder \in Seq(Requests)
  /\ pendingIds \subseteq Range(pendingOrder)
  /\ \A r \in Requests : future[r] = "pending" => r \in pendingIds

\* What the bridge tells the SDK.
TalkInv ==
  /\ output \in Seq(Lines)
  /\ (isRegistered => bridgeHandle)
  /\ (user # "sdk" => ~reading /\ ~isRegistered /\ \A r \in Requests : ~Said(output, r, TRUE))
  /\ \A r \in Requests : Said(output, r, TRUE) /\ kind[r] = "register" => bridgeHandle

\* A request of the SDK is in one place only.
PlaceInv ==
  user = "sdk" =>
    /\ Once(input) /\ scanner \notin Range(input) /\ current \notin Range(input) /\ scanner # current
    /\ \A r \in Requests : Waits(r) => /\ kind[r] # "none" /\ ~Said(output, r, TRUE)
                                       /\ ~Said(output, r, FALSE)
                                       /\ kind[r] = "register" =>
                                            future[r] = "pending" \/ gaveUp \/ bridge = "exited"
    /\ \A r \in Requests, ok \in BOOLEAN : Said(output, r, ok) => kind[r] # "none"

\* A bridge with a handle has granted it to the SDK.
GrantInv ==
  user = "sdk" /\ bridgeHandle /\ bridge # "exited" =>
    isRegistered \/ gaveUp \/ \E r \in Requests : Granted(r)

BridgeInv == LoopInv /\ SdkInv /\ TalkInv /\ PlaceInv /\ GrantInv /\ LinesAreExecuted

\* What a longer sequence of lines says.
LEMMA SaidMore ==
  ASSUME NEW q \in Seq(Lines), NEW l \in Lines, NEW r, NEW ok \in BOOLEAN
  PROVE  /\ Append(q, l) \in Seq(Lines)
         /\ Said(Append(q, l), r, ok) <=> Said(q, r, ok) \/ (~l.message /\ l.id = r /\ l.ok = ok)
<1> DEFINE z == Append(q, l)
<1>1. /\ z \in Seq(Lines) /\ Len(z) = Len(q) + 1 /\ Len(q) \in Nat /\ z[Len(q) + 1] = l
      /\ \A i \in 1..Len(q) : z[i] = q[i]
  OBVIOUS
<1> HIDE DEF z
<1>2. ASSUME Said(z, r, ok) PROVE Said(q, r, ok) \/ (~l.message /\ l.id = r /\ l.ok = ok)
  <2>1. PICK i \in 1..Len(z) : ~z[i].message /\ z[i].id = r /\ z[i].ok = ok
    BY Zenon, <1>2 DEF Said
  <2>2. CASE i = Len(q) + 1
    BY Zenon, <1>1, <2>1, <2>2
  <2>3. CASE i # Len(q) + 1
    <3>1. i \in 1..Len(q)
      BY <1>1, <2>1, <2>3
    <3> QED
      BY Zenon, <1>1, <2>1, <3>1 DEF Said
  <2> QED
    BY Zenon, <2>2, <2>3
<1>3. ASSUME Said(q, r, ok) PROVE Said(z, r, ok)
  <2>1. PICK i \in 1..Len(q) : ~q[i].message /\ q[i].id = r /\ q[i].ok = ok
    BY Zenon, <1>3 DEF Said
  <2>2. i \in 1..Len(z)
    BY <1>1
  <2> QED
    BY Zenon, <1>1, <2>1, <2>2 DEF Said
<1>4. ASSUME ~l.message, l.id = r, l.ok = ok PROVE Said(z, r, ok)
  <2>1. Len(q) + 1 \in 1..Len(z)
    BY <1>1
  <2> QED
    BY Zenon, <1>1, <1>4, <2>1 DEF Said
<1> QED
  BY Zenon, <1>1, <1>2, <1>3, <1>4 DEF z

\* What is left to say when the first line is taken.
LEMMA SaidLess ==
  ASSUME NEW q \in Seq(Lines), q # <<>>, NEW r, NEW ok \in BOOLEAN
  PROVE  /\ Tail(q) \in Seq(Lines) /\ Head(q) \in Lines
         /\ Said(Tail(q), r, ok) => Said(q, r, ok)
         /\ ~Head(q).message /\ Head(q).id = r /\ Head(q).ok = ok => Said(q, r, ok)
         /\ Said(q, r, ok) =>
              Said(Tail(q), r, ok) \/ (~Head(q).message /\ Head(q).id = r /\ Head(q).ok = ok)
<1> DEFINE z == Tail(q)
<1>1. /\ z \in Seq(Lines) /\ Len(z) = Len(q) - 1 /\ Len(q) \in Nat /\ Len(q) > 0 /\ Head(q) = q[1]
      /\ Head(q) \in Lines /\ \A i \in 1..Len(z) : z[i] = q[i + 1]
  OBVIOUS
<1> HIDE DEF z
<1>2. ASSUME Said(z, r, ok) PROVE Said(q, r, ok)
  <2>1. PICK i \in 1..Len(z) : ~z[i].message /\ z[i].id = r /\ z[i].ok = ok
    BY Zenon, <1>2 DEF Said
  <2>2. i + 1 \in 1..Len(q)
    BY <1>1
  <2> QED
    BY Zenon, <1>1, <2>1, <2>2 DEF Said
<1>3. ASSUME ~Head(q).message, Head(q).id = r, Head(q).ok = ok PROVE Said(q, r, ok)
  <2>1. 1 \in 1..Len(q)
    BY <1>1
  <2> QED
    BY Zenon, <1>1, <1>3, <2>1 DEF Said
<1>4. ASSUME Said(q, r, ok)
      PROVE  Said(z, r, ok) \/ (~Head(q).message /\ Head(q).id = r /\ Head(q).ok = ok)
  <2>1. PICK i \in 1..Len(q) : ~q[i].message /\ q[i].id = r /\ q[i].ok = ok
    BY Zenon, <1>4 DEF Said
  <2>2. CASE i = 1
    BY Zenon, <1>1, <2>1, <2>2
  <2>3. CASE i # 1
    <3>1. PICK j \in 1..Len(z) : j + 1 = i
      <4>1. i - 1 \in 1..Len(z) /\ (i - 1) + 1 = i
        BY <1>1, <2>3
      <4> QED
        BY Zenon, <4>1
    <3>2. z[j] = q[i]
      BY Zenon, <1>1, <3>1
    <3> QED
      BY Zenon, <2>1, <3>1, <3>2 DEF Said
  <2> QED
    BY Zenon, <2>2, <2>3
<1> QED
  BY Zenon, <1>1, <1>2, <1>3, <1>4 DEF z

\* What a sequence of requests holds when one is appended.
LEMMA HoldsMore ==
  ASSUME NEW q \in Seq(Requests), NEW r \in Requests
  PROVE  /\ Append(q, r) \in Seq(Requests) /\ Range(Append(q, r)) = Range(q) \union {r}
         /\ Once(q) /\ r \notin Range(q) => Once(Append(q, r))
<1> DEFINE z == Append(q, r)
<1>1. /\ z \in Seq(Requests) /\ Len(z) = Len(q) + 1 /\ Len(q) \in Nat /\ z[Len(q) + 1] = r
      /\ DOMAIN z = 1..Len(z) /\ DOMAIN q = 1..Len(q) /\ \A i \in 1..Len(q) : z[i] = q[i]
  OBVIOUS
<1> HIDE DEF z
<1>2. Range(z) = Range(q) \union {r}
  BY <1>1 DEF Range
<1>3. ASSUME Once(q), r \notin Range(q) PROVE Once(z)
  <2> SUFFICES ASSUME NEW i \in 1..Len(z), NEW j \in 1..Len(z), z[i] = z[j]
               PROVE  i = j
    BY Zenon DEF Once
  <2>1. CASE i \in 1..Len(q) /\ j \in 1..Len(q)
    BY Zenon, <1>1, <1>3, <2>1 DEF Once
  <2>2. CASE i \notin 1..Len(q) /\ j \notin 1..Len(q)
    BY <1>1, <2>2
  <2>3. ASSUME NEW a \in 1..Len(q), NEW b \in 1..Len(z), b \notin 1..Len(q) PROVE z[a] # z[b]
    <3>1. b = Len(q) + 1
      BY <1>1, <2>3
    <3>2. z[a] \in Range(q)
      BY Zenon, <1>1 DEF Range
    <3> QED
      BY Zenon, <1>1, <1>3, <3>1, <3>2
  <2> QED
    BY Zenon, <2>1, <2>2, <2>3
<1> QED
  BY Zenon, <1>1, <1>2, <1>3 DEF z

\* What a sequence of requests holds when the first is taken.
LEMMA HoldsLess ==
  ASSUME NEW q \in Seq(Requests), q # <<>>
  PROVE  /\ Tail(q) \in Seq(Requests) /\ Head(q) \in Requests
         /\ Range(q) = Range(Tail(q)) \union {Head(q)}
         /\ Once(q) => Once(Tail(q)) /\ Head(q) \notin Range(Tail(q))
<1> DEFINE z == Tail(q)
<1>1. /\ z \in Seq(Requests) /\ Len(z) = Len(q) - 1 /\ Len(q) \in Nat /\ Len(q) > 0 /\ Head(q) = q[1]
      /\ Head(q) \in Requests /\ DOMAIN z = 1..Len(z) /\ DOMAIN q = 1..Len(q)
      /\ \A i \in 1..Len(z) : z[i] = q[i + 1]
  OBVIOUS
<1> HIDE DEF z
<1>2. \A i \in 1..Len(z) : i + 1 \in 1..Len(q) /\ i + 1 # 1
  BY <1>1
<1>3. \A i \in 1..Len(q) : i = 1 \/ \E j \in 1..Len(z) : i = j + 1
  <2> TAKE i \in 1..Len(q)
  <2>1. i = 1 \/ (i - 1 \in 1..Len(z) /\ i = (i - 1) + 1)
    BY <1>1
  <2> QED
    BY Zenon, <2>1
<1>4. 1 \in 1..Len(q)
  BY <1>1
<1>5. Range(q) = Range(z) \union {Head(q)}
  <2>1. ASSUME NEW x \in Range(q) PROVE x \in Range(z) \union {Head(q)}
    <3>1. PICK i \in 1..Len(q) : q[i] = x
      BY Zenon, <1>1, <2>1 DEF Range
    <3>2. CASE i = 1
      BY Zenon, <1>1, <3>1, <3>2
    <3>3. CASE i # 1
      <4>1. PICK j \in 1..Len(z) : i = j + 1
        BY Zenon, <1>3, <3>3
      <4>2. z[j] = x
        BY Zenon, <1>1, <3>1, <4>1
      <4> QED
        BY Zenon, <1>1, <4>2 DEF Range
    <3> QED
      BY Zenon, <3>2, <3>3
  <2>2. ASSUME NEW x \in Range(z) PROVE x \in Range(q)
    <3>1. PICK i \in 1..Len(z) : z[i] = x
      BY Zenon, <1>1, <2>2 DEF Range
    <3>2. i + 1 \in DOMAIN q /\ q[i + 1] = x
      BY Zenon, <1>1, <1>2, <3>1
    <3> QED
      BY Zenon, <3>2 DEF Range
  <2>3. Head(q) \in Range(q)
    BY Zenon, <1>1, <1>4 DEF Range
  <2> QED
    BY Zenon, <2>1, <2>2, <2>3
<1>6. ASSUME Once(q) PROVE Once(z)
  <2> SUFFICES ASSUME NEW i \in 1..Len(z), NEW j \in 1..Len(z), z[i] = z[j]
               PROVE  i = j
    BY Zenon DEF Once
  <2>1. i + 1 = j + 1
    BY Zenon, <1>1, <1>2, <1>6 DEF Once
  <2> QED
    BY <2>1
<1>7. ASSUME Once(q), Head(q) \in Range(z) PROVE FALSE
  <2>1. PICK i \in 1..Len(z) : z[i] = Head(q)
    BY Zenon, <1>1, <1>7 DEF Range
  <2> QED
    BY Zenon, <1>1, <1>2, <1>4, <1>7, <2>1 DEF Once
<1> QED
  BY Zenon, <1>1, <1>5, <1>6, <1>7 DEF z

\* An id is removed from _pending_order, and no other.
LEMMA WithoutKeeps ==
  ASSUME pendingOrder \in Seq(Requests), NEW r \in Requests
  PROVE  Without(r) \in Seq(Requests) /\ \A x \in Range(pendingOrder) : x # r => x \in Range(Without(r))
<1>1. CASE r \notin Range(pendingOrder)
  BY Zenon, <1>1 DEF Without
<1>2. CASE r \in Range(pendingOrder)
  <2> DEFINE i == CHOOSE j \in DOMAIN pendingOrder : pendingOrder[j] = r
             z == [j \in 1..(Len(pendingOrder) - 1) |-> pendingOrder[IF j < i THEN j ELSE j + 1]]
  <2>1. i \in DOMAIN pendingOrder /\ pendingOrder[i] = r
    BY Zenon, <1>2 DEF Range
  <2>2. Without(r) = z
    BY Zenon, <1>2 DEF Without
  <2>3. PICK n \in Nat : n = Len(pendingOrder) /\ DOMAIN pendingOrder = 1..n
    OBVIOUS
  <2>4. PICK k \in 1..n : k = i /\ pendingOrder[k] = r
    BY Zenon, <2>1, <2>3
  <2>5. z = [j \in 1..(n - 1) |-> pendingOrder[IF j < k THEN j ELSE j + 1]]
    BY Zenon, <2>3, <2>4
  <2> HIDE DEF i, z
  <2>6. n - 1 \in Nat /\ \A j \in 1..(n - 1) : j \in 1..n /\ j + 1 \in 1..n
    OBVIOUS
  <2>7. \A j \in 1..n : pendingOrder[j] \in Requests
    BY <2>3
  <2>8. z \in Seq(Requests) /\ DOMAIN z = 1..(n - 1)
    BY <2>5, <2>6, <2>7
  <2>9. ASSUME NEW x \in Range(pendingOrder), x # r PROVE x \in Range(z)
    <3>1. PICK j \in 1..n : pendingOrder[j] = x
      BY Zenon, <2>3, <2>9 DEF Range
    <3>2. j # k
      BY Zenon, <2>4, <2>9, <3>1
    <3>3. CASE j < k
      <4>1. j \in 1..(n - 1)
        BY <3>3
      <4>2. z[j] = x
        BY Zenon, <2>5, <3>1, <3>3, <4>1
      <4> QED
        BY Zenon, <2>8, <4>1, <4>2 DEF Range
    <3>4. CASE ~(j < k)
      <4>1. PICK m \in 1..(n - 1) : j = m + 1 /\ ~(m < k)
        <5>1. j - 1 \in 1..(n - 1) /\ j = (j - 1) + 1 /\ ~((j - 1) < k)
          BY <3>2, <3>4
        <5> QED
          BY Zenon, <5>1
      <4>2. z[m] = x
        BY Zenon, <2>5, <3>1, <4>1
      <4> QED
        BY Zenon, <2>8, <4>1, <4>2 DEF Range
    <3> QED
      BY Zenon, <3>3, <3>4
  <2> QED
    BY Zenon, <2>2, <2>8, <2>9
<1> QED
  BY Zenon, <1>1, <1>2

\* The conjuncts are kept by a step that leaves what they speak of alone.
LEMMA LoopKept ==
  ASSUME LoopInv, UNCHANGED <<user, kind, scanner, bridge, current, stream, arrived, bridgeHandle,
                              input, queue, child>>
  PROVE  LoopInv'
BY Zenon DEF LoopInv

\* What the SDK knows of its requests depends on nothing else.
LEMMA SdkKept ==
  ASSUME SdkInv, UNCHANGED <<future, answeredBy, pendingIds, pendingOrder>>
  PROVE  SdkInv'
BY Zenon DEF SdkInv, OwnResponse

\* What is on the pipe to the SDK depends on the pipe and on who holds the handle.
LEMMA TalkKept ==
  ASSUME TalkInv, UNCHANGED <<user, kind, output, isRegistered, bridgeHandle, reading>>
  PROVE  TalkInv'
BY Zenon DEF TalkInv

\* Where a request is depends on the pipes, the loop and the futures.
LEMMA PlaceKept ==
  ASSUME PlaceInv, UNCHANGED <<user, kind, input, scanner, current, output, future, gaveUp>>,
         bridge = "exited" => bridge' = "exited"
  PROVE  PlaceInv'
BY Zenon DEF PlaceInv, Waits

\* What a granted register means depends on these variables only.
LEMMA GrantKept ==
  ASSUME GrantInv, UNCHANGED <<user, bridgeHandle, isRegistered, gaveUp, kind, future, output>>,
         bridge = "exited" => bridge' = "exited"
  PROVE  GrantInv'
BY Zenon DEF GrantInv, Granted

\* Which lines have been executed depends on the pipe and the loop.
LEMMA LinesKept ==
  ASSUME LinesAreExecuted, UNCHANGED <<user, kind, executed, input, scanner, current>>,
         bridge = "exited" => bridge' = "exited", interrupted => interrupted',
         child = "waited" => child' = "waited"
  PROVE  LinesAreExecuted'
BY Zenon DEF LinesAreExecuted

\* What concerns the SDK holds when the user is another.
LEMMA NoSdk ==
  ASSUME TalkInv, user # "sdk", UNCHANGED <<user, output, isRegistered, reading>>
  PROVE  TalkInv' /\ PlaceInv' /\ GrantInv'
BY Zenon DEF TalkInv, PlaceInv, GrantInv

\* What concerns a child holds when there is none.
LEMMA NoChild ==
  ASSUME user # "child", user' = user
  PROVE  LinesAreExecuted'
BY Zenon DEF LinesAreExecuted

\* A request moves on, or is lost.
LEMMA PlaceMoves ==
  ASSUME PlaceInv, UNCHANGED <<user, kind, output, future, gaveUp>>,
         bridge = "exited" => bridge' = "exited",
         user = "sdk" => /\ Once(input)' /\ scanner' \notin Range(input)' /\ current' \notin Range(input)'
                         /\ scanner' # current' /\ \A r \in Requests : Waits(r)' => Waits(r)
  PROVE  PlaceInv'
BY Zenon DEF PlaceInv

\* The invariant holds at the start, and states what the runs check.
LEMMA BridgeStarts == BridgeInit => BridgeInv
<1> SUFFICES ASSUME BridgeInit PROVE BridgeInv
  OBVIOUS
<1>0. /\ Range(<<>>) = {} /\ Once(<<>>) /\ <<>> \in Seq(Requests) /\ <<>> \in Seq(Lines)
      /\ \A r, ok : ~Said(<<>>, r, ok)
  BY DEF Range, Once, Said
<1>1. LoopInv
  BY BridgeAssumption DEF BridgeInit, LoopInv
<1>2. SdkInv
  BY <1>0 DEF BridgeInit, SdkInv, OwnResponse
<1>3. TalkInv
  BY Zenon, <1>0 DEF BridgeInit, TalkInv
<1>4. PlaceInv
  <2>1. input = <<>> /\ output = <<>> /\ scanner = "reading" /\ current = NoOne
    BY Zenon DEF BridgeInit
  <2>2. \A r \in Requests : ~Waits(r)
    BY Zenon, <1>0, <2>1, BridgeAssumption DEF Waits
  <2>3. scanner # current
    BY Zenon, <2>1, BridgeAssumption
  <2> QED
    BY Zenon, <1>0, <2>1, <2>2, <2>3 DEF PlaceInv
<1>5. GrantInv /\ LinesAreExecuted
  <2>1. ~bridgeHandle /\ \A r \in Requests : kind[r] = "none"
    BY Zenon DEF BridgeInit
  <2> QED
    BY Zenon, <2>1 DEF GrantInv, LinesAreExecuted
<1> QED
  BY Zenon, <1>1, <1>2, <1>3, <1>4, <1>5 DEF BridgeInv

\* The inductive invariant of the bridge implies the checked one.
LEMMA BridgeShows == BridgeInv => BridgeAgrees
<1> SUFFICES ASSUME BridgeInv PROVE BridgeAgrees
  OBVIOUS
<1>1. BridgeTypeOK /\ OwnResponse /\ LinesAreExecuted
  BY Zenon DEF BridgeInv, LoopInv, SdkInv, BridgeTypeOK
<1>2. RegisterAgrees
  BY Zenon DEF BridgeInv, LoopInv, TalkInv, GrantInv, Granted, RegisterAgrees
<1> QED
  BY Zenon, <1>1, <1>2 DEF BridgeAgrees

\* A step of the program that leaves the bridge and the SDK alone but for their ends.
LEMMA QuietStep ==
  ASSUME BridgeInv, UNCHANGED <<user, kind, future, answeredBy, pendingIds, pendingOrder, isRegistered,
                                reading, output, bridgeHandle, arrived, gaveUp, scanner, input, queue,
                                executed>>,
         bridge = "exited" => bridge' = "exited", interrupted => interrupted',
         child = "waited" => child' = "waited",
         LoopInv', current' = current
  PROVE  BridgeInv'
<1>1. SdkInv' /\ TalkInv'
  BY Zenon, SdkKept, TalkKept DEF BridgeInv
<1>2. PlaceInv'
  BY Zenon, PlaceKept DEF BridgeInv
<1>3. GrantInv' /\ LinesAreExecuted'
  BY Zenon, GrantKept, LinesKept DEF BridgeInv
<1> QED
  BY Zenon, <1>1, <1>2, <1>3 DEF BridgeInv

\* close, the ends of a subscription and of a child, an interrupt, and what attach does.
LEMMA EndsStep ==
  ASSUME BridgeInv, close \/ StreamFails \/ Interrupt \/ ChildEnds \/ runAttach
  PROVE  BridgeInv'
<1>1. CASE close \/ Interrupt \/ runAttach
  <2>1. /\ UNCHANGED <<user, kind, future, answeredBy, pendingIds, pendingOrder, isRegistered,
                       reading, output, bridgeHandle, arrived, gaveUp, scanner, input, queue,
                       executed>>
        /\ UNCHANGED <<bridge, stream, child, current>> /\ (interrupted => interrupted')
    <3>1. CASE close
      BY Zenon, <3>1 DEF close, loopVars, attachVars
    <3>2. CASE Interrupt
      BY Zenon, <3>2 DEF Interrupt, sdkVars, pipes, loopVars, attachVars
    <3>3. CASE runAttach
      <4>1. interrupted => interrupted'
        BY Zenon, <3>3 DEF runAttach
      <4>2. /\ UNCHANGED <<user, kind, sdkVars, pipes>> /\ UNCHANGED <<loopVars, child, queue, gaveUp>>
        BY Zenon, <3>3 DEF runAttach
      <4> QED
        BY Zenon, <4>1, <4>2 DEF sdkVars, pipes, loopVars
    <3> QED
      BY Zenon, <1>1, <3>1, <3>2, <3>3
  <2>2. LoopInv'
    BY Zenon, <2>1, LoopKept DEF BridgeInv
  <2> QED
    BY Zenon, <2>1, <2>2, QuietStep
<1>2. CASE StreamFails
  <2>1. /\ UNCHANGED <<user, kind, future, answeredBy, pendingIds, pendingOrder, isRegistered,
                       reading, output, bridgeHandle, arrived, gaveUp, scanner, input, queue,
                       executed>>
        /\ UNCHANGED <<bridge, child, current, interrupted>> /\ stream' = "broken"
    BY Zenon, <1>2 DEF StreamFails, sdkVars, pipes, attachVars
  <2>2. LoopInv'
    BY <2>1 DEF BridgeInv, LoopInv
  <2> QED
    BY Zenon, <2>1, <2>2, QuietStep
<1>3. CASE ChildEnds
  <2>1. /\ UNCHANGED <<user, kind, future, answeredBy, pendingIds, pendingOrder, isRegistered,
                       reading, output, bridgeHandle, arrived, gaveUp, scanner, input, queue,
                       executed>>
        /\ UNCHANGED <<bridge, stream, current, interrupted>> /\ child = "running" /\ child' = "ended"
    BY Zenon, <1>3 DEF ChildEnds, sdkVars, loopVars
  <2>2. LoopInv'
    BY <2>1 DEF BridgeInv, LoopInv
  <2>3. child = "waited" => child' = "waited"
    BY <2>1
  <2> QED
    BY Zenon, <2>1, <2>2, <2>3, QuietStep
<1> QED
  BY Zenon, <1>1, <1>2, <1>3

\* stop_process: what the bridge executed is lost.
LEMMA StopStep ==
  ASSUME BridgeInv, stop_process
  PROVE  BridgeInv'
<1>1. /\ UNCHANGED <<user, kind, future, answeredBy, pendingIds, pendingOrder, isRegistered, reading,
                     output, bridgeHandle, arrived, gaveUp, scanner, input, queue, stream, child>>
      /\ bridge' = "exited" /\ current' = NoOne
  BY Zenon DEF stop_process, sdkVars, pipes, attachVars
<1>2. LoopInv'
  BY <1>1 DEF BridgeInv, LoopInv
<1>3. SdkInv' /\ TalkInv'
  BY Zenon, <1>1, SdkKept, TalkKept DEF BridgeInv
<1>4. PlaceInv'
  <2>1. NoOne \notin Range(input) /\ scanner # NoOne
    <3>1. \A x \in Range(input) : x \in Requests
      BY DEF BridgeInv, LoopInv, Range
    <3> QED
      BY Zenon, <3>1, BridgeAssumption DEF BridgeInv, LoopInv
  <2>2. \A r \in Requests : Waits(r)' => Waits(r)
    BY Zenon, <1>1, BridgeAssumption DEF Waits
  <2>3. user = "sdk" => Once(input) /\ scanner \notin Range(input)
    BY Zenon DEF BridgeInv, PlaceInv
  <2> QED
    BY Zenon, <1>1, <2>1, <2>2, <2>3, PlaceMoves DEF BridgeInv
<1>5. GrantInv' /\ LinesAreExecuted'
  BY Zenon, <1>1 DEF GrantInv, LinesAreExecuted
<1> QED
  BY Zenon, <1>2, <1>3, <1>4, <1>5 DEF BridgeInv

\* A request that is new to everyone is sent.
LEMMA SendStep ==
  ASSUME BridgeInv, NEW r \in Requests, NEW k \in CommandKinds, send_command(r, k)
  PROVE  BridgeInv'
<1>1. /\ user = "sdk" /\ kind[r] = "none" /\ kind' = [kind EXCEPT ![r] = k]
      /\ UNCHANGED <<user, answeredBy, isRegistered, reading, output, scanner, bridge, current,
                     bridgeHandle, stream, arrived, queue, child, gaveUp>>
  BY Zenon DEF send_command, loopVars, attachVars
<1>2. /\ future' = [future EXCEPT ![r] = future'[r]] /\ future'[r] \in {"failed", "pending"}
      /\ future'[r] = "pending" => pendingIds' = pendingIds \union {r}
      /\ \/ UNCHANGED <<pendingIds, pendingOrder, input>>
         \/ /\ pendingIds' = pendingIds \union {r} /\ pendingOrder' = Append(pendingOrder, r)
            /\ input' = input \/ (input' = Append(input, r) /\ future'[r] = "pending")
  BY DEF send_command, Raise, BridgeInv, SdkInv
<1>3. kind \in [Requests -> CommandKinds \union {"none", "message"}] /\ input \in Seq(Requests)
  BY Zenon DEF BridgeInv, LoopInv
<1>4. /\ kind' \in [Requests -> CommandKinds \union {"none", "message"}] /\ kind'[r] = k /\ k # "none"
      /\ \A x \in Requests : x # r => kind'[x] = kind[x]
  BY <1>1, <1>3 DEF CommandKinds, SessionOps
<1>5. \A x \in Requests : x # r => future'[x] = future[x]
  BY <1>2 DEF BridgeInv, SdkInv
<1>6. /\ input' = input \/ (input' = Append(input, r) /\ future'[r] = "pending")
      /\ input' \in Seq(Requests)
  BY Zenon, <1>2, <1>3, HoldsMore
<1>7. LoopInv'
  BY Zenon, <1>1, <1>4, <1>6 DEF BridgeInv, LoopInv
<1>8. SdkInv'
  <2>1. /\ pendingOrder' \in Seq(Requests) /\ Range(pendingOrder) \subseteq Range(pendingOrder')
        /\ pendingIds' = pendingIds \/ (pendingIds' = pendingIds \union {r} /\ r \in Range(pendingOrder'))
    <3>1. pendingOrder \in Seq(Requests)
      BY Zenon DEF BridgeInv, SdkInv
    <3>2. CASE UNCHANGED <<pendingIds, pendingOrder>>
      BY Zenon, <3>1, <3>2
    <3>3. CASE pendingIds' = pendingIds \union {r} /\ pendingOrder' = Append(pendingOrder, r)
      <4>1. pendingOrder' \in Seq(Requests) /\ Range(pendingOrder') = Range(pendingOrder) \union {r}
        BY <3>1, <3>3, HoldsMore
      <4> QED
        BY Zenon, <3>3, <4>1
    <3> QED
      BY Zenon, <1>2, <3>2, <3>3
  <2>2. pendingIds' \subseteq Requests /\ pendingIds' \subseteq Range(pendingOrder')
    BY Zenon, <2>1 DEF BridgeInv, SdkInv
  <2>3. future' \in [Requests -> {"none", "pending", "done", "failed", "died", "cancelled"}]
    BY <1>2 DEF BridgeInv, SdkInv
  <2>4. \A x \in Requests : future'[x] = "pending" => x \in pendingIds'
    BY Zenon, <1>2, <1>5, <2>1 DEF BridgeInv, SdkInv
  <2> QED
    BY Zenon, <1>1, <2>1, <2>2, <2>3, <2>4 DEF BridgeInv, SdkInv, OwnResponse
<1>9. ~Waits(r) /\ ~Said(output, r, TRUE) /\ ~Said(output, r, FALSE)
  BY Zenon, <1>1 DEF BridgeInv, PlaceInv
<1>10. TalkInv'
  BY Zenon, <1>1, <1>4, <1>9 DEF BridgeInv, TalkInv
<1>11. PlaceInv'
  <2>1. /\ Once(input)' /\ scanner' \notin Range(input)' /\ current' \notin Range(input)'
        /\ scanner' # current' /\ \A x \in Requests : Waits(x)' => Waits(x) \/ (x = r /\ future'[r] = "pending")
    <3>1. /\ Once(input) /\ scanner \notin Range(input) /\ current \notin Range(input)
          /\ scanner # current /\ r \notin Range(input) /\ r # scanner /\ r # current
      BY Zenon, <1>1, <1>9 DEF BridgeInv, PlaceInv, Waits
    <3>2. CASE input' = input
      BY Zenon, <1>1, <3>1, <3>2 DEF Waits
    <3>3. CASE input' = Append(input, r) /\ future'[r] = "pending"
      <4>1. Once(input') /\ Range(input') = Range(input) \union {r}
        BY <1>3, <3>1, <3>3, HoldsMore
      <4> QED
        BY Zenon, <1>1, <3>1, <3>3, <4>1 DEF Waits
    <3> QED
      BY Zenon, <1>6, <3>2, <3>3
  <2>2. ASSUME NEW x \in Requests, Waits(x)'
        PROVE  /\ kind'[x] # "none" /\ ~Said(output', x, TRUE) /\ ~Said(output', x, FALSE)
               /\ kind'[x] = "register" => future'[x] = "pending" \/ gaveUp' \/ bridge' = "exited"
    BY Zenon, <1>1, <1>4, <1>5, <1>9, <2>1, <2>2 DEF BridgeInv, PlaceInv
  <2>3. ASSUME NEW x \in Requests, NEW ok \in BOOLEAN, Said(output', x, ok) PROVE kind'[x] # "none"
    BY Zenon, <1>1, <1>4, <2>3 DEF BridgeInv, PlaceInv
  <2> QED
    BY Zenon, <2>1, <2>2, <2>3 DEF PlaceInv
<1>12. GrantInv'
  <2>1. \A x \in Requests : Granted(x) => Granted(x)'
    BY Zenon, <1>1, <1>4, <1>5, <1>9 DEF Granted
  <2> QED
    BY Zenon, <1>1, <2>1 DEF BridgeInv, GrantInv
<1> QED
  BY Zenon, <1>1, <1>7, <1>8, <1>10, <1>11, <1>12, NoChild DEF BridgeInv

\* A caller gives up; its response may be on the way.
LEMMA CancelStep ==
  ASSUME BridgeInv, NEW r \in Requests, cancel(r)
  PROVE  BridgeInv'
<1>1. /\ future[r] = "pending" /\ future' = [future EXCEPT ![r] = "cancelled"]
      /\ pendingIds' = pendingIds \ {r} /\ gaveUp' = (gaveUp \/ kind[r] = "register")
      /\ UNCHANGED <<user, kind, answeredBy, pendingOrder, isRegistered, reading, input, output,
                     scanner, bridge, current, bridgeHandle, stream, arrived, executed, queue, child,
                     interrupted>>
  BY Zenon DEF cancel, pipes, loopVars, attachVars
<1>2. /\ future' \in [Requests -> {"none", "pending", "done", "failed", "died", "cancelled"}]
      /\ future'[r] = "cancelled" /\ \A x \in Requests : x # r => future'[x] = future[x]
  BY <1>1 DEF BridgeInv, SdkInv
<1>3. LoopInv' /\ LinesAreExecuted' /\ TalkInv'
  BY Zenon, <1>1, LoopKept, LinesKept, TalkKept DEF BridgeInv
<1>4. SdkInv'
  <2>1. \A x \in Requests : future'[x] = "pending" => x # r /\ future[x] = "pending"
    BY <1>2
  <2> QED
    BY Zenon, <1>1, <1>2, <2>1 DEF BridgeInv, SdkInv, OwnResponse
<1>5. PlaceInv'
  <2>1. \A x : Waits(x)' => Waits(x)
    BY Zenon, <1>1 DEF Waits
  <2>2. \A x \in Requests : kind[x] = "register" /\ (future[x] = "pending" \/ gaveUp \/ bridge = "exited")
                            => future'[x] = "pending" \/ gaveUp' \/ bridge' = "exited"
    BY Zenon, <1>1, <1>2
  <2> QED
    BY Zenon, <1>1, <2>1, <2>2 DEF BridgeInv, PlaceInv
<1>6. GrantInv'
  <2>1. \A x \in Requests : Granted(x) => Granted(x)' \/ gaveUp'
    BY Zenon, <1>1, <1>2 DEF Granted
  <2> QED
    BY Zenon, <1>1, <2>1 DEF BridgeInv, GrantInv
<1> QED
  BY Zenon, <1>3, <1>4, <1>5, <1>6 DEF BridgeInv

\* A response completes the request it is for, and no other.
LEMMA ReadStep ==
  ASSUME BridgeInv, reader_loop
  PROVE  BridgeInv'
<1>1. /\ reading /\ output # <<>> /\ output' = Tail(output)
      /\ UNCHANGED <<user, kind, reading, input, scanner, bridge, current, bridgeHandle, stream, arrived,
                     executed, queue, child, interrupted, gaveUp>>
  BY Zenon DEF reader_loop, loopVars, attachVars
<1>2. user = "sdk" /\ output \in Seq(Lines)
  BY Zenon, <1>1 DEF BridgeInv, TalkInv
<1>3. PICK line : line = Head(output)
  BY Zenon
<1>4. /\ output' \in Seq(Lines) /\ line \in Lines
      /\ \A x \in Requests, ok \in BOOLEAN :
           /\ Said(output', x, ok) => Said(output, x, ok)
           /\ ~line.message /\ line.id = x /\ line.ok = ok => Said(output, x, ok)
           /\ Said(output, x, ok) =>
                Said(output', x, ok) \/ (~line.message /\ line.id = x /\ line.ok = ok)
  <2>1. PICK q \in Seq(Lines) : q = output /\ q # <<>>
    BY Zenon, <1>1, <1>2
  <2>2. /\ Tail(q) \in Seq(Lines) /\ Head(q) \in Lines
        /\ \A x \in Requests, ok \in BOOLEAN :
             /\ Said(Tail(q), x, ok) => Said(q, x, ok)
             /\ ~Head(q).message /\ Head(q).id = x /\ Head(q).ok = ok => Said(q, x, ok)
             /\ Said(q, x, ok) =>
                  Said(Tail(q), x, ok) \/ (~Head(q).message /\ Head(q).id = x /\ Head(q).ok = ok)
    BY Zenon, <2>1, SaidLess
  <2>3. output' = Tail(q) /\ line = Head(q)
    BY Zenon, <1>1, <1>3, <2>1
  <2> QED
    BY Zenon, <2>1, <2>2, <2>3
<1>5. LoopInv' /\ LinesAreExecuted'
  BY Zenon, <1>1, LoopKept, LinesKept DEF BridgeInv
<1>6. line.message \in BOOLEAN /\ line.ok \in BOOLEAN
      /\ (line.message \/ (line.id \in Requests /\ line.of = line.id))
  BY <1>4 DEF Lines
<1>7. CASE line.message \/ line.id \notin pendingIds
  <2>1. UNCHANGED <<future, answeredBy, pendingIds, isRegistered>>
    BY Zenon, <1>3, <1>6, <1>7, BridgeAssumption DEF reader_loop
  <2>2. pendingOrder' = pendingOrder \/ (line.id \in Requests /\ pendingOrder' = Without(line.id))
    BY Zenon, <1>3, <1>6, BridgeAssumption DEF reader_loop
  <2>3. SdkInv'
    <3>1. pendingOrder \in Seq(Requests) /\ pendingIds \subseteq Range(pendingOrder)
      BY Zenon DEF BridgeInv, SdkInv
    <3>2. pendingOrder' \in Seq(Requests) /\ pendingIds \subseteq Range(pendingOrder')
      <4>1. CASE pendingOrder' = pendingOrder
        BY Zenon, <3>1, <4>1
      <4>2. CASE ~line.message /\ line.id \in Requests /\ pendingOrder' = Without(line.id)
        <5>1. /\ pendingOrder' \in Seq(Requests)
              /\ \A x \in Range(pendingOrder) : x # line.id => x \in Range(pendingOrder')
          BY Zenon, <3>1, <4>2, WithoutKeeps
        <5> QED
          BY Zenon, <1>7, <3>1, <4>2, <5>1
      <4>3. line.message => pendingOrder' = pendingOrder
        BY Zenon, <1>3 DEF reader_loop
      <4> QED
        BY Zenon, <2>2, <4>1, <4>2, <4>3
    <3> QED
      BY Zenon, <2>1, <3>2 DEF BridgeInv, SdkInv, OwnResponse
  <2>4. TalkInv'
    BY Zenon, <1>1, <1>4, <2>1 DEF BridgeInv, TalkInv
  <2>5. PlaceInv'
    <3>1. \A x : Waits(x)' => Waits(x)
      BY Zenon, <1>1 DEF Waits
    <3> QED
      BY Zenon, <1>1, <1>4, <2>1, <3>1 DEF BridgeInv, PlaceInv
  <2>6. GrantInv'
    <3>1. \A x \in Requests : Granted(x) => x \in pendingIds
      BY Zenon DEF BridgeInv, SdkInv, Granted
    <3>2. \A x \in Requests : Granted(x) => Granted(x)'
      BY Zenon, <1>1, <1>4, <1>7, <2>1, <3>1 DEF Granted
    <3> QED
      BY Zenon, <1>1, <2>1, <3>2 DEF BridgeInv, GrantInv
  <2> QED
    BY Zenon, <1>5, <2>3, <2>4, <2>5, <2>6 DEF BridgeInv
<1>8. CASE ~line.message /\ line.id \in pendingIds
  <2>1. PICK r \in Requests : r = line.id
    BY Zenon, <1>6, <1>8
  <2>2. /\ future' = [future EXCEPT ![r] = IF line.ok THEN "done" ELSE "failed"]
        /\ answeredBy' = [answeredBy EXCEPT ![r] = r]
        /\ pendingIds' = pendingIds \ {r} /\ pendingOrder' = Without(r)
        /\ isRegistered' = (isRegistered \/ (line.ok /\ kind[r] = "register"))
    BY Zenon, <1>3, <1>6, <1>8, <2>1, BridgeAssumption DEF reader_loop
  <2>3. Said(output, r, line.ok)
    BY Zenon, <1>4, <1>6, <1>8, <2>1
  <2>4. /\ future' \in [Requests -> {"none", "pending", "done", "failed", "died", "cancelled"}]
        /\ answeredBy' \in [Requests -> Requests \union {NoOne}]
        /\ future'[r] # "pending" /\ \A x \in Requests : x # r => future'[x] = future[x]
        /\ answeredBy'[r] = r /\ \A x \in Requests : x # r => answeredBy'[x] = answeredBy[x]
    BY <1>6, <2>2 DEF BridgeInv, SdkInv
  <2>5. SdkInv'
    <3>1. /\ pendingOrder' \in Seq(Requests)
          /\ \A x \in Range(pendingOrder) : x # r => x \in Range(pendingOrder')
      BY Zenon, <2>2, WithoutKeeps DEF BridgeInv, SdkInv
    <3>2. OwnResponse'
      BY Zenon, <2>4 DEF BridgeInv, SdkInv, OwnResponse
    <3>3. \A x \in Requests : future'[x] = "pending" => x # r /\ future[x] = "pending"
      BY Zenon, <2>4
    <3> QED
      BY Zenon, <2>2, <2>4, <3>1, <3>2, <3>3 DEF BridgeInv, SdkInv
  <2>6. TalkInv'
    <3>1. isRegistered' => bridgeHandle
      BY Zenon, <1>6, <2>2, <2>3 DEF BridgeInv, TalkInv
    <3> QED
      BY Zenon, <1>1, <1>2, <1>4, <3>1 DEF BridgeInv, TalkInv
  <2>7. PlaceInv'
    <3>1. \A x : Waits(x)' => Waits(x)
      BY Zenon, <1>1 DEF Waits
    <3>2. ~Waits(r)
      BY Zenon, <1>2, <1>6, <2>3 DEF BridgeInv, PlaceInv
    <3>3. \A x \in Requests : Waits(x)' => future'[x] = future[x]
      BY Zenon, <2>4, <3>1, <3>2
    <3> QED
      BY Zenon, <1>1, <1>4, <3>1, <3>3 DEF BridgeInv, PlaceInv
  <2>8. GrantInv'
    <3>1. \A x \in Requests : Granted(x) => Granted(x)' \/ isRegistered'
      <4>1. Granted(r) => isRegistered'
        BY Zenon, <1>6, <2>2, <2>3 DEF Granted
      <4>2. \A x \in Requests : Granted(x) /\ x # r => Granted(x)'
        BY Zenon, <1>1, <1>4, <2>1, <2>4 DEF Granted
      <4> QED
        BY Zenon, <4>1, <4>2
    <3> QED
      BY Zenon, <1>1, <2>2, <3>1 DEF BridgeInv, GrantInv
  <2> QED
    BY Zenon, <1>5, <2>5, <2>6, <2>7, <2>8 DEF BridgeInv
<1> QED
  BY Zenon, <1>7, <1>8

\* The requests that wait are told of the end of the bridge.
LEMMA EofStep ==
  ASSUME BridgeInv, reader_eof
  PROVE  BridgeInv'
<1>1. /\ bridge = "exited" /\ reading' = FALSE /\ pendingIds' = {} /\ pendingOrder' = <<>>
      /\ future' = [r \in Requests |-> IF r \in pendingIds /\ future[r] = "pending" THEN "died"
                                       ELSE future[r]]
      /\ UNCHANGED <<user, kind, answeredBy, isRegistered, input, output, scanner, bridge, current,
                     bridgeHandle, stream, arrived, executed, queue, child, interrupted, gaveUp>>
  BY Zenon DEF reader_eof, fail_pending, pipes, loopVars, attachVars
<1>2. LoopInv' /\ LinesAreExecuted'
  BY Zenon, <1>1, LoopKept, LinesKept DEF BridgeInv
<1>3. SdkInv'
  BY <1>1 DEF BridgeInv, SdkInv, OwnResponse, Range
<1>4. TalkInv'
  BY Zenon, <1>1 DEF BridgeInv, TalkInv
<1>5. PlaceInv'
  <2>1. \A x : Waits(x)' => Waits(x)
    BY Zenon, <1>1 DEF Waits
  <2> QED
    BY Zenon, <1>1, <2>1 DEF BridgeInv, PlaceInv
<1>6. GrantInv'
  BY Zenon, <1>1 DEF GrantInv
<1> QED
  BY Zenon, <1>2, <1>3, <1>4, <1>5, <1>6 DEF BridgeInv

\* The scanner takes a line.
LEMMA ScannerStep ==
  ASSUME BridgeInv, Scanner
  PROVE  BridgeInv'
<1>1. /\ UNCHANGED <<user, kind, future, answeredBy, pendingIds, pendingOrder, isRegistered, reading,
                     output, bridge, current, bridgeHandle, stream, arrived, executed, queue, child,
                     interrupted, gaveUp>>
      /\ Scan \/ ScanEnd \/ ScannerStops
  BY Zenon DEF Scanner, sdkVars, attachVars
<1>2. SdkInv' /\ TalkInv' /\ GrantInv'
  BY Zenon, <1>1, SdkKept, TalkKept, GrantKept DEF BridgeInv
<1>3. input \in Seq(Requests) /\ current \in Requests \union {NoOne}
  BY Zenon DEF BridgeInv, LoopInv
<1>4. \A s \in {"reading", "eof", "gone"} : s # current /\ \A x \in Range(input) : s # x
  <2>1. \A x \in Range(input) : x \in Requests
    BY <1>3 DEF Range
  <2> QED
    BY Zenon, <1>3, <2>1, BridgeAssumption
<1>5. CASE Scan
  <2>1. scanner = "reading" /\ input # <<>> /\ input' = Tail(input) /\ scanner' = Head(input)
    BY Zenon, <1>5 DEF Scan
  <2>2. /\ input' \in Seq(Requests) /\ scanner' \in Requests /\ Range(input) = Range(input') \union {scanner'}
        /\ Once(input) => Once(input') /\ scanner' \notin Range(input')
    BY <1>3, <2>1, HoldsLess
  <2>3. LoopInv'
    BY Zenon, <1>1, <2>2 DEF BridgeInv, LoopInv
  <2>4. PlaceInv'
    <3>1. user = "sdk" => Once(input) /\ current \notin Range(input)
      BY Zenon DEF BridgeInv, PlaceInv
    <3>2. \A x \in Requests : Waits(x)' => Waits(x)
      BY Zenon, <1>1, <2>2 DEF Waits
    <3> QED
      BY Zenon, <1>1, <2>2, <3>1, <3>2, PlaceMoves DEF BridgeInv
  <2>5. LinesAreExecuted'
    BY Zenon, <1>1, <2>1, <2>2, BridgeAssumption DEF BridgeInv, LinesAreExecuted
  <2> QED
    BY Zenon, <1>2, <2>3, <2>4, <2>5 DEF BridgeInv
<1>6. CASE ScanEnd \/ ScannerStops
  <2>1. /\ input' = input /\ scanner' \in {"eof", "gone"} /\ (scanner = "reading" \/ interrupted)
    BY Zenon, <1>6 DEF ScanEnd, ScannerStops
  <2>2. LoopInv'
    BY Zenon, <1>1, <2>1 DEF BridgeInv, LoopInv
  <2>3. PlaceInv'
    <3>1. user = "sdk" => Once(input) /\ current \notin Range(input)
      BY Zenon DEF BridgeInv, PlaceInv
    <3>2. \A x \in Requests : Waits(x)' => Waits(x)
      BY Zenon, <1>1, <2>1, BridgeAssumption DEF Waits
    <3>3. scanner' # current' /\ scanner' \notin Range(input)
      BY Zenon, <1>1, <1>4, <2>1
    <3> QED
      BY Zenon, <1>1, <2>1, <3>1, <3>2, <3>3, PlaceMoves DEF BridgeInv
  <2>4. LinesAreExecuted'
    BY Zenon, <1>1, <2>1, BridgeAssumption DEF BridgeInv, LinesAreExecuted
  <2> QED
    BY Zenon, <1>2, <2>2, <2>3, <2>4 DEF BridgeInv
<1> QED
  BY Zenon, <1>1, <1>5, <1>6

\* The main loop takes a command, and ends.
LEMMA RunStep ==
  ASSUME BridgeInv, runBridge
  PROVE  BridgeInv'
<1>1. /\ UNCHANGED <<user, kind, future, answeredBy, pendingIds, pendingOrder, isRegistered, reading,
                     input, output, bridgeHandle, stream, arrived, executed, queue, child,
                     interrupted, gaveUp>>
      /\ TakeCommand \/ InputEnded \/ ScanError \/ Stops
  BY Zenon DEF runBridge, sdkVars, pipes, attachVars
<1>2. CASE TakeCommand
  <2>1. /\ bridge = "idle" /\ scanner \in Requests /\ current' = scanner /\ bridge' = "executing"
        /\ scanner' = "reading"
    BY Zenon, <1>2 DEF TakeCommand
  <2>2. current = NoOne /\ scanner # NoOne /\ input \in Seq(Requests) /\ scanner # "reading"
    BY <2>1, BridgeAssumption DEF BridgeInv, LoopInv
  <2>3. LoopInv'
    BY <1>1, <2>1, <2>2 DEF BridgeInv, LoopInv
  <2>4. SdkInv' /\ TalkInv'
    BY Zenon, <1>1, SdkKept, TalkKept DEF BridgeInv
  <2>5. GrantInv'
    <3>1. bridge # "exited"
      BY <2>1
    <3> QED
      BY Zenon, <1>1, <3>1, GrantKept DEF BridgeInv
  <2>6. PlaceInv'
    <3>1. user = "sdk" => Once(input) /\ scanner \notin Range(input)
      BY Zenon DEF BridgeInv, PlaceInv
    <3>2. \A x \in Requests : Waits(x)' => Waits(x)
      BY Zenon, <1>1, <2>1, BridgeAssumption DEF Waits
    <3>3. "reading" \notin Range(input) /\ bridge # "exited"
      BY <2>1, <2>2, BridgeAssumption DEF Range
    <3> QED
      BY Zenon, <1>1, <2>1, <2>2, <3>1, <3>2, <3>3, PlaceMoves DEF BridgeInv
  <2>7. LinesAreExecuted'
    BY Zenon, <1>1, <2>1, <2>2, BridgeAssumption DEF BridgeInv, LinesAreExecuted
  <2> QED
    BY Zenon, <2>3, <2>4, <2>5, <2>6, <2>7 DEF BridgeInv
<1>3. CASE InputEnded \/ ScanError \/ Stops
  <2>1. /\ UNCHANGED <<scanner, current>> /\ bridge \in {"idle", "waiting"}
        /\ bridge' \in {"waiting", "exited"}
    BY Zenon, <1>3 DEF InputEnded, ScanError, Stops
  <2>2. LoopInv'
    BY <1>1, <2>1 DEF BridgeInv, LoopInv
  <2>3. bridge # "exited"
    BY <2>1
  <2> QED
    BY Zenon, <1>1, <2>1, <2>2, <2>3, QuietStep
<1> QED
  BY Zenon, <1>1, <1>2, <1>3

\* The lines of a command: the bridge answers the request it executes, once.
LEMMA RespondStep ==
  ASSUME BridgeInv, NEW r \in Requests, r = current, NEW ok \in BOOLEAN, Respond(r, ok),
         UNCHANGED <<user, kind, future, answeredBy, pendingIds, pendingOrder, isRegistered, reading,
                     input, scanner, arrived, queue, child, interrupted, gaveUp>>,
         bridge = "executing", stream' \in {"none", "live", "broken"},
         bridgeHandle' => stream' # "none", bridgeHandle => bridgeHandle',
         kind[r] = "register" /\ ok => bridgeHandle',
         bridgeHandle' /\ ~bridgeHandle => kind[r] = "register" /\ ok
  PROVE  BridgeInv'
<1>1. /\ executed' = executed \union {r} /\ current' = NoOne /\ bridge' = "idle"
      /\ bridge # "exited" /\ bridge' # "exited" /\ input \in Seq(Requests)
      /\ scanner \in Requests \union {"reading", "eof", "gone"}
  BY DEF Respond, BridgeInv, LoopInv
<1>2. LoopInv'
  BY Zenon, <1>1 DEF BridgeInv, LoopInv
<1>3. SdkInv'
  BY Zenon, SdkKept DEF BridgeInv
<1>4. LinesAreExecuted'
  BY Zenon, <1>1 DEF BridgeInv, LinesAreExecuted
<1>5. \A x \in Requests : Waits(x)' => Waits(x) /\ (user = "sdk" => x # r)
  <2>1. user = "sdk" => r \notin Range(input) /\ r # scanner
    BY Zenon DEF BridgeInv, PlaceInv
  <2> QED
    BY Zenon, <1>1, <2>1, BridgeAssumption DEF Waits
<1>6. CASE user # "sdk"
  <2>1. output' = output
    BY Zenon, <1>6 DEF Respond
  <2> QED
    BY Zenon, <1>2, <1>3, <1>4, <1>6, <2>1, NoSdk DEF BridgeInv
<1>7. CASE user = "sdk"
  <2>1. output' = Append(output, [message |-> FALSE, id |-> r, of |-> r, ok |-> ok])
    BY Zenon, <1>7 DEF Respond, Line, ErrorLine
  <2>2. PICK l \in Lines : l = [message |-> FALSE, id |-> r, of |-> r, ok |-> ok]
    BY Zenon DEF Lines
  <2>3. ~l.message /\ l.id = r /\ l.ok = ok
    BY <2>2
  <2>4. /\ output' \in Seq(Lines)
        /\ \A x \in Requests, k \in BOOLEAN : Said(output', x, k) <=> Said(output, x, k) \/ (x = r /\ k = ok)
    <3>1. output \in Seq(Lines) /\ output' = Append(output, l)
      BY Zenon, <2>1, <2>2 DEF BridgeInv, TalkInv
    <3>2. ASSUME NEW x \in Requests, NEW k \in BOOLEAN
          PROVE  /\ Append(output, l) \in Seq(Lines)
                 /\ Said(Append(output, l), x, k) <=> Said(output, x, k) \/ (~l.message /\ l.id = x /\ l.ok = k)
      BY Zenon, <3>1, SaidMore
    <3> QED
      BY Zenon, <2>3, <3>1, <3>2
  <2>5. Waits(r) /\ kind[r] # "none" /\ ~Said(output, r, TRUE) /\ ~Said(output, r, FALSE)
    BY Zenon, <1>7 DEF BridgeInv, PlaceInv, Waits
  <2>6. TalkInv'
    <3>1. isRegistered' => bridgeHandle'
      BY Zenon DEF BridgeInv, TalkInv
    <3>2. \A x \in Requests : Said(output', x, TRUE) /\ kind'[x] = "register" => bridgeHandle'
      BY Zenon, <2>4 DEF BridgeInv, TalkInv
    <3> QED
      BY Zenon, <1>7, <2>4, <3>1, <3>2 DEF TalkInv
  <2>7. PlaceInv'
    <3>1. Once(input) /\ scanner \notin Range(input)
      BY Zenon, <1>7 DEF BridgeInv, PlaceInv
    <3>2. NoOne \notin Range(input) /\ scanner # NoOne
      <4>1. \A x \in Range(input) : x \in Requests
        BY <1>1 DEF Range
      <4> QED
        BY Zenon, <1>1, <4>1, BridgeAssumption
    <3>3. ASSUME NEW x \in Requests, Waits(x)'
          PROVE  /\ kind'[x] # "none" /\ ~Said(output', x, TRUE) /\ ~Said(output', x, FALSE)
                 /\ kind'[x] = "register" => future'[x] = "pending" \/ gaveUp' \/ bridge' = "exited"
      <4>1. x # r /\ Waits(x)
        BY Zenon, <1>5, <1>7, <3>3
      <4> QED
        BY Zenon, <1>1, <1>7, <2>4, <4>1 DEF BridgeInv, PlaceInv
    <3>4. ASSUME NEW x \in Requests, NEW k \in BOOLEAN, Said(output', x, k) PROVE kind'[x] # "none"
      BY Zenon, <1>7, <2>4, <2>5, <3>4 DEF BridgeInv, PlaceInv
    <3> QED
      BY Zenon, <1>1, <3>1, <3>2, <3>3, <3>4 DEF PlaceInv
  <2>8. GrantInv'
    <3>1. ASSUME NEW x \in Requests, Granted(x) PROVE Granted(x)'
      <4>1. x # r
        BY Zenon, <2>5, <3>1 DEF Granted
      <4> QED
        BY Zenon, <2>4, <3>1, <4>1 DEF Granted
    <3>2. CASE bridgeHandle
      BY Zenon, <1>1, <1>7, <3>1, <3>2 DEF BridgeInv, GrantInv
    <3>3. CASE bridgeHandle' /\ ~bridgeHandle
      <4>1. kind[r] = "register" /\ ok
        BY Zenon, <3>3
      <4>2. future[r] = "pending" \/ gaveUp
        BY Zenon, <1>1, <1>7, <2>5, <4>1 DEF BridgeInv, PlaceInv
      <4>3. Said(output', r, TRUE) /\ ~Said(output', r, FALSE)
        <5>1. ok = TRUE
          BY <4>1
        <5> QED
          BY Zenon, <2>4, <2>5, <5>1
      <4> QED
        BY Zenon, <4>1, <4>2, <4>3 DEF GrantInv, Granted
    <3> QED
      BY Zenon, <3>2, <3>3 DEF GrantInv
  <2> QED
    BY Zenon, <1>2, <1>3, <1>4, <2>6, <2>7, <2>8 DEF BridgeInv
<1> QED
  BY Zenon, <1>6, <1>7

\* executeBridgeCommand answers the line it was given and keeps the invariant.
LEMMA ExecuteStep ==
  ASSUME BridgeInv, executeBridgeCommand
  PROVE  BridgeInv'
<1>1. /\ bridge = "executing"
      /\ UNCHANGED <<user, kind, future, answeredBy, pendingIds, pendingOrder, isRegistered, reading,
                     input, scanner, arrived, queue, child, interrupted, gaveUp>>
      /\ \/ RegisterCommand(current) \/ SessionCommand(current) \/ RoomCommand(current)
         \/ QueryCommand(current) \/ UnknownCommand(current)
  BY Zenon DEF executeBridgeCommand, sdkVars, attachVars
<1>2. PICK r \in Requests : r = current
  BY <1>1 DEF BridgeInv, LoopInv
<1>3. stream \in {"none", "live", "broken"} /\ (bridgeHandle => stream # "none")
  BY Zenon DEF BridgeInv, LoopInv
<1>4. CASE RegisterCommand(current)
  <2>1. PICK ok \in BOOLEAN : /\ Respond(r, ~bridgeHandle /\ ok) /\ bridgeHandle' = (bridgeHandle \/ ok)
                              /\ stream' = IF ~bridgeHandle /\ ok THEN "live" ELSE stream
    BY Zenon, <1>2, <1>4 DEF RegisterCommand, Outcomes
  <2>2. PICK k \in BOOLEAN : k = (~bridgeHandle /\ ok)
    BY Zenon
  <2>3. /\ stream' \in {"none", "live", "broken"} /\ (bridgeHandle' => stream' # "none")
        /\ (bridgeHandle => bridgeHandle') /\ (kind[r] = "register" /\ k => bridgeHandle')
        /\ (bridgeHandle' /\ ~bridgeHandle => k)
    BY Zenon, <1>3, <2>1, <2>2
  <2>4. kind[r] = "register" /\ Respond(r, k)
    BY <1>2, <1>4, <2>1, <2>2 DEF RegisterCommand
  <2> QED
    BY Zenon, <1>1, <1>2, <2>3, <2>4, RespondStep
<1>5. CASE SessionCommand(current) \/ RoomCommand(current) \/ QueryCommand(current) \/ UnknownCommand(current)
  <2>1. PICK k \in BOOLEAN : Respond(r, k)
    BY Zenon, <1>2, <1>5 DEF SessionCommand, RoomCommand, QueryCommand, UnknownCommand, Registered, Outcomes
  <2>2. UNCHANGED <<bridgeHandle, stream>> /\ kind[r] # "register"
    BY Zenon, <1>2, <1>5 DEF SessionCommand, RoomCommand, QueryCommand, UnknownCommand, SessionOps
  <2>3. /\ stream' \in {"none", "live", "broken"} /\ (bridgeHandle' => stream' # "none")
        /\ (bridgeHandle => bridgeHandle') /\ ~(bridgeHandle' /\ ~bridgeHandle)
    BY Zenon, <1>3, <2>2
  <2> QED
    BY Zenon, <1>1, <1>2, <2>1, <2>2, <2>3, RespondStep
<1> QED
  BY Zenon, <1>1, <1>4, <1>5

\* A message is written for the SDK.
LEMMA MessageStep ==
  ASSUME BridgeInv, startBridgeSubscription
  PROVE  BridgeInv'
<1>1. /\ arrived < MaxMessages /\ arrived' = arrived + 1
      /\ UNCHANGED <<user, kind, future, answeredBy, pendingIds, pendingOrder, isRegistered, reading,
                     input, scanner, bridge, current, bridgeHandle, stream, executed, queue, child,
                     interrupted, gaveUp>>
  BY Zenon DEF startBridgeSubscription, sdkVars, attachVars
<1>2. arrived' \in 0..MaxMessages
  BY <1>1, BridgeAssumption DEF BridgeInv, LoopInv
<1>3. LoopInv' /\ SdkInv' /\ LinesAreExecuted'
  <2>1. LoopInv'
    BY Zenon, <1>1, <1>2 DEF BridgeInv, LoopInv
  <2> QED
    BY Zenon, <1>1, <2>1, SdkKept, LinesKept DEF BridgeInv
<1>4. CASE user # "sdk"
  <2>1. output' = output
    BY Zenon, <1>4 DEF startBridgeSubscription
  <2> QED
    BY Zenon, <1>1, <1>3, <1>4, <2>1, NoSdk DEF BridgeInv
<1>5. CASE user = "sdk"
  <2>1. PICK l \in Lines : l = [message |-> TRUE, id |-> NoOne, of |-> NoOne, ok |-> TRUE]
    BY Zenon DEF Lines
  <2>2. output \in Seq(Lines) /\ output' = Append(output, l)
    BY Zenon, <1>5, <2>1 DEF startBridgeSubscription, BridgeInv, TalkInv
  <2>3. l.message
    BY <2>1
  <2>4. /\ output' \in Seq(Lines)
        /\ \A x \in Requests, k \in BOOLEAN : Said(output', x, k) <=> Said(output, x, k)
    <3>1. ASSUME NEW x \in Requests, NEW k \in BOOLEAN
          PROVE  Said(Append(output, l), x, k) <=> Said(output, x, k)
      BY Zenon, <2>2, <2>3, SaidMore
    <3>2. Append(output, l) \in Seq(Lines)
      BY <2>2
    <3> QED
      BY Zenon, <2>2, <3>1, <3>2
  <2>5. TalkInv'
    BY Zenon, <1>1, <2>4 DEF BridgeInv, TalkInv
  <2>6. PlaceInv'
    <3>1. \A x : Waits(x)' => Waits(x)
      BY Zenon, <1>1 DEF Waits
    <3> QED
      BY Zenon, <1>1, <2>4, <3>1 DEF BridgeInv, PlaceInv
  <2>7. GrantInv'
    <3>1. \A x \in Requests : Granted(x) => Granted(x)'
      BY Zenon, <1>1, <2>4 DEF Granted
    <3> QED
      BY Zenon, <1>1, <3>1 DEF BridgeInv, GrantInv
  <2> QED
    BY Zenon, <1>3, <2>5, <2>6, <2>7 DEF BridgeInv
<1> QED
  BY Zenon, <1>4, <1>5

\* The steps of attach.
LEMMA AttachStep ==
  ASSUME BridgeInv, \/ InitialCommands \/ Wait \/ Exec
                    \/ \E r \in Requests : \/ \E k \in CommandKinds : ChildWrites(r, k)
                                           \/ \E k \in {"open", "message"} : Arrives(r, k)
  PROVE  BridgeInv'
<1>0. /\ (user # "child" => child = "none") /\ input \in Seq(Requests) /\ queue \in Seq(Requests)
      /\ (bridge = "executing") = (current # NoOne) /\ current \in Requests \union {NoOne}
      /\ stream \in {"none", "live", "broken"} /\ (bridgeHandle => stream # "none")
      /\ kind \in [Requests -> CommandKinds \union {"none", "message"}]
  BY Zenon DEF BridgeInv, LoopInv
<1>1. CASE InitialCommands \/ ExecStart
  <2>1. /\ user # "sdk" /\ bridge = "initial" /\ bridge' \in {"idle", "exited"}
        /\ stream' \in {"live", stream} /\ (bridgeHandle' => stream' = "live")
        /\ UNCHANGED <<user, kind, sdkVars, pipes>> /\ UNCHANGED <<scanner, current, arrived, executed>>
        /\ UNCHANGED <<attachVars, interrupted>>
    BY <1>1 DEF InitialCommands, ExecStart
  <2>2. LoopInv'
    BY Zenon, <1>0, <2>1 DEF BridgeInv, LoopInv, pipes, attachVars
  <2>3. SdkInv' /\ LinesAreExecuted'
    <3>1. bridge # "exited"
      BY <2>1
    <3> QED
      BY Zenon, <2>1, <3>1, SdkKept, LinesKept DEF BridgeInv, sdkVars, pipes, attachVars
  <2> QED
    BY Zenon, <2>1, <2>2, <2>3, NoSdk DEF BridgeInv, sdkVars, pipes
<1>2. CASE Wait
  <2>1. /\ child = "ended" /\ child' = "waited" /\ input' = <<>>
        /\ UNCHANGED <<user, kind, sdkVars, output>> /\ UNCHANGED <<loopVars, queue>>
    BY Zenon, <1>2 DEF Wait
  <2>2. user = "child"
    BY <1>0, <2>1
  <2>3. user # "sdk"
    BY <2>2
  <2>4. LoopInv'
    <3>1. <<>> \in Seq(Requests)
      OBVIOUS
    <3> QED
      BY Zenon, <2>1, <2>3, <2>2, <3>1 DEF BridgeInv, LoopInv, loopVars
  <2>5. SdkInv' /\ LinesAreExecuted'
    BY Zenon, <2>1, SdkKept DEF BridgeInv, LinesAreExecuted, sdkVars
  <2> QED
    BY Zenon, <2>1, <2>3, <2>4, <2>5, NoSdk DEF BridgeInv, sdkVars
<1>3. ASSUME NEW r \in Requests, NEW k \in CommandKinds, ChildWrites(r, k) PROVE BridgeInv'
  <2>1. /\ child = "running" /\ kind' = [kind EXCEPT ![r] = k] /\ input' = Append(input, r)
        /\ UNCHANGED <<user, sdkVars, output>> /\ UNCHANGED <<loopVars, attachVars, interrupted>>
    BY Zenon, <1>3 DEF ChildWrites
  <2>2. user = "child"
    BY <1>0, <2>1
  <2>3. user # "sdk"
    BY <2>2
  <2>4. input' \in Seq(Requests) /\ Range(input') = Range(input) \union {r}
    BY <1>0, <2>1, HoldsMore
  <2>5. /\ kind' \in [Requests -> CommandKinds \union {"none", "message"}]
        /\ \A x \in Requests : x # r => kind'[x] = kind[x]
    BY <1>0, <2>1
  <2>6. LoopInv'
    BY Zenon, <2>1, <2>4, <2>5 DEF BridgeInv, LoopInv, loopVars, attachVars
  <2>7. SdkInv'
    BY Zenon, <2>1, SdkKept DEF BridgeInv, sdkVars
  <2>8. LinesAreExecuted'
    <3>1. UNCHANGED <<executed, scanner, current, bridge, child, interrupted>>
      BY Zenon, <2>1 DEF loopVars, attachVars
    <3> QED
      BY Zenon, <2>2, <2>4, <2>5, <3>1 DEF BridgeInv, LinesAreExecuted
  <2> QED
    BY Zenon, <2>1, <2>3, <2>6, <2>7, <2>8, NoSdk DEF BridgeInv, sdkVars
<1>4. ASSUME NEW r \in Requests, NEW k \in {"open", "message"}, Arrives(r, k) PROVE BridgeInv'
  <2>1. /\ user = "exec" /\ kind' = [kind EXCEPT ![r] = k] /\ queue' = Append(queue, r)
        /\ UNCHANGED <<user, sdkVars, pipes>> /\ UNCHANGED <<loopVars, child>>
    BY Zenon, <1>4 DEF Arrives
  <2>2. user # "sdk" /\ user # "child"
    BY <2>1
  <2>3. queue' \in Seq(Requests)
    BY <1>0, <2>1, HoldsMore
  <2>4. kind' \in [Requests -> CommandKinds \union {"none", "message"}]
    BY <1>0, <2>1 DEF CommandKinds, SessionOps
  <2>5. LoopInv'
    BY Zenon, <2>1, <2>3, <2>4 DEF BridgeInv, LoopInv, pipes, loopVars
  <2>6. SdkInv'
    BY Zenon, <2>1, SdkKept DEF BridgeInv, sdkVars
  <2> QED
    BY Zenon, <2>1, <2>2, <2>5, <2>6, NoSdk, NoChild DEF BridgeInv, sdkVars, pipes
<1>5. CASE runExecAttach \/ execCommand
  <2>1. /\ user = "exec" /\ UNCHANGED <<user, kind, sdkVars, pipes>>
        /\ UNCHANGED <<scanner, bridgeHandle, stream, arrived, child>>
    BY Zenon, <1>5 DEF runExecAttach, execCommand, attachVars
  <2>2. user # "sdk" /\ user # "child"
    BY <2>1
  <2>3. /\ queue' \in Seq(Requests) /\ bridge' \in {"idle", "executing", "exited"}
        /\ (bridge' = "executing") = (current' # NoOne) /\ current' \in Requests \union {NoOne}
    <3>1. CASE runExecAttach
      <4>1. /\ bridge = "idle" /\ current = NoOne
        BY <1>0, <3>1 DEF runExecAttach
      <4>2. CASE /\ queue # <<>> /\ queue' = Tail(queue)
                 /\ IF kind[Head(queue)] = "open" THEN bridge' = "executing" /\ current' = Head(queue)
                    ELSE UNCHANGED <<bridge, current>>
        <5>1. queue' \in Seq(Requests) /\ Head(queue) \in Requests /\ Head(queue) # NoOne
          BY <1>0, <4>2, HoldsLess, BridgeAssumption
        <5> QED
          BY <4>1, <4>2, <5>1
      <4>3. CASE bridge' = "exited" /\ UNCHANGED <<queue, current>>
        BY <1>0, <4>1, <4>3
      <4> QED
        BY Zenon, <3>1, <4>2, <4>3 DEF runExecAttach
    <3>2. CASE execCommand
      BY <1>0, <3>2 DEF execCommand, attachVars
    <3> QED
      BY Zenon, <1>5, <3>1, <3>2
  <2>4. LoopInv'
    BY Zenon, <2>1, <2>3 DEF BridgeInv, LoopInv, pipes
  <2>5. SdkInv'
    BY Zenon, <2>1, SdkKept DEF BridgeInv, sdkVars
  <2> QED
    BY Zenon, <2>1, <2>2, <2>4, <2>5, NoSdk, NoChild DEF BridgeInv, sdkVars, pipes
<1> QED
  BY Zenon, <1>1, <1>2, <1>3, <1>4, <1>5 DEF Exec

\* The two ends of a bridge agree whatever is cancelled, fails or ends: a request
\* gets the response to itself, the SDK and the bridge agree on the registration,
\* and a line of a child is executed (runBridge, _reader_loop, runAttach).
THEOREM BridgeStaysAgreed == BridgeSpec => []BridgeAgrees
<1>1. BridgeInv /\ [BridgeNext]_bridgeVars => BridgeInv'
  <2> SUFFICES ASSUME BridgeInv, [BridgeNext]_bridgeVars PROVE BridgeInv'
    OBVIOUS
  <2>1. CASE UNCHANGED bridgeVars
    <3>1. LoopInv' /\ SdkInv' /\ TalkInv'
      BY Zenon, <2>1, LoopKept, SdkKept, TalkKept
         DEF BridgeInv, bridgeVars, sdkVars, pipes, loopVars, attachVars
    <3>2. PlaceInv' /\ GrantInv' /\ LinesAreExecuted'
      BY Zenon, <2>1, PlaceKept, GrantKept, LinesKept
         DEF BridgeInv, bridgeVars, sdkVars, pipes, loopVars, attachVars
    <3> QED
      BY Zenon, <3>1, <3>2 DEF BridgeInv
  <2>2. CASE BridgeNext
    BY Zenon, <2>2, SendStep, CancelStep, ReadStep, EofStep, EndsStep, StopStep, ScannerStep, ExecuteStep,
       RunStep, MessageStep, AttachStep DEF BridgeNext, Reader, Loop
  <2> QED
    BY Zenon, <2>1, <2>2
<1> QED
  BY <1>1, BridgeStarts, BridgeShows, PTL DEF BridgeSpec
=============================================================================
