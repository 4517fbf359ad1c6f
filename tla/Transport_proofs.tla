-------------------------- MODULE Transport_proofs --------------------------
(***************************************************************************)
(* Connections, relay streams and copies of messages, for any number of    *)
(* daemons, relays, calls and connections and any number of faults: the    *)
(* steps of relays and of ending loops, the theorems, and the refinement.  *)
(***************************************************************************)
EXTENDS Transport_steps

\* A relay forwards a copy to its destination, or loses it.
LEMMA ForwardsStep ==
  ASSUME SizeLaws, TransportInv, NEW k \in Links, RelayForwards(k)
  PROVE  TransportInv'
<1>1. /\ Types /\ LinkInv /\ WireInv /\ StreamInv /\ conn[k].to \in Relays /\ out[k] # <<>>
      /\ arrived' = arrived
      /\ UNCHANGED <<table, fails, callVars, conn, streams, result, handed, histVars>>
  BY Zenon DEF TransportInv, RelayForwards
<1>2. PICK f \in [Links -> Seq(Calls)] : f = out
  BY Zenon, <1>1 DEF Types
<1>2b. PICK g : g = out'
  BY Zenon
<1>3. Changed(f, g, k, Tail(f[k])) /\ f[k] # <<>>
  BY Zenon, <1>1, <1>2, <1>2b DEF RelayForwards, Changed
<1>4. /\ Head(f[k]) \in Calls /\ 1 \in 1..Len(f[k]) /\ f[k][1] = Head(f[k])
      /\ \A j \in Links : g[j] # <<>> => f[j] # <<>>
      /\ \A j \in Links : \A i \in 1..Len(g[j]) : \E m \in 1..Len(f[j]) : g[j][i] = f[j][m]
  <2>1. FirstRead(f, g, k)
    BY Zenon, <1>3, TailWire
  <2> QED
    BY Zenon, <2>1 DEF FirstRead
<1>5. \A j \in Links :
        /\ f[j] # <<>> => conn[j].handler # "ended"
        /\ \A i \in 1..Len(f[j]) : conn[j].to \in Nodes => conn[j].to = To[f[j][i]]
  BY Zenon, <1>1, <1>2, <1>2b DEF WireInv
<1>6. \A j \in Links : /\ out'[j] # <<>> => conn[j].handler # "ended"
                       /\ \A i \in 1..Len(out'[j]) : conn[j].to \in Nodes => conn[j].to = To[out'[j][i]]
  <2> SUFFICES ASSUME NEW j \in Links
               PROVE  /\ g[j] # <<>> => conn[j].handler # "ended"
                      /\ \A i \in 1..Len(g[j]) : conn[j].to \in Nodes => conn[j].to = To[g[j][i]]
    BY Zenon, <1>2, <1>2b
  <2>1. ASSUME NEW i \in 1..Len(g[j]), conn[j].to \in Nodes PROVE conn[j].to = To[g[j][i]]
    <3>1. PICK m \in 1..Len(f[j]) : g[j][i] = f[j][m]
      BY Zenon, <1>4
    <3> QED
      BY Zenon, <1>5, <2>1, <3>1
  <2> QED
    BY Zenon, <1>4, <1>5, <2>1
<1>7. PICK c \in Calls, r \in Relays : c = Head(f[k]) /\ r = conn[k].to
  BY Zenon, <1>1, <1>4
<1>7b. PICK s : s = streams[r][To[c]]
  BY Zenon
<1>8. /\ back' = IF s # None /\ conn[s].up THEN [back EXCEPT ![s] = Append(@, c)] ELSE back
      /\ arrived' \in [Nodes -> [Calls -> Nat]] /\ back \in [Links -> Seq(Calls)]
      /\ To[c] \in Nodes
  BY Zenon, <1>1, <1>2, <1>2b, <1>7, <1>7b, TransportBounds DEF RelayForwards, Types
<1>9. \A j \in Links : /\ back[j] # <<>> => conn[j].loop
                       /\ \A i \in 1..Len(back[j]) : conn[j].from = To[back[j][i]]
  BY Zenon, <1>1 DEF WireInv
<1>10. CASE ~(s # None /\ conn[s].up)
  <2>1. back' = back
    BY Zenon, <1>8, <1>10
  <2>2. ASSUME NEW d \in Calls
        PROVE  Counted(g, back', arrived'[To[d]][d], handed[d], d) /\ g \in [Links -> Seq(Calls)]
    <3>1. PICK ar \in Nat, h \in Nat : ar = arrived[To[d]][d] /\ h = handed[d]
      BY Zenon, CountNow
    <3>1b. PICK b : b = back
      BY Zenon
    <3>2. Counted(f, b, ar, h, d)
      BY Zenon, <1>2, <1>2b, <3>1, <3>1b, CountNow
    <3>3. Counted(g, b, ar, h, d) /\ g \in [Links -> Seq(Calls)]
      BY Zenon, <1>3, <3>2, CountRead
    <3> QED
      BY Zenon, <1>1, <2>1, <3>1, <3>1b, <3>3
  <2>3. /\ \A d \in Calls : Counted(out', back', arrived'[To[d]][d], handed[d], d)
        /\ back' \in [Links -> Seq(Calls)] /\ out' \in [Links -> Seq(Calls)]
    BY Zenon, <1>2, <1>2b, <1>7, <1>7b, <1>8, <2>1, <2>2
  <2>4. \A j \in Links : /\ back'[j] # <<>> => conn[j].loop
                         /\ \A i \in 1..Len(back'[j]) : conn[j].from = To[back'[j][i]]
    BY Zenon, <1>9, <2>1
  <2> QED
    BY Zenon, <1>1, <1>6, <1>8, <2>3, <2>4, WireStep
<1>11. CASE s # None /\ conn[s].up
  <2>1. s \in Links
    <3>1. streams \in [Relays -> [Nodes -> Links \union {None}]]
      BY Zenon, <1>1 DEF Types
    <3>2. s \in Links \union {None}
      <4>1. PICK m \in Nodes : m = To[c]
        BY Zenon, <1>8
      <4>2. streams[r][m] \in Links \union {None}
        BY Zenon, <3>1
      <4> QED
        BY Zenon, <1>7, <1>7b, <4>1, <4>2
    <3> QED
      BY Zenon, <1>11, <3>2
  <2>2. conn[s].from = To[c] /\ conn[s].loop
    <3>1. s = streams[r][To[c]] /\ s # None
      BY Zenon, <1>7, <1>7b, <1>11
    <3>2. conn[s].from = To[c]
      <4>1. PICK m \in Nodes : m = To[c]
        BY Zenon, <1>8
      <4>2. s = streams[r][m] /\ s # None
        BY Zenon, <3>1, <4>1
      <4> QED
        BY SMTT(20), <1>1, <4>1, <4>2, NotedStream
    <3> QED
      BY Zenon, <1>1, <1>11, <2>1, <3>2 DEF LinkInv
  <2>3. PICK b \in [Links -> Seq(Calls)] : b = back
    BY Zenon, <1>8
  <2>3b. PICK q : q = back'
    BY Zenon
  <2>4. q = [b EXCEPT ![s] = Append(b[s], c)]
    BY Zenon, <1>8, <1>11, <2>1, <2>3, <2>3b
  <2>5. Changed(b, q, s, Append(b[s], Head(f[k])))
    BY Zenon, <1>7, <1>7b, <2>3, <2>3b, <2>4 DEF Changed
  <2>6. ASSUME NEW d \in Calls
        PROVE  /\ Counted(g, q, arrived'[To[d]][d], handed[d], d)
               /\ g \in [Links -> Seq(Calls)] /\ q \in [Links -> Seq(Calls)]
    <3>1. PICK ar \in Nat, h \in Nat : ar = arrived[To[d]][d] /\ h = handed[d]
      BY Zenon, CountNow
    <3>2. Counted(f, b, ar, h, d)
      BY Zenon, <1>2, <1>2b, <2>3, <2>3b, <3>1, CountNow
    <3>3. /\ Counted(g, q, ar, h, d)
          /\ g \in [Links -> Seq(Calls)] /\ q \in [Links -> Seq(Calls)]
      BY Zenon, <1>3, <2>1, <2>5, <3>2, CountForwarded
    <3> QED
      BY Zenon, <1>1, <3>1, <3>3
  <2>7. /\ \A d \in Calls : Counted(out', back', arrived'[To[d]][d], handed[d], d)
        /\ back' \in [Links -> Seq(Calls)] /\ out' \in [Links -> Seq(Calls)]
    BY Zenon, <1>2, <1>2b, <1>7, <1>7b, <2>3, <2>3b, <2>6
  <2>8. \A j \in Links : /\ back'[j] # <<>> => conn[j].loop
                         /\ \A i \in 1..Len(back'[j]) : conn[j].from = To[back'[j][i]]
    <3> SUFFICES ASSUME NEW j \in Links
                 PROVE  /\ q[j] # <<>> => conn[j].loop
                        /\ \A i \in 1..Len(q[j]) : conn[j].from = To[q[j][i]]
      BY Zenon, <2>3, <2>3b
    <3>1. CASE j # s
      <4>1. q[j] = b[j]
        BY Zenon, <2>4, <3>1
      <4> QED
        BY ZenonT(30), <1>9, <2>3, <2>3b, <4>1
    <3>2. CASE j = s
      <4>1. /\ b[s] \in Seq(Calls) /\ Len(q[s]) = Len(b[s]) + 1 /\ Len(b[s]) \in Nat
            /\ q[s][Len(b[s]) + 1] = c /\ \A i \in 1..Len(b[s]) : q[s][i] = b[s][i]
        BY <2>1, <2>4
      <4>2. ASSUME NEW i \in 1..Len(q[s]) PROVE conn[s].from = To[q[s][i]]
        <5>1. CASE i = Len(b[s]) + 1
          BY Zenon, <2>2, <4>1, <5>1
        <5>2. CASE i # Len(b[s]) + 1
          <6>1. i \in 1..Len(b[s])
            BY <4>1, <4>2, <5>2
          <6>2. conn[s].from = To[b[s][i]]
            BY Zenon, <1>9, <2>1, <2>3, <2>3b, <6>1
          <6> QED
            BY Zenon, <4>1, <6>1, <6>2
        <5> QED
          BY Zenon, <5>1, <5>2
      <4> QED
        BY Zenon, <2>2, <3>2, <4>2
    <3> QED
      BY Zenon, <3>1, <3>2
  <2> QED
    BY Zenon, <1>1, <1>6, <1>8, <2>7, <2>8, WireStep
<1> QED
  BY Zenon, <1>10, <1>11

\* The receive loop of a connection that is down ends, and takes it from the table.
LEMMA LoopEndsStep ==
  ASSUME SizeLaws, TransportInv, NEW k \in Links, LoopEnds(k)
  PROVE  TransportInv'
<1>1. /\ Types /\ LinkInv /\ TableInv /\ HoldInv /\ NoStreamLeaks /\ StreamInv /\ WireInv
      /\ CopyInv /\ BudgetInv /\ conn[k].loop /\ ~conn[k].up /\ Ended(k, "loop")
      /\ back' = [back EXCEPT ![k] = <<>>]
      /\ early' = IF table[conn[k].from][conn[k].to] # k /\ k \in Held
                  THEN early \union {k} ELSE early
      /\ Removes(conn[k].from, conn[k].to, k)
  BY Zenon DEF TransportInv, LoopEnds, Removes
<1>2. UNCHANGED <<fails, call, expired, out, streams, result, handed, arrived, raced>>
  BY Zenon DEF LoopEnds, callVars
<1>3. PICK n \in Nodes, a \in Addrs : n = conn[k].from /\ a = conn[k].to
  BY Zenon, <1>1 DEF LinkInv, Alive
<1>4. /\ Fades /\ \A j \in Links : j # k => conn'[j] = conn[j]
      /\ ~conn'[k].loop /\ conn'[k].handler = conn[k].handler
  BY Zenon, <1>1, EndedFades
<1>5. ~conn'[k].up /\ Removes(n, a, k)
  BY Zenon, <1>1, <1>3, <1>4 DEF Fades
<1>6. Clears /\ KeepsUp
  BY Zenon, <1>1, <1>4, <1>5, EntryRemoved
<1>7. early \subseteq early' /\ early' \subseteq Links
  BY Zenon, <1>1 DEF Types
<1>8. TableInv'
  <2> SUFFICES ASSUME NEW m \in Nodes, NEW b \in Addrs, table'[m][b] # None
               PROVE  conn'[table[m][b]].loop \/ table[m][b] \in early'
    BY Zenon, <1>1, <1>4, <1>6, FadesTable
  <2>1. PICK x : x = table[m][b]
    BY Zenon
  <2>2. x \in Links /\ x # None
    BY <1>1, <1>6, <2>1 DEF Clears, Types
  <2>3. x # k
    <3> SUFFICES ASSUME x = k PROVE FALSE
      BY Zenon
    <3>1. conn[k].from = m /\ conn[k].to = b
      <4>1. table[m][b] = k /\ k # None
        BY Zenon, <2>1, <2>2
      <4>2. Alive(table[m][b]) => conn[table[m][b]].from = m /\ conn[table[m][b]].to = b
        BY Zenon, <1>1, <4>1 DEF TableInv
      <4>3. Alive(k)
        BY Zenon, <1>1 DEF Alive
      <4> QED
        BY Zenon, <4>1, <4>2, <4>3
    <3>2. table' = [table EXCEPT ![n][a] = None] /\ m = n /\ b = a
      BY Zenon, <1>3, <1>5, <2>1, <3>1 DEF Removes
    <3>3. table'[m][b] = None
      BY Zenon, <1>1, <3>2 DEF Types
    <3> QED
      BY Zenon, <3>3
  <2>4. conn[x].loop \/ x \in early
    BY Zenon, <1>1, <2>1, <2>2 DEF TableInv
  <2>5. conn'[x] = conn[x]
    BY Zenon, <1>4, <2>2, <2>3
  <2> QED
    BY Zenon, <1>7, <2>1, <2>4, <2>5
<1>9. HoldInv'
  <2> SUFFICES ASSUME NEW u \in Threads PROVE HoldOK(u)'
    BY Zenon DEF HoldInv
  <2>1. ASSUME call[u].pc = "store" PROVE conn'[call[u].conn].loop \/ call[u].conn \in early'
    <3>1. PICK x : x = call[u].conn
      BY Zenon
    <3>2. /\ x # None /\ (conn[x].loop \/ x \in early)
          /\ \A m \in Nodes, b \in Addrs : table[m][b] # x
      BY Zenon, <1>1, <2>1, <3>1 DEF HoldInv, HoldOK
    <3>3. x \in Links
      BY Zenon, <1>1, <3>1, <3>2 DEF Types, CallRec
    <3>4. CASE x = k
      <4>1. table[conn[k].from][conn[k].to] # k /\ k \in Held
        BY Zenon, <1>3, <3>1, <3>2, <3>4 DEF Held
      <4> QED
        BY Zenon, <1>1, <3>1, <3>4, <4>1
    <3>5. CASE x # k
      <4>1. conn'[x] = conn[x]
        BY Zenon, <1>4, <3>3, <3>5
      <4> QED
        BY Zenon, <1>7, <3>1, <3>2, <4>1
    <3> QED
      BY Zenon, <3>4, <3>5
  <2>2. \A v \in Threads : call'[v].conn \in {None, call[v].conn}
    BY Zenon, <1>2
  <2> QED
    BY Zenon, <1>1, <1>2, <1>4, <1>6, <2>1, <2>2, HoldKept
<1>10. NoStreamLeaks'
  BY Zenon, <1>1, <1>2, <1>4, <1>6, FadesLeak DEF KeepsUp
<1>11. StreamInv'
  <2>1. \A j \in Links : conn'[j].handler = conn[j].handler
    BY Zenon, <1>4
  <2> QED
    BY Zenon, <1>1, <1>2, <1>4, <2>1, FadesStream
<1>12. back'[k] = <<>> /\ \A j \in Links : j # k => back'[j] = back[j]
  BY Zenon, <1>1 DEF Types
<1>13. WireInv'
  <2>1. \A j \in Links : out'[j] = out[j] /\ (out[j] # <<>> => conn'[j].handler # "ended")
    <3>1. \A j \in Links : conn'[j].handler = conn[j].handler
      BY Zenon, <1>4
    <3> QED
      BY Zenon, <1>1, <1>2, <3>1 DEF WireInv
  <2>2. \A j \in Links : \/ back'[j] = back[j] /\ (back[j] # <<>> => conn'[j].loop)
                         \/ back'[j] = <<>>
    BY Zenon, <1>1, <1>4, <1>12 DEF WireInv
  <2> QED
    BY Zenon, <1>1, <1>4, <2>1, <2>2, FadesWire
<1>14. PICK f \in [Links -> Seq(Calls)] : f = back
  BY Zenon, <1>1 DEF Types
<1>14b. PICK g, o : g = back' /\ o = out
  BY Zenon
<1>15. Changed(f, g, k, <<>>)
  BY Zenon, <1>1, <1>14, <1>14b DEF Changed
<1>16. ASSUME NEW d \in Calls
       PROVE  Counted(o, g, arrived[To[d]][d], handed[d], d)
  <2>1. PICK ar \in Nat, h \in Nat : ar = arrived[To[d]][d] /\ h = handed[d]
    BY Zenon, CountNow
  <2>2. Counted(o, f, ar, h, d)
    BY Zenon, <1>14, <1>14b, <2>1, CountNow
  <2>3. Counted(g, o, ar, h, d)
    BY Zenon, <1>15, <2>2, CountSwap, CountLost
  <2> QED
    BY Zenon, <2>1, <2>3, CountSwap
<1>17. g \in [Links -> Seq(Calls)]
  BY <1>15 DEF Changed
<1>18. CopyInv'
  <2>1. ASSUME NEW d \in Calls
        PROVE  /\ IsFiniteSet(Places(out', d)) /\ IsFiniteSet(Places(back', d))
               /\ Cardinality(Places(out', d)) + Cardinality(Places(back', d))
                    + arrived'[To[d]][d] <= handed'[d]
    BY Zenon, <1>2, <1>14, <1>14b, <1>16 DEF Counted
  <2> QED
    BY Zenon, <2>1 DEF CopyInv, Places
<1>19. Types'
  BY Zenon, <1>1, <1>2, <1>4, <1>6, <1>7, <1>14, <1>14b, <1>17 DEF Types, Fades, Clears
<1>20. LinkInv'
  BY Zenon, <1>1, <1>4, FadesLink
<1>21. BudgetInv'
  BY Zenon, <1>1, <1>2, BudgetKept DEF BudgetInv
<1> QED
  BY Zenon, <1>8, <1>9, <1>10, <1>11, <1>13, <1>18, <1>19, <1>20, <1>21 DEF TransportInv

\* The handler of a connection that is down ends, and the relay forgets the stream.
LEMMA HandlerEndsStep ==
  ASSUME SizeLaws, TransportInv, NEW k \in Links, HandlerEnds(k)
  PROVE  TransportInv'
<1>1. /\ Types /\ LinkInv /\ TableInv /\ HoldInv /\ NoStreamLeaks /\ StreamInv /\ WireInv
      /\ CopyInv /\ BudgetInv /\ conn[k].handler = "in" /\ ~conn[k].up /\ Ended(k, "handler")
      /\ out' = [out EXCEPT ![k] = <<>>]
      /\ streams' = IF conn[k].to \in Relays /\ streams[conn[k].to][conn[k].from] = k
                    THEN [streams EXCEPT ![conn[k].to][conn[k].from] = None] ELSE streams
  BY Zenon DEF TransportInv, HandlerEnds, KeyOf
<1>2. UNCHANGED <<table, fails, call, expired, back, result, handed, arrived, early, raced>>
  BY Zenon DEF HandlerEnds, callVars, histVars
<1>3. PICK n \in Nodes, a \in Addrs : n = conn[k].from /\ a = conn[k].to
  BY Zenon, <1>1 DEF LinkInv, Alive
<1>4. /\ Fades /\ \A j \in Links : j # k => conn'[j] = conn[j]
      /\ conn'[k].loop = conn[k].loop /\ conn'[k].handler = "ended"
  BY Zenon, <1>1, EndedFades
<1>5. \A j \in Links : conn'[j].loop = conn[j].loop
  BY Zenon, <1>4
<1>6. Clears /\ KeepsUp
  BY Zenon, <1>1, <1>2, StillClears DEF KeepsUp
<1>7. /\ streams' \in [Relays -> [Nodes -> Links \union {None}]]
      /\ \A r \in Relays, m \in Nodes :
           streams'[r][m] = streams[r][m] \/ (r = a /\ m = n /\ streams'[r][m] = None)
      /\ a \in Relays => streams'[a][n] # k
  <2>1. streams \in [Relays -> [Nodes -> Links \union {None}]] /\ k # None
    BY Zenon, <1>1, TransportBounds DEF Types
  <2>2. CASE a \in Relays /\ streams[a][n] = k
    <3>1. streams' = [streams EXCEPT ![a][n] = None]
      BY Zenon, <1>1, <1>3, <2>2
    <3> QED
      BY Zenon, <2>1, <2>2, <3>1
  <2>3. CASE ~(a \in Relays /\ streams[a][n] = k)
    <3>1. streams' = streams
      BY Zenon, <1>1, <1>3, <2>3
    <3> QED
      BY Zenon, <2>1, <2>3, <3>1
  <2> QED
    BY Zenon, <2>2, <2>3
<1>8. StreamInv'
  <2>1. ASSUME NEW r \in Relays, NEW m \in Nodes, streams'[r][m] # None
        PROVE  /\ conn'[streams'[r][m]].handler = "in"
               /\ conn'[streams'[r][m]].from = m /\ conn'[streams'[r][m]].to = r
    <3>1. PICK x : x = streams[r][m] /\ x = streams'[r][m]
      BY Zenon, <1>7, <2>1
    <3>2. x \in Links /\ x # None
      BY SMTT(20), <1>1, <2>1, <3>1 DEF Types
    <3>3. conn[x].handler = "in" /\ conn[x].from = m /\ conn[x].to = r
      <4>1. x = streams[r][m] /\ x # None
        BY Zenon, <3>1, <3>2
      <4>2. StreamInv
        BY Zenon, <1>1
      <4> QED
        BY SMTT(20), <4>1, <4>2, NotedStream
    <3>4. x # k
      BY Zenon, <1>3, <1>7, <3>1, <3>3
    <3> QED
      BY Zenon, <1>4, <3>1, <3>2, <3>3, <3>4
  <2>2. ASSUME NEW j \in Links, conn'[j].handler # "ended"
        PROVE  j # k /\ conn'[j] = conn[j]
    BY Zenon, <1>4, <2>2
  <2>3. ASSUME NEW j \in Links, conn'[j].up, conn'[j].handler = "in", conn'[j].to \in Relays
        PROVE  \/ streams'[conn'[j].to][conn'[j].from] = j
               \/ <<conn'[j].from, conn'[j].to>> \in raced'
    <3>1. j # k /\ conn'[j] = conn[j]
      <4>1. conn'[j].handler # "ended"
        BY Zenon, <2>3
      <4> QED
        BY Zenon, <2>2, <4>1
    <3>2. conn[j].from \in Nodes
      BY Zenon, <1>1, <2>3, <3>1 DEF LinkInv, Alive
    <3>3. streams[conn[j].to][conn[j].from] = j \/ <<conn[j].from, conn[j].to>> \in raced
      BY Zenon, <1>1, <2>3, <3>1 DEF StreamInv
    <3>4. CASE streams[conn[j].to][conn[j].from] = j
      <4>1. PICK r \in Relays, m \in Nodes : r = conn[j].to /\ m = conn[j].from
        BY Zenon, <2>3, <3>1, <3>2
      <4>2. streams[r][m] = j
        BY Zenon, <3>4, <4>1
      <4>3. streams'[r][m] = j
        <5> SUFFICES ASSUME streams'[r][m] # j PROVE FALSE
          BY Zenon
        <5>1. r = a /\ m = n
          BY Zenon, <1>7, <4>2
        <5>2. a \in Relays /\ streams[a][n] = j
          BY Zenon, <4>2, <5>1
        <5>3. streams' = streams
          BY Zenon, <1>1, <1>3, <3>1, <5>2
        <5> QED
          BY Zenon, <4>2, <5>3
      <4> QED
        BY Zenon, <3>1, <4>1, <4>3
    <3> QED
      BY Zenon, <1>2, <3>1, <3>3, <3>4
  <2>4. ASSUME NEW i \in Links, NEW j \in Links, i # j, conn'[i].from = conn'[j].from,
               conn'[i].to = conn'[j].to, conn'[j].to \in Relays,
               conn'[i].handler # "ended", conn'[i].up \/ conn'[i].handler = "new",
               conn'[j].handler # "ended", conn'[j].up \/ conn'[j].handler = "new"
        PROVE  <<conn'[j].from, conn'[j].to>> \in raced'
    <3>1. conn'[i] = conn[i] /\ conn'[j] = conn[j]
      BY Zenon, <2>2, <2>4
    <3>2. /\ conn[i].from = conn[j].from /\ conn[i].to = conn[j].to /\ conn[j].to \in Relays
          /\ conn[i].handler # "ended" /\ (conn[i].up \/ conn[i].handler = "new")
          /\ conn[j].handler # "ended" /\ (conn[j].up \/ conn[j].handler = "new")
      BY Zenon, <2>4, <3>1
    <3>3. <<conn[j].from, conn[j].to>> \in raced
      BY Zenon, <1>1, <2>4, <3>2 DEF StreamInv
    <3> QED
      BY Zenon, <1>2, <3>1, <3>3
  <2> QED
    BY Zenon, <2>1, <2>3, <2>4 DEF StreamInv
<1>9. TableInv'
  <2> SUFFICES ASSUME NEW m \in Nodes, NEW b \in Addrs, table'[m][b] # None
               PROVE  conn'[table[m][b]].loop \/ table[m][b] \in early'
    BY Zenon, <1>1, <1>4, <1>6, FadesTable
  <2>1. table[m][b] \in Links /\ table[m][b] # None
    BY <1>1, <1>2 DEF Types
  <2> QED
    BY Zenon, <1>1, <1>2, <1>5, <2>1 DEF TableInv
<1>10. HoldInv'
  <2> SUFFICES ASSUME NEW u \in Threads PROVE HoldOK(u)'
    BY Zenon DEF HoldInv
  <2>1. call[u].pc = "store" => conn'[call[u].conn].loop \/ call[u].conn \in early'
    <3>1. call[u].pc = "store" =>
            call[u].conn # None /\ (conn[call[u].conn].loop \/ call[u].conn \in early)
      BY Zenon, <1>1 DEF HoldInv, HoldOK
    <3>2. call[u].conn # None => call[u].conn \in Links
      BY Zenon, <1>1 DEF Types, CallRec
    <3> QED
      BY Zenon, <1>2, <1>5, <3>1, <3>2
  <2>2. \A v \in Threads : call'[v].conn \in {None, call[v].conn}
    BY Zenon, <1>2
  <2> QED
    BY Zenon, <1>1, <1>2, <1>4, <1>6, <2>1, <2>2, HoldKept
<1>11. NoStreamLeaks'
  BY Zenon, <1>1, <1>2, <1>4, <1>6, FadesLeak DEF KeepsUp
<1>12. out'[k] = <<>> /\ \A j \in Links : j # k => out'[j] = out[j]
  BY Zenon, <1>1 DEF Types
<1>13. WireInv'
  <2>1. \A j \in Links : \/ out'[j] = out[j] /\ (out[j] # <<>> => conn'[j].handler # "ended")
                         \/ out'[j] = <<>>
    BY Zenon, <1>1, <1>4, <1>12 DEF WireInv
  <2>2. \A j \in Links : back'[j] = back[j] /\ (back[j] # <<>> => conn'[j].loop)
    BY Zenon, <1>1, <1>2, <1>5 DEF WireInv
  <2> QED
    BY Zenon, <1>1, <1>4, <2>1, <2>2, FadesWire
<1>14. PICK f \in [Links -> Seq(Calls)] : f = out
  BY Zenon, <1>1 DEF Types
<1>14b. PICK g, b : g = out' /\ b = back
  BY Zenon
<1>15. Changed(f, g, k, <<>>)
  BY Zenon, <1>1, <1>14, <1>14b DEF Changed
<1>16. ASSUME NEW d \in Calls
       PROVE  Counted(g, b, arrived[To[d]][d], handed[d], d)
  <2>1. PICK ar \in Nat, h \in Nat : ar = arrived[To[d]][d] /\ h = handed[d]
    BY Zenon, CountNow
  <2>2. Counted(f, b, ar, h, d)
    BY Zenon, <1>14, <1>14b, <2>1, CountNow
  <2>3. Counted(g, b, ar, h, d)
    BY Zenon, <1>15, <2>2, CountLost
  <2> QED
    BY Zenon, <2>1, <2>3
<1>17. g \in [Links -> Seq(Calls)]
  BY <1>15 DEF Changed
<1>18. CopyInv'
  <2>1. ASSUME NEW d \in Calls
        PROVE  /\ IsFiniteSet(Places(out', d)) /\ IsFiniteSet(Places(back', d))
               /\ Cardinality(Places(out', d)) + Cardinality(Places(back', d))
                    + arrived'[To[d]][d] <= handed'[d]
    BY Zenon, <1>2, <1>14, <1>14b, <1>16 DEF Counted
  <2> QED
    BY Zenon, <2>1 DEF CopyInv, Places
<1>19. Types'
  BY Zenon, <1>1, <1>2, <1>4, <1>6, <1>7, <1>14, <1>14b, <1>17 DEF Types, Fades, Clears
<1>20. LinkInv'
  BY Zenon, <1>1, <1>4, FadesLink
<1>21. BudgetInv'
  BY Zenon, <1>1, <1>2, BudgetKept DEF BudgetInv
<1> QED
  BY Zenon, <1>8, <1>9, <1>10, <1>11, <1>13, <1>18, <1>19, <1>20, <1>21 DEF TransportInv

\* The relay notes a stream, in place of an earlier one of the same daemon.
LEMMA AcceptsStep ==
  ASSUME TransportInv, NEW k \in Links, RelayAccepts(k)
  PROVE  TransportInv'
<1>1. /\ Types /\ LinkInv /\ TableInv /\ HoldInv /\ NoStreamLeaks /\ StreamInv /\ WireInv
      /\ CopyInv /\ BudgetInv /\ conn[k].handler = "new"
      /\ streams' = [streams EXCEPT ![conn[k].to][conn[k].from] = k]
  BY Zenon DEF TransportInv, RelayAccepts, KeyOf
<1>2. UNCHANGED <<table, fails, call, expired, out, back, result, handed, arrived, early, raced>>
  BY Zenon DEF RelayAccepts, callVars, wireVars, histVars
<1>3. PICK n \in Nodes, a \in Relays : n = conn[k].from /\ a = conn[k].to
  BY Zenon, <1>1 DEF LinkInv, Alive
<1>4. PICK e \in LinkRec : e = conn[k]
  BY Zenon, <1>1 DEF Types
<1>5. conn' = [conn EXCEPT ![k] = [conn[k] EXCEPT !.handler = "in"]] /\ conn \in [Links -> LinkRec]
  BY Zenon, <1>1 DEF RelayAccepts, Types
<1>6. conn'[k] = [e EXCEPT !.handler = "in"] /\ \A j \in Links : j # k => conn'[j] = conn[j]
  BY Zenon, <1>4, <1>5
<1>7. /\ conn'[k] \in LinkRec /\ conn'[k].handler = "in" /\ conn'[k].from = n /\ conn'[k].to = a
      /\ conn'[k].up = conn[k].up /\ conn'[k].loop = conn[k].loop
  BY Zenon, <1>3, <1>4, <1>6 DEF LinkRec
<1>8. conn' \in [Links -> LinkRec]
  BY Zenon, <1>5, <1>6, <1>7
<1>9. ASSUME NEW j \in Links
      PROVE  /\ conn'[j].from = conn[j].from /\ conn'[j].to = conn[j].to
             /\ conn'[j].up = conn[j].up /\ conn'[j].loop = conn[j].loop
             /\ conn'[j].handler # "ended" <=> conn[j].handler # "ended"
             /\ conn'[j].handler = "new" => conn[j].handler = "new"
  <2>1. CASE j = k
    BY Zenon, <1>1, <1>3, <1>7, <2>1
  <2>2. CASE j # k
    BY Zenon, <1>6, <2>2
  <2> QED
    BY Zenon, <2>1, <2>2
<1>10. /\ streams' \in [Relays -> [Nodes -> Links \union {None}]] /\ streams'[a][n] = k
       /\ \A r \in Relays, m \in Nodes : r # a \/ m # n => streams'[r][m] = streams[r][m]
  BY Zenon, <1>1, <1>3 DEF Types
<1>11. Types'
  BY Zenon, <1>1, <1>2, <1>8, <1>10 DEF Types
<1>12. LinkInv'
  BY Zenon, <1>1, <1>9 DEF LinkInv, Alive
<1>13. TableInv'
  <2>1. ASSUME NEW m \in Nodes, NEW b \in Addrs, table'[m][b] # None
        PROVE  /\ Alive(table[m][b])' => conn'[table'[m][b]].from = m /\ conn'[table'[m][b]].to = b
               /\ conn'[table'[m][b]].loop \/ table'[m][b] \in early'
    <3>1. PICK x : x = table[m][b] /\ x = table'[m][b] /\ x # None
      BY Zenon, <1>2, <2>1
    <3>2. x \in Links
      <4>1. table \in [Nodes -> [Addrs -> Links \union {None}]]
        BY Zenon, <1>1 DEF Types
      <4> QED
        BY Zenon, <3>1, <4>1
    <3>3. Alive(x) => conn[x].from = m /\ conn[x].to = b
      <4>1. TableInv /\ table[m][b] # None
        BY Zenon, <1>1, <3>1
      <4>2. Alive(table[m][b]) => conn[table[m][b]].from = m /\ conn[table[m][b]].to = b
        BY Zenon, <4>1 DEF TableInv
      <4> QED
        BY Zenon, <3>1, <4>2
    <3>4. conn[x].loop \/ x \in early
      BY ZenonT(30), <1>1, <3>1 DEF TableInv
    <3>5. Alive(x)' => Alive(x)
      BY Zenon, <1>9, <3>2 DEF Alive
    <3> QED
      BY Zenon, <1>2, <1>9, <3>1, <3>2, <3>3, <3>4, <3>5 DEF Alive
  <2> QED
    BY Zenon, <2>1 DEF TableInv
<1>14. HoldInv'
  <2> SUFFICES ASSUME NEW u \in Threads PROVE HoldOK(u)'
    BY Zenon DEF HoldInv
  <2>1. PICK r \in CallRec : r = call[u] /\ r = call'[u]
    BY Zenon, <1>1, <1>2 DEF Types
  <2>2. HoldOK(u) /\ (r.conn # None => r.conn \in Links)
    BY Zenon, <1>1, <2>1 DEF HoldInv, CallRec
  <2>3. r.conn # None /\ Alive(r.conn)' =>
          conn'[r.conn].from = NodeOf(u) /\ conn'[r.conn].to = r.addr
    BY ZenonT(30), <1>9, <2>1, <2>2 DEF HoldOK, Alive
  <2>4. r.pc = "store" => r.conn # None /\ (conn[r.conn].loop \/ r.conn \in early)
    BY Zenon, <2>1, <2>2 DEF HoldOK
  <2>5. r.pc = "store" => conn'[r.conn].loop \/ r.conn \in early'
    BY Zenon, <1>2, <1>9, <2>2, <2>4
  <2> QED
    BY Zenon, <1>2, <2>1, <2>2, <2>3, <2>5 DEF HoldOK, NodeOf, Alive
<1>15. NoStreamLeaks'
  BY ZenonT(30), <1>1, <1>2, <1>9 DEF NoStreamLeaks
<1>16. StreamInv'
  <2>1. ASSUME NEW r \in Relays, NEW m \in Nodes, streams'[r][m] # None
        PROVE  /\ conn'[streams'[r][m]].handler = "in"
               /\ conn'[streams'[r][m]].from = m /\ conn'[streams'[r][m]].to = r
    <3>1. CASE r = a /\ m = n
      BY Zenon, <1>7, <1>10, <3>1
    <3>2. CASE r # a \/ m # n
      <4>1. PICK x : x = streams[r][m] /\ x = streams'[r][m]
        BY Zenon, <1>10, <3>2
      <4>2. x \in Links /\ x # None
        BY SMTT(20), <1>1, <2>1, <4>1 DEF Types
      <4>3. conn[x].handler = "in" /\ conn[x].from = m /\ conn[x].to = r
        <5>1. x = streams[r][m] /\ x # None
          BY Zenon, <4>1, <4>2
        <5>2. StreamInv
          BY Zenon, <1>1
        <5> QED
          BY SMTT(20), <5>1, <5>2, NotedStream
      <4>4. x # k
        BY Zenon, <1>1, <4>3
      <4> QED
        BY Zenon, <1>6, <4>1, <4>2, <4>3, <4>4
    <3> QED
      BY Zenon, <3>1, <3>2
  <2>2. ASSUME NEW i \in Links, NEW j \in Links, i # j, conn'[i].from = conn'[j].from,
               conn'[i].to = conn'[j].to, conn'[j].to \in Relays,
               conn'[i].handler # "ended", conn[i].up \/ conn[i].handler = "new",
               conn'[j].handler # "ended", conn[j].up \/ conn[j].handler = "new"
        PROVE  <<conn'[j].from, conn'[j].to>> \in raced'
    <3>1. /\ conn[i].from = conn[j].from /\ conn[i].to = conn[j].to /\ conn[j].to \in Relays
          /\ conn[i].handler # "ended" /\ (conn[i].up \/ conn[i].handler = "new")
          /\ conn[j].handler # "ended" /\ (conn[j].up \/ conn[j].handler = "new")
      BY Zenon, <1>9, <2>2
    <3>2. <<conn[j].from, conn[j].to>> \in raced
      BY Zenon, <1>1, <2>2, <3>1 DEF StreamInv
    <3> QED
      BY Zenon, <1>2, <1>9, <3>2
  <2>3. ASSUME NEW j \in Links, conn'[j].up, conn'[j].handler = "in", conn'[j].to \in Relays
        PROVE  \/ streams'[conn'[j].to][conn'[j].from] = j
               \/ <<conn'[j].from, conn'[j].to>> \in raced'
    <3>1. CASE j = k
      BY Zenon, <1>7, <1>10, <3>1
    <3>2. CASE j # k /\ conn[j].to = a /\ conn[j].from = n
      <4>1. /\ conn'[j].from = conn'[k].from /\ conn'[j].to = conn'[k].to
            /\ conn'[j].handler # "ended" /\ conn'[k].handler # "ended"
            /\ conn[j].up /\ conn[k].handler = "new"
        BY Zenon, <1>1, <1>7, <1>9, <2>3, <3>2
      <4> QED
        BY Zenon, <2>2, <2>3, <3>2, <4>1
    <3>3. CASE j # k /\ (conn[j].to # a \/ conn[j].from # n)
      <4>1. conn'[j] = conn[j]
        BY Zenon, <1>6, <3>3
      <4>2. streams[conn[j].to][conn[j].from] = j \/ <<conn[j].from, conn[j].to>> \in raced
        BY Zenon, <1>1, <2>3, <4>1 DEF StreamInv
      <4>3. conn[j].from \in Nodes /\ conn[j].to \in Relays
        BY Zenon, <1>1, <2>3, <4>1 DEF LinkInv, Alive
      <4>4. streams'[conn[j].to][conn[j].from] = streams[conn[j].to][conn[j].from]
        BY Zenon, <1>10, <3>3, <4>3
      <4> QED
        BY Zenon, <1>2, <4>1, <4>2, <4>4
    <3> QED
      BY Zenon, <3>1, <3>2, <3>3
  <2>4. \A j \in Links : conn'[j].up \/ conn'[j].handler = "new" => conn[j].up \/ conn[j].handler = "new"
    BY Zenon, <1>9
  <2>5. ASSUME NEW i \in Links, NEW j \in Links, i # j, conn'[i].from = conn'[j].from,
               conn'[i].to = conn'[j].to, conn'[j].to \in Relays,
               conn'[i].handler # "ended", conn'[i].up \/ conn'[i].handler = "new",
               conn'[j].handler # "ended", conn'[j].up \/ conn'[j].handler = "new"
        PROVE  <<conn'[j].from, conn'[j].to>> \in raced'
    BY Zenon, <2>2, <2>4, <2>5
  <2> QED
    BY Zenon, <2>1, <2>3, <2>5 DEF StreamInv
<1>17. WireInv'
  <2> SUFFICES ASSUME NEW j \in Links
               PROVE  /\ out[j] # <<>> => conn'[j].handler # "ended"
                      /\ back[j] # <<>> => conn'[j].loop
                      /\ \A i \in 1..Len(out[j]) : conn'[j].to \in Nodes => conn'[j].to = To[out[j][i]]
                      /\ \A i \in 1..Len(back[j]) : conn'[j].from = To[back[j][i]]
    BY Zenon, <1>2 DEF WireInv
  <2> QED
    BY Zenon, <1>1, <1>9 DEF WireInv
<1>18. CopyInv'
  BY Zenon, <1>1, <1>2, WireKept
<1>19. BudgetInv'
  BY Zenon, <1>1, <1>2, BudgetKept DEF BudgetInv
<1> QED
  BY Zenon, <1>11, <1>12, <1>13, <1>14, <1>15, <1>16, <1>17, <1>18, <1>19 DEF TransportInv

-----------------------------------------------------------------------------
(* The invariant holds.                                                    *)

\* At the start there is no connection, no call and no message.
LEMMA TransportStarts == ASSUME SizeLaws, TransportInit PROVE TransportInv
<1>1. /\ \A t \in Threads : call[t] = Rest
      /\ \A k \in Links : conn[k] = NoLink /\ out[k] = <<>> /\ back[k] = <<>>
      /\ \A n \in Nodes, a \in Addrs : table[n][a] = None
      /\ \A r \in Relays, n \in Nodes : streams[r][n] = None
      /\ \A c \in Calls : handed[c] = 0 /\ result[c] = "none" /\ c \notin expired
      /\ \A n \in Nodes, c \in Calls : arrived[n][c] = 0
  BY Zenon DEF TransportInit
<1>2. Rest \in CallRec /\ Rest.pc = "rest" /\ Rest.conn = None
  BY Zenon DEF Rest, CallRec
<1>3. /\ NoLink \in LinkRec /\ NoLink.up = FALSE /\ NoLink.loop = FALSE
      /\ NoLink.handler = "ended"
  BY Zenon DEF NoLink, LinkRec
<1>4. Types
  <2>1. call \in [Threads -> CallRec] /\ conn \in [Links -> LinkRec]
    BY Zenon, <1>2, <1>3 DEF TransportInit
  <2>2. out \in [Links -> Seq(Calls)] /\ back \in [Links -> Seq(Calls)]
    BY DEF TransportInit
  <2>3. /\ table \in [Nodes -> [Addrs -> Links \union {None}]]
        /\ streams \in [Relays -> [Nodes -> Links \union {None}]]
        /\ arrived \in [Nodes -> [Calls -> Nat]] /\ handed \in [Calls -> Nat]
        /\ result \in [Calls -> {"none", "ok", "error"}]
    BY Zenon DEF TransportInit
  <2> QED
    BY Zenon, <2>1, <2>2, <2>3 DEF Types, TransportInit
<1>5. LinkInv /\ NoStreamLeaks
  BY Zenon, <1>1, <1>3 DEF LinkInv, NoStreamLeaks, Alive
<1>6. TableInv
  BY Zenon, <1>1 DEF TableInv
<1>7. HoldInv
  BY Zenon, <1>1, <1>2 DEF HoldInv, HoldOK
<1>8. StreamInv
  BY Zenon, <1>1, <1>3 DEF StreamInv
<1>9. WireInv
  <2>1. \A k \in Links : out[k] = <<>> /\ back[k] = <<>> /\ Len(out[k]) = 0 /\ Len(back[k]) = 0
    BY SMTT(20), <1>1
  <2> QED
    BY <2>1 DEF WireInv
<1>10. CopyInv
  <2> SUFFICES ASSUME NEW c \in Calls
               PROVE  /\ IsFiniteSet(Places(out, c)) /\ IsFiniteSet(Places(back, c))
                      /\ Cardinality(Places(out, c)) + Cardinality(Places(back, c))
                           + arrived[To[c]][c] <= handed[c]
    BY Zenon DEF CopyInv
  <2>1. \A k \in Links : Len(out[k]) = 0 /\ Len(back[k]) = 0
    BY SMTT(20), <1>1
  <2>2. Places(out, c) = {} /\ Places(back, c) = {}
    BY SMTT(20), <2>1 DEF Places
  <2>3. arrived[To[c]][c] = 0 /\ handed[c] = 0
    BY Zenon, <1>1, TransportBounds
  <2>4. IsFiniteSet({}) /\ Cardinality({}) = 0
    BY Zenon DEF SizeLaws, SizeOfEmpty
  <2> QED
    BY SMTT(20), <2>2, <2>3, <2>4
<1>11. BudgetInv
  BY <1>1, <1>2 DEF BudgetInv, BudgetOK, Threads
<1> QED
  BY Zenon, <1>4, <1>5, <1>6, <1>7, <1>8, <1>9, <1>10, <1>11 DEF TransportInv

\* Every step keeps the invariant.
LEMMA TransportSteps ==
  ASSUME SizeLaws, TransportInv, [TransportNext]_transportVars
  PROVE  TransportInv'
<1>1. ASSUME NEW c \in Calls, Expire(c) PROVE TransportInv'
  <2>1. /\ UNCHANGED <<table, call, conn, wireVars, streams, result, handed, arrived, histVars>>
        /\ fails' \subseteq Nodes \X Nodes /\ expired \subseteq expired' /\ expired' \subseteq Calls
    BY Zenon, <1>1 DEF Expire, TransportInv, Types
  <2> QED
    BY Zenon, <2>1, QuietStep
<1>2. ASSUME NEW f \in Nodes \X Nodes, Forget(f) PROVE TransportInv'
  <2>1. /\ UNCHANGED <<table, call, conn, wireVars, streams, result, handed, arrived, histVars>>
        /\ fails' \subseteq Nodes \X Nodes /\ expired \subseteq expired' /\ expired' \subseteq Calls
    BY Zenon, <1>2 DEF Forget, TransportInv, Types, callVars
  <2> QED
    BY Zenon, <2>1, QuietStep
<1>3. CASE UNCHANGED transportVars
  <2>1. /\ UNCHANGED <<table, call, conn, wireVars, streams, result, handed, arrived, histVars>>
        /\ fails' \subseteq Nodes \X Nodes /\ expired \subseteq expired' /\ expired' \subseteq Calls
    BY Zenon, <1>3 DEF transportVars, TransportInv, Types, wireVars, histVars
  <2> QED
    BY Zenon, <2>1, QuietStep
<1>4. ASSUME NEW t \in Threads, ThreadStep(t) PROVE TransportInv'
  BY Zenon, <1>4, GetStep, DialStep, DialFailsStep, StoreStep DEF ThreadStep
<1>5. ASSUME NEW c \in Calls, SendStep(c) PROVE TransportInv'
  BY Zenon, <1>5, SendOkStep, SendFailsStep, SendExpiresStep, CleanStep, DirectFailedStep
     DEF SendStep
<1>6. ASSUME NEW k \in Links, StreamStep(k) PROVE TransportInv'
  BY Zenon, <1>6, LoopEndsStep, LoopReceivesStep, ExchangeStep, AcceptsStep, ForwardsStep,
     HandlerEndsStep DEF StreamStep
<1> HIDE DEF TransportInv
<1> QED
  BY Zenon, <1>1, <1>2, <1>3, <1>4, <1>5, <1>6, SendStarts, KeeperStep, BreakStep, ShutdownStep
     DEF TransportNext

-----------------------------------------------------------------------------
(* Send implements the lossy channel.                                      *)

\* A step that the channel takes too, or does not see.
ChannelStep == Promised!Next \/ UNCHANGED Promised!vars

\* A step that hands over nothing, ends no call and receives nothing is not
\* seen by the layers above.
LEMMA NothingSeen == ASSUME UNCHANGED <<result, handed, arrived>> PROVE ChannelStep
  BY Zenon DEF ChannelStep, Promised!vars

\* A call that has not ended has no result.
LEMMA NoResultYet ==
  ASSUME TransportInv, NEW c \in Calls, call[c].pc # "done"
  PROVE  /\ result[c] = "none" /\ result = [result EXCEPT ![c] = "none"]
         /\ result \in [Calls -> {"none", "ok", "error"}]
<1>1. result[c] = "none" /\ result \in [Calls -> {"none", "ok", "error"}]
  BY Zenon DEF TransportInv, BudgetInv, BudgetOK, Types
<1> QED
  BY Zenon, <1>1

\* A call that goes on to the next relay, or fails.
LEMMA RelayOutcome ==
  ASSUME TransportInv, NEW t \in Threads, call[t].pc # "done", NEW todo \in SUBSET Relays,
         NextRelay(t, todo), UNCHANGED <<handed, arrived>>
  PROVE  ChannelStep
<1>1. Types
  BY Zenon DEF TransportInv
<1>2. result' = result \/ (t \in Calls /\ result' = [result EXCEPT ![t] = "error"])
  BY Zenon, <1>1, NextRelayMoves
<1>3. CASE result' = result
  BY Zenon, <1>3, NothingSeen
<1>4. CASE t \in Calls /\ result' = [result EXCEPT ![t] = "error"]
  <2>1. result[t] = "none"
    BY Zenon, <1>4, NoResultYet
  <2>2. Promised!Fail(t)
    BY Zenon, <1>4, <2>1 DEF Promised!Fail
  <2> QED
    BY Zenon, <1>4, <2>2 DEF ChannelStep, Promised!Next
<1> QED
  BY Zenon, <1>2, <1>3, <1>4

\* A call that is about to send has copies left to hand over.
LEMMA CopiesLeft ==
  ASSUME SizeLaws, TransportInv, NEW c \in Calls, call[c].pc = "send"
  PROVE  handed[c] < 1 + Cardinality(Relays)
<1>1. Types /\ BudgetOK(c) /\ handed[c] \in Nat /\ c \in Threads
  BY Zenon DEF TransportInv, BudgetInv, Types, Threads
<1>2. Cardinality(Relays) \in Nat
  BY Zenon, TransportBounds DEF SizeLaws, SizeIsNat
<1>3. CASE call[c].stage = "relay"
  <2>1. /\ handed[c] + Cardinality(call[c].todo) <= Cardinality(Relays)
        /\ Cardinality(call[c].todo) \in Nat
    BY Zenon, <1>1, <1>3, RelayStage
  <2> QED
    BY SMTT(20), <1>1, <1>2, <2>1
<1>4. CASE call[c].stage # "relay"
  <2>1. handed[c] = 0
    BY Zenon, <1>1, <1>4 DEF BudgetOK
  <2> QED
    BY SMTT(20), <1>2, <2>1
<1> QED
  BY Zenon, <1>3, <1>4

\* A call that writes a copy and returns res, or goes on.
LEMMA WriteOutcome ==
  ASSUME SizeLaws, TransportInv, NEW c \in Calls, call[c].pc = "send", Write(c, call[c].conn),
         NEW res \in {"none", "ok", "error"}, result' = [result EXCEPT ![c] = res],
         arrived' = arrived
  PROVE  ChannelStep
<1>1. result[c] = "none" /\ handed[c] < 1 + Cardinality(Relays)
  BY Zenon, CopiesLeft, NoResultYet
<1>2. handed' = [handed EXCEPT ![c] = @ + 1]
  BY Zenon DEF Write
<1>3. Promised!Hand(c)
  BY Zenon, <1>1, <1>2 DEF Promised!Hand
<1> QED
  BY Zenon, <1>3 DEF ChannelStep, Promised!Next

\* A send that fails, and what it may have written.
LEMMA GoOnOutcome ==
  ASSUME SizeLaws, TransportInv, NEW c \in Calls, call[c].pc = "send", GoOn(c),
         Write(c, call[c].conn) \/ UNCHANGED <<handed, out>>, arrived' = arrived
  PROVE  ChannelStep
<1>1. Types /\ c \in Threads /\ call[c].pc # "done"
  BY Zenon DEF TransportInv, Threads
<1>2. /\ result[c] = "none" /\ result = [result EXCEPT ![c] = "none"]
  BY Zenon, <1>1, NoResultYet
<1>3. result' = result \/ result' = [result EXCEPT ![c] = "error"]
  <2>1. CASE call[c].stage = "relay" /\ NextRelay(c, call[c].todo)
    <3>1. call[c].todo \in SUBSET Relays
      BY Zenon, <1>1, TodoType
    <3> QED
      BY Zenon, <1>1, <2>1, <3>1, NextRelayMoves
  <2>2. CASE result' = result
    BY Zenon, <2>2
  <2> QED
    BY Zenon, <2>1, <2>2 DEF GoOn
<1>4. PICK res \in {"none", "error"} : result' = [result EXCEPT ![c] = res]
  BY Zenon, <1>2, <1>3
<1>5. CASE Write(c, call[c].conn)
  <2>1. res \in {"none", "ok", "error"}
    BY Zenon
  <2> QED
    BY Zenon, <1>4, <1>5, <2>1, WriteOutcome
<1>6. CASE UNCHANGED <<handed, out>>
  <2>1. CASE result' = result
    BY Zenon, <1>6, <2>1, NothingSeen
  <2>2. CASE result' = [result EXCEPT ![c] = "error"]
    <3>1. Promised!Fail(c)
      BY Zenon, <1>2, <1>6, <2>2 DEF Promised!Fail
    <3> QED
      BY Zenon, <3>1 DEF ChannelStep, Promised!Next
  <2> QED
    BY Zenon, <1>3, <2>1, <2>2
<1> QED
  BY Zenon, <1>5, <1>6

\* A message that arrives was handed over, and had not arrived before.
LEMMA ReadOutcome ==
  ASSUME SizeLaws, NEW o \in [Links -> Seq(Calls)], NEW b, NEW k \in Links, o[k] # <<>>, NEW d \in Calls,
         d = Head(o[k]), NEW ar \in Nat, NEW h \in Nat, Counted(o, b, ar, h, d)
  PROVE  ar < h
<1>1. PICK p : p = [o EXCEPT ![k] = Tail(o[k])]
  BY Zenon
<1>2. Changed(o, p, k, Tail(o[k]))
  BY Zenon, <1>1 DEF Changed
<1>3. PICK as \in Nat : as = ar + 1
  OBVIOUS
<1>4. Counted(p, b, as, h, d)
  BY Zenon, <1>2, <1>3, CountRead
<1>5. /\ Cardinality(Places(p, d)) \in Nat /\ Cardinality(Places(b, d)) \in Nat
      /\ Cardinality(Places(p, d)) + Cardinality(Places(b, d)) + as <= h
  BY Zenon, <1>4 DEF SizeLaws, SizeIsNat, Counted
<1> QED
  BY <1>3, <1>5

\* A copy that arrives at its destination.
LEMMA ArriveOutcome ==
  ASSUME NEW c \in Calls, Receive(To[c], c), arrived[To[c]][c] < handed[c],
         UNCHANGED <<result, handed>>
  PROVE  ChannelStep
<1>1. Promised!Arrive(c)
  BY Zenon DEF Promised!Arrive, Receive
<1> QED
  BY Zenon, <1>1 DEF ChannelStep, Promised!Next

\* What a daemon reads from a stream it opened arrives.
LEMMA LoopReceivesOutcome ==
  ASSUME SizeLaws, TransportInv, NEW k \in Links, LoopReceives(k)
  PROVE  ChannelStep
<1>1. /\ Types /\ WireInv /\ back[k] # <<>> /\ UNCHANGED <<result, handed>>
      /\ Receive(conn[k].from, Head(back[k]))
  BY Zenon DEF TransportInv, LoopReceives
<1>2. PICK f \in [Links -> Seq(Calls)] : f = back
  BY Zenon, <1>1 DEF Types
<1>2b. PICK o : o = out
  BY Zenon
<1>3. f[k] # <<>> /\ Head(f[k]) \in Calls /\ 1 \in 1..Len(f[k]) /\ f[k][1] = Head(f[k])
  BY SMTT(20), <1>1, <1>2, <1>2b
<1>4. PICK c \in Calls : c = Head(f[k])
  BY Zenon, <1>3
<1>5. conn[k].from = To[c]
  BY SMTT(20), <1>1, <1>2, <1>2b, <1>3, <1>4 DEF WireInv
<1>6. PICK ar \in Nat, h \in Nat : ar = arrived[To[c]][c] /\ h = handed[c]
  BY Zenon, CountNow
<1>7. Counted(o, f, ar, h, c)
  BY Zenon, <1>2, <1>2b, <1>6, CountNow
<1>8. Counted(f, o, ar, h, c)
  BY Zenon, <1>7, CountSwap
<1>9. ar < h
  BY Zenon, <1>3, <1>4, <1>8, ReadOutcome
<1> QED
  BY Zenon, <1>1, <1>2, <1>2b, <1>4, <1>5, <1>6, <1>9, ArriveOutcome

\* What a daemon reads from a stream opened to it arrives.
LEMMA ExchangeOutcome ==
  ASSUME SizeLaws, TransportInv, NEW k \in Links, ExchangeReceives(k)
  PROVE  ChannelStep
<1>1. /\ Types /\ WireInv /\ out[k] # <<>> /\ conn[k].to \in Nodes /\ UNCHANGED <<result, handed>>
      /\ Receive(conn[k].to, Head(out[k]))
  BY Zenon DEF TransportInv, ExchangeReceives
<1>2. PICK f \in [Links -> Seq(Calls)] : f = out
  BY Zenon, <1>1 DEF Types
<1>2b. PICK b : b = back
  BY Zenon
<1>3. f[k] # <<>> /\ Head(f[k]) \in Calls /\ 1 \in 1..Len(f[k]) /\ f[k][1] = Head(f[k])
  BY SMTT(20), <1>1, <1>2, <1>2b
<1>4. PICK c \in Calls : c = Head(f[k])
  BY Zenon, <1>3
<1>5. conn[k].to = To[c]
  BY SMTT(20), <1>1, <1>2, <1>2b, <1>3, <1>4 DEF WireInv
<1>6. PICK ar \in Nat, h \in Nat : ar = arrived[To[c]][c] /\ h = handed[c]
  BY Zenon, CountNow
<1>7. Counted(f, b, ar, h, c)
  BY Zenon, <1>2, <1>2b, <1>6, CountNow
<1>8. ar < h
  BY Zenon, <1>3, <1>4, <1>7, ReadOutcome
<1> QED
  BY Zenon, <1>1, <1>2, <1>2b, <1>4, <1>5, <1>6, <1>8, ArriveOutcome

\* Get, Dial, DialFails and Store.
LEMMA ThreadOutcome ==
  ASSUME TransportInv, NEW t \in Threads, ThreadStep(t)
  PROVE  ChannelStep
<1>1. Types /\ call[t].todo \in SUBSET Relays
  BY Zenon, TodoType DEF TransportInv
<1>2. UNCHANGED <<handed, arrived>> /\ call[t].pc # "done"
  BY Zenon DEF ThreadStep, Get, Dial, DialFails, Store
<1>3. result' = result \/ NextRelay(t, call[t].todo)
  BY Zenon DEF ThreadStep, Get, Dial, DialFails, Store, Connected
<1> QED
  BY Zenon, <1>1, <1>2, <1>3, NothingSeen, RelayOutcome

\* Send, and what follows when sending directly has failed.
LEMMA ViaRelayOutcome ==
  ASSUME TransportInv, NEW c \in Calls, call[c].pc # "done",
         SendViaRelay(c) \/ result' = result, UNCHANGED <<handed, arrived>>
  PROVE  ChannelStep
<1>1. c \in Threads /\ Relays \in SUBSET Relays /\ {} \in SUBSET Relays
  BY Zenon DEF Threads
<1>2. CASE result' = result
  BY Zenon, <1>2, NothingSeen
<1>3. CASE SendViaRelay(c)
  BY Zenon, <1>1, <1>3, RelayOutcome DEF SendViaRelay
<1> QED
  BY Zenon, <1>2, <1>3

\* Every step of the transport is a step of the channel, or is not seen.
LEMMA TransportOutcome ==
  ASSUME SizeLaws, TransportInv, [TransportNext]_transportVars
  PROVE  ChannelStep
<1>1. ASSUME NEW c \in Calls, SendStep(c) PROVE ChannelStep
  <2>1. CASE SendOk(c)
    BY Zenon, <2>1, WriteOutcome DEF SendOk
  <2>2. CASE SendFails(c)
    <3>1. call[c].pc = "send" /\ GoOn(c) /\ UNCHANGED <<handed, out>> /\ arrived' = arrived
      BY Zenon, <2>2 DEF SendFails, wireVars
    <3> QED
      BY Zenon, <3>1, GoOnOutcome
  <2>3. CASE SendExpires(c)
    <3>1. /\ call[c].pc = "send" /\ GoOn(c) /\ arrived' = arrived
          /\ Write(c, call[c].conn) \/ UNCHANGED <<handed, out>>
      BY Zenon, <2>3 DEF SendExpires
    <3> QED
      BY Zenon, <3>1, GoOnOutcome
  <2>4. CASE Clean(c)
    BY Zenon, <2>4, NothingSeen DEF Clean
  <2>5. CASE DirectFailed(c)
    BY Zenon, <2>5, ViaRelayOutcome DEF DirectFailed
  <2> QED
    BY Zenon, <1>1, <2>1, <2>2, <2>3, <2>4, <2>5 DEF SendStep
<1>2. ASSUME NEW c \in Calls, Send(c) PROVE ChannelStep
  <2>1. /\ call[c].pc # "done" /\ (SendViaRelay(c) \/ result' = result)
        /\ UNCHANGED <<handed, arrived>>
    BY Zenon, <1>2 DEF Send
  <2> QED
    BY Zenon, <2>1, ViaRelayOutcome
<1>3. ASSUME NEW c \in Calls, Expire(c) PROVE ChannelStep
  BY Zenon, <1>3, NothingSeen DEF Expire
<1>4. ASSUME NEW n \in Keepers, ConnectToRelays(n) PROVE ChannelStep
  <2>1. n \in Threads /\ call[n].pc # "done" /\ NextRelay(n, Relays) /\ UNCHANGED <<handed, arrived>>
    BY Zenon, <1>4 DEF ConnectToRelays, Threads
  <2>2. Relays \in SUBSET Relays
    BY Zenon
  <2> QED
    BY Zenon, <2>1, <2>2, RelayOutcome
<1>5. ASSUME NEW k \in Links, StreamStep(k) PROVE ChannelStep
  <2>1. CASE LoopEnds(k) \/ RelayAccepts(k) \/ RelayForwards(k) \/ HandlerEnds(k)
    <3>1. UNCHANGED <<result, handed, arrived>>
      BY Zenon, <2>1 DEF LoopEnds, RelayAccepts, RelayForwards, HandlerEnds
    <3> QED
      BY Zenon, <3>1, NothingSeen
  <2> QED
    BY Zenon, <1>5, <2>1, LoopReceivesOutcome, ExchangeOutcome DEF StreamStep
<1>6. ASSUME NEW k \in Links, StreamBreaks(k) PROVE ChannelStep
  BY Zenon, <1>6, NothingSeen DEF StreamBreaks
<1>7. ASSUME NEW n \in Nodes, Shutdown(n) PROVE ChannelStep
  BY Zenon, <1>7, NothingSeen DEF Shutdown
<1>8. ASSUME NEW f \in Nodes \X Nodes, Forget(f) PROVE ChannelStep
  BY Zenon, <1>8, NothingSeen DEF Forget
<1>9. CASE UNCHANGED transportVars
  BY Zenon, <1>9, NothingSeen DEF transportVars
<1> HIDE DEF ChannelStep
<1> QED
  BY Zenon, <1>1, <1>2, <1>3, <1>4, <1>5, <1>6, <1>7, <1>8, <1>9, ThreadOutcome DEF TransportNext

-----------------------------------------------------------------------------
(* The laws of sizes hold.  The theorems about finite sets enter here, and *)
(* not in the context of the proofs above.                                 *)

F == INSTANCE FiniteSetTheorems

\* Every law of Sizes is a theorem about finite sets.
LEMMA SizeLawsHold == SizeLaws
<1>1. \A S : F!IsFiniteSet(S) <=> IsFiniteSet(S)
  BY Zenon DEF F!IsFiniteSet, IsFiniteSet
<1>2. \A S : F!Cardinality(S) = Cardinality(S)
  BY Zenon DEF F!Cardinality, Cardinality
<1>3. SizeIsNat
  BY Zenon, <1>1, <1>2, F!FS_CardinalityType DEF SizeIsNat
<1>4. SizeOfEmpty /\ SizeOfOne
  BY Zenon, <1>1, <1>2, F!FS_EmptySet, F!FS_Singleton DEF SizeOfEmpty, SizeOfOne
<1>5. SizeOfPart
  BY Zenon, <1>1, <1>2, F!FS_Subset DEF SizeOfPart
<1>6. SizeWith
  BY Zenon, <1>1, <1>2, F!FS_AddElement DEF SizeWith
<1>7. SizeWithout
  BY Zenon, <1>1, <1>2, F!FS_RemoveElement DEF SizeWithout
<1>8. SizeInto
  <2> SUFFICES ASSUME NEW S, NEW T, NEW f \in [S -> T], IsFiniteSet(T),
                      \A x, y \in S : f[x] = f[y] => x = y
               PROVE  IsFiniteSet(S) /\ Cardinality(S) <= Cardinality(T)
    BY Zenon DEF SizeInto
  <2>1. f \in F!Injection(S, T)
    BY Zenon DEF F!Injection, F!IsInjective
  <2> QED
    BY Zenon, <1>1, <1>2, <2>1, F!FS_Injection
<1>9. LeastExists
  <2> SUFFICES ASSUME NEW T \in SUBSET Nat, T # {} PROVE \E x \in T : \A y \in T : x <= y
    BY Zenon DEF LeastExists
  <2>1. PICK R : R = F!OpToRel(<, Nat)
    BY Zenon
  <2>2. PICK x \in T : \A y \in T : ~(<<y, x>> \in R)
    BY Zenon, <2>1, F!NatLessThanWellFounded, F!WFMin
  <2>3. ASSUME NEW y \in T PROVE x <= y
    <3>1. ~(<<y, x>> \in R) /\ x \in Nat /\ y \in Nat
      BY Zenon, <2>2
    <3>2. ~(y < x)
      BY Zenon, <2>1, <3>1 DEF F!OpToRel
    <3> QED
      BY <3>1, <3>2
  <2> QED
    BY Zenon, <2>3
<1> QED
  BY Zenon, <1>3, <1>4, <1>5, <1>6, <1>7, <1>8, <1>9 DEF SizeLaws

\* The invariant holds in every state of the transport.
LEMMA TransportAlways == TransportSpec => []TransportInv
<1>1. TransportSpec => TransportInit /\ [][TransportNext]_transportVars
  BY Zenon DEF TransportSpec
<1>2. TransportInit => TransportInv
  BY Zenon, SizeLawsHold, TransportStarts
<1>3. TransportInv /\ [TransportNext]_transportVars => TransportInv'
  BY Zenon, SizeLawsHold, TransportSteps
<1> QED
  BY <1>1, <1>2, <1>3, PTL

\* Whatever calls of Send race, whichever streams break and contexts expire: a
\* call whose context does not expire hands over one copy at most, a broken
\* connection in a table still has the receive loop that removes it, and no
\* open stream is left behind (getOrConnect, sendDirect, recvLoop).
THEOREM TablesStayInStep == TransportSpec => []TablesInStep
<1>1. TransportInv => TablesInStep
  <2> SUFFICES ASSUME TransportInv PROVE TablesInStep
    BY Zenon
  <2>1. Types /\ TableInv /\ NoStreamLeaks /\ BudgetInv
    BY Zenon DEF TransportInv
  <2>2. TransportTypeOK
    BY Zenon, <2>1 DEF TransportTypeOK, Types, CallRec, LinkRec
  <2>3. OneCopy
    BY Zenon, <2>1 DEF OneCopy, BudgetInv, BudgetOK
  <2>4. StaleHasReaper
    BY SMTT(20), <2>1 DEF StaleHasReaper, TableInv
  <2> QED
    BY SMTT(20), <2>1, <2>2, <2>3, <2>4 DEF TablesInStep
<1> QED
  BY <1>1, TransportAlways, PTL

\* A relay reaches a daemon over the connection that the daemon has in its
\* table, once the handler has noted it, unless the daemon ever had two streams
\* to the relay at a time (Server.streams, relayConns).
THEOREM RelaysReach == TransportSpec => []RoutableUnlessRaced
<1>1. TransportInv => RoutableUnlessRaced
  <2> SUFFICES ASSUME TransportInv, NEW n \in Nodes, NEW r \in Relays, table[n][r] # None,
                      conn[table[n][r]].up, conn[table[n][r]].handler = "in"
               PROVE  streams[r][n] = table[n][r] \/ <<n, r>> \in raced
    BY Zenon DEF RoutableUnlessRaced, Routable
  <2>1. Types /\ TableInv /\ StreamInv /\ LinkInv /\ r \in Addrs
    BY Zenon DEF TransportInv, Addrs
  <2>2. PICK k : k = table[n][r]
    BY Zenon
  <2>3. k \in Links /\ conn[k].up /\ conn[k].handler = "in"
    BY SMTT(20), <2>1, <2>2 DEF Types
  <2>4. conn[k].loop \/ conn[k].handler # "ended"
    BY Zenon, <2>1, <2>3 DEF LinkInv
  <2>5. conn[k].from = n /\ conn[k].to = r
    BY Zenon, <2>1, <2>2, <2>4 DEF TableInv, Alive
  <2>6. /\ conn[k].up /\ conn[k].handler = "in" /\ conn[k].to \in Relays =>
             streams[conn[k].to][conn[k].from] = k \/ <<conn[k].from, conn[k].to>> \in raced
    BY Zenon, <2>1, <2>3 DEF StreamInv
  <2> QED
    BY Zenon, <2>2, <2>3, <2>5, <2>6
<1> QED
  BY <1>1, TransportAlways, PTL

\* Send, with its retry, its relays and the tables it shares with other calls,
\* implements the lossy channel of Channel: a copy arrives at its destination
\* alone, no more arrive than were handed over, a call hands over one copy and
\* one for each relay at most, and one that succeeds has handed one over.
THEOREM SendImplementsChannel == TransportSpec => ImplementsChannel
<1>1. TransportInit => Promised!Init
  BY Zenon DEF TransportInit, Promised!Init
<1>2. TransportInv /\ [TransportNext]_transportVars => [Promised!Next]_Promised!vars
  BY Zenon, SizeLawsHold, TransportOutcome DEF ChannelStep
<1>3. TransportSpec => TransportInit /\ [][TransportNext]_transportVars
  BY Zenon DEF TransportSpec
<1> QED
  BY <1>1, <1>2, <1>3, TransportAlways, PTL DEF ImplementsChannel, Promised!Spec


=============================================================================
