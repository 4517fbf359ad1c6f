--------------------------- MODULE Transport_steps --------------------------
(***************************************************************************)
(* The inductive invariant of the transport, how copies are counted, and   *)
(* that the steps of a call, of closing connections and of reading from    *)
(* them preserve it.                                                       *)
(***************************************************************************)
EXTENDS Transport, Sizes, TLAPS

CallRec ==
  [pc : {"rest", "get", "dial", "store", "send", "clean", "failed", "done"},
   stage : {"direct", "again", "relay"}, addr : Addrs \union {None},
   conn : Links \union {None}, todo : SUBSET Relays]

LinkRec ==
  [from : Nodes \union {None}, to : Addrs \union {None}, up : BOOLEAN, loop : BOOLEAN,
   handler : {"new", "in", "ended"}]

Types ==
  /\ table \in [Nodes -> [Addrs -> Links \union {None}]] /\ fails \subseteq Nodes \X Nodes
  /\ call \in [Threads -> CallRec] /\ expired \subseteq Calls
  /\ conn \in [Links -> LinkRec]
  /\ out \in [Links -> Seq(Calls)] /\ back \in [Links -> Seq(Calls)]
  /\ streams \in [Relays -> [Nodes -> Links \union {None}]]
  /\ result \in [Calls -> {"none", "ok", "error"}] /\ handed \in [Calls -> Nat]
  /\ arrived \in [Nodes -> [Calls -> Nat]]
  /\ early \subseteq Links /\ raced \subseteq Nodes \X Relays

\* Somebody still reads from the connection.
Alive(k) == conn[k].loop \/ conn[k].handler # "ended"

\* A connection that is up is read from on both sides.
LinkInv ==
  \A k \in Links :
    /\ Alive(k) => conn[k].from \in Nodes /\ conn[k].to \in Addrs
    /\ conn[k].up => conn[k].loop /\ conn[k].handler # "ended"
    /\ conn[k].handler = "new" => conn[k].to \in Relays

\* A connection is in the table of its daemon, under its address, and is removed
\* by its loop unless that ended early.
TableInv ==
  \A n \in Nodes, a \in Addrs :
    table[n][a] # None =>
      /\ Alive(table[n][a]) => conn[table[n][a]].from = n /\ conn[table[n][a]].to = a
      /\ conn[table[n][a]].loop \/ table[n][a] \in early

\* The connection a call holds is one to its address; the connection that a
\* call has made and not yet stored is known to this call alone.
HoldOK(t) ==
  /\ call[t].pc \in {"get", "dial", "store", "send", "clean"} => call[t].addr \in Addrs
  /\ call[t].pc \in {"store", "send", "clean"} => call[t].conn # None
  /\ call[t].conn # None /\ Alive(call[t].conn) =>
       conn[call[t].conn].from = NodeOf(t) /\ conn[call[t].conn].to = call[t].addr
  /\ call[t].pc = "store" =>
       /\ \A n \in Nodes, a \in Addrs : table[n][a] # call[t].conn
       /\ \A u \in Threads : u # t => call[u].conn # call[t].conn
       /\ conn[call[t].conn].loop \/ call[t].conn \in early

HoldInv == \A t \in Threads : HoldOK(t)

\* The relay knows the stream of a daemon that is up, unless there were two.
StreamInv ==
  /\ \A r \in Relays, n \in Nodes :
       streams[r][n] # None =>
         /\ conn[streams[r][n]].handler = "in"
         /\ conn[streams[r][n]].from = n /\ conn[streams[r][n]].to = r
  /\ \A k \in Links :
       conn[k].up /\ conn[k].handler = "in" /\ conn[k].to \in Relays =>
         streams[conn[k].to][conn[k].from] = k \/ <<conn[k].from, conn[k].to>> \in raced
  /\ \A j, k \in Links :
       /\ j # k /\ conn[j].from = conn[k].from /\ conn[j].to = conn[k].to /\ conn[k].to \in Relays
       /\ conn[j].handler # "ended" /\ (conn[j].up \/ conn[j].handler = "new")
       /\ conn[k].handler # "ended" /\ (conn[k].up \/ conn[k].handler = "new")
       => <<conn[k].from, conn[k].to>> \in raced

\* A copy is on a stream to its destination or to a relay, or on one from a
\* relay to its destination, with somebody to read it.
WireInv ==
  \A k \in Links :
    /\ out[k] # <<>> => conn[k].handler # "ended"
    /\ back[k] # <<>> => conn[k].loop
    /\ \A i \in 1..Len(out[k]) : conn[k].to \in Nodes => conn[k].to = To[out[k][i]]
    /\ \A i \in 1..Len(back[k]) : conn[k].from = To[back[k][i]]

\* The places of a message on the streams f.
Places(f, c) == {x \in Links \X Nat : x[2] \in 1..Len(f[x[1]]) /\ f[x[1]][x[2]] = c}

\* Every copy that arrived or is under way was handed over.
CopyInv ==
  \A c \in Calls :
    /\ IsFiniteSet(Places(out, c)) /\ IsFiniteSet(Places(back, c))
    /\ Cardinality(Places(out, c)) + Cardinality(Places(back, c)) + arrived[To[c]][c] <= handed[c]

\* A call that goes on has nothing to report, and copies left to hand over.
BudgetOK(c) ==
  /\ call[c].pc # "done" => result[c] = "none"
  /\ call[c].pc # "done" /\ c \notin expired => handed[c] = 0
  /\ c \notin expired => handed[c] <= 1
  /\ call[c].pc = "rest" => handed[c] = 0
  /\ call[c].pc \notin {"rest", "done"} /\ call[c].stage # "relay" =>
       /\ call[c].addr = To[c] /\ handed[c] <= 1
       /\ call[c].pc \in {"get", "dial", "store", "send"} => handed[c] = 0
  /\ call[c].pc \notin {"rest", "done"} /\ call[c].stage = "relay" =>
       /\ call[c].addr \in Relays /\ call[c].pc \in {"get", "dial", "store", "send"}
       /\ handed[c] + Cardinality(call[c].todo) <= Cardinality(Relays)

BudgetInv == \A c \in Calls : BudgetOK(c)

TransportInv ==
  /\ Types /\ LinkInv /\ TableInv /\ HoldInv /\ NoStreamLeaks
  /\ StreamInv /\ WireInv /\ CopyInv /\ BudgetInv
-----------------------------------------------------------------------------
(* What the conjuncts speak of.                                            *)

\* The tables of connections only of the connections.
LEMMA TablesKept ==
  ASSUME LinkInv, TableInv, UNCHANGED <<table, conn, early>>
  PROVE  LinkInv' /\ TableInv'
<1>1. LinkInv'
  BY Zenon DEF LinkInv, Alive
<1>2. TableInv'
  BY DEF TableInv, Alive
<1> QED
  BY Zenon, <1>1, <1>2

\* The relays' streams only of them and the connections.
LEMMA StreamsKept == ASSUME StreamInv, UNCHANGED <<conn, streams, raced>> PROVE StreamInv'
  BY DEF StreamInv

\* The connections that calls hold not of what is sent on them.
LEMMA HoldsKept == ASSUME HoldInv, UNCHANGED <<call, conn, table, early>> PROVE HoldInv'
<1> SUFFICES ASSUME NEW t \in Threads PROVE HoldOK(t)'
  BY Zenon DEF HoldInv
<1>1. HoldOK(t)
  BY Zenon DEF HoldInv
<1> QED
  BY Zenon, <1>1 DEF HoldOK, Alive, NodeOf

\* What is on the streams, and is counted, not of who sent it.
LEMMA WireKept ==
  ASSUME UNCHANGED <<out, back, arrived, handed>>
  PROVE  (CopyInv => CopyInv') /\ (WireInv /\ UNCHANGED conn => WireInv')
<1>1. CopyInv => CopyInv'
  BY Zenon DEF CopyInv, Places
<1>2. WireInv /\ UNCHANGED conn => WireInv'
  BY DEF WireInv
<1> QED
  BY Zenon, <1>1, <1>2
-----------------------------------------------------------------------------
(* Copies on the streams.                                                  *)

\* The streams g are the streams f with s on that of connection k.
Changed(f, g, k, s) == f \in [Links -> Seq(Calls)] /\ g = [f EXCEPT ![k] = s]

\* A place is a connection and a position on its stream.
LEMMA InPlaces ==
  ASSUME NEW f \in [Links -> Seq(Calls)], NEW d \in Calls
  PROVE  /\ \A j \in Links, i \in Nat :
              <<j, i>> \in Places(f, d) <=> i \in 1..Len(f[j]) /\ f[j][i] = d
         /\ \A x \in Places(f, d) : x[1] \in Links /\ x[2] \in Nat /\ x = <<x[1], x[2]>>
  BY DEF Places

\* What is on the stream of a connection is one element longer after a write.
LEMMA PlacesAppend ==
  ASSUME SizeLaws, NEW f \in [Links -> Seq(Calls)], NEW k \in Links, NEW c \in Calls, NEW d \in Calls,
         NEW g, Changed(f, g, k, Append(f[k], c)), IsFiniteSet(Places(f, d))
  PROVE  /\ g \in [Links -> Seq(Calls)] /\ IsFiniteSet(Places(g, d))
         /\ c = d => Cardinality(Places(g, d)) = Cardinality(Places(f, d)) + 1
         /\ c # d => Places(g, d) = Places(f, d)
<1> DEFINE p == <<k, Len(f[k]) + 1>>
<1>1. /\ g \in [Links -> Seq(Calls)] /\ Len(f[k]) \in Nat /\ Len(g[k]) = Len(f[k]) + 1
      /\ g[k][Len(f[k]) + 1] = c /\ \A i \in 1..Len(f[k]) : g[k][i] = f[k][i]
      /\ \A j \in Links : j # k => g[j] = f[j]
  BY DEF Changed
<1>2. p \notin Places(f, d)
  BY <1>1 DEF Places
<1>3. \A x \in Links \X Nat :
        x \in Places(g, d) <=> x \in Places(f, d) \/ (c = d /\ x[1] = k /\ x[2] = Len(f[k]) + 1)
  <2> SUFFICES ASSUME NEW j \in Links, NEW i \in Nat
               PROVE  (i \in 1..Len(g[j]) /\ g[j][i] = d) <=>
                        (i \in 1..Len(f[j]) /\ f[j][i] = d) \/ (c = d /\ j = k /\ i = Len(f[k]) + 1)
    BY DEF Places
  <2>1. CASE j # k
    BY Zenon, <1>1, <2>1
  <2>2. CASE j = k
    BY <1>1, <2>2
  <2> QED
    BY Zenon, <2>1, <2>2
<1>4. CASE c = d
  <2>1. Places(g, d) = Places(f, d) \union {p}
    BY <1>1, <1>3, <1>4 DEF Places
  <2> HIDE DEF p
  <2>2. /\ IsFiniteSet(Places(f, d) \union {p})
        /\ Cardinality(Places(f, d) \union {p}) = Cardinality(Places(f, d)) + 1
    BY Zenon, <1>2 DEF SizeLaws, SizeWith
  <2> QED
    BY Zenon, <1>1, <1>4, <2>1, <2>2
<1>5. CASE c # d
  <2>1. Places(g, d) = Places(f, d)
    BY Zenon, <1>3, <1>5 DEF Places
  <2>2. Cardinality(Places(f, d)) \in Nat
    BY Zenon DEF SizeLaws, SizeIsNat
  <2> QED
    BY Zenon, <1>1, <1>5, <2>1, <2>2
<1> QED
  BY Zenon, <1>4, <1>5

\* A write adds no place of another message.
LEMMA PlacesAppendOther ==
  ASSUME SizeLaws, NEW f \in [Links -> Seq(Calls)], NEW k \in Links, NEW c \in Calls, NEW d \in Calls, c # d,
         NEW g, Changed(f, g, k, Append(f[k], c)), IsFiniteSet(Places(f, d))
  PROVE  Places(g, d) = Places(f, d)
  BY PlacesAppend

\* A read takes the place of the message that was read, and no message gains one.
LEMMA PlacesTail ==
  ASSUME SizeLaws, NEW f \in [Links -> Seq(Calls)], NEW k \in Links, f[k] # <<>>, NEW d \in Calls,
         NEW g, Changed(f, g, k, Tail(f[k])), IsFiniteSet(Places(f, d))
  PROVE  /\ g \in [Links -> Seq(Calls)] /\ IsFiniteSet(Places(g, d))
         /\ Cardinality(Places(g, d)) <= Cardinality(Places(f, d))
         /\ Head(f[k]) = d => Cardinality(Places(g, d)) + 1 <= Cardinality(Places(f, d))
<1>1. /\ g \in [Links -> Seq(Calls)] /\ Len(f[k]) \in Nat \ {0} /\ Len(g[k]) = Len(f[k]) - 1
      /\ Head(f[k]) = f[k][1] /\ \A i \in 1..(Len(f[k]) - 1) : g[k][i] = f[k][i + 1]
      /\ \A j \in Links : j # k => g[j] = f[j]
  BY DEF Changed
<1>2. PICK T : T = IF Head(f[k]) = d THEN Places(f, d) \ {<<k, 1>>} ELSE Places(f, d)
  BY Zenon
<1>3. /\ IsFiniteSet(T) /\ Cardinality(Places(f, d)) \in Nat
      /\ Cardinality(T) + (IF Head(f[k]) = d THEN 1 ELSE 0) = Cardinality(Places(f, d))
  <2>1. Cardinality(Places(f, d)) \in Nat
    BY Zenon DEF SizeLaws, SizeIsNat
  <2>2. CASE Head(f[k]) = d
    <3>1. <<k, 1>> \in Places(f, d)
      <4>1. 1 \in 1..Len(f[k]) /\ f[k][1] = d /\ 1 \in Nat
        BY <1>1, <2>2
      <4> QED
        BY Zenon, <4>1, InPlaces
    <3>2. /\ IsFiniteSet(Places(f, d) \ {<<k, 1>>})
          /\ Cardinality(Places(f, d) \ {<<k, 1>>}) = Cardinality(Places(f, d)) - 1
      BY Zenon, <3>1 DEF SizeLaws, SizeWithout
    <3> QED
      BY <1>2, <2>1, <2>2, <3>2
  <2>3. CASE Head(f[k]) # d
    BY <1>2, <2>1, <2>3
  <2> QED
    BY Zenon, <2>2, <2>3
<1>4. PICK h : h = [x \in Places(g, d) |-> IF x[1] = k THEN <<k, x[2] + 1>> ELSE x]
  BY Zenon
<1>5. /\ \A j \in Links, i \in Nat : <<j, i>> \in Places(g, d) <=> i \in 1..Len(g[j]) /\ g[j][i] = d
      /\ \A x \in Places(g, d) : x[1] \in Links /\ x[2] \in Nat /\ x = <<x[1], x[2]>>
  <2>1. g \in [Links -> Seq(Calls)]
    BY Zenon, <1>1
  <2> QED
    BY Zenon, <2>1, InPlaces
<1>6. /\ h \in [Places(g, d) -> T]
      /\ \A x, y \in Places(g, d) : h[x] = h[y] => x = y
  <2>1. ASSUME NEW x \in Places(g, d) PROVE h[x] \in T
    <3>1. x[1] \in Links /\ x[2] \in Nat /\ x = <<x[1], x[2]>>
      BY Zenon, <1>5
    <3>2. PICK j \in Links, i \in Nat : x = <<j, i>> /\ j = x[1] /\ i = x[2]
      BY Zenon, <3>1
    <3>3. i \in 1..Len(g[j]) /\ g[j][i] = d
      BY Zenon, <1>5, <3>2
    <3>4. CASE j = k
      <4>1. i + 1 \in 1..Len(f[k]) /\ f[k][i + 1] = d /\ i + 1 # 1 /\ i + 1 \in Nat
        BY <1>1, <3>3, <3>4
      <4>2. <<k, i + 1>> \in Places(f, d) /\ <<k, i + 1>> # <<k, 1>>
        BY Zenon, <4>1, InPlaces
      <4>3. h[x] = <<k, i + 1>>
        BY Zenon, <1>4, <3>2, <3>4
      <4> QED
        BY Zenon, <1>2, <4>2, <4>3
    <3>5. CASE j # k
      <4>1. <<j, i>> \in Places(f, d) /\ <<j, i>> # <<k, 1>>
        BY Zenon, <1>1, <3>3, <3>5, InPlaces
      <4>2. h[x] = <<j, i>>
        BY Zenon, <1>4, <3>2, <3>5
      <4> QED
        BY Zenon, <1>2, <4>1, <4>2
    <3> QED
      BY Zenon, <3>4, <3>5
  <2>2. ASSUME NEW x \in Places(g, d), NEW y \in Places(g, d), h[x] = h[y] PROVE x = y
    <3>1. /\ x[1] \in Links /\ x[2] \in Nat /\ x = <<x[1], x[2]>>
          /\ y[1] \in Links /\ y[2] \in Nat /\ y = <<y[1], y[2]>>
      BY Zenon, <1>5
    <3>2. PICK j \in Links, i \in Nat : x = <<j, i>> /\ j = x[1] /\ i = x[2]
      BY Zenon, <3>1
    <3>3. PICK m \in Links, l \in Nat : y = <<m, l>> /\ m = y[1] /\ l = y[2]
      BY Zenon, <3>1
    <3>4. /\ h[x] = IF j = k THEN <<k, i + 1>> ELSE <<j, i>>
          /\ h[y] = IF m = k THEN <<k, l + 1>> ELSE <<m, l>>
      BY Zenon, <1>4, <3>2, <3>3
    <3>5. j = m /\ i = l
      <4>1. CASE j = k /\ m = k
        <5>1. <<k, i + 1>> = <<k, l + 1>>
          BY Zenon, <2>2, <3>4, <4>1
        <5>2. i + 1 = l + 1
          BY Zenon, <5>1
        <5> QED
          BY <4>1, <5>2
      <4>2. CASE j # k /\ m = k
        <5>1. <<j, i>> = <<k, l + 1>>
          BY Zenon, <2>2, <3>4, <4>2
        <5> QED
          BY Zenon, <4>2, <5>1
      <4>3. CASE j = k /\ m # k
        <5>1. <<m, l>> = <<k, i + 1>>
          BY Zenon, <2>2, <3>4, <4>3
        <5> QED
          BY Zenon, <4>3, <5>1
      <4>4. CASE j # k /\ m # k
        <5>1. <<j, i>> = <<m, l>>
          BY Zenon, <2>2, <3>4, <4>4
        <5> QED
          BY Zenon, <5>1
      <4> QED
        BY Zenon, <4>1, <4>2, <4>3, <4>4
    <3> QED
      BY Zenon, <3>2, <3>3, <3>5
  <2>3. h \in [Places(g, d) -> T]
    BY Zenon, <1>4, <2>1
  <2> QED
    BY Zenon, <2>2, <2>3
<1>7. IsFiniteSet(Places(g, d)) /\ Cardinality(Places(g, d)) <= Cardinality(T)
  BY Zenon, <1>3, <1>6 DEF SizeLaws, SizeInto
<1>8. Cardinality(Places(g, d)) \in Nat /\ Cardinality(T) \in Nat
  BY Zenon, <1>3, <1>7 DEF SizeLaws, SizeIsNat
<1> QED
  BY <1>1, <1>3, <1>7, <1>8

\* What is lost with a stream leaves its places.
LEMMA PlacesClear ==
  ASSUME SizeLaws, NEW f \in [Links -> Seq(Calls)], NEW k \in Links, NEW d \in Calls,
         NEW g, Changed(f, g, k, <<>>), IsFiniteSet(Places(f, d))
  PROVE  /\ g \in [Links -> Seq(Calls)] /\ IsFiniteSet(Places(g, d))
         /\ Cardinality(Places(g, d)) <= Cardinality(Places(f, d))
<1>1. g \in [Links -> Seq(Calls)] /\ Len(g[k]) = 0 /\ \A j \in Links : j # k => g[j] = f[j]
  BY DEF Changed
<1>2. Places(g, d) \subseteq Places(f, d)
  <2> SUFFICES ASSUME NEW x \in Links \X Nat, x[2] \in 1..Len(g[x[1]]), g[x[1]][x[2]] = d
               PROVE  x[2] \in 1..Len(f[x[1]]) /\ f[x[1]][x[2]] = d
    BY Zenon DEF Places
  <2>1. x[1] \in Links /\ x[1] # k
    BY <1>1
  <2> QED
    BY Zenon, <1>1, <2>1
<1> QED
  BY Zenon, <1>1, <1>2 DEF SizeLaws, SizeOfPart

\* The copies of message d, on the streams o and b and among the ar that arrived,
\* are no more than the h that were handed over.
Counted(o, b, ar, h, d) ==
  /\ IsFiniteSet(Places(o, d)) /\ IsFiniteSet(Places(b, d))
  /\ Cardinality(Places(o, d)) + Cardinality(Places(b, d)) + ar <= h

\* The two directions of a stream count alike.
LEMMA CountSwap ==
  ASSUME SizeLaws, NEW o, NEW b, NEW d \in Calls, NEW ar \in Nat, NEW h \in Nat, Counted(o, b, ar, h, d)
  PROVE  Counted(b, o, ar, h, d)
<1>1. Cardinality(Places(o, d)) \in Nat /\ Cardinality(Places(b, d)) \in Nat
  BY Zenon DEF SizeLaws, SizeIsNat, Counted
<1> QED
  BY <1>1 DEF Counted

\* A message is read from a stream, and may arrive.
LEMMA CountRead ==
  ASSUME SizeLaws, NEW o \in [Links -> Seq(Calls)], NEW b, NEW k \in Links, o[k] # <<>>, NEW d \in Calls,
         NEW ar \in Nat, NEW h \in Nat, Counted(o, b, ar, h, d),
         NEW p, Changed(o, p, k, Tail(o[k])),
         NEW as, as = ar \/ (Head(o[k]) = d /\ as = ar + 1)
  PROVE  Counted(p, b, as, h, d) /\ p \in [Links -> Seq(Calls)]
<1>1. IsFiniteSet(Places(o, d)) /\ IsFiniteSet(Places(b, d))
  BY Zenon DEF Counted
<1>2. /\ p \in [Links -> Seq(Calls)] /\ IsFiniteSet(Places(p, d))
      /\ Cardinality(Places(p, d)) <= Cardinality(Places(o, d))
      /\ Head(o[k]) = d => Cardinality(Places(p, d)) + 1 <= Cardinality(Places(o, d))
  BY Zenon, <1>1, PlacesTail
<1>3. /\ Cardinality(Places(o, d)) \in Nat /\ Cardinality(Places(b, d)) \in Nat
      /\ Cardinality(Places(p, d)) \in Nat
  BY Zenon, <1>1, <1>2 DEF SizeLaws, SizeIsNat
<1>4. PICK x \in Nat, y \in Nat, z \in Nat : /\ x = Cardinality(Places(o, d))
        /\ y = Cardinality(Places(b, d)) /\ z = Cardinality(Places(p, d))
  BY Zenon, <1>3
<1>5. x + y + ar <= h /\ z <= x /\ (Head(o[k]) = d => z + 1 <= x)
  BY Zenon, <1>2, <1>4 DEF Counted
<1>6. z + y + as <= h
  <2>1. CASE as = ar
    BY <1>5, <2>1
  <2>2. CASE Head(o[k]) = d /\ as = ar + 1
    BY <1>5, <2>2
  <2> QED
    BY Zenon, <2>1, <2>2
<1> QED
  BY Zenon, <1>1, <1>2, <1>4, <1>6 DEF Counted

\* What is on a stream is lost with it.
LEMMA CountLost ==
  ASSUME SizeLaws, NEW o \in [Links -> Seq(Calls)], NEW b, NEW k \in Links, NEW d \in Calls,
         NEW ar \in Nat, NEW h \in Nat, Counted(o, b, ar, h, d), NEW p, Changed(o, p, k, <<>>)
  PROVE  Counted(p, b, ar, h, d) /\ p \in [Links -> Seq(Calls)]
<1>1. IsFiniteSet(Places(o, d)) /\ IsFiniteSet(Places(b, d))
  BY Zenon DEF Counted
<1>2. /\ p \in [Links -> Seq(Calls)] /\ IsFiniteSet(Places(p, d))
      /\ Cardinality(Places(p, d)) <= Cardinality(Places(o, d))
  BY Zenon, <1>1, PlacesClear
<1>3. /\ Cardinality(Places(o, d)) \in Nat /\ Cardinality(Places(b, d)) \in Nat
      /\ Cardinality(Places(p, d)) \in Nat
  BY Zenon, <1>1, <1>2 DEF SizeLaws, SizeIsNat
<1> QED
  BY <1>1, <1>2, <1>3 DEF Counted

\* A message is written to a stream.
LEMMA CountWritten ==
  ASSUME SizeLaws, NEW f \in [Links -> Seq(Calls)], NEW k \in Links, NEW c \in Calls, NEW d \in Calls,
         NEW g, Changed(f, g, k, Append(f[k], c)), NEW o, NEW ar \in Nat, NEW h \in Nat,
         Counted(o, f, IF c = d THEN ar + 1 ELSE ar, h, d)
  PROVE  Counted(o, g, ar, h, d) /\ g \in [Links -> Seq(Calls)]
<1>1. IsFiniteSet(Places(o, d)) /\ IsFiniteSet(Places(f, d))
  BY Zenon DEF Counted
<1>2. g \in [Links -> Seq(Calls)] /\ IsFiniteSet(Places(g, d))
  BY Zenon, <1>1, PlacesAppend
<1>3. Cardinality(Places(o, d)) \in Nat /\ Cardinality(Places(f, d)) \in Nat
  BY Zenon, <1>1 DEF SizeLaws, SizeIsNat
<1>4. CASE c = d
  <2>1. Cardinality(Places(g, d)) = Cardinality(Places(f, d)) + 1
    BY <1>1, <1>4, PlacesAppend
  <2> QED
    BY SMTT(20), <1>1, <1>2, <1>3, <1>4, <2>1 DEF Counted
<1>5. CASE c # d
  <2>1. Places(g, d) = Places(f, d)
    BY <1>1, <1>5, PlacesAppend
  <2> QED
    BY Zenon, <1>1, <1>2, <1>5, <2>1 DEF Counted
<1> QED
  BY Zenon, <1>4, <1>5

\* A message is read from one stream and written to another.
LEMMA CountForwarded ==
  ASSUME SizeLaws, NEW o \in [Links -> Seq(Calls)], NEW b \in [Links -> Seq(Calls)], NEW k \in Links,
         o[k] # <<>>, NEW d \in Calls, NEW ar \in Nat, NEW h \in Nat, Counted(o, b, ar, h, d),
         NEW p, Changed(o, p, k, Tail(o[k])), NEW s \in Links,
         NEW q, Changed(b, q, s, Append(b[s], Head(o[k])))
  PROVE  /\ Counted(p, q, ar, h, d)
         /\ p \in [Links -> Seq(Calls)] /\ q \in [Links -> Seq(Calls)]
<1>1. PICK c \in Calls : c = Head(o[k])
  OBVIOUS
<1>2. PICK as : as = IF c = d THEN ar + 1 ELSE ar
  BY Zenon
<1>3. Counted(p, b, as, h, d) /\ p \in [Links -> Seq(Calls)]
  BY Zenon, <1>1, <1>2, CountRead
<1>4. Counted(p, b, IF c = d THEN ar + 1 ELSE ar, h, d) /\ Changed(b, q, s, Append(b[s], c))
  BY Zenon, <1>1, <1>2, <1>3
<1> QED
  BY Zenon, <1>3, <1>4, CountWritten

-----------------------------------------------------------------------------
(* Connections.                                                            *)

\* Connections go down and lose their readers, and none is made.
Fades ==
  /\ conn' \in [Links -> LinkRec]
  /\ \A j \in Links :
       /\ conn'[j].loop => conn[j].loop
       /\ conn'[j].up => conn[j].up /\ conn'[j].loop /\ conn'[j].handler # "ended"
       /\ conn'[j].handler # "ended" => conn'[j].handler = conn[j].handler
       /\ Alive(j)' => conn'[j].from = conn[j].from /\ conn'[j].to = conn[j].to

\* The readers stay.
SameReaders ==
  \A j \in Links : conn'[j].loop = conn[j].loop /\ conn'[j].handler = conn[j].handler

\* Entries are only taken from the tables.
Clears ==
  /\ table' \in [Nodes -> [Addrs -> Links \union {None}]]
  /\ \A n \in Nodes, a \in Addrs : table'[n][a] = table[n][a] \/ table'[n][a] = None

\* Readers of a connection that only fades are still those of a real one.
LEMMA FadesLink == ASSUME LinkInv, Fades PROVE LinkInv'
  BY Zenon DEF LinkInv, Fades, Alive

\* A connection that is closed keeps its readers, who will notice.
LEMMA CloseFades ==
  ASSUME Types, LinkInv, NEW k \in Links, Close(k)
  PROVE  Fades /\ SameReaders /\ ~conn'[k].up
<1>1. /\ conn \in [Links -> LinkRec]
      /\ conn' = [conn EXCEPT ![k] = [conn[k] EXCEPT !.up = FALSE]]
  BY Zenon DEF Types, Close
<1>2. /\ \A j \in Links : j # k => conn'[j] = conn[j]
      /\ conn'[k] = [conn[k] EXCEPT !.up = FALSE]
  BY Zenon, <1>1
<1>3. /\ conn'[k].from = conn[k].from /\ conn'[k].to = conn[k].to /\ ~conn'[k].up
      /\ conn'[k].loop = conn[k].loop /\ conn'[k].handler = conn[k].handler /\ conn'[k] \in LinkRec
  BY Zenon, <1>1, <1>2 DEF LinkRec
<1>4. conn' \in [Links -> LinkRec]
  BY Zenon, <1>1, <1>3
<1>5. SameReaders
  BY Zenon, <1>2, <1>3 DEF SameReaders
<1>6. ASSUME NEW j \in Links
      PROVE  /\ conn'[j].up => conn[j].up /\ conn'[j].loop /\ conn'[j].handler # "ended"
             /\ conn'[j].from = conn[j].from /\ conn'[j].to = conn[j].to
  BY Zenon, <1>2, <1>3 DEF LinkInv
<1> QED
  BY Zenon, <1>3, <1>4, <1>5, <1>6 DEF Fades, SameReaders

\* The end of a reader of a connection that is down.
LEMMA EndedFades ==
  ASSUME Types, LinkInv, NEW k \in Links, ~conn[k].up, NEW part \in {"loop", "handler"},
         Ended(k, part)
  PROVE  /\ Fades /\ \A j \in Links : j # k => conn'[j] = conn[j]
         /\ part = "loop" => ~conn'[k].loop /\ conn'[k].handler = conn[k].handler
         /\ part = "handler" => conn'[k].handler = "ended" /\ conn'[k].loop = conn[k].loop
<1>1. conn \in [Links -> LinkRec] /\ conn[k] \in LinkRec /\ NoLink \in LinkRec
  BY Zenon DEF Types, NoLink, LinkRec
<1>2. PICK e : e = IF part = "loop" THEN [conn[k] EXCEPT !.loop = FALSE]
                                   ELSE [conn[k] EXCEPT !.handler = "ended"]
  BY Zenon
<1>3. /\ e \in LinkRec /\ e.from = conn[k].from /\ e.to = conn[k].to /\ e.up = conn[k].up
      /\ part = "loop" => ~e.loop /\ e.handler = conn[k].handler
      /\ part = "handler" => e.handler = "ended" /\ e.loop = conn[k].loop
  <2>1. CASE part = "loop"
    BY Zenon, <1>1, <1>2, <2>1 DEF LinkRec
  <2>2. CASE part = "handler"
    BY Zenon, <1>1, <1>2, <2>2 DEF LinkRec
  <2> QED
    BY Zenon, <2>1, <2>2
<1>4. conn' = [conn EXCEPT ![k] = IF ~e.loop /\ e.handler = "ended" THEN NoLink ELSE e]
  BY Zenon, <1>2 DEF Ended
<1>5. /\ \A j \in Links : j # k => conn'[j] = conn[j]
      /\ conn'[k] = IF ~e.loop /\ e.handler = "ended" THEN NoLink ELSE e
  BY Zenon, <1>1, <1>4
<1>6. /\ conn'[k] \in LinkRec /\ ~conn'[k].up /\ conn'[k].loop = e.loop
      /\ conn'[k].handler = e.handler
      /\ conn'[k].loop \/ conn'[k].handler # "ended" =>
           conn'[k].from = e.from /\ conn'[k].to = e.to
  <2>1. CASE ~e.loop /\ e.handler = "ended"
    <3>1. ~NoLink.loop /\ NoLink.handler = "ended" /\ ~NoLink.up
      BY Zenon DEF NoLink
    <3>2. e.loop = FALSE /\ NoLink.loop = FALSE
      BY Zenon, <1>3, <2>1, <3>1 DEF LinkRec, NoLink
    <3> QED
      BY Zenon, <1>1, <1>5, <2>1, <3>1, <3>2
  <2>2. CASE ~(~e.loop /\ e.handler = "ended")
    BY Zenon, <1>3, <1>5, <2>2
  <2> QED
    BY Zenon, <2>1, <2>2
<1>7. conn' \in [Links -> LinkRec]
  BY Zenon, <1>1, <1>4, <1>5, <1>6
<1>8. ASSUME NEW j \in Links
      PROVE  /\ conn'[j].loop => conn[j].loop
             /\ conn'[j].up => conn[j].up /\ conn'[j].loop /\ conn'[j].handler # "ended"
             /\ conn'[j].handler # "ended" => conn'[j].handler = conn[j].handler
             /\ Alive(j)' => conn'[j].from = conn[j].from /\ conn'[j].to = conn[j].to
  <2>1. CASE j = k
    <3>1. part = "loop" \/ part = "handler"
      BY Zenon
    <3> QED
      BY Zenon, <1>3, <1>6, <2>1, <3>1 DEF Alive
  <2>2. CASE j # k
    BY Zenon, <1>5, <2>2 DEF LinkInv, Alive
  <2> QED
    BY Zenon, <2>1, <2>2
<1> QED
  BY Zenon, <1>3, <1>5, <1>6, <1>7, <1>8 DEF Fades

\* Tables that only lose entries stay right, as long as an entry has a reader
\* or the wait for one.
LEMMA FadesTable ==
  ASSUME Types, TableInv, Fades, Clears,
         \A n \in Nodes, a \in Addrs :
           table'[n][a] # None => conn'[table[n][a]].loop \/ table[n][a] \in early'
  PROVE  TableInv'
<1> SUFFICES ASSUME NEW n \in Nodes, NEW a \in Addrs, table'[n][a] # None
             PROVE  /\ Alive(table[n][a])' => conn'[table'[n][a]].from = n /\ conn'[table'[n][a]].to = a
                    /\ conn'[table'[n][a]].loop \/ table'[n][a] \in early'
  BY Zenon DEF TableInv
<1>1. PICK k : k = table[n][a]
  BY Zenon
<1>2. table'[n][a] = k /\ k # None /\ k \in Links
  BY <1>1 DEF Clears, Types
<1>3. /\ Alive(k) => conn[k].from = n /\ conn[k].to = a
      /\ conn'[k].loop \/ k \in early'
  <2>1. conn'[k].loop \/ k \in early'
    BY Zenon, <1>1, <1>2
  <2>2. table[n][a] # None
    BY Zenon, <1>1, <1>2
  <2>3. Alive(table[n][a]) => conn[table[n][a]].from = n /\ conn[table[n][a]].to = a
    BY Zenon, <2>2 DEF TableInv
  <2>4. Alive(k) => conn[k].from = n /\ conn[k].to = a
    BY Zenon, <1>1, <2>3
  <2> QED
    BY Zenon, <2>1, <2>4
<1>4. Alive(k)' => Alive(k) /\ conn'[k].from = conn[k].from /\ conn'[k].to = conn[k].to
  BY Zenon, <1>2 DEF Fades, Alive
<1> QED
  BY Zenon, <1>2, <1>3, <1>4 DEF Alive

\* A call that does not move holds what it held.
LEMMA HoldKept ==
  ASSUME Types, HoldInv, Fades, Clears, NEW u \in Threads, call'[u] = call[u],
         call[u].pc = "store" => conn'[call[u].conn].loop \/ call[u].conn \in early',
         \A v \in Threads : \/ call'[v].conn \in {None, call[v].conn}
                            \/ \E n \in Nodes, a \in Addrs : call'[v].conn = table[n][a]
  PROVE  HoldOK(u)'
<1>1. HoldOK(u)
  BY Zenon DEF HoldInv
<1>2. PICK r : r = call[u] /\ r = call'[u]
  BY Zenon
<1>3. r.conn # None => r.conn \in Links
  BY <1>2 DEF Types, CallRec
<1>4. r.conn # None /\ Alive(r.conn)' =>
        conn'[r.conn].from = NodeOf(u) /\ conn'[r.conn].to = r.addr
  BY ZenonT(30), <1>1, <1>2, <1>3 DEF HoldOK, Fades, Alive
<1>5. ASSUME r.pc = "store"
      PROVE  /\ \A n \in Nodes, a \in Addrs : table'[n][a] # r.conn
             /\ \A v \in Threads : v # u => call'[v].conn # r.conn
             /\ conn'[r.conn].loop \/ r.conn \in early'
  <2>1. /\ r.conn # None
        /\ \A n \in Nodes, a \in Addrs : table[n][a] # r.conn
        /\ \A v \in Threads : v # u => call[v].conn # r.conn
    BY Zenon, <1>1, <1>2, <1>5 DEF HoldOK
  <2>2. \A n \in Nodes, a \in Addrs : table'[n][a] # r.conn
    BY Zenon, <2>1 DEF Clears
  <2>3. ASSUME NEW v \in Threads, v # u PROVE call'[v].conn # r.conn
    BY Zenon, <2>1, <2>3
  <2> QED
    BY Zenon, <1>2, <1>5, <2>2, <2>3
<1> QED
  BY Zenon, <1>1, <1>2, <1>4, <1>5 DEF HoldOK, NodeOf, Alive

\* A connection that stays up keeps the entry or the call that will close it.
LEMMA FadesLeak ==
  ASSUME NoStreamLeaks, Fades, 
         \A k \in Links : conn'[k].up /\ table[conn[k].from][conn[k].to] = k =>
                            table'[conn[k].from][conn[k].to] = k,
         \A k \in Links, t \in Threads : conn'[k].up /\ call[t].pc = "store" /\ call[t].conn = k =>
           (call'[t].pc = "store" /\ call'[t].conn = k) \/ table'[conn[k].from][conn[k].to] = k
  PROVE  NoStreamLeaks'
<1> SUFFICES ASSUME NEW k \in Links, conn'[k].up
             PROVE  \/ table'[conn'[k].from][conn'[k].to] = k
                    \/ \E t \in Threads : call'[t].pc = "store" /\ call'[t].conn = k
  BY Zenon DEF NoStreamLeaks
<1>1. conn[k].up /\ conn'[k].from = conn[k].from /\ conn'[k].to = conn[k].to
  BY Zenon DEF Fades, Alive
<1> QED
  BY Zenon, <1>1 DEF NoStreamLeaks

\* Closing a connection leaves the streams that the relays know.
LEMMA FadesStream ==
  ASSUME Types, StreamInv, Fades, streams' = streams, raced' = raced,
         \A j \in Links : conn'[j].handler = conn[j].handler
  PROVE  StreamInv'
<1>1. \A j \in Links : conn[j].handler # "ended" =>
                         conn'[j].from = conn[j].from /\ conn'[j].to = conn[j].to
  BY Zenon DEF Fades, Alive
<1>2. ASSUME NEW r \in Relays, NEW n \in Nodes, streams'[r][n] # None
      PROVE  /\ conn'[streams'[r][n]].handler = "in"
             /\ conn'[streams'[r][n]].from = n /\ conn'[streams'[r][n]].to = r
  <2>1. PICK k : k = streams[r][n] /\ k = streams'[r][n]
    BY Zenon
  <2>2. k \in Links /\ k # None
    BY SMTT(20), <1>2, <2>1 DEF Types
  <2>3. conn[k].handler = "in" /\ conn[k].from = n /\ conn[k].to = r
    BY <2>1, <2>2 DEF StreamInv
  <2>4. conn[k].handler # "ended"
    BY Zenon, <2>3
  <2> QED
    BY Zenon, <1>1, <2>1, <2>2, <2>3, <2>4
<1>3. ASSUME NEW k \in Links, conn'[k].up, conn'[k].handler = "in", conn'[k].to \in Relays
      PROVE  streams'[conn'[k].to][conn'[k].from] = k \/ <<conn'[k].from, conn'[k].to>> \in raced'
  <2>1. conn'[k].from = conn[k].from /\ conn'[k].to = conn[k].to /\ conn[k].up
    BY Zenon, <1>3 DEF Fades, Alive
  <2> QED
    BY Zenon, <1>3, <2>1 DEF StreamInv
<1>4. ASSUME NEW j \in Links, NEW k \in Links, j # k, conn'[j].from = conn'[k].from,
             conn'[j].to = conn'[k].to, conn'[k].to \in Relays,
             conn'[j].handler # "ended", conn'[j].up \/ conn'[j].handler = "new",
             conn'[k].handler # "ended", conn'[k].up \/ conn'[k].handler = "new"
      PROVE  <<conn'[k].from, conn'[k].to>> \in raced'
  <2>1. /\ conn'[k].from = conn[k].from /\ conn'[k].to = conn[k].to
        /\ conn'[j].from = conn[j].from /\ conn'[j].to = conn[j].to
        /\ conn'[k].up => conn[k].up
        /\ conn'[j].up => conn[j].up
    BY Zenon, <1>1, <1>4 DEF Fades
  <2>2. /\ j # k /\ conn[j].from = conn[k].from /\ conn[j].to = conn[k].to /\ conn[k].to \in Relays
        /\ conn[j].handler # "ended" /\ (conn[j].up \/ conn[j].handler = "new")
        /\ conn[k].handler # "ended" /\ (conn[k].up \/ conn[k].handler = "new")
    BY Zenon, <1>4, <2>1
  <2>3. <<conn[k].from, conn[k].to>> \in raced
    BY Zenon, <2>2 DEF StreamInv
  <2> QED
    BY Zenon, <2>1, <2>3
<1> QED
  BY Zenon, <1>2, <1>3, <1>4 DEF StreamInv

\* What is on the streams stays addressed while it has readers.
LEMMA FadesWire ==
  ASSUME WireInv, Fades,
         \A j \in Links : \/ out'[j] = out[j] /\ (out[j] # <<>> => conn'[j].handler # "ended")
                          \/ out'[j] = <<>>,
         \A j \in Links : \/ back'[j] = back[j] /\ (back[j] # <<>> => conn'[j].loop)
                          \/ back'[j] = <<>>
  PROVE  WireInv'
<1> SUFFICES ASSUME NEW k \in Links
             PROVE  /\ out'[k] # <<>> => conn'[k].handler # "ended"
                    /\ back'[k] # <<>> => conn'[k].loop
                    /\ \A i \in 1..Len(out'[k]) : conn'[k].to \in Nodes => conn'[k].to = To[out'[k][i]]
                    /\ \A i \in 1..Len(back'[k]) : conn'[k].from = To[back'[k][i]]
  BY Zenon DEF WireInv
<1>1. ASSUME out'[k] # <<>>
      PROVE  /\ conn'[k].handler # "ended"
             /\ \A i \in 1..Len(out'[k]) : conn'[k].to \in Nodes => conn'[k].to = To[out'[k][i]]
  <2>1. out'[k] = out[k] /\ conn'[k].handler # "ended"
    BY Zenon, <1>1
  <2>2. conn'[k].to = conn[k].to
    BY Zenon, <2>1 DEF Fades, Alive
  <2>3. \A i \in 1..Len(out[k]) : conn[k].to \in Nodes => conn[k].to = To[out[k][i]]
    BY Zenon DEF WireInv
  <2> QED
    BY Zenon, <2>1, <2>2, <2>3
<1>2. ASSUME back'[k] # <<>>
      PROVE  /\ conn'[k].loop
             /\ \A i \in 1..Len(back'[k]) : conn'[k].from = To[back'[k][i]]
  <2>1. back'[k] = back[k] /\ conn'[k].loop
    BY Zenon, <1>2
  <2>2. conn'[k].from = conn[k].from
    BY Zenon, <2>1 DEF Fades, Alive
  <2>3. \A i \in 1..Len(back[k]) : conn[k].from = To[back[k][i]]
    BY Zenon DEF WireInv
  <2> QED
    BY Zenon, <2>1, <2>2, <2>3
<1>3. out'[k] = <<>> => Len(out'[k]) = 0
  OBVIOUS
<1>4. back'[k] = <<>> => Len(back'[k]) = 0
  OBVIOUS
<1> QED
  BY <1>1, <1>2, <1>3, <1>4

-----------------------------------------------------------------------------
(* Calls.                                                                  *)

\* Each call and each relay keeper runs on a daemon.
LEMMA NodeOfType == \A t \in Threads : NodeOf(t) \in Nodes /\ (t \notin Calls => t \in Keepers)
  BY Zenon, TransportBounds DEF Threads, NodeOf

\* A step that touches no connection, seen as one that only lets them fade.
LEMMA StillFades ==
  ASSUME Types, LinkInv, conn' = conn
  PROVE  Fades /\ SameReaders
<1>1. Types /\ conn' \in [Links -> LinkRec]
  BY Zenon DEF Types
<1> QED
  BY Zenon, <1>1 DEF Fades, SameReaders, LinkInv, Alive

\* A step that touches no table, seen as one that only clears entries.
LEMMA StillClears == ASSUME Types, table' = table PROVE Clears
<1>1. table' \in [Nodes -> [Addrs -> Links \union {None}]]
  BY Zenon DEF Types
<1> QED
  BY Zenon, <1>1 DEF Clears

\* Only the call of t goes on.
Moved(t) == call' = [call EXCEPT ![t] = call'[t]] /\ call'[t] \in CallRec

\* The other calls stay where they are.
LEMMA MovedType ==
  ASSUME Types, NEW t \in Threads, Moved(t)
  PROVE  call' \in [Threads -> CallRec] /\ \A u \in Threads : u # t => call'[u] = call[u]
  BY Zenon DEF Types, Moved

\* The loop over the relays: the next one, or the end of the call.
LEMMA NextRelayMoves ==
  ASSUME Types, NEW t \in Threads, NEW todo \in SUBSET Relays, NextRelay(t, todo)
  PROVE  /\ Moved(t) /\ call'[t].conn = None
         /\ \/ /\ call'[t].pc = "get" /\ call'[t].stage = "relay" /\ call'[t].addr \in todo
               /\ call'[t].todo = todo \ {call'[t].addr} /\ result' = result
            \/ /\ call'[t].pc \in {"rest", "done"} /\ (t \in Calls => call'[t].pc = "done")
               /\ result' = IF t \in Calls THEN [result EXCEPT ![t] = "error"] ELSE result
<1>1. CASE todo # {}
  <2>1. PICK r \in todo : /\ result' = result
          /\ call' = [call EXCEPT ![t] = [pc |-> "get", stage |-> "relay", addr |-> r,
                                          conn |-> None, todo |-> todo \ {r}]]
    BY Zenon, <1>1 DEF NextRelay
  <2>2. call'[t] = [pc |-> "get", stage |-> "relay", addr |-> r, conn |-> None, todo |-> todo \ {r}]
    BY Zenon, <2>1 DEF Types
  <2>3. call'[t] \in CallRec
    BY <2>2 DEF CallRec, Addrs
  <2>4. Moved(t)
    BY Zenon, <2>1, <2>2, <2>3 DEF Moved
  <2>5. /\ call'[t].pc = "get" /\ call'[t].stage = "relay" /\ call'[t].addr = r
        /\ call'[t].conn = None /\ call'[t].todo = todo \ {r}
    BY <2>2
  <2> QED
    BY Zenon, <2>1, <2>4, <2>5
<1>2. CASE todo = {}
  <2>1. PICK p \in {"rest", "done"} : p = IF t \in Calls THEN "done" ELSE "rest"
    BY Zenon
  <2>2. /\ call' = [call EXCEPT ![t] = [Rest EXCEPT !.pc = p]]
        /\ result' = IF t \in Calls THEN [result EXCEPT ![t] = "error"] ELSE result
    BY Zenon, <1>2, <2>1 DEF NextRelay
  <2>3. call'[t] = [Rest EXCEPT !.pc = p]
    BY Zenon, <2>2 DEF Types
  <2>4. call'[t].pc = p /\ call'[t].conn = None /\ call'[t] \in CallRec
    BY Zenon, <2>1, <2>3 DEF Rest, CallRec
  <2> QED
    BY Zenon, <2>1, <2>2, <2>3, <2>4 DEF Moved
<1> QED
  BY Zenon, <1>1, <1>2

\* A call that goes on holds a connection to its address, if any.
LEMMA HoldMoves ==
  ASSUME Types, HoldInv, TableInv, Fades, Clears, SameReaders, early' = early,
         NEW t \in Threads, Moved(t), call'[t].pc # "store",
         call'[t].pc \in {"get", "dial", "send", "clean"} => call'[t].addr \in Addrs,
         call'[t].pc \in {"send", "clean"} => call'[t].conn # None,
         call'[t].conn # None =>
           /\ call'[t].addr = call[t].addr /\ call[t].addr \in Addrs
           /\ call'[t].conn = call[t].conn \/ call'[t].conn = table[NodeOf(t)][call[t].addr]
  PROVE  HoldInv'
<1>1. \A u \in Threads : u # t => call'[u] = call[u]
  BY Zenon, MovedType
<1>2. ASSUME NEW u \in Threads, u # t PROVE HoldOK(u)'
  <2>1. call'[u] = call[u]
    BY Zenon, <1>1, <1>2
  <2>2. call[u].pc = "store" => conn'[call[u].conn].loop \/ call[u].conn \in early'
    <3>1. call[u].pc = "store" =>
            call[u].conn # None /\ (conn[call[u].conn].loop \/ call[u].conn \in early)
      BY Zenon DEF HoldInv, HoldOK
    <3>2. call[u].conn # None => call[u].conn \in Links
      BY Zenon DEF Types, CallRec
    <3> QED
      BY Zenon, <3>1, <3>2 DEF SameReaders
  <2>3. \A v \in Threads : \/ call'[v].conn \in {None, call[v].conn}
                           \/ \E n \in Nodes, a \in Addrs : call'[v].conn = table[n][a]
    <3>1. \A v \in Threads : v # t => call'[v].conn = call[v].conn
      BY Zenon, <1>1
    <3>2. call'[t].conn # None /\ call'[t].conn # call[t].conn =>
            \E n \in Nodes, a \in Addrs : call'[t].conn = table[n][a]
      BY Zenon, NodeOfType
    <3> QED
      BY <3>1, <3>2
  <2> QED
    BY Zenon, <2>1, <2>2, <2>3, HoldKept
<1>3. HoldOK(t)'
  <2>1. ASSUME call'[t].conn # None, Alive(call[t].conn)'
        PROVE  conn'[call'[t].conn].from = NodeOf(t) /\ conn'[call'[t].conn].to = call'[t].addr
    <3>1. PICK k : k = call'[t].conn
      BY Zenon
    <3>2. k \in Links /\ k # None /\ Alive(k)'
      BY Zenon, <2>1, <3>1 DEF Moved, CallRec, Alive
    <3>3. Alive(k) /\ conn'[k].from = conn[k].from /\ conn'[k].to = conn[k].to
      BY Zenon, <3>2 DEF Fades, Alive
    <3>4. conn[k].from = NodeOf(t) /\ conn[k].to = call[t].addr
      <4>1. CASE k = call[t].conn
        BY Zenon, <3>2, <3>3, <4>1 DEF HoldInv, HoldOK
      <4>2. CASE k = table[NodeOf(t)][call[t].addr]
        <5>1. NodeOf(t) \in Nodes /\ call[t].addr \in Addrs
          BY Zenon, <2>1, NodeOfType
        <5> QED
          BY Zenon, <3>2, <3>3, <4>2, <5>1 DEF TableInv
      <4> QED
        BY Zenon, <2>1, <3>1, <4>1, <4>2
    <3> QED
      BY Zenon, <2>1, <3>1, <3>3, <3>4
  <2>2. call'[t].pc \in {"get", "dial", "store", "send", "clean"} => call'[t].addr \in Addrs
    BY Zenon
  <2>3. call'[t].pc \in {"store", "send", "clean"} => call'[t].conn # None
    BY Zenon
  <2> QED
    BY Zenon, <2>1, <2>2, <2>3 DEF HoldOK, NodeOf
<1> QED
  BY Zenon, <1>2, <1>3 DEF HoldInv

\* A call that does not move keeps its copies.
LEMMA BudgetKept ==
  ASSUME NEW c \in Calls, BudgetOK(c), call'[c] = call[c], result'[c] = result[c],
         handed'[c] = handed[c], expired \subseteq expired'
  PROVE  BudgetOK(c)'
  BY Zenon DEF BudgetOK

\* A call that goes on to the next of the relays that are left, or ends.
LEMMA RelayBudget ==
  ASSUME SizeLaws, Types, NEW c \in Calls, NEW todo \in SUBSET Relays, NextRelay(c, todo),
         result[c] = "none", expired' = expired, handed'[c] \in Nat,
         c \notin expired => handed'[c] = 0,
         handed'[c] + Cardinality(todo) <= Cardinality(Relays) + 1
  PROVE  BudgetOK(c)' /\ result' \in [Calls -> {"none", "ok", "error"}]
<1>1. c \in Threads
  BY Zenon DEF Threads
<1>2. /\ Moved(c)
      /\ \/ /\ call'[c].pc = "get" /\ call'[c].stage = "relay" /\ call'[c].addr \in todo
            /\ call'[c].todo = todo \ {call'[c].addr} /\ result' = result
         \/ call'[c].pc = "done" /\ result' = [result EXCEPT ![c] = "error"]
  BY Zenon, <1>1, NextRelayMoves
<1>3. CASE call'[c].pc = "done" /\ result' = [result EXCEPT ![c] = "error"]
  <2>1. result' \in [Calls -> {"none", "ok", "error"}]
    BY Zenon, <1>3 DEF Types
  <2>2. c \notin expired => handed'[c] <= 1
    OBVIOUS
  <2> QED
    BY Zenon, <1>3, <2>1, <2>2 DEF BudgetOK
<1>4. CASE /\ call'[c].pc = "get" /\ call'[c].stage = "relay" /\ call'[c].addr \in todo
           /\ call'[c].todo = todo \ {call'[c].addr} /\ result' = result
  <2>1. PICK r \in todo : r = call'[c].addr
    BY Zenon, <1>4
  <2>2. IsFiniteSet(todo) /\ IsFiniteSet(Relays)
    BY Zenon, TransportBounds DEF SizeLaws, SizeOfPart
  <2>3. Cardinality(todo) \in Nat /\ Cardinality(Relays) \in Nat
    BY Zenon, <2>2 DEF SizeLaws, SizeIsNat
  <2>4. Cardinality(todo \ {r}) = Cardinality(todo) - 1
    BY Zenon, <2>2 DEF SizeLaws, SizeWithout
  <2>5. handed'[c] + Cardinality(call'[c].todo) <= Cardinality(Relays)
    <3>1. call'[c].todo = todo \ {r}
      BY Zenon, <1>4, <2>1
    <3> QED
      BY <2>3, <2>4, <3>1
  <2>6. c \notin expired => handed'[c] <= 1
    OBVIOUS
  <2>7. call'[c].addr \in Relays
    BY Zenon, <2>1
  <2>8. BudgetOK(c)'
    BY Zenon, <1>4, <2>5, <2>6, <2>7 DEF BudgetOK
  <2> QED
    BY Zenon, <1>4, <2>8 DEF Types
<1> QED
  BY Zenon, <1>2, <1>3, <1>4

\* The copies of other messages, while only the call of t goes on.
LEMMA OtherBudgets ==
  ASSUME Types, BudgetInv, NEW t \in Threads, Moved(t), expired \subseteq expired',
         \A c \in Calls : c # t => result'[c] = result[c] /\ handed'[c] = handed[c],
         t \in Calls => BudgetOK(t)'
  PROVE  BudgetInv'
<1> SUFFICES ASSUME NEW c \in Calls, c # t PROVE BudgetOK(c)'
  BY Zenon DEF BudgetInv
<1>1. call'[c] = call[c]
  BY Zenon, MovedType DEF Threads
<1> QED
  BY Zenon, <1>1, BudgetKept DEF BudgetInv

\* A step that moves one call and nothing but its result.
LEMMA CallMoves ==
  ASSUME TransportInv, NEW t \in Threads, Moved(t), call[t].pc # "store", call'[t].pc # "store",
         UNCHANGED <<table, expired, conn, wireVars, streams, handed, arrived, histVars>>,
         fails' \subseteq Nodes \X Nodes, result' \in [Calls -> {"none", "ok", "error"}],
         call'[t].pc \in {"get", "dial", "send", "clean"} => call'[t].addr \in Addrs,
         call'[t].pc \in {"send", "clean"} => call'[t].conn # None,
         call'[t].conn # None =>
           /\ call'[t].addr = call[t].addr /\ call[t].addr \in Addrs
           /\ call'[t].conn = call[t].conn \/ call'[t].conn = table[NodeOf(t)][call[t].addr],
         \A c \in Calls : c # t => result'[c] = result[c],
         t \in Calls => BudgetOK(t)'
  PROVE  TransportInv'
<1>1. /\ Types /\ LinkInv /\ TableInv /\ HoldInv /\ NoStreamLeaks /\ StreamInv /\ WireInv
      /\ CopyInv /\ BudgetInv
  BY Zenon DEF TransportInv
<1>2. Fades /\ SameReaders /\ Clears
  BY Zenon, <1>1, StillFades, StillClears
<1>3. HoldInv'
  BY Zenon, <1>1, <1>2, HoldMoves DEF histVars
<1>4. call' \in [Threads -> CallRec] /\ \A u \in Threads : u # t => call'[u] = call[u]
  BY Zenon, <1>1, MovedType
<1>5. Types'
  BY Zenon, <1>1, <1>4 DEF Types, wireVars, histVars
<1>6. UNCHANGED <<table, conn, out, back, streams, handed, arrived, early, raced>>
  BY Zenon DEF wireVars, histVars
<1>7. LinkInv'
  BY Zenon, <1>1, <1>2, FadesLink
<1>8. TableInv'
  BY SMTT(20), <1>1, <1>6 DEF TableInv, Alive
<1>9. StreamInv'
  BY Zenon, <1>1, <1>2, <1>6, FadesStream DEF SameReaders
<1>10. WireInv'
  BY Zenon, <1>1, <1>6, WireKept
<1>11. CopyInv'
  BY Zenon, <1>1, <1>6, WireKept
<1>12. NoStreamLeaks'
  <2>1. \A u \in Threads : call[u].pc = "store" => call'[u] = call[u]
    BY Zenon, <1>4
  <2> QED
    BY <1>1, <1>6, <2>1 DEF NoStreamLeaks
<1>13. BudgetInv'
  BY Zenon, <1>1, OtherBudgets
<1> QED
  BY Zenon, <1>3, <1>5, <1>7, <1>8, <1>9, <1>10, <1>11, <1>12, <1>13 DEF TransportInv

\* Going to another step of Send changes nothing else of the call.
LEMMA GotoMoves ==
  ASSUME Types, NEW t \in Threads, NEW p \in {"dial", "clean", "failed"}, Goto(t, p)
  PROVE  /\ Moved(t) /\ call'[t].pc = p /\ call'[t].stage = call[t].stage
         /\ call'[t].addr = call[t].addr /\ call'[t].conn = call[t].conn
         /\ call'[t].todo = call[t].todo
<1>1. call[t] \in CallRec /\ call' = [call EXCEPT ![t] = [call[t] EXCEPT !.pc = p]]
  BY Zenon DEF Types, Goto
<1>2. call'[t] = [call[t] EXCEPT !.pc = p]
  BY Zenon, <1>1 DEF Types
<1>3. call'[t] \in CallRec
  BY <1>1, <1>2 DEF CallRec
<1>4. Moved(t)
  BY Zenon, <1>1, <1>2, <1>3 DEF Moved
<1> QED
  BY <1>1, <1>2, <1>4 DEF CallRec

\* A connection was found in the table, or made: Send will send over it.
LEMMA ConnectedMoves ==
  ASSUME Types, NEW c \in Calls, NEW k \in Links, Connected(c, k)
  PROVE  /\ Moved(c) /\ call'[c].pc = "send" /\ call'[c].stage = call[c].stage
         /\ call'[c].addr = call[c].addr /\ call'[c].conn = k /\ call'[c].todo = call[c].todo
         /\ result' = result
<1>1. /\ c \in Threads /\ call[c] \in CallRec /\ result' = result
      /\ call' = [call EXCEPT ![c] = [call[c] EXCEPT !.pc = "send", !.conn = k]]
  BY Zenon DEF Types, Connected, Threads
<1>2. call'[c] = [call[c] EXCEPT !.pc = "send", !.conn = k]
  BY Zenon, <1>1 DEF Types
<1>3. PICK d \in CallRec : d = call[c]
  BY Zenon, <1>1
<1>4. [d EXCEPT !.pc = "send", !.conn = k] \in CallRec
  BY Zenon DEF CallRec
<1>5. /\ call'[c].pc = "send" /\ call'[c].stage = d.stage /\ call'[c].addr = d.addr
      /\ call'[c].conn = k /\ call'[c].todo = d.todo
  BY Zenon, <1>2, <1>3 DEF CallRec
<1>6. Moved(c)
  BY Zenon, <1>1, <1>2, <1>3, <1>4 DEF Moved
<1> QED
  BY Zenon, <1>1, <1>3, <1>5, <1>6

\* The copies of a call that goes on in the same stage.
LEMMA StageBudget ==
  ASSUME NEW c \in Calls, BudgetOK(c), result' = result, handed' = handed, expired' = expired,
         call[c].pc \in {"get", "dial", "store"}, call'[c].pc \in {"dial", "store", "send"},
         call'[c].stage = call[c].stage, call'[c].addr = call[c].addr, call'[c].todo = call[c].todo
  PROVE  BudgetOK(c)'
<1>1. /\ call[c].pc \notin {"rest", "done"} /\ call[c].pc \in {"get", "dial", "store", "send"}
      /\ call'[c].pc \notin {"rest", "done"} /\ call'[c].pc \in {"get", "dial", "store", "send"}
  BY Zenon
<1>2. call[c].pc # "done" /\ call'[c].pc # "rest"
  BY Zenon, <1>1
<1> QED
  BY Zenon, <1>1, <1>2 DEF BudgetOK

\* The relays that are left, when those of a call are tried.
LEMMA RelayStage ==
  ASSUME SizeLaws, Types, NEW c \in Calls, BudgetOK(c), call[c].pc \in {"get", "dial", "store", "send"},
         call[c].stage = "relay"
  PROVE  /\ call[c].todo \in SUBSET Relays /\ result[c] = "none" /\ handed[c] \in Nat
         /\ c \notin expired => handed[c] = 0
         /\ handed[c] + Cardinality(call[c].todo) <= Cardinality(Relays)
         /\ Cardinality(call[c].todo) \in Nat /\ Cardinality(Relays) \in Nat
<1>1. call[c].todo \in SUBSET Relays /\ handed[c] \in Nat
  BY Zenon DEF Types, CallRec, Threads
<1>2. call[c].pc # "done" /\ call[c].pc \notin {"rest", "done"}
  BY Zenon
<1>3. IsFiniteSet(call[c].todo) /\ IsFiniteSet(Relays)
  BY Zenon, <1>1, TransportBounds DEF SizeLaws, SizeOfPart
<1>4. Cardinality(call[c].todo) \in Nat /\ Cardinality(Relays) \in Nat
  BY Zenon, <1>3 DEF SizeLaws, SizeIsNat
<1> QED
  BY Zenon, <1>1, <1>2, <1>4 DEF BudgetOK

\* The relays of a call, tried from the first on.
LEMMA DirectStage ==
  ASSUME SizeLaws, Types, NEW c \in Calls, BudgetOK(c), call[c].pc \in {"rest", "failed"}
  PROVE  /\ result[c] = "none" /\ handed[c] \in Nat /\ (c \notin expired => handed[c] = 0)
         /\ handed[c] <= 1 /\ Cardinality(Relays) \in Nat /\ Cardinality({}) = 0
<1>1. handed[c] \in Nat
  BY Zenon DEF Types
<1>2. call[c].pc # "done"
  BY Zenon
<1>3. Cardinality(Relays) \in Nat /\ Cardinality({}) = 0
  BY Zenon, TransportBounds DEF SizeLaws, SizeIsNat, SizeOfEmpty
<1>4. handed[c] <= 1
  <2>1. CASE call[c].pc = "rest"
    BY <2>1 DEF BudgetOK
  <2>2. CASE call[c].pc = "failed"
    BY Zenon, <2>2 DEF BudgetOK
  <2> QED
    BY Zenon, <2>1, <2>2
<1> QED
  BY Zenon, <1>1, <1>2, <1>3, <1>4 DEF BudgetOK

\* A keeper, or a call with relays left, goes on to the next relay.
LEMMA RelayMoves ==
  ASSUME SizeLaws, TransportInv, NEW t \in Threads, call[t].pc \in {"rest", "get", "dial", "send", "failed"},
         NEW todo \in SUBSET Relays, NextRelay(t, todo),
         UNCHANGED <<table, expired, conn, wireVars, streams, handed, arrived, histVars>>,
         fails' \subseteq Nodes \X Nodes,
         t \in Calls =>
           /\ result[t] = "none" /\ handed[t] \in Nat /\ (t \notin expired => handed[t] = 0)
           /\ handed[t] + Cardinality(todo) <= Cardinality(Relays) + 1
  PROVE  TransportInv'
<1>1. Types
  BY Zenon DEF TransportInv
<1>2. /\ Moved(t) /\ call'[t].conn = None
      /\ \/ /\ call'[t].pc = "get" /\ call'[t].addr \in todo /\ result' = result
         \/ /\ call'[t].pc \in {"rest", "done"}
            /\ result' = IF t \in Calls THEN [result EXCEPT ![t] = "error"] ELSE result
  BY Zenon, <1>1, NextRelayMoves
<1>3. result' \in [Calls -> {"none", "ok", "error"}] /\ \A c \in Calls : c # t => result'[c] = result[c]
  BY Zenon, <1>1, <1>2 DEF Types
<1>4. call'[t].pc \in {"get", "dial", "send", "clean"} => call'[t].addr \in Addrs
  BY Zenon, <1>2 DEF Addrs
<1>5. call'[t].pc \notin {"store", "send", "clean"} /\ call[t].pc # "store"
  BY Zenon, <1>2
<1>6. t \in Calls => BudgetOK(t)'
  BY Zenon, <1>1, RelayBudget
<1>7. call'[t].pc # "store" /\ (call'[t].pc \in {"send", "clean"} => call'[t].conn # None)
  BY Zenon, <1>5
<1> QED
  BY Zenon, <1>2, <1>3, <1>4, <1>5, <1>6, <1>7, CallMoves

\* What is left of the loop over the relays are relays.
LEMMA TodoType == ASSUME Types, NEW t \in Threads PROVE call[t].todo \in SUBSET Relays
  BY Zenon DEF Types, CallRec

\* A call that stays with its connection, or loses it, and goes on.
LEMMA GotoStep ==
  ASSUME TransportInv, NEW t \in Threads, call[t].pc \in {"get", "dial", "send"},
         NEW p \in {"dial", "clean", "failed"}, Goto(t, p), result' = result,
         p = "clean" => call[t].conn # None,
         UNCHANGED <<table, fails, expired, conn, wireVars, streams, handed, arrived, histVars>>,
         t \in Calls => BudgetOK(t)'
  PROVE  TransportInv'
<1>1. Types /\ HoldOK(t)
  BY Zenon DEF TransportInv, HoldInv
<1>2. /\ Moved(t) /\ call'[t].pc = p /\ call'[t].addr = call[t].addr
      /\ call'[t].conn = call[t].conn
  BY Zenon, <1>1, GotoMoves
<1>3. call[t].addr \in Addrs
  BY Zenon, <1>1 DEF HoldOK
<1>4. result' \in [Calls -> {"none", "ok", "error"}] /\ fails' \subseteq Nodes \X Nodes
  BY Zenon, <1>1 DEF Types
<1>5. /\ call[t].pc # "store" /\ call'[t].pc # "store"
      /\ call'[t].pc \in {"send", "clean"} => call'[t].conn # None
  BY Zenon, <1>2
<1> QED
  BY Zenon, <1>2, <1>3, <1>4, <1>5, CallMoves

\* getOrConnect, up to its lookup in the table.
LEMMA GetStep ==
  ASSUME SizeLaws, TransportInv, NEW t \in Threads, Get(t)
  PROVE  TransportInv'
<1>1. /\ Types /\ HoldOK(t) /\ (t \in Calls => BudgetOK(t)) /\ call[t].pc = "get"
      /\ UNCHANGED <<table, fails, expired, conn, wireVars, streams, handed, arrived, histVars>>
  BY Zenon DEF TransportInv, HoldInv, BudgetInv, Get
<1>2. call[t].addr \in Addrs /\ NodeOf(t) \in Nodes
  <2>1. call[t].addr \in Addrs
    BY Zenon, <1>1 DEF HoldOK
  <2> QED
    BY Zenon, <2>1, NodeOfType
<1>3. PICK k : k = table[NodeOf(t)][call[t].addr]
  BY Zenon
<1>4. CASE k = None
  <2>1. Goto(t, "dial") /\ result' = result
    BY Zenon, <1>3, <1>4 DEF Get
  <2>2. t \in Calls => BudgetOK(t)'
    BY Zenon, <1>1, <2>1, GotoMoves, StageBudget
  <2> QED
    BY Zenon, <1>1, <2>1, <2>2, GotoStep
<1>5. CASE k # None
  <2>1. Connected(t, k) /\ k \in Links
    BY <1>1, <1>2, <1>3, <1>5 DEF Get, Types
  <2>2. CASE t \in Calls
    <3>1. /\ Moved(t) /\ call'[t].pc = "send" /\ call'[t].stage = call[t].stage
          /\ call'[t].addr = call[t].addr /\ call'[t].conn = k /\ call'[t].todo = call[t].todo
          /\ result' = result
      BY Zenon, <1>1, <2>1, <2>2, ConnectedMoves
    <3>2. BudgetOK(t)'
      BY Zenon, <1>1, <2>2, <3>1, StageBudget
    <3>3. result' \in [Calls -> {"none", "ok", "error"}] /\ fails' \subseteq Nodes \X Nodes
      BY Zenon, <1>1, <3>1 DEF Types
    <3>4. call[t].pc # "store" /\ call'[t].pc # "store"
      BY Zenon, <1>1, <3>1
    <3> QED
      BY Zenon, <1>1, <1>2, <1>3, <1>5, <3>1, <3>2, <3>3, <3>4, CallMoves
  <2>3. CASE t \notin Calls
    <3>1. NextRelay(t, call[t].todo)
      BY Zenon, <2>1, <2>3 DEF Connected
    <3>2. fails' \subseteq Nodes \X Nodes /\ call[t].todo \in SUBSET Relays
      BY Zenon, <1>1, TodoType DEF Types
    <3> QED
      BY Zenon, <1>1, <2>3, <3>1, <3>2, RelayMoves
  <2> QED
    BY Zenon, <2>2, <2>3
<1> QED
  BY Zenon, <1>4, <1>5

\* The dial fails, or the stream on it.
LEMMA DialFailsStep ==
  ASSUME SizeLaws, TransportInv, NEW t \in Threads, DialFails(t)
  PROVE  TransportInv'
<1>1. /\ Types /\ (t \in Calls => BudgetOK(t)) /\ call[t].pc = "dial"
      /\ UNCHANGED <<table, fails, expired, conn, wireVars, streams, handed, arrived, histVars>>
      /\ fails' \subseteq Nodes \X Nodes
  BY Zenon DEF TransportInv, BudgetInv, DialFails, Types
<1>2. CASE call[t].stage = "relay"
  <2>1. NextRelay(t, call[t].todo) /\ call[t].todo \in SUBSET Relays
    BY Zenon, <1>1, <1>2, TodoType DEF DialFails
  <2>2. t \in Calls =>
           /\ result[t] = "none" /\ handed[t] \in Nat /\ (t \notin expired => handed[t] = 0)
           /\ handed[t] + Cardinality(call[t].todo) <= Cardinality(Relays) + 1
    BY SMTT(20), <1>1, <1>2, RelayStage
  <2> QED
    BY Zenon, <1>1, <2>1, <2>2, RelayMoves
<1>3. CASE call[t].stage # "relay"
  <2>1. Goto(t, "failed") /\ result' = result
    BY Zenon, <1>3 DEF DialFails
  <2>2. ASSUME t \in Calls PROVE BudgetOK(t)'
    <3>1. /\ call'[t].pc = "failed" /\ call'[t].stage = call[t].stage
          /\ call'[t].addr = call[t].addr
      BY Zenon, <1>1, <2>1, GotoMoves
    <3>2. BudgetOK(t) /\ handed'[t] = handed[t] /\ result'[t] = result[t] /\ expired' = expired
      BY Zenon, <1>1, <2>1, <2>2
    <3> QED
      BY Zenon, <1>1, <1>3, <3>1, <3>2 DEF BudgetOK
  <2> QED
    BY Zenon, <1>1, <2>1, <2>2, GotoStep
<1> QED
  BY Zenon, <1>2, <1>3

\* sendViaRelay, of a call that has handed over one copy at most.
LEMMA ViaRelayStep ==
  ASSUME SizeLaws, TransportInv, NEW c \in Calls, call[c].pc \in {"rest", "failed"}, SendViaRelay(c),
         UNCHANGED <<table, expired, conn, wireVars, streams, handed, arrived, histVars>>,
         fails' \subseteq Nodes \X Nodes
  PROVE  TransportInv'
<1>1. Types /\ BudgetOK(c) /\ c \in Threads
  BY Zenon DEF TransportInv, BudgetInv, Threads
<1>2. /\ result[c] = "none" /\ handed[c] \in Nat /\ (c \notin expired => handed[c] = 0)
      /\ handed[c] <= 1 /\ Cardinality(Relays) \in Nat /\ Cardinality({}) = 0
  BY Zenon, <1>1, DirectStage
<1>3. PICK todo \in {Relays, {}} : NextRelay(c, todo)
  BY Zenon DEF SendViaRelay
<1>4. todo \in SUBSET Relays /\ handed[c] + Cardinality(todo) <= Cardinality(Relays) + 1
  BY <1>2, <1>3
<1> QED
  BY Zenon, <1>1, <1>2, <1>3, <1>4, RelayMoves

\* A call of Send begins, directly or by a relay.
LEMMA SendStarts ==
  ASSUME SizeLaws, TransportInv, NEW c \in Calls, Send(c)
  PROVE  TransportInv'
<1>1. /\ Types /\ BudgetOK(c) /\ c \in Threads /\ call[c].pc = "rest" /\ To[c] \in Nodes
      /\ UNCHANGED <<table, fails, expired, conn, wireVars, streams, handed, arrived, histVars>>
      /\ fails' \subseteq Nodes \X Nodes
  BY Zenon, TransportBounds DEF TransportInv, BudgetInv, Threads, Send, Types
<1>2. CASE <<From[c], To[c]>> \in fails
  <2>1. SendViaRelay(c)
    BY Zenon, <1>2 DEF Send
  <2> QED
    BY Zenon, <1>1, <2>1, ViaRelayStep
<1>3. CASE <<From[c], To[c]>> \notin fails
  <2>1. /\ call' = [call EXCEPT ![c] = [Rest EXCEPT !.pc = "get", !.addr = To[c]]]
        /\ result' = result
    BY Zenon, <1>3 DEF Send
  <2>2. call'[c] = [Rest EXCEPT !.pc = "get", !.addr = To[c]]
    BY Zenon, <1>1, <2>1 DEF Types
  <2>3. /\ call'[c].pc = "get" /\ call'[c].addr = To[c] /\ call'[c].conn = None
        /\ call'[c].stage = "direct" /\ call'[c] \in CallRec
    BY Zenon, <1>1, <2>2 DEF Rest, CallRec, Addrs
  <2>4. Moved(c)
    BY Zenon, <2>1, <2>2, <2>3 DEF Moved
  <2>5. BudgetOK(c)'
    <3>1. /\ result[c] = "none" /\ (c \notin expired => handed[c] = 0) /\ handed[c] <= 1
          /\ handed[c] = 0
      BY <1>1 DEF BudgetOK
    <3> QED
      BY Zenon, <1>1, <2>1, <2>3, <3>1 DEF BudgetOK
  <2>6. /\ call[c].pc # "store" /\ call'[c].pc # "store" /\ call'[c].addr \in Addrs
        /\ call'[c].pc \notin {"send", "clean"}
        /\ result' \in [Calls -> {"none", "ok", "error"}]
    BY Zenon, <1>1, <2>1, <2>3 DEF Types, Addrs
  <2> QED
    BY Zenon, <1>1, <2>1, <2>3, <2>4, <2>5, <2>6, CallMoves
<1> QED
  BY Zenon, <1>2, <1>3

\* The stream refuses the message, and the call goes on.
LEMMA SendFailsStep ==
  ASSUME SizeLaws, TransportInv, NEW c \in Calls, SendFails(c)
  PROVE  TransportInv'
<1>1. /\ Types /\ BudgetOK(c) /\ HoldOK(c) /\ c \in Threads /\ call[c].pc = "send" /\ GoOn(c)
      /\ UNCHANGED <<table, fails, expired, conn, wireVars, streams, handed, arrived, histVars>>
      /\ fails' \subseteq Nodes \X Nodes
  BY Zenon DEF TransportInv, BudgetInv, HoldInv, Threads, SendFails, Types
<1>2. CASE call[c].stage = "relay" /\ NextRelay(c, call[c].todo)
  <2>1. call[c].todo \in SUBSET Relays
    BY Zenon, <1>1, TodoType
  <2>2. /\ result[c] = "none" /\ handed[c] \in Nat /\ (c \notin expired => handed[c] = 0)
        /\ handed[c] + Cardinality(call[c].todo) <= Cardinality(Relays) + 1
    BY SMTT(20), <1>1, <1>2, RelayStage
  <2> QED
    BY Zenon, <1>1, <1>2, <2>1, <2>2, RelayMoves
<1>3. ASSUME NEW p \in {"clean", "failed"}, Goto(c, p), call[c].stage # "relay", result' = result
      PROVE  TransportInv'
  <2>1. /\ call'[c].pc = p /\ call'[c].stage = call[c].stage /\ call'[c].addr = call[c].addr
    BY Zenon, <1>1, <1>3, GotoMoves
  <2>2. BudgetOK(c)'
    BY Zenon, <1>1, <1>3, <2>1 DEF BudgetOK
  <2>3. call[c].conn # None
    BY Zenon, <1>1 DEF HoldOK
  <2> QED
    BY Zenon, <1>1, <1>3, <2>2, <2>3, GotoStep
<1> QED
  BY Zenon, <1>1, <1>2, <1>3 DEF GoOn

\* Sending directly has failed, and the relays are tried.
LEMMA DirectFailedStep ==
  ASSUME SizeLaws, TransportInv, NEW c \in Calls, DirectFailed(c)
  PROVE  TransportInv'
<1>1. /\ call[c].pc = "failed" /\ SendViaRelay(c) /\ fails' \subseteq Nodes \X Nodes
      /\ UNCHANGED <<table, expired, conn, wireVars, streams, handed, arrived, histVars>>
  BY SMTT(20), TransportBounds DEF DirectFailed, TransportInv, Types
<1> QED
  BY Zenon, <1>1, ViaRelayStep

\* A daemon connects to its relays.
LEMMA KeeperStep ==
  ASSUME SizeLaws, TransportInv, NEW n \in Keepers, ConnectToRelays(n)
  PROVE  TransportInv'
<1>1. /\ call[n].pc = "rest" /\ NextRelay(n, Relays) /\ fails' \subseteq Nodes \X Nodes
      /\ UNCHANGED <<table, expired, conn, wireVars, streams, handed, arrived, histVars>>
      /\ n \in Threads /\ n \notin Calls /\ Relays \in SUBSET Relays
  BY Zenon, TransportBounds DEF ConnectToRelays, TransportInv, Types, Threads
<1> QED
  BY Zenon, <1>1, RelayMoves

\* A step that changes none of the connections, tables and calls.
LEMMA QuietStep ==
  ASSUME TransportInv, UNCHANGED <<table, call, conn, wireVars, streams, result, handed, arrived,
                                   histVars>>,
         fails' \subseteq Nodes \X Nodes, expired \subseteq expired', expired' \subseteq Calls
  PROVE  TransportInv'
<1>1. /\ Types /\ LinkInv /\ TableInv /\ HoldInv /\ NoStreamLeaks /\ StreamInv /\ WireInv
      /\ CopyInv /\ BudgetInv
  BY Zenon DEF TransportInv
<1>2. UNCHANGED <<table, call, conn, out, back, streams, result, handed, arrived, early, raced>>
  BY Zenon DEF wireVars, histVars
<1>3. Types'
  BY Zenon, <1>1, <1>2 DEF Types
<1>4. LinkInv' /\ TableInv'
  BY <1>1, <1>2 DEF LinkInv, TableInv, Alive
<1>11. Fades /\ SameReaders /\ Clears
  BY Zenon, <1>1, <1>2, StillFades, StillClears
<1>5. HoldInv'
  <2> SUFFICES ASSUME NEW u \in Threads PROVE HoldOK(u)'
    BY Zenon DEF HoldInv
  <2>1. call[u].pc = "store" => conn'[call[u].conn].loop \/ call[u].conn \in early'
    BY Zenon, <1>1, <1>2 DEF HoldInv, HoldOK
  <2>2. \A v \in Threads : call'[v].conn \in {None, call[v].conn}
    BY Zenon, <1>2
  <2> QED
    BY Zenon, <1>1, <1>2, <1>11, <2>1, <2>2, HoldKept
<1>6. StreamInv'
  BY Zenon, <1>1, <1>2, <1>11, FadesStream DEF SameReaders
<1>7. WireInv'
  BY Zenon, <1>1, <1>2, WireKept
<1>8. CopyInv'
  BY Zenon, <1>1, <1>2, WireKept
<1>9. NoStreamLeaks'
  BY Zenon, <1>1, <1>2 DEF NoStreamLeaks
<1>10. BudgetInv'
  BY Zenon, <1>1, <1>2, BudgetKept DEF BudgetInv
<1> QED
  BY Zenon, <1>3, <1>4, <1>5, <1>6, <1>7, <1>8, <1>9, <1>10 DEF TransportInv

-----------------------------------------------------------------------------
(* The steps that write to, close, store, dial and read from connections.  *)

\* The copies on the streams when call c writes one, or none, to connection k.
LEMMA WriteCopies ==
  ASSUME SizeLaws, TransportInv, NEW c \in Calls, NEW k \in Links, back' = back, arrived' = arrived,
         Write(c, k) \/ UNCHANGED <<handed, out>>
  PROVE  /\ CopyInv' /\ out' \in [Links -> Seq(Calls)] /\ handed' \in [Calls -> Nat]
         /\ handed'[c] \in {handed[c], handed[c] + 1}
         /\ \A d \in Calls : d # c => handed'[d] = handed[d]
         /\ \A j \in Links : \/ out'[j] = out[j]
                             \/ j = k /\ conn[k].up /\ out'[k] = Append(out[k], c)
<1>1. Types /\ CopyInv
  BY Zenon DEF TransportInv
<1>2. CASE UNCHANGED <<handed, out>>
  BY Zenon, <1>1, <1>2 DEF Types, CopyInv, Places
<1>3. CASE Write(c, k)
  <2>1. handed' = [handed EXCEPT ![c] = handed[c] + 1] /\ handed[c] \in Nat
    BY Zenon, <1>1, <1>3 DEF Write, Types
  <2>2. /\ handed' \in [Calls -> Nat] /\ handed'[c] = handed[c] + 1
        /\ \A d \in Calls : d # c => handed'[d] = handed[d]
    BY SMTT(20), <1>1, <2>1 DEF Types
  <2>3. CASE ~conn[k].up
    <3>1. out' = out
      BY Zenon, <1>3, <2>3 DEF Write
    <3>2. CopyInv'
      <4> SUFFICES ASSUME NEW d \in Calls
                   PROVE  /\ IsFiniteSet(Places(out, d)) /\ IsFiniteSet(Places(back, d))
                          /\ Cardinality(Places(out, d)) + Cardinality(Places(back, d))
                               + arrived[To[d]][d] <= handed'[d]
        BY Zenon, <3>1 DEF CopyInv, Places
      <4>1. /\ IsFiniteSet(Places(out, d)) /\ IsFiniteSet(Places(back, d))
            /\ Cardinality(Places(out, d)) + Cardinality(Places(back, d))
                 + arrived[To[d]][d] <= handed[d]
        BY Zenon, <1>1 DEF CopyInv
      <4>2. /\ Cardinality(Places(out, d)) \in Nat /\ Cardinality(Places(back, d)) \in Nat
            /\ arrived[To[d]][d] \in Nat /\ handed[d] \in Nat
        BY SMTT(20), <1>1, <4>1, TransportBounds DEF SizeLaws, SizeIsNat, Types
      <4>3. handed[d] <= handed'[d] /\ handed'[d] \in Nat
        BY <2>1, <2>2, <4>2
      <4> QED
        BY SMTT(20), <4>1, <4>2, <4>3
    <3> QED
      BY Zenon, <1>1, <2>2, <3>1, <3>2 DEF Types
  <2>4. CASE conn[k].up
    <3>1. out' = [out EXCEPT ![k] = Append(out[k], c)] /\ out \in [Links -> Seq(Calls)]
      BY Zenon, <1>1, <1>3, <2>4 DEF Write, Types
    <3>2. out' \in [Links -> Seq(Calls)]
      BY SMTT(20), <3>1
    <3>3. ASSUME NEW d \in Calls
          PROVE  /\ IsFiniteSet(Places(out', d)) /\ IsFiniteSet(Places(back', d))
                 /\ Cardinality(Places(out', d)) + Cardinality(Places(back', d))
                      + arrived'[To[d]][d] <= handed'[d]
      <4>1. /\ IsFiniteSet(Places(out, d)) /\ IsFiniteSet(Places(back, d))
            /\ Cardinality(Places(out, d)) + Cardinality(Places(back, d))
                 + arrived[To[d]][d] <= handed[d]
        BY Zenon, <1>1 DEF CopyInv
      <4>2. /\ Cardinality(Places(out, d)) \in Nat /\ Cardinality(Places(back, d)) \in Nat
            /\ arrived[To[d]][d] \in Nat /\ handed[d] \in Nat
        BY <1>1, <4>1, TransportBounds DEF SizeLaws, SizeIsNat, Types
      <4>3. /\ IsFiniteSet(Places(out', d))
            /\ c = d => Cardinality(Places(out', d)) = Cardinality(Places(out, d)) + 1
            /\ c # d => Cardinality(Places(out', d)) = Cardinality(Places(out, d))
        <5>1. PICK g : g = out'
          BY Zenon
        <5>2. Changed(out, g, k, Append(out[k], c)) /\ out \in [Links -> Seq(Calls)]
          BY Zenon, <3>1, <5>1 DEF Changed
        <5>3. /\ IsFiniteSet(Places(g, d))
              /\ c = d => Cardinality(Places(g, d)) = Cardinality(Places(out, d)) + 1
              /\ c # d => Cardinality(Places(g, d)) = Cardinality(Places(out, d))
          <6>1. IsFiniteSet(Places(out, d))
            BY Zenon, <4>1
          <6>2. PICK f : f = out
            BY Zenon
          <6>3. f \in [Links -> Seq(Calls)] /\ Changed(f, g, k, Append(f[k], c)) /\ IsFiniteSet(Places(f, d))
            BY Zenon, <5>2, <6>1, <6>2
          <6>4. IsFiniteSet(Places(g, d))
            BY Zenon, <6>3, PlacesAppend
          <6>5. c = d => Cardinality(Places(g, d)) = Cardinality(Places(f, d)) + 1
            BY <6>3, PlacesAppend
          <6>6. c # d => Places(g, d) = Places(f, d)
            BY SMTT(20), <6>3, PlacesAppendOther
          <6> QED
            BY Zenon, <6>2, <6>4, <6>5, <6>6
        <5> QED
          BY Zenon, <5>1, <5>3
      <4>4. /\ IsFiniteSet(Places(back', d)) /\ Cardinality(Places(back', d)) = Cardinality(Places(back, d))
            /\ arrived'[To[d]][d] = arrived[To[d]][d]
        BY Zenon, <4>1
      <4>6. PICK p, q, r, s : /\ p = Cardinality(Places(out, d)) /\ q = Cardinality(Places(back, d))
                              /\ r = arrived[To[d]][d] /\ s = handed[d]
        BY Zenon
      <4>7. p \in Nat /\ q \in Nat /\ r \in Nat /\ s \in Nat /\ p + q + r <= s
        BY Zenon, <4>1, <4>2, <4>6
      <4>8. CASE c = d
        <5>1. Cardinality(Places(out', d)) = p + 1 /\ handed'[d] = s + 1
          BY Zenon, <2>2, <4>3, <4>6, <4>8
        <5>2. (p + 1) + q + r <= s + 1
          BY <4>7
        <5> QED
          BY Zenon, <4>3, <4>4, <4>6, <5>1, <5>2
      <4>9. CASE c # d
        <5>1. Cardinality(Places(out', d)) = p /\ handed'[d] = s
          BY Zenon, <2>2, <4>3, <4>6, <4>9
        <5> QED
          BY Zenon, <4>3, <4>4, <4>6, <4>7, <5>1
      <4> QED
        BY Zenon, <4>8, <4>9
    <3>4. CopyInv'
      BY Zenon, <3>3 DEF CopyInv, Places
    <3>5. out'[k] = Append(out[k], c) /\ \A j \in Links : j # k => out'[j] = out[j]
      BY Zenon, <3>1
    <3> QED
      BY Zenon, <2>2, <2>4, <3>2, <3>4, <3>5
  <2> QED
    BY Zenon, <2>3, <2>4
<1> QED
  BY Zenon, <1>2, <1>3
\* What call c writes to its connection goes to the destination or to a relay.
LEMMA WriteWire ==
  ASSUME TransportInv, Fades, SameReaders, NEW c \in Calls, call[c].pc = "send", back' = back,
         \A j \in Links : \/ out'[j] = out[j]
                          \/ /\ j = call[c].conn /\ conn[j].up
                             /\ out'[j] = Append(out[j], c)
  PROVE  WireInv'
<1>1. Types /\ LinkInv /\ WireInv /\ HoldOK(c) /\ BudgetOK(c) /\ c \in Threads
  BY Zenon DEF TransportInv, HoldInv, BudgetInv, Threads
<1> SUFFICES ASSUME NEW k \in Links
             PROVE  /\ out'[k] # <<>> => conn'[k].handler # "ended"
                    /\ back[k] # <<>> => conn'[k].loop
                    /\ \A i \in 1..Len(out'[k]) : conn'[k].to \in Nodes => conn'[k].to = To[out'[k][i]]
                    /\ \A i \in 1..Len(back[k]) : conn'[k].from = To[back[k][i]]
  BY Zenon DEF WireInv
<1>2. /\ out[k] # <<>> => conn[k].handler # "ended"
      /\ back[k] # <<>> => conn[k].loop
      /\ \A i \in 1..Len(out[k]) : conn[k].to \in Nodes => conn[k].to = To[out[k][i]]
      /\ \A i \in 1..Len(back[k]) : conn[k].from = To[back[k][i]]
  BY Zenon, <1>1 DEF WireInv
<1>3. /\ conn'[k].loop = conn[k].loop /\ conn'[k].handler = conn[k].handler
      /\ conn[k].loop \/ conn[k].handler # "ended" =>
           conn'[k].from = conn[k].from /\ conn'[k].to = conn[k].to
  BY Zenon DEF Fades, SameReaders, Alive
<1>4. /\ back[k] # <<>> => conn'[k].loop
      /\ \A i \in 1..Len(back[k]) : conn'[k].from = To[back[k][i]]
  <2>1. CASE back[k] = <<>>
    BY <2>1
  <2>2. CASE back[k] # <<>>
    BY Zenon, <1>2, <1>3, <2>2
  <2> QED
    BY Zenon, <2>1, <2>2
<1>5. CASE out'[k] = out[k]
  <2>1. CASE out[k] = <<>>
    BY <1>4, <1>5, <2>1
  <2>2. CASE out[k] # <<>>
    BY Zenon, <1>2, <1>3, <1>4, <1>5, <2>2
  <2> QED
    BY Zenon, <2>1, <2>2
<1>6. CASE k = call[c].conn /\ conn[k].up /\ out'[k] = Append(out[k], c)
  <2>1. conn[k].loop /\ conn[k].handler # "ended" /\ Alive(k) /\ k # None
    BY Zenon, <1>1, <1>6, TransportBounds DEF LinkInv, Alive
  <2>2. conn'[k].to = call[c].addr /\ conn[k].to = call[c].addr
    BY Zenon, <1>1, <1>3, <1>6, <2>1 DEF HoldOK
  <2>3. call[c].addr \in Nodes => call[c].addr = To[c]
    BY Zenon, <1>1, TransportBounds DEF BudgetOK
  <2>4. /\ out[k] \in Seq(Calls) /\ Len(out'[k]) = Len(out[k]) + 1 /\ Len(out[k]) \in Nat
        /\ out'[k][Len(out[k]) + 1] = c /\ \A i \in 1..Len(out[k]) : out'[k][i] = out[k][i]
    BY SMTT(20), <1>1, <1>6 DEF Types
  <2>5. \A i \in 1..Len(out'[k]) : conn'[k].to \in Nodes => conn'[k].to = To[out'[k][i]]
    <3> SUFFICES ASSUME NEW i \in 1..Len(out'[k]), call[c].addr \in Nodes
                 PROVE  call[c].addr = To[out'[k][i]]
      BY Zenon, <2>2
    <3>1. CASE i = Len(out[k]) + 1
      BY Zenon, <2>3, <2>4, <3>1
    <3>2. CASE i # Len(out[k]) + 1
      <4>1. i \in 1..Len(out[k])
        BY SMTT(20), <2>4, <3>2
      <4> QED
        BY Zenon, <1>2, <2>2, <2>4, <4>1
    <3> QED
      BY Zenon, <3>1, <3>2
  <2> QED
    BY Zenon, <1>3, <1>4, <2>1, <2>5
<1> QED
  BY Zenon, <1>5, <1>6

\* A call goes on: it may have written a copy, connections may have been closed
\* and entries of the tables removed.
LEMMA LinkMoves ==
  ASSUME SizeLaws, TransportInv, NEW t \in Threads, Moved(t), call'[t].pc # "store",
         call[t].pc = "store" => ~conn'[call[t].conn].up,
         \/ t \in Calls /\ call[t].pc = "send" /\ Write(t, call[t].conn)
         \/ UNCHANGED <<handed, out>>,
         Fades, SameReaders, Clears,
         \A k \in Links : conn'[k].up /\ table[conn[k].from][conn[k].to] = k =>
                            table'[conn[k].from][conn[k].to] = k,
         UNCHANGED <<fails, expired, back, streams, arrived, histVars>>,
         result' \in [Calls -> {"none", "ok", "error"}],
         call'[t].pc \in {"get", "dial", "send", "clean"} => call'[t].addr \in Addrs,
         call'[t].pc \in {"send", "clean"} => call'[t].conn # None,
         call'[t].conn # None =>
           /\ call'[t].addr = call[t].addr /\ call[t].addr \in Addrs
           /\ call'[t].conn = call[t].conn \/ call'[t].conn = table[NodeOf(t)][call[t].addr],
         \A c \in Calls : c # t => result'[c] = result[c],
         t \in Calls => BudgetOK(t)'
  PROVE  TransportInv'
<1>1. /\ Types /\ LinkInv /\ TableInv /\ HoldInv /\ NoStreamLeaks /\ StreamInv /\ WireInv
      /\ CopyInv /\ BudgetInv
  BY Zenon DEF TransportInv
<1>2. UNCHANGED <<fails, expired, back, streams, arrived, early, raced>>
  BY Zenon DEF histVars
<1>3. HoldInv'
  BY Zenon, <1>1, <1>2, HoldMoves
<1>4. call' \in [Threads -> CallRec] /\ \A u \in Threads : u # t => call'[u] = call[u]
  BY Zenon, <1>1, MovedType
<1>5. /\ CopyInv' /\ out' \in [Links -> Seq(Calls)] /\ handed' \in [Calls -> Nat] /\ WireInv'
      /\ \A d \in Calls : d # t => handed'[d] = handed[d]
  <2>1. CASE UNCHANGED <<handed, out>>
    <3>1. CopyInv'
      BY Zenon, <1>1, <1>2, <2>1 DEF CopyInv, Places
    <3>2. WireInv'
      <4>1. \A j \in Links : out'[j] = out[j] /\ (out[j] # <<>> => conn'[j].handler # "ended")
        BY Zenon, <1>1, <2>1 DEF WireInv, SameReaders
      <4>2. \A j \in Links : back'[j] = back[j] /\ (back[j] # <<>> => conn'[j].loop)
        BY Zenon, <1>1, <1>2 DEF WireInv, SameReaders
      <4> QED
        BY Zenon, <1>1, <4>1, <4>2, FadesWire
    <3> QED
      BY Zenon, <1>1, <2>1, <3>1, <3>2 DEF Types
  <2>2. CASE t \in Calls /\ call[t].pc = "send" /\ Write(t, call[t].conn)
    <3>1. call[t].conn \in Links
      BY Zenon, <1>1, <2>2 DEF HoldInv, HoldOK, Types, CallRec
    <3>2. /\ CopyInv' /\ out' \in [Links -> Seq(Calls)] /\ handed' \in [Calls -> Nat]
          /\ \A d \in Calls : d # t => handed'[d] = handed[d]
          /\ \A j \in Links :
               \/ out'[j] = out[j]
               \/ j = call[t].conn /\ conn[call[t].conn].up
                    /\ out'[call[t].conn] = Append(out[call[t].conn], t)
      BY Zenon, <1>2, <2>2, <3>1, WriteCopies
    <3>3. \A j \in Links :
            \/ out'[j] = out[j]
            \/ j = call[t].conn /\ conn[j].up /\ out'[j] = Append(out[j], t)
      BY Zenon, <3>2
    <3> QED
      BY Zenon, <1>2, <2>2, <3>2, <3>3, WriteWire
  <2> QED
    BY Zenon, <2>1, <2>2
<1>6. Types'
  <2>1. /\ fails' \subseteq Nodes \X Nodes /\ expired' \subseteq Calls
        /\ back' \in [Links -> Seq(Calls)]
        /\ streams' \in [Relays -> [Nodes -> Links \union {None}]]
        /\ arrived' \in [Nodes -> [Calls -> Nat]]
        /\ early' \subseteq Links /\ raced' \subseteq Nodes \X Relays
    BY Zenon, <1>1, <1>2 DEF Types
  <2>2. /\ table' \in [Nodes -> [Addrs -> Links \union {None}]] /\ conn' \in [Links -> LinkRec]
    BY Zenon DEF Fades, Clears
  <2> QED
    BY Zenon, <1>4, <1>5, <2>1, <2>2 DEF Types
<1>7. LinkInv'
  BY Zenon, <1>1, FadesLink
<1>8. TableInv'
  <2> SUFFICES ASSUME NEW n \in Nodes, NEW a \in Addrs, table'[n][a] # None
               PROVE  conn'[table[n][a]].loop \/ table[n][a] \in early'
    BY Zenon, <1>1, FadesTable
  <2>1. table[n][a] \in Links /\ table[n][a] # None
    <3>1. table'[n][a] = table[n][a] \/ table'[n][a] = None
      BY Zenon, <1>1 DEF Clears
    <3>2. table \in [Nodes -> [Addrs -> Links \union {None}]]
      BY Zenon, <1>1 DEF Types
    <3>3. table[n][a] \in Links \union {None}
      BY Zenon, <3>2
    <3> QED
      BY Zenon, <3>1, <3>3
  <2> QED
    BY Zenon, <1>1, <1>2, <2>1 DEF TableInv, SameReaders
<1>9. StreamInv'
  BY Zenon, <1>1, <1>2, FadesStream DEF SameReaders
<1>10. NoStreamLeaks'
  <2>1. ASSUME NEW k \in Links, NEW u \in Threads, conn'[k].up, call[u].pc = "store", call[u].conn = k
        PROVE  call'[u].pc = "store" /\ call'[u].conn = k
    BY Zenon, <1>4, <2>1
  <2> QED
    BY Zenon, <1>1, <2>1, FadesLeak
<1>11. BudgetInv'
  BY Zenon, <1>1, <1>2, <1>5, OtherBudgets
<1> QED
  BY Zenon, <1>3, <1>5, <1>6, <1>7, <1>8, <1>9, <1>10, <1>11 DEF TransportInv

\* No connection that stays up loses its entry.
KeepsUp ==
  \A k \in Links : conn'[k].up /\ table[conn[k].from][conn[k].to] = k =>
                     table'[conn[k].from][conn[k].to] = k

\* The entry goes if it is that of connection k.
Removes(n, a, k) ==
  table' = IF table[n][a] = k THEN [table EXCEPT ![n][a] = None] ELSE table

\* The entry of a connection goes when the connection is closed.
LEMMA EntryRemoved ==
  ASSUME Types, LinkInv, NEW k \in Links, Fades, ~conn'[k].up, NEW n \in Nodes, NEW a \in Addrs,
         Removes(n, a, k)
  PROVE  Clears /\ KeepsUp
<1>1. ~conn'[k].up
  BY Zenon
<1>2. CASE table[n][a] # k
  <2>1. table' = table
    BY Zenon, <1>2 DEF Removes
  <2> QED
    BY Zenon, <2>1, StillClears DEF KeepsUp
<1>3. CASE table[n][a] = k
  <2>1. table' = [table EXCEPT ![n][a] = None] /\ table \in [Nodes -> [Addrs -> Links \union {None}]]
    BY Zenon, <1>3 DEF Types, Removes
  <2>2. table' \in [Nodes -> [Addrs -> Links \union {None}]]
    BY Zenon, <2>1
  <2>3. \A m \in Nodes, b \in Addrs :
          table'[m][b] = IF m = n /\ b = a THEN None ELSE table[m][b]
    BY Zenon, <2>1
  <2>4. Clears
    BY Zenon, <2>2, <2>3 DEF Clears
  <2>5. ASSUME NEW j \in Links, conn'[j].up, table[conn[j].from][conn[j].to] = j
        PROVE  table'[conn[j].from][conn[j].to] = j
    <3>1. conn[j].from \in Nodes /\ conn[j].to \in Addrs
      BY Zenon, <2>5 DEF Fades, LinkInv, Alive
    <3>2. j # k
      BY Zenon, <1>1, <2>5
    <3>3. ~(conn[j].from = n /\ conn[j].to = a)
      BY Zenon, <1>3, <2>5, <3>2
    <3>4. PICK m \in Nodes, b \in Addrs : m = conn[j].from /\ b = conn[j].to
      BY Zenon, <3>1
    <3>5. table'[m][b] = table[m][b]
      BY Zenon, <2>3, <3>3, <3>4
    <3> QED
      BY Zenon, <2>5, <3>4, <3>5
  <2> QED
    BY Zenon, <2>4, <2>5 DEF KeepsUp
<1> QED
  BY Zenon, <1>2, <1>3

\* A send that succeeds.
LEMMA SendOkStep ==
  ASSUME SizeLaws, TransportInv, NEW c \in Calls, SendOk(c)
  PROVE  TransportInv'
<1>1. /\ Types /\ LinkInv /\ BudgetOK(c) /\ HoldOK(c) /\ c \in Threads
      /\ call[c].pc = "send" /\ Write(c, call[c].conn)
      /\ call' = [call EXCEPT ![c] = [Rest EXCEPT !.pc = "done"]]
      /\ result' = [result EXCEPT ![c] = "ok"]
      /\ UNCHANGED <<table, fails, expired, conn, back, streams, arrived, histVars>>
  BY Zenon DEF TransportInv, BudgetInv, HoldInv, Threads, SendOk
<1>2. call'[c] = [Rest EXCEPT !.pc = "done"]
  BY Zenon, <1>1 DEF Types
<1>3. call'[c].pc = "done" /\ call'[c].conn = None /\ call'[c] \in CallRec
  BY Zenon, <1>2 DEF Rest, CallRec
<1>4. Moved(c)
  BY Zenon, <1>1, <1>2, <1>3 DEF Moved
<1>5. /\ result' \in [Calls -> {"none", "ok", "error"}]
      /\ \A d \in Calls : d # c => result'[d] = result[d]
  BY Zenon, <1>1 DEF Types
<1>6. Fades /\ SameReaders /\ Clears /\ KeepsUp
  BY Zenon, <1>1, StillFades, StillClears DEF KeepsUp
<1>7. BudgetOK(c)'
  <2>1. handed'[c] = handed[c] + 1 /\ handed[c] \in Nat
    BY Zenon, <1>1 DEF Write, Types
  <2>2. c \notin expired => handed'[c] <= 1
    BY <1>1, <2>1 DEF BudgetOK
  <2> QED
    BY Zenon, <1>1, <1>3, <2>2 DEF BudgetOK
<1>8. /\ call'[c].pc # "store" /\ call[c].pc # "store"
      /\ call'[c].pc \notin {"get", "dial", "send", "clean"} /\ call'[c].pc \notin {"send", "clean"}
  BY Zenon, <1>1, <1>3
<1> QED
  BY Zenon, <1>1, <1>3, <1>4, <1>5, <1>6, <1>7, <1>8, LinkMoves DEF KeepsUp

\* A send whose context expires: the connection is closed, and the call goes on.
LEMMA SendExpiresStep ==
  ASSUME SizeLaws, TransportInv, NEW c \in Calls, SendExpires(c)
  PROVE  TransportInv'
<1>1. /\ Types /\ LinkInv /\ BudgetOK(c) /\ HoldOK(c) /\ c \in Threads
      /\ call[c].pc = "send" /\ c \in expired
      /\ Write(c, call[c].conn) \/ UNCHANGED <<handed, out>>
      /\ Close(call[c].conn) /\ GoOn(c)
      /\ UNCHANGED <<fails, expired, back, streams, arrived, histVars>>
      /\ table' = IF call[c].addr \in Relays /\ table[From[c]][call[c].addr] = call[c].conn
                  THEN [table EXCEPT ![From[c]][call[c].addr] = None] ELSE table
  BY Zenon DEF TransportInv, BudgetInv, HoldInv, Threads, SendExpires
<1>2. PICK k \in Links : k = call[c].conn
  BY Zenon, <1>1 DEF HoldOK, Types, CallRec
<1>3. PICK a \in Addrs, n \in Nodes : a = call[c].addr /\ n = From[c]
  BY Zenon, <1>1, TransportBounds DEF HoldOK
<1>4. Fades /\ SameReaders /\ ~conn'[k].up
  BY Zenon, <1>1, <1>2, CloseFades
<1>5. Clears /\ KeepsUp
  <2>1. CASE a \in Relays
    <3>1. Removes(n, a, k) /\ Close(k)
      BY Zenon, <1>1, <1>2, <1>3, <2>1 DEF Removes
    <3> QED
      BY Zenon, <1>1, <1>4, <3>1, EntryRemoved
  <2>2. CASE a \notin Relays
    <3>1. table' = table
      BY Zenon, <1>1, <1>3, <2>2
    <3> QED
      BY Zenon, <1>1, <3>1, StillClears DEF KeepsUp
  <2> QED
    BY Zenon, <2>1, <2>2
<1>6. /\ handed'[c] \in Nat /\ handed'[c] <= handed[c] + 1 /\ handed[c] \in Nat
  BY SMTT(20), <1>1 DEF Write, Types
<1>7. CASE call[c].stage = "relay" /\ NextRelay(c, call[c].todo)
  <2>1. /\ call[c].todo \in SUBSET Relays /\ result[c] = "none"
        /\ handed[c] + Cardinality(call[c].todo) <= Cardinality(Relays)
        /\ Cardinality(call[c].todo) \in Nat /\ Cardinality(Relays) \in Nat
    BY Zenon, <1>1, <1>7, RelayStage
  <2>2. handed'[c] + Cardinality(call[c].todo) <= Cardinality(Relays) + 1
    BY <1>6, <2>1
  <2>3. BudgetOK(c)' /\ result' \in [Calls -> {"none", "ok", "error"}]
    BY Zenon, <1>1, <1>6, <1>7, <2>1, <2>2, RelayBudget
  <2>4. /\ Moved(c) /\ call'[c].conn = None
        /\ \/ call'[c].pc = "get" /\ call'[c].addr \in call[c].todo /\ result' = result
           \/ call'[c].pc = "done" /\ result' = [result EXCEPT ![c] = "error"]
    BY Zenon, <1>1, <1>7, <2>1, NextRelayMoves
  <2>5. /\ call'[c].pc \in {"get", "dial", "send", "clean"} => call'[c].addr \in Addrs
        /\ call'[c].pc # "store" /\ call[c].pc # "store" /\ call'[c].pc \notin {"send", "clean"}
    BY Zenon, <1>1, <2>1, <2>4 DEF Addrs
  <2>6. \A d \in Calls : d # c => result'[d] = result[d]
    BY Zenon, <1>1, <2>4 DEF Types
  <2> QED
    BY Zenon, <1>1, <1>4, <1>5, <2>3, <2>4, <2>5, <2>6, LinkMoves DEF KeepsUp
<1>8. ASSUME NEW p \in {"clean", "failed"}, Goto(c, p), call[c].stage # "relay", result' = result
      PROVE  TransportInv'
  <2>1. /\ Moved(c) /\ call'[c].pc = p /\ call'[c].stage = call[c].stage
        /\ call'[c].addr = call[c].addr /\ call'[c].conn = call[c].conn
    BY Zenon, <1>1, <1>8, GotoMoves
  <2>2. BudgetOK(c)'
    <3>1. /\ result[c] = "none" /\ call[c].addr = To[c] /\ handed[c] = 0
      BY Zenon, <1>1, <1>8 DEF BudgetOK
    <3>2. handed'[c] <= 1
      BY SMTT(20), <1>6, <3>1
    <3> QED
      BY Zenon, <1>1, <1>8, <2>1, <3>1, <3>2 DEF BudgetOK
  <2>3. /\ call'[c].pc # "store" /\ call[c].pc # "store" /\ call'[c].conn # None
        /\ call'[c].addr \in Addrs /\ call[c].addr \in Addrs
        /\ result' \in [Calls -> {"none", "ok", "error"}]
    BY Zenon, <1>1, <1>2, <1>3, <1>8, <2>1, TransportBounds DEF Types
  <2> QED
    BY Zenon, <1>1, <1>4, <1>5, <1>8, <2>1, <2>2, <2>3, LinkMoves DEF KeepsUp
<1> QED
  BY Zenon, <1>1, <1>7, <1>8 DEF GoOn

\* sendDirect takes the broken connection from the table and closes it.
LEMMA CleanStep ==
  ASSUME SizeLaws, TransportInv, NEW c \in Calls, Clean(c)
  PROVE  TransportInv'
<1>1. /\ Types /\ LinkInv /\ BudgetOK(c) /\ HoldOK(c) /\ c \in Threads /\ call[c].pc = "clean"
      /\ IF table[From[c]][call[c].addr] = call[c].conn
         THEN table' = [table EXCEPT ![From[c]][call[c].addr] = None] /\ Close(call[c].conn)
         ELSE UNCHANGED <<table, conn>>
      /\ call' = [call EXCEPT
                   ![c].pc = IF c \in expired THEN "failed" ELSE "dial",
                   ![c].stage = "again", ![c].conn = None]
      /\ UNCHANGED <<fails, expired, wireVars, streams, result, handed, arrived, histVars>>
  BY Zenon DEF TransportInv, BudgetInv, HoldInv, Threads, Clean
<1>2. PICK k \in Links : k = call[c].conn
  BY Zenon, <1>1 DEF HoldOK, Types, CallRec
<1>3. PICK a \in Addrs, n \in Nodes : a = call[c].addr /\ n = From[c]
  BY Zenon, <1>1, TransportBounds DEF HoldOK
<1>4. Fades /\ SameReaders /\ Clears /\ KeepsUp
  <2>1. CASE table[n][a] = k
    <3>1. Removes(n, a, k) /\ Close(k)
      BY Zenon, <1>1, <1>2, <1>3, <2>1 DEF Removes
    <3> QED
      BY Zenon, <1>1, <1>2, <3>1, EntryRemoved, CloseFades
  <2>2. CASE table[n][a] # k
    <3>1. table' = table /\ conn' = conn
      BY Zenon, <1>1, <1>2, <1>3, <2>2
    <3> QED
      BY Zenon, <1>1, <3>1, StillClears, StillFades DEF KeepsUp
  <2> QED
    BY Zenon, <2>1, <2>2
<1>5. PICK p \in {"failed", "dial"} : p = IF c \in expired THEN "failed" ELSE "dial"
  BY Zenon
<1>6. call[c] \in CallRec /\ call' = [call EXCEPT ![c] = [call[c] EXCEPT !.pc = p, !.stage = "again", !.conn = None]]
  BY Zenon, <1>1, <1>5 DEF Types
<1>7. call'[c] = [call[c] EXCEPT !.pc = p, !.stage = "again", !.conn = None]
  BY Zenon, <1>1, <1>6 DEF Types
<1>8. PICK d \in CallRec : d = call[c]
  BY Zenon, <1>6
<1>9. [d EXCEPT !.pc = p, !.stage = "again", !.conn = None] \in CallRec
  BY Zenon DEF CallRec
<1>10. /\ call'[c].pc = p /\ call'[c].stage = "again" /\ call'[c].addr = d.addr
       /\ call'[c].conn = None
  BY Zenon, <1>7, <1>8 DEF CallRec
<1>11. Moved(c)
  BY Zenon, <1>6, <1>7, <1>8, <1>9 DEF Moved
<1>12. BudgetOK(c)'
  <2>1. call[c].pc \notin {"rest", "done"} /\ call[c].stage # "relay"
    BY Zenon, <1>1 DEF BudgetOK
  <2>2. /\ result[c] = "none" /\ d.addr = To[c] /\ handed[c] <= 1
        /\ c \notin expired => handed[c] = 0
    BY Zenon, <1>1, <1>8, <2>1 DEF BudgetOK
  <2>3. p = "failed" \/ (p = "dial" /\ c \notin expired)
    BY Zenon, <1>5
  <2> QED
    BY Zenon, <1>1, <1>10, <2>2, <2>3 DEF BudgetOK
<1>13. /\ call'[c].pc # "store" /\ call[c].pc # "store" /\ call'[c].pc \notin {"send", "clean"}
       /\ call'[c].addr \in Addrs /\ result' \in [Calls -> {"none", "ok", "error"}]
  BY Zenon, <1>1, <1>3, <1>8, <1>10 DEF Types
<1> QED
  BY Zenon, <1>1, <1>4, <1>10, <1>11, <1>12, <1>13, LinkMoves DEF KeepsUp, wireVars

\* A thread has a connection: Send will send over it, and a keeper goes on.
LEMMA GotConnection ==
  ASSUME Types, NEW t \in Threads, call[t].pc \in {"get", "dial", "store"}, call[t].addr \in Addrs,
         NEW j \in Links, Connected(t, j), handed' = handed, expired' = expired,
         t \in Calls => BudgetOK(t)
  PROVE  /\ Moved(t) /\ call'[t].pc # "store" /\ result' \in [Calls -> {"none", "ok", "error"}]
         /\ \A c \in Calls : c # t => result'[c] = result[c]
         /\ call'[t].pc \in {"get", "dial", "send", "clean"} => call'[t].addr \in Addrs
         /\ call'[t].pc \in {"send", "clean"} => call'[t].conn # None
         /\ call'[t].conn # None => call'[t].conn = j /\ call'[t].addr = call[t].addr
         /\ t \in Calls => BudgetOK(t)'
<1>1. CASE t \in Calls
  <2>1. /\ Moved(t) /\ call'[t].pc = "send" /\ call'[t].stage = call[t].stage
        /\ call'[t].addr = call[t].addr /\ call'[t].conn = j /\ call'[t].todo = call[t].todo
        /\ result' = result
    BY Zenon, <1>1, ConnectedMoves
  <2>2. BudgetOK(t)'
    BY Zenon, <1>1, <2>1, StageBudget
  <2>3. call'[t].pc # "store" /\ result' \in [Calls -> {"none", "ok", "error"}] /\ j # None
    BY Zenon, <2>1, TransportBounds DEF Types
  <2> QED
    BY Zenon, <2>1, <2>2, <2>3
<1>2. CASE t \notin Calls
  <2>1. NextRelay(t, call[t].todo) /\ call[t].todo \in SUBSET Relays
    BY Zenon, <1>2, TodoType DEF Connected
  <2>2. /\ Moved(t) /\ call'[t].conn = None /\ result' = result
        /\ \/ call'[t].pc = "get" /\ call'[t].addr \in call[t].todo
           \/ call'[t].pc \in {"rest", "done"}
    BY Zenon, <1>2, <2>1, NextRelayMoves
  <2>3. /\ call'[t].pc \in {"get", "dial", "send", "clean"} => call'[t].addr \in Addrs
        /\ call'[t].pc # "store" /\ call'[t].pc \notin {"send", "clean"}
        /\ result' \in [Calls -> {"none", "ok", "error"}]
    BY Zenon, <2>1, <2>2 DEF Addrs, Types
  <2> QED
    BY Zenon, <1>2, <2>2, <2>3
<1> QED
  BY Zenon, <1>1, <1>2

\* A connection is stored.
LEMMA StoreStep ==
  ASSUME SizeLaws, TransportInv, NEW t \in Threads, Store(t)
  PROVE  TransportInv'
<1>1. /\ Types /\ LinkInv /\ TableInv /\ HoldInv /\ NoStreamLeaks /\ StreamInv /\ WireInv
      /\ CopyInv /\ BudgetInv /\ HoldOK(t) /\ (t \in Calls => BudgetOK(t))
      /\ call[t].pc = "store"
      /\ IF table[NodeOf(t)][call[t].addr] # None
         THEN /\ Close(call[t].conn) /\ Connected(t, table[NodeOf(t)][call[t].addr])
              /\ UNCHANGED table
         ELSE /\ table' = [table EXCEPT ![NodeOf(t)][call[t].addr] = call[t].conn]
              /\ Connected(t, call[t].conn) /\ UNCHANGED conn
      /\ UNCHANGED <<fails, expired, wireVars, streams, handed, arrived, histVars>>
  BY Zenon DEF TransportInv, HoldInv, BudgetInv, Store
<1>2. PICK k \in Links : k = call[t].conn
  BY Zenon, <1>1 DEF HoldOK, Types, CallRec
<1>3. PICK a \in Addrs, n \in Nodes : a = call[t].addr /\ n = NodeOf(t)
  BY Zenon, <1>1, NodeOfType DEF HoldOK
<1>4. CASE table[n][a] # None
  <2>1. Close(k) /\ Connected(t, table[n][a]) /\ table' = table /\ table[n][a] \in Links
    BY SMTT(20), <1>1, <1>2, <1>3, <1>4 DEF Types
  <2>2. Fades /\ SameReaders /\ ~conn'[k].up /\ Clears /\ KeepsUp
    BY Zenon, <1>1, <1>2, <2>1, CloseFades, StillClears DEF KeepsUp
  <2>3. /\ Moved(t) /\ call'[t].pc # "store" /\ result' \in [Calls -> {"none", "ok", "error"}]
        /\ \A c \in Calls : c # t => result'[c] = result[c]
        /\ call'[t].pc \in {"get", "dial", "send", "clean"} => call'[t].addr \in Addrs
        /\ call'[t].pc \in {"send", "clean"} => call'[t].conn # None
        /\ call'[t].conn # None => call'[t].conn = table[n][a] /\ call'[t].addr = call[t].addr
        /\ t \in Calls => BudgetOK(t)'
    BY Zenon, <1>1, <1>3, <2>1, GotConnection
  <2> QED
    BY Zenon, <1>1, <1>2, <1>3, <2>2, <2>3, LinkMoves DEF KeepsUp, wireVars
<1>5. CASE table[n][a] = None
  <2>1. table' = [table EXCEPT ![n][a] = k] /\ Connected(t, k) /\ conn' = conn
    BY Zenon, <1>1, <1>2, <1>3, <1>5
  <2>2. UNCHANGED <<fails, expired, conn, out, back, streams, handed, arrived, early, raced>>
    BY Zenon, <1>1, <2>1 DEF wireVars, histVars
  <2>3. /\ Moved(t) /\ call'[t].pc # "store" /\ result' \in [Calls -> {"none", "ok", "error"}]
        /\ \A c \in Calls : c # t => result'[c] = result[c]
        /\ call'[t].pc \in {"get", "dial", "send", "clean"} => call'[t].addr \in Addrs
        /\ call'[t].pc \in {"send", "clean"} => call'[t].conn # None
        /\ call'[t].conn # None => call'[t].conn = k /\ call'[t].addr = call[t].addr
        /\ t \in Calls => BudgetOK(t)'
    BY Zenon, <1>1, <1>3, <2>1, <2>2, GotConnection
  <2>4. call' \in [Threads -> CallRec] /\ \A u \in Threads : u # t => call'[u] = call[u]
    BY Zenon, <1>1, <2>3, MovedType
  <2>5. /\ table' \in [Nodes -> [Addrs -> Links \union {None}]] /\ table'[n][a] = k
        /\ \A m \in Nodes, b \in Addrs : m # n \/ b # a => table'[m][b] = table[m][b]
    BY SMTT(20), <1>1, <2>1 DEF Types
  <2>6. /\ k # None /\ (Alive(k) => conn[k].from = n /\ conn[k].to = a)
        /\ conn[k].loop \/ k \in early
    BY Zenon, <1>1, <1>2, <1>3 DEF HoldOK
  <2>7. Types'
    BY Zenon, <1>1, <2>2, <2>3, <2>4, <2>5 DEF Types
  <2>8. LinkInv' /\ StreamInv' /\ WireInv'
    <3>1. LinkInv'
      BY Zenon, <1>1, <2>2 DEF LinkInv, Alive
    <3>2. StreamInv'
      <4>1. StreamInv /\ conn' = conn /\ streams' = streams /\ raced' = raced
        BY Zenon, <1>1, <2>2
      <4> QED
        BY SMTT(20), <4>1 DEF StreamInv
    <3>3. WireInv'
      BY Zenon, <1>1, <2>2 DEF WireInv
    <3> QED
      BY Zenon, <3>1, <3>2, <3>3
  <2>9. CopyInv'
    BY Zenon, <1>1, <2>2, WireKept
  <2>10. TableInv'
    <3> SUFFICES ASSUME NEW m \in Nodes, NEW b \in Addrs, table'[m][b] # None
                 PROVE  /\ Alive(table'[m][b]) =>
                             conn[table'[m][b]].from = m /\ conn[table'[m][b]].to = b
                        /\ conn[table'[m][b]].loop \/ table'[m][b] \in early
      BY SMTT(20), <2>2 DEF TableInv, Alive
    <3>1. CASE m = n /\ b = a
      BY Zenon, <2>5, <2>6, <3>1
    <3>2. CASE m # n \/ b # a
      <4>1. PICK x : x = table[m][b]
        BY Zenon
      <4>2. table'[m][b] = x
        BY Zenon, <2>5, <3>2, <4>1
      <4>3. /\ Alive(x) => conn[x].from = m /\ conn[x].to = b
            /\ conn[x].loop \/ x \in early
        BY SMTT(20), <1>1, <4>1, <4>2 DEF TableInv, Alive
      <4> QED
        BY Zenon, <4>2, <4>3
    <3> QED
      BY Zenon, <3>1, <3>2
  <2>11. NoStreamLeaks'
    <3> SUFFICES ASSUME NEW j \in Links, conn[j].up
                 PROVE  \/ table'[conn[j].from][conn[j].to] = j
                        \/ \E u \in Threads : call'[u].pc = "store" /\ call'[u].conn = j
      BY Zenon, <2>2 DEF NoStreamLeaks
    <3>1. Alive(j) /\ conn[j].from \in Nodes /\ conn[j].to \in Addrs
      BY Zenon, <1>1 DEF LinkInv, Alive
    <3>2. CASE j = k
      BY Zenon, <2>5, <2>6, <3>1, <3>2
    <3>3. CASE j # k /\ table[conn[j].from][conn[j].to] = j
      <4>1. conn[j].from # n \/ conn[j].to # a
        <5>1. j # None
          BY Zenon, TransportBounds
        <5> QED
          BY Zenon, <1>5, <3>3, <5>1
      <4> QED
        BY Zenon, <2>5, <3>1, <3>3, <4>1
    <3>4. CASE j # k /\ \E u \in Threads : call[u].pc = "store" /\ call[u].conn = j
      BY Zenon, <1>2, <2>4, <3>4
    <3> QED
      BY Zenon, <1>1, <3>2, <3>3, <3>4 DEF NoStreamLeaks
  <2>12. BudgetInv'
    BY Zenon, <1>1, <2>2, <2>3, OtherBudgets
  <2>13. ASSUME NEW u \in Threads, u # t PROVE HoldOK(u)'
    <3>1. HoldOK(u) /\ call'[u] = call[u]
      BY Zenon, <1>1, <2>4, <2>13 DEF HoldInv
    <3>2. ASSUME call[u].pc = "store"
          PROVE  /\ \A m \in Nodes, b \in Addrs : table'[m][b] # call[u].conn
                 /\ \A v \in Threads : v # u => call'[v].conn # call[u].conn
      <4>1. /\ call[u].conn # None /\ call[u].conn # k
            /\ \A m \in Nodes, b \in Addrs : table[m][b] # call[u].conn
            /\ \A v \in Threads : v # u => call[v].conn # call[u].conn
        BY Zenon, <1>2, <2>13, <3>1, <3>2 DEF HoldOK
      <4>2. \A m \in Nodes, b \in Addrs : table'[m][b] # call[u].conn
        BY <2>5, <4>1
      <4>3. ASSUME NEW v \in Threads, v # u PROVE call'[v].conn # call[u].conn
        BY Zenon, <2>3, <2>4, <4>1, <4>3
      <4> QED
        BY Zenon, <4>2, <4>3
    <3> QED
      BY Zenon, <2>2, <3>1, <3>2 DEF HoldOK, Alive, NodeOf
  <2>14. HoldOK(t)'
    <3>1. call'[t].conn # None /\ Alive(call'[t].conn) =>
            conn[call'[t].conn].from = NodeOf(t) /\ conn[call'[t].conn].to = call'[t].addr
      BY Zenon, <1>3, <2>3, <2>6
    <3>2. call'[t].pc \in {"get", "dial", "store", "send", "clean"} => call'[t].addr \in Addrs
      BY Zenon, <2>3
    <3>3. call'[t].pc \in {"store", "send", "clean"} => call'[t].conn # None
      BY Zenon, <2>3
    <3> QED
      BY Zenon, <2>2, <2>3, <3>1, <3>2, <3>3 DEF HoldOK, Alive, NodeOf
  <2>15. HoldInv'
    BY Zenon, <2>13, <2>14 DEF HoldInv
  <2> QED
    BY Zenon, <2>7, <2>8, <2>9, <2>10, <2>11, <2>12, <2>15 DEF TransportInv
<1> QED
  BY Zenon, <1>4, <1>5

\* The stream that a relay has noted for a daemon.
LEMMA NotedStream ==
  ASSUME StreamInv, NEW r \in Relays, NEW n \in Nodes, NEW x, x = streams[r][n], x # None
  PROVE  conn[x].handler = "in" /\ conn[x].from = n /\ conn[x].to = r
  BY DEF StreamInv

\* A connection is made: nobody else knows of it yet.
LEMMA DialStep ==
  ASSUME TransportInv, NEW t \in Threads, Dial(t)
  PROVE  TransportInv'
<1>1. /\ Types /\ LinkInv /\ TableInv /\ HoldInv /\ NoStreamLeaks /\ StreamInv /\ WireInv
      /\ CopyInv /\ BudgetInv /\ HoldOK(t) /\ call[t].pc = "dial"
  BY Zenon DEF TransportInv, HoldInv, Dial
<1>2. PICK a \in Addrs, n \in Nodes : a = call[t].addr /\ n = NodeOf(t)
  BY Zenon, <1>1, NodeOfType DEF HoldOK
<1>3. PICK k \in Unused :
        /\ conn' = Opened(n, a, k) /\ early' = early \ {k}
        /\ call' = [call EXCEPT ![t].pc = "store", ![t].conn = k]
        /\ raced' = IF Doubles(n, a) THEN raced \union {<<n, a>>} ELSE raced
  BY Zenon, <1>2 DEF Dial
<1>4. UNCHANGED <<table, fails, expired, out, back, streams, result, handed, arrived, breaks>>
  BY Zenon DEF Dial, wireVars
<1>5. /\ k \in Links /\ conn[k] = NoLink /\ k # None
      /\ \A u \in Threads : call[u].conn # k
      /\ \A m \in Nodes, b \in Addrs : table[m][b] # k
  BY TransportBounds DEF Unused, Held, Stored
<1>6. PICK e : e = [from |-> n, to |-> a, up |-> TRUE, loop |-> TRUE,
                    handler |-> IF a \in Relays THEN "new" ELSE "in"]
  BY Zenon
<1>7. /\ e \in LinkRec /\ e.from = n /\ e.to = a /\ e.up /\ e.loop
      /\ e.handler = IF a \in Relays THEN "new" ELSE "in"
  BY Zenon, <1>6 DEF LinkRec
<1>8. conn \in [Links -> LinkRec] /\ conn' = [conn EXCEPT ![k] = e]
  BY Zenon, <1>1, <1>3, <1>6 DEF Types, Opened
<1>9. conn' \in [Links -> LinkRec] /\ conn'[k] = e /\ \A j \in Links : j # k => conn'[j] = conn[j]
  BY Zenon, <1>5, <1>7, <1>8
<1>10. PICK d \in CallRec : d = call[t]
  BY Zenon, <1>1 DEF Types
<1>11. call' = [call EXCEPT ![t] = [call[t] EXCEPT !.pc = "store", !.conn = k]]
  BY Zenon, <1>1, <1>3 DEF Types
<1>12. call'[t] = [d EXCEPT !.pc = "store", !.conn = k]
  BY Zenon, <1>1, <1>10, <1>11 DEF Types
<1>13. call'[t] \in CallRec
  BY Zenon, <1>5, <1>12 DEF CallRec
<1>14. /\ call'[t].pc = "store" /\ call'[t].conn = k /\ call'[t].addr = a
       /\ call'[t].stage = call[t].stage /\ call'[t].todo = call[t].todo
  BY Zenon, <1>2, <1>10, <1>12 DEF CallRec
<1>15. Moved(t)
  BY Zenon, <1>10, <1>11, <1>12, <1>13 DEF Moved
<1>16. call' \in [Threads -> CallRec] /\ \A u \in Threads : u # t => call'[u] = call[u]
  BY Zenon, <1>1, <1>15, MovedType
<1>17. raced' \subseteq Nodes \X Relays /\ raced \subseteq raced'
  BY <1>1, <1>3 DEF Types, Doubles
<1>18. Types'
  <2>1. early' \subseteq Links
    BY Zenon, <1>1, <1>3 DEF Types
  <2> QED
    BY Zenon, <1>1, <1>4, <1>9, <1>16, <1>17, <2>1 DEF Types
<1>19. LinkInv'
  <2> SUFFICES ASSUME NEW j \in Links
               PROVE  /\ conn'[j].loop \/ conn'[j].handler # "ended" =>
                           conn'[j].from \in Nodes /\ conn'[j].to \in Addrs
                      /\ conn'[j].up => conn'[j].loop /\ conn'[j].handler # "ended"
                      /\ conn'[j].handler = "new" => conn'[j].to \in Relays
    BY Zenon DEF LinkInv, Alive
  <2>1. CASE j = k
    BY Zenon, <1>7, <1>9, <2>1
  <2>2. CASE j # k
    BY Zenon, <1>1, <1>9, <2>2 DEF LinkInv, Alive
  <2> QED
    BY Zenon, <2>1, <2>2
<1>20. TableInv'
  <2> SUFFICES ASSUME NEW m \in Nodes, NEW b \in Addrs, table[m][b] # None
               PROVE  /\ conn'[table[m][b]].loop \/ conn'[table[m][b]].handler # "ended" =>
                           conn'[table[m][b]].from = m /\ conn'[table[m][b]].to = b
                      /\ conn'[table[m][b]].loop \/ table[m][b] \in early'
    BY ZenonT(60), <1>4 DEF TableInv, Alive
  <2>1. PICK x \in Links : x = table[m][b]
    BY <1>1 DEF Types
  <2>2. x # k /\ conn'[x] = conn[x]
    BY Zenon, <1>5, <1>9, <2>1
  <2>3. /\ conn[x].loop \/ conn[x].handler # "ended" => conn[x].from = m /\ conn[x].to = b
        /\ conn[x].loop \/ x \in early
    BY ZenonT(30), <1>1, <2>1 DEF TableInv, Alive
  <2>4. x \in early => x \in early'
    BY Zenon, <1>3, <2>2
  <2> QED
    BY Zenon, <2>1, <2>2, <2>3, <2>4
<1>21. HoldInv'
  <2>1. ASSUME NEW u \in Threads, u # t PROVE HoldOK(u)'
    <3>1. PICK r \in CallRec : r = call[u]
      BY Zenon, <1>1 DEF Types
    <3>2. call'[u] = r /\ HoldOK(u)
      BY Zenon, <1>1, <1>16, <2>1, <3>1 DEF HoldInv
    <3>3. r.conn # k /\ (r.conn # None => r.conn \in Links)
      BY Zenon, <1>5, <3>1 DEF CallRec
    <3>4. r.conn # None => conn'[r.conn] = conn[r.conn]
      BY Zenon, <1>9, <3>3
    <3>5. r.conn \in early => r.conn \in early'
      BY Zenon, <1>3, <3>3
    <3>6. \A v \in Threads : v # u => call'[v].conn = call[v].conn \/ call'[v].conn = k
      BY Zenon, <1>14, <1>16
    <3>7. r.pc = "store" => r.conn # None /\ \A v \in Threads : v # u => call'[v].conn # r.conn
      <4>1. r.pc = "store" => r.conn # None /\ \A v \in Threads : v # u => call[v].conn # r.conn
        BY Zenon, <3>1, <3>2 DEF HoldOK
      <4> QED
        BY Zenon, <3>3, <3>6, <4>1
    <3> QED
      BY Zenon, <1>4, <3>1, <3>2, <3>4, <3>5, <3>7 DEF HoldOK, Alive, NodeOf
  <2>2. HoldOK(t)'
    <3>1. conn'[k].from = NodeOf(t) /\ conn'[k].to = call'[t].addr /\ conn'[k].loop
      BY Zenon, <1>2, <1>7, <1>9, <1>14
    <3>2. \A u \in Threads : u # t => call'[u].conn # k
      BY Zenon, <1>5, <1>16
    <3>3. \A m \in Nodes, b \in Addrs : table'[m][b] # k
      BY Zenon, <1>4, <1>5
    <3>4. call'[t].addr \in Addrs
      BY Zenon, <1>14
    <3> QED
      BY Zenon, <1>5, <1>14, <3>1, <3>2, <3>3, <3>4 DEF HoldOK, NodeOf
  <2> QED
    BY Zenon, <2>1, <2>2 DEF HoldInv
<1>22. NoStreamLeaks'
  <2> SUFFICES ASSUME NEW j \in Links, conn'[j].up
               PROVE  \/ table'[conn'[j].from][conn'[j].to] = j
                      \/ \E u \in Threads : call'[u].pc = "store" /\ call'[u].conn = j
    BY Zenon DEF NoStreamLeaks
  <2>1. CASE j = k
    BY Zenon, <1>14, <2>1
  <2>2. CASE j # k
    <3>1. conn'[j] = conn[j] /\ conn[j].up
      BY Zenon, <1>9, <2>2
    <3>2. \A u \in Threads : call[u].pc = "store" => call'[u] = call[u]
      <4>1. call[t].pc # "store"
        BY Zenon, <1>1
      <4> QED
        BY Zenon, <1>16, <4>1
    <3>3. \/ table[conn[j].from][conn[j].to] = j
          \/ \E u \in Threads : call[u].pc = "store" /\ call[u].conn = j
      BY Zenon, <1>1, <3>1 DEF NoStreamLeaks
    <3> QED
      BY Zenon, <1>4, <3>1, <3>2, <3>3
  <2> QED
    BY Zenon, <2>1, <2>2
<1>23. StreamInv'
  <2>1. ASSUME NEW r \in Relays, NEW m \in Nodes, streams'[r][m] # None
        PROVE  /\ conn'[streams'[r][m]].handler = "in"
               /\ conn'[streams'[r][m]].from = m /\ conn'[streams'[r][m]].to = r
    <3>1. PICK x \in Links : x = streams[r][m] /\ x = streams'[r][m]
      BY SMTT(20), <1>1, <1>4, <2>1 DEF Types
    <3>2. conn[x].handler = "in" /\ conn[x].from = m /\ conn[x].to = r
      <4>1. x = streams[r][m] /\ x # None
        BY Zenon, <2>1, <3>1
      <4> QED
        BY SMTT(20), <1>1, <4>1, NotedStream
    <3>3. x # k
      <4>1. NoLink.handler # "in"
        BY Zenon DEF NoLink
      <4> QED
        BY Zenon, <1>5, <3>2, <4>1
    <3> QED
      BY Zenon, <1>9, <3>1, <3>2, <3>3
  <2>2. ASSUME NEW j \in Links, conn'[j].up, conn'[j].handler = "in", conn'[j].to \in Relays
        PROVE  streams'[conn'[j].to][conn'[j].from] = j \/ <<conn'[j].from, conn'[j].to>> \in raced'
    <3>1. j # k
      BY Zenon, <1>7, <1>9, <2>2
    <3>2. conn'[j] = conn[j]
      BY Zenon, <1>9, <3>1
    <3>3. streams[conn[j].to][conn[j].from] = j \/ <<conn[j].from, conn[j].to>> \in raced
      BY Zenon, <1>1, <2>2, <3>2 DEF StreamInv
    <3> QED
      BY Zenon, <1>4, <1>17, <3>2, <3>3
  <2>3. ASSUME NEW j \in Links, j # k, conn'[j].from = n, conn'[j].to = a, a \in Relays,
               conn'[j].handler # "ended", conn'[j].up \/ conn'[j].handler = "new"
        PROVE  <<n, a>> \in raced'
    <3>1. conn'[j] = conn[j]
      BY Zenon, <1>9, <2>3
    <3>2. Doubles(n, a)
      BY Zenon, <2>3, <3>1 DEF Doubles
    <3> QED
      BY Zenon, <1>3, <3>2
  <2>4. ASSUME NEW i \in Links, NEW j \in Links, i # j, conn'[i].from = conn'[j].from,
               conn'[i].to = conn'[j].to, conn'[j].to \in Relays,
               conn'[i].handler # "ended", conn'[i].up \/ conn'[i].handler = "new",
               conn'[j].handler # "ended", conn'[j].up \/ conn'[j].handler = "new"
        PROVE  <<conn'[j].from, conn'[j].to>> \in raced'
    <3>1. CASE i = k
      <4>1. conn'[j].from = n /\ conn'[j].to = a /\ j # k
        BY Zenon, <1>7, <1>9, <2>4, <3>1
      <4> QED
        BY Zenon, <2>3, <2>4, <4>1
    <3>2. CASE j = k
      <4>1. conn'[j].from = n /\ conn'[j].to = a /\ i # k
        BY Zenon, <1>7, <1>9, <2>4, <3>2
      <4> QED
        BY Zenon, <2>3, <2>4, <4>1
    <3>3. CASE i # k /\ j # k
      <4>1. conn'[i] = conn[i] /\ conn'[j] = conn[j]
        BY Zenon, <1>9, <3>3
      <4>2. /\ conn[i].from = conn[j].from /\ conn[i].to = conn[j].to /\ conn[j].to \in Relays
            /\ conn[i].handler # "ended" /\ (conn[i].up \/ conn[i].handler = "new")
            /\ conn[j].handler # "ended" /\ (conn[j].up \/ conn[j].handler = "new")
        BY Zenon, <2>4, <4>1
      <4>3. <<conn[j].from, conn[j].to>> \in raced
        BY Zenon, <1>1, <2>4, <4>2 DEF StreamInv
      <4> QED
        BY Zenon, <1>17, <4>1, <4>3
    <3> QED
      BY Zenon, <3>1, <3>2, <3>3
  <2> QED
    BY Zenon, <2>1, <2>2, <2>4 DEF StreamInv
<1>24. WireInv'
  <2> SUFFICES ASSUME NEW j \in Links
               PROVE  /\ out[j] # <<>> => conn'[j].handler # "ended"
                      /\ back[j] # <<>> => conn'[j].loop
                      /\ \A i \in 1..Len(out[j]) : conn'[j].to \in Nodes => conn'[j].to = To[out[j][i]]
                      /\ \A i \in 1..Len(back[j]) : conn'[j].from = To[back[j][i]]
    BY Zenon, <1>4 DEF WireInv
  <2>1. CASE j = k
    <3>1. out[j] = <<>> /\ back[j] = <<>>
      BY SMTT(20), <1>1, <1>5, <2>1 DEF WireInv, NoLink
    <3> QED
      BY SMTT(20), <3>1
  <2>2. CASE j # k
    <3>1. conn'[j] = conn[j]
      BY Zenon, <1>9, <2>2
    <3> QED
      BY Zenon, <1>1, <3>1 DEF WireInv
  <2> QED
    BY Zenon, <2>1, <2>2
<1>25. CopyInv'
  BY Zenon, <1>1, <1>4, WireKept
<1>26. BudgetInv'
  <2>1. t \in Calls => BudgetOK(t)'
    BY Zenon, <1>1, <1>4, <1>2, <1>14, StageBudget DEF BudgetInv
  <2> QED
    BY Zenon, <1>1, <1>4, <1>15, <2>1, OtherBudgets
<1> QED
  BY Zenon, <1>18, <1>19, <1>20, <1>21, <1>22, <1>23, <1>24, <1>25, <1>26 DEF TransportInv

\* Connections are closed and entries removed, and nothing else happens.
LEMMA FadeStep ==
  ASSUME TransportInv, Fades, SameReaders, Clears, KeepsUp,
         UNCHANGED <<fails, callVars, wireVars, streams, result, handed, arrived, early, raced>>
  PROVE  TransportInv'
<1>1. /\ Types /\ LinkInv /\ TableInv /\ HoldInv /\ NoStreamLeaks /\ StreamInv /\ WireInv
      /\ CopyInv /\ BudgetInv
  BY Zenon DEF TransportInv
<1>2. UNCHANGED <<fails, call, expired, out, back, streams, result, handed, arrived, early, raced>>
  BY Zenon DEF callVars, wireVars
<1>3. Types'
  BY Zenon, <1>1, <1>2 DEF Types, Fades, Clears
<1>4. LinkInv'
  BY Zenon, <1>1, FadesLink
<1>5. TableInv'
  <2> SUFFICES ASSUME NEW n \in Nodes, NEW a \in Addrs, table'[n][a] # None
               PROVE  conn'[table[n][a]].loop \/ table[n][a] \in early'
    BY Zenon, <1>1, FadesTable
  <2>1. table[n][a] \in Links /\ table[n][a] # None
    BY <1>1 DEF Clears, Types
  <2> QED
    BY Zenon, <1>1, <1>2, <2>1 DEF TableInv, SameReaders
<1>6. HoldInv'
  <2> SUFFICES ASSUME NEW u \in Threads PROVE HoldOK(u)'
    BY Zenon DEF HoldInv
  <2>1. call[u].pc = "store" => conn'[call[u].conn].loop \/ call[u].conn \in early'
    <3>1. call[u].pc = "store" =>
            call[u].conn # None /\ (conn[call[u].conn].loop \/ call[u].conn \in early)
      BY Zenon, <1>1 DEF HoldInv, HoldOK
    <3>2. call[u].conn # None => call[u].conn \in Links
      BY Zenon, <1>1 DEF Types, CallRec
    <3> QED
      BY Zenon, <1>2, <3>1, <3>2 DEF SameReaders
  <2>2. \A v \in Threads : call'[v].conn \in {None, call[v].conn}
    BY Zenon, <1>2
  <2> QED
    BY Zenon, <1>1, <1>2, <2>1, <2>2, HoldKept
<1>7. NoStreamLeaks'
  BY Zenon, <1>1, <1>2, FadesLeak DEF KeepsUp
<1>8. StreamInv'
  BY Zenon, <1>1, <1>2, FadesStream DEF SameReaders
<1>9. WireInv'
  <2>1. \A j \in Links : out'[j] = out[j] /\ (out[j] # <<>> => conn'[j].handler # "ended")
    BY Zenon, <1>1, <1>2 DEF WireInv, SameReaders
  <2>2. \A j \in Links : back'[j] = back[j] /\ (back[j] # <<>> => conn'[j].loop)
    BY Zenon, <1>1, <1>2 DEF WireInv, SameReaders
  <2> QED
    BY Zenon, <1>1, <2>1, <2>2, FadesWire
<1>10. CopyInv'
  BY Zenon, <1>1, <1>2, WireKept
<1>11. BudgetInv'
  BY Zenon, <1>1, <1>2, BudgetKept DEF BudgetInv
<1> QED
  BY Zenon, <1>3, <1>4, <1>5, <1>6, <1>7, <1>8, <1>9, <1>10, <1>11 DEF TransportInv

\* A stream breaks.
LEMMA BreakStep ==
  ASSUME TransportInv, NEW k \in Links, StreamBreaks(k)
  PROVE  TransportInv'
<1>1. /\ Types /\ LinkInv /\ Close(k) /\ table' = table
      /\ UNCHANGED <<fails, callVars, wireVars, streams, result, handed, arrived, early, raced>>
  BY Zenon DEF TransportInv, StreamBreaks
<1>2. Fades /\ SameReaders /\ Clears /\ KeepsUp
  BY Zenon, <1>1, CloseFades, StillClears DEF KeepsUp
<1> QED
  BY Zenon, <1>1, <1>2, FadeStep

\* A daemon closes its connections, and those made to it go down.
LEMMA ShutdownStep ==
  ASSUME TransportInv, NEW n \in Nodes, Shutdown(n)
  PROVE  TransportInv'
<1>1. Types /\ LinkInv
  BY Zenon DEF TransportInv
<1>2. PICK open : open = {k \in Links : /\ conn[k].up
                                        /\ \/ conn[k].to = n
                                           \/ conn[k].from = n /\ table[n][conn[k].to] = k}
  BY Zenon
<1>3. /\ table' = [table EXCEPT ![n] = [a \in Addrs |-> None]]
      /\ conn' = [k \in Links |-> IF k \in open THEN [conn[k] EXCEPT !.up = FALSE] ELSE conn[k]]
      /\ UNCHANGED <<fails, callVars, wireVars, streams, result, handed, arrived, early, raced>>
  BY Zenon, <1>2 DEF Shutdown
<1>4. ASSUME NEW k \in Links
      PROVE  /\ conn'[k].from = conn[k].from /\ conn'[k].to = conn[k].to
             /\ conn'[k].up => conn[k].up /\ k \notin open
             /\ conn'[k].loop = conn[k].loop /\ conn'[k].handler = conn[k].handler
             /\ conn'[k] \in LinkRec
  <2>1. PICK c \in LinkRec : c = conn[k]
    BY Zenon, <1>1 DEF Types
  <2>2. CASE k \in open
    <3>1. conn'[k] = [c EXCEPT !.up = FALSE]
      BY Zenon, <1>3, <2>1, <2>2
    <3> QED
      BY Zenon, <2>1, <3>1 DEF LinkRec
  <2>3. CASE k \notin open
    BY Zenon, <1>3, <2>1, <2>3
  <2> QED
    BY Zenon, <2>2, <2>3
<1>5. conn' \in [Links -> LinkRec]
  BY Zenon, <1>3, <1>4
<1>6. Fades /\ SameReaders
  BY Zenon, <1>1, <1>4, <1>5 DEF Fades, SameReaders, LinkInv
<1>7. /\ table' \in [Nodes -> [Addrs -> Links \union {None}]]
      /\ \A a \in Addrs : table'[n][a] = None
      /\ \A m \in Nodes : m # n => table'[m] = table[m]
  BY Zenon, <1>1, <1>3 DEF Types
<1>8. Clears
  BY Zenon, <1>7 DEF Clears
<1>9. KeepsUp
  <2> SUFFICES ASSUME NEW k \in Links, conn'[k].up, table[conn[k].from][conn[k].to] = k
               PROVE  table'[conn[k].from][conn[k].to] = k
    BY Zenon DEF KeepsUp
  <2>1. conn[k].up /\ k \notin open /\ conn[k].from \in Nodes
    BY Zenon, <1>1, <1>4 DEF LinkInv, Alive
  <2>2. conn[k].from # n
    BY Zenon, <1>2, <2>1
  <2> QED
    BY Zenon, <1>7, <2>1, <2>2
<1> QED
  BY Zenon, <1>3, <1>6, <1>8, <1>9, FadeStep

\* Messages move along the streams, and nothing else happens.
LEMMA WireStep ==
  ASSUME TransportInv,
         UNCHANGED <<table, fails, callVars, conn, streams, result, handed, histVars>>,
         out' \in [Links -> Seq(Calls)], back' \in [Links -> Seq(Calls)],
         arrived' \in [Nodes -> [Calls -> Nat]],
         \A d \in Calls : Counted(out', back', arrived'[To[d]][d], handed[d], d),
         \A j \in Links : /\ out'[j] # <<>> => conn[j].handler # "ended"
                          /\ \A i \in 1..Len(out'[j]) : conn[j].to \in Nodes => conn[j].to = To[out'[j][i]],
         \A j \in Links : /\ back'[j] # <<>> => conn[j].loop
                          /\ \A i \in 1..Len(back'[j]) : conn[j].from = To[back'[j][i]]
  PROVE  TransportInv'
<1>1. /\ Types /\ LinkInv /\ TableInv /\ HoldInv /\ NoStreamLeaks /\ StreamInv /\ BudgetInv
  BY Zenon DEF TransportInv
<1>2. UNCHANGED <<table, fails, call, expired, conn, streams, result, handed, early, raced>>
  BY Zenon DEF callVars, histVars
<1>3. Types'
  BY Zenon, <1>1, <1>2 DEF Types
<1>4. LinkInv' /\ TableInv' /\ StreamInv'
  BY Zenon, <1>1, <1>2, TablesKept, StreamsKept
<1>5. HoldInv'
  BY Zenon, <1>1, <1>2, HoldsKept
<1>6. NoStreamLeaks'
  BY Zenon, <1>1, <1>2 DEF NoStreamLeaks
<1>7. WireInv'
  <2>1. UNCHANGED conn
    BY Zenon, <1>2
  <2> QED
    BY SMTT(20), <2>1 DEF WireInv
<1>8. CopyInv'
  BY Zenon, <1>2 DEF CopyInv, Counted, Places
<1>9. BudgetInv'
  BY Zenon, <1>1, <1>2, BudgetKept DEF BudgetInv
<1> QED
  BY Zenon, <1>3, <1>4, <1>5, <1>6, <1>7, <1>8, <1>9 DEF TransportInv

\* What the invariant says about the messages on the streams, message by message.
LEMMA CountNow ==
  ASSUME TransportInv, NEW d \in Calls
  PROVE  /\ Counted(out, back, arrived[To[d]][d], handed[d], d)
         /\ arrived[To[d]][d] \in Nat /\ handed[d] \in Nat
  BY TransportBounds DEF TransportInv, CopyInv, Counted, Types

\* The first message of the stream of k is one that was on it, and g holds none
\* that f does not.
FirstRead(f, g, k) ==
  /\ Head(f[k]) \in Calls /\ 1 \in 1..Len(f[k]) /\ f[k][1] = Head(f[k])
  /\ \A j \in Links : g[j] # <<>> => f[j] # <<>>
  /\ \A j \in Links : \A i \in 1..Len(g[j]) : \E m \in 1..Len(f[j]) : g[j][i] = f[j][m]

\* A stream after its first message is read.
LEMMA TailWire ==
  ASSUME NEW f \in [Links -> Seq(Calls)], NEW k \in Links, f[k] # <<>>,
         NEW g, Changed(f, g, k, Tail(f[k]))
  PROVE  FirstRead(f, g, k)
<1>1. /\ Head(f[k]) \in Calls /\ 1 \in 1..Len(f[k]) /\ f[k][1] = Head(f[k])
      /\ g[k] = Tail(f[k]) /\ \A j \in Links : j # k => g[j] = f[j]
  BY DEF Changed
<1>2. \A j \in Links : g[j] # <<>> => f[j] # <<>>
  BY Zenon, <1>1
<1>3. ASSUME NEW j \in Links, NEW i \in 1..Len(g[j])
      PROVE  \E m \in 1..Len(f[j]) : g[j][i] = f[j][m]
  <2>1. CASE j # k
    BY Zenon, <1>1, <2>1
  <2>2. CASE j = k
    <3>1. /\ Len(g[k]) = Len(f[k]) - 1 /\ Len(f[k]) \in Nat /\ i \in 1..(Len(f[k]) - 1)
          /\ g[k][i] = f[k][i + 1]
      BY <1>1, <2>2
    <3>2. i + 1 \in 1..Len(f[k])
      BY <3>1
    <3> QED
      BY Zenon, <2>2, <3>1, <3>2
  <2> QED
    BY Zenon, <2>1, <2>2
<1> QED
  BY Zenon, <1>1, <1>2, <1>3 DEF FirstRead

\* A message arrives at a daemon.
LEMMA ReceiveCounts ==
  ASSUME Types, NEW n \in Nodes, NEW c \in Calls, Receive(n, c), n = To[c]
  PROVE  /\ arrived' \in [Nodes -> [Calls -> Nat]]
         /\ \A d \in Calls : arrived'[To[d]][d] = IF c = d THEN arrived[To[d]][d] + 1
                                                          ELSE arrived[To[d]][d]
<1>1. arrived \in [Nodes -> [Calls -> Nat]] /\ To \in [Calls -> Nodes]
  BY Zenon, TransportBounds DEF Types
<1>2. arrived' = [arrived EXCEPT ![n] = [arrived[n] EXCEPT ![c] = arrived[n][c] + 1]]
  BY Zenon, <1>1 DEF Receive
<1>3. arrived[n] \in [Calls -> Nat] /\ arrived[n][c] + 1 \in Nat
  BY <1>1
<1>4. [arrived[n] EXCEPT ![c] = arrived[n][c] + 1] \in [Calls -> Nat]
  BY Zenon, <1>3
<1>5. arrived' \in [Nodes -> [Calls -> Nat]]
  BY Zenon, <1>1, <1>2, <1>4
<1>6. /\ arrived'[n] = [arrived[n] EXCEPT ![c] = arrived[n][c] + 1]
      /\ \A m \in Nodes : m # n => arrived'[m] = arrived[m]
  BY Zenon, <1>1, <1>2
<1> QED
  BY SMTT(20), <1>1, <1>3, <1>5, <1>6

\* A daemon receives what a relay has forwarded.
LEMMA LoopReceivesStep ==
  ASSUME SizeLaws, TransportInv, NEW k \in Links, LoopReceives(k)
  PROVE  TransportInv'
<1>1. /\ Types /\ LinkInv /\ WireInv /\ conn[k].loop /\ back[k] # <<>>
      /\ Receive(conn[k].from, Head(back[k])) /\ out' = out
      /\ UNCHANGED <<table, fails, callVars, conn, streams, result, handed, histVars>>
  BY Zenon DEF TransportInv, LoopReceives
<1>2. PICK f \in [Links -> Seq(Calls)] : f = back
  BY Zenon, <1>1 DEF Types
<1>2b. PICK g : g = back'
  BY Zenon
<1>3. Changed(f, g, k, Tail(f[k])) /\ f[k] # <<>>
  BY Zenon, <1>1, <1>2, <1>2b DEF LoopReceives, Changed
<1>4. /\ Head(f[k]) \in Calls /\ 1 \in 1..Len(f[k]) /\ f[k][1] = Head(f[k])
      /\ \A j \in Links : g[j] # <<>> => f[j] # <<>>
      /\ \A j \in Links : \A i \in 1..Len(g[j]) : \E m \in 1..Len(f[j]) : g[j][i] = f[j][m]
  <2>1. FirstRead(f, g, k)
    BY Zenon, <1>3, TailWire
  <2> QED
    BY Zenon, <2>1 DEF FirstRead
<1>5. \A j \in Links : /\ f[j] # <<>> => conn[j].loop
                       /\ \A i \in 1..Len(f[j]) : conn[j].from = To[f[j][i]]
  BY Zenon, <1>1, <1>2, <1>2b DEF WireInv
<1>6. PICK c \in Calls, n \in Nodes : c = Head(f[k]) /\ n = conn[k].from
  BY Zenon, <1>1, <1>4 DEF LinkInv, Alive
<1>7. n = To[c] /\ Receive(n, c)
  <2>1. f[k][1] = c /\ 1 \in 1..Len(f[k])
    BY Zenon, <1>4, <1>6
  <2>2. n = To[f[k][1]]
    BY Zenon, <1>5, <1>6, <2>1
  <2> QED
    BY Zenon, <1>1, <1>2, <1>2b, <1>6, <2>1, <2>2
<1>8. /\ arrived' \in [Nodes -> [Calls -> Nat]]
      /\ \A d \in Calls : arrived'[To[d]][d] = IF c = d THEN arrived[To[d]][d] + 1
                                                       ELSE arrived[To[d]][d]
  BY <1>1, <1>7, ReceiveCounts
<1>9. ASSUME NEW d \in Calls
      PROVE  Counted(out', g, arrived'[To[d]][d], handed[d], d) /\ g \in [Links -> Seq(Calls)]
  <2>1. PICK ar \in Nat, h \in Nat : ar = arrived[To[d]][d] /\ h = handed[d]
    BY Zenon, CountNow
  <2>1b. PICK o : o = out
    BY Zenon
  <2>2. Counted(o, f, ar, h, d)
    BY Zenon, <1>2, <1>2b, <2>1, <2>1b, CountNow
  <2>3. Counted(f, o, ar, h, d)
    BY Zenon, <2>2, CountSwap
  <2>4. PICK as : as = arrived'[To[d]][d]
    BY Zenon
  <2>5. as = ar \/ (Head(f[k]) = d /\ as = ar + 1)
    BY Zenon, <1>6, <1>8, <2>1, <2>1b, <2>4
  <2>6. Counted(g, o, as, h, d) /\ g \in [Links -> Seq(Calls)]
    BY Zenon, <1>3, <2>3, <2>5, CountRead
  <2>7. as \in Nat
    <3>1. ar + 1 \in Nat
      OBVIOUS
    <3> QED
      BY Zenon, <2>5, <3>1
  <2>8. Counted(o, g, as, h, d)
    BY Zenon, <2>6, <2>7, CountSwap
  <2> QED
    BY Zenon, <1>1, <2>1, <2>1b, <2>4, <2>6, <2>8
<1>10. /\ \A d \in Calls : Counted(out', back', arrived'[To[d]][d], handed[d], d)
       /\ back' \in [Links -> Seq(Calls)] /\ out' \in [Links -> Seq(Calls)]
  BY Zenon, <1>1, <1>2, <1>2b, <1>4, <1>9 DEF Types
<1>11. \A j \in Links : /\ out'[j] # <<>> => conn[j].handler # "ended"
                        /\ \A i \in 1..Len(out'[j]) : conn[j].to \in Nodes => conn[j].to = To[out'[j][i]]
  BY Zenon, <1>1 DEF WireInv
<1>12. \A j \in Links : /\ back'[j] # <<>> => conn[j].loop
                        /\ \A i \in 1..Len(back'[j]) : conn[j].from = To[back'[j][i]]
  <2> SUFFICES ASSUME NEW j \in Links
               PROVE  /\ g[j] # <<>> => conn[j].loop
                      /\ \A i \in 1..Len(g[j]) : conn[j].from = To[g[j][i]]
    BY Zenon, <1>2, <1>2b
  <2>1. ASSUME NEW i \in 1..Len(g[j]) PROVE conn[j].from = To[g[j][i]]
    <3>1. PICK m \in 1..Len(f[j]) : g[j][i] = f[j][m]
      BY Zenon, <1>4
    <3> QED
      BY ZenonT(30), <1>5, <3>1
  <2> QED
    BY Zenon, <1>4, <1>5, <2>1
<1> QED
  BY Zenon, <1>1, <1>8, <1>10, <1>11, <1>12, WireStep

\* A daemon receives what was sent to it directly.
LEMMA ExchangeStep ==
  ASSUME SizeLaws, TransportInv, NEW k \in Links, ExchangeReceives(k)
  PROVE  TransportInv'
<1>1. /\ Types /\ WireInv /\ conn[k].handler = "in" /\ conn[k].to \in Nodes /\ out[k] # <<>>
      /\ Receive(conn[k].to, Head(out[k])) /\ back' = back
      /\ UNCHANGED <<table, fails, callVars, conn, streams, result, handed, histVars>>
  BY Zenon DEF TransportInv, ExchangeReceives
<1>2. PICK f \in [Links -> Seq(Calls)] : f = out
  BY Zenon, <1>1 DEF Types
<1>2b. PICK g : g = out'
  BY Zenon
<1>3. Changed(f, g, k, Tail(f[k])) /\ f[k] # <<>>
  BY Zenon, <1>1, <1>2, <1>2b DEF ExchangeReceives, Changed
<1>4. /\ Head(f[k]) \in Calls /\ 1 \in 1..Len(f[k]) /\ f[k][1] = Head(f[k])
      /\ \A j \in Links : g[j] # <<>> => f[j] # <<>>
      /\ \A j \in Links : \A i \in 1..Len(g[j]) : \E m \in 1..Len(f[j]) : g[j][i] = f[j][m]
  <2>1. FirstRead(f, g, k)
    BY Zenon, <1>3, TailWire
  <2> QED
    BY Zenon, <2>1 DEF FirstRead
<1>5. \A j \in Links :
        /\ f[j] # <<>> => conn[j].handler # "ended"
        /\ \A i \in 1..Len(f[j]) : conn[j].to \in Nodes => conn[j].to = To[f[j][i]]
  BY Zenon, <1>1, <1>2, <1>2b DEF WireInv
<1>6. PICK c \in Calls, n \in Nodes : c = Head(f[k]) /\ n = conn[k].to
  BY Zenon, <1>1, <1>4
<1>7. n = To[c] /\ Receive(n, c)
  <2>1. f[k][1] = c /\ 1 \in 1..Len(f[k])
    BY Zenon, <1>4, <1>6
  <2>2. n = To[f[k][1]]
    BY Zenon, <1>5, <1>6, <2>1
  <2> QED
    BY Zenon, <1>1, <1>2, <1>2b, <1>6, <2>1, <2>2
<1>8. /\ arrived' \in [Nodes -> [Calls -> Nat]]
      /\ \A d \in Calls : arrived'[To[d]][d] = IF c = d THEN arrived[To[d]][d] + 1
                                                       ELSE arrived[To[d]][d]
  BY <1>1, <1>7, ReceiveCounts
<1>9. ASSUME NEW d \in Calls
      PROVE  Counted(g, back', arrived'[To[d]][d], handed[d], d) /\ g \in [Links -> Seq(Calls)]
  <2>1. PICK ar \in Nat, h \in Nat : ar = arrived[To[d]][d] /\ h = handed[d]
    BY Zenon, CountNow
  <2>1b. PICK b : b = back
    BY Zenon
  <2>2. Counted(f, b, ar, h, d)
    BY Zenon, <1>2, <1>2b, <2>1, <2>1b, CountNow
  <2>3. PICK as : as = arrived'[To[d]][d]
    BY Zenon
  <2>4. as = ar \/ (Head(f[k]) = d /\ as = ar + 1)
    BY SMTT(20), <1>6, <1>8, <2>1, <2>1b, <2>3
  <2>5. Counted(g, b, as, h, d) /\ g \in [Links -> Seq(Calls)]
    BY Zenon, <1>3, <2>2, <2>4, CountRead
  <2> QED
    BY Zenon, <1>1, <2>1, <2>1b, <2>3, <2>5
<1>10. /\ \A d \in Calls : Counted(out', back', arrived'[To[d]][d], handed[d], d)
       /\ back' \in [Links -> Seq(Calls)] /\ out' \in [Links -> Seq(Calls)]
  BY Zenon, <1>1, <1>2, <1>2b, <1>4, <1>9 DEF Types
<1>11. \A j \in Links : /\ back'[j] # <<>> => conn[j].loop
                        /\ \A i \in 1..Len(back'[j]) : conn[j].from = To[back'[j][i]]
  BY Zenon, <1>1 DEF WireInv
<1>12. \A j \in Links : /\ out'[j] # <<>> => conn[j].handler # "ended"
                        /\ \A i \in 1..Len(out'[j]) : conn[j].to \in Nodes => conn[j].to = To[out'[j][i]]
  <2> SUFFICES ASSUME NEW j \in Links
               PROVE  /\ g[j] # <<>> => conn[j].handler # "ended"
                      /\ \A i \in 1..Len(g[j]) : conn[j].to \in Nodes => conn[j].to = To[g[j][i]]
    BY Zenon, <1>2, <1>2b
  <2>1. ASSUME NEW i \in 1..Len(g[j]), conn[j].to \in Nodes PROVE conn[j].to = To[g[j][i]]
    <3>1. PICK m \in 1..Len(f[j]) : g[j][i] = f[j][m]
      BY Zenon, <1>4
    <3> QED
      BY Zenon, <1>5, <2>1, <3>1
  <2> QED
    BY Zenon, <1>4, <1>5, <2>1
<1> QED
  BY Zenon, <1>1, <1>8, <1>10, <1>11, <1>12, WireStep

=============================================================================
