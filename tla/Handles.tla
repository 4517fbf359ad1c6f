------------------------------- MODULE Handles -------------------------------
(***************************************************************************)
(* The handle and subscriber tables of one daemon's AgentServer.           *)
(*                                                                         *)
(* Connections register handles and end; Subscribe streams come and go;    *)
(* DeliverToLocal copies the slice of a handle's subscriber channels under *)
(* the read lock and sends to them without it.  Slices are modelled as Go  *)
(* has them, a backing array and a length, because Subscribe removes a     *)
(* channel by shifting the shared array in place.  Channels never fill up  *)
(* here: module Delivery has the full channel.                             *)
(***************************************************************************)
EXTENDS Naturals, Sequences, FiniteSets

CONSTANTS
  Conns,       \* connections to the agent socket
  Handles,     \* handles
  Streams,     \* Subscribe calls, each with its channel
  Deliveries,  \* DeliverToLocal calls
  NoConn, NoStream

ASSUME NoneAssumption == NoConn \notin Conns /\ NoStream \notin Streams

VARIABLES
  alive,        \* connections whose ConnEnd has not been handled
  registering,  \* Register calls waiting for the lock
  handles,      \* AgentServer.handles
  handleOwner,  \* AgentServer.handleOwner
  connHandles,  \* AgentServer.connHandles
  heap,         \* backing arrays of subscriber slices
  subscribers,  \* AgentServer.subscribers: array (0 for nil) and length
  streamPc, streamConn, streamHandle,  \* the Subscribe calls
  closed,       \* channels that were closed
  deliverPc, deliverSubs, deliverPos,  \* the DeliverToLocal calls
  panicked      \* a send on, or a close of, a closed channel

connVars    == <<alive, registering, handles, handleOwner, connHandles>>
sliceVars   == <<heap, subscribers>>
streamVars  == <<streamPc, streamConn, streamHandle>>
deliverVars == <<deliverPc, deliverSubs, deliverPos>>
vars == <<alive, registering, handles, handleOwner, connHandles, heap,
          subscribers, streamPc, streamConn, streamHandle, closed, deliverPc,
          deliverSubs, deliverPos, panicked>>

Nil == [arr |-> 0, len |-> 0]

Init ==
  /\ alive = Conns /\ registering = {}
  /\ handles = {}
  /\ handleOwner = [h \in Handles |-> NoConn]
  /\ connHandles = [c \in Conns |-> {}]
  /\ heap = <<>> /\ subscribers = [h \in Handles |-> Nil]
  /\ streamPc = [s \in Streams |-> "new"]
  /\ streamConn = [s \in Streams |-> NoConn]
  /\ streamHandle = [s \in Streams |-> CHOOSE h \in Handles : TRUE]
  /\ closed = {}
  /\ deliverPc = [d \in Deliveries |-> "new"]
  /\ deliverSubs = [d \in Deliveries |-> Nil]
  /\ deliverPos = [d \in Deliveries |-> 0]
  /\ panicked = FALSE

\* The channels a slice shows.
Slots(slice) == {heap[slice.arr][i] : i \in 1..slice.len}

-----------------------------------------------------------------------------
(* Connections: Register, disconnectConn.                                  *)

RegisterCall(c, h) ==
  /\ ~panicked /\ c \in alive
  /\ registering' = registering \union {<<c, h>>}
  /\ UNCHANGED <<alive, handles, handleOwner, connHandles, sliceVars,
                 streamVars, closed, deliverVars, panicked>>

\* The handler may get the lock after the connection has ended.
Register(c, h) ==
  /\ ~panicked /\ <<c, h>> \in registering
  /\ registering' = registering \ {<<c, h>>}
  /\ IF h \in handles
     THEN UNCHANGED <<handles, handleOwner, connHandles>>
     ELSE /\ handles' = handles \union {h}
          /\ handleOwner' = [handleOwner EXCEPT ![h] = c]
          /\ connHandles' = [connHandles EXCEPT ![c] = @ \union {h}]
  /\ UNCHANGED <<alive, sliceVars, streamVars, closed, deliverVars, panicked>>

DisconnectConn(c) ==
  LET hs == connHandles[c] IN
  /\ ~panicked /\ c \in alive
  /\ alive' = alive \ {c}
  /\ handles' = handles \ hs
  /\ handleOwner' = [h \in Handles |-> IF h \in hs THEN NoConn ELSE handleOwner[h]]
  /\ connHandles' = [connHandles EXCEPT ![c] = {}]
  /\ closed' = closed \union UNION {Slots(subscribers[h]) : h \in hs}
  /\ panicked' = (\E h \in hs : Slots(subscribers[h]) \intersect closed # {})
  /\ subscribers' = [h \in Handles |-> IF h \in hs THEN Nil ELSE subscribers[h]]
  /\ UNCHANGED <<registering, heap, streamVars, deliverVars>>

-----------------------------------------------------------------------------
(* Subscribe.                                                              *)

\* Variant: any connection may subscribe to a registered handle.
VerifyOwnership_Registered(c, h) == h \in handles

VerifyOwnership(c, h) == h \in handles /\ handleOwner[h] = c

SubscribeCall(s, c, h) ==
  /\ ~panicked /\ streamPc[s] = "new" /\ c \in alive
  /\ VerifyOwnership(c, h)
  /\ streamPc' = [streamPc EXCEPT ![s] = "verified"]
  /\ streamConn' = [streamConn EXCEPT ![s] = c]
  /\ streamHandle' = [streamHandle EXCEPT ![s] = h]
  /\ UNCHANGED <<connVars, sliceVars, closed, deliverVars, panicked>>

\* Go's append: in place while there is capacity, else into a new array with
\* twice the capacity.
Append1(h, s) ==
  LET slice == subscribers[h]
      full  == slice.arr = 0 \/ slice.len = Len(heap[slice.arr])
      cap   == IF slice.len = 0 THEN 1 ELSE 2 * slice.len
      fresh == [i \in 1..cap |->
                  IF i <= slice.len THEN heap[slice.arr][i]
                  ELSE IF i = slice.len + 1 THEN s ELSE NoStream]
  IN /\ heap' = IF full THEN Append(heap, fresh)
                ELSE [heap EXCEPT ![slice.arr][slice.len + 1] = s]
     /\ subscribers' =
          [subscribers EXCEPT
             ![h] = [arr |-> IF full THEN Len(heap) + 1 ELSE slice.arr,
                     len |-> slice.len + 1]]

SubscribeAppend(s) ==
  /\ ~panicked /\ streamPc[s] = "verified"
  /\ Append1(streamHandle[s], s)
  /\ streamPc' = [streamPc EXCEPT ![s] = "listening"]
  /\ UNCHANGED <<connVars, streamConn, streamHandle, closed, deliverVars,
                 panicked>>

\* append(subs[:i], subs[i+1:]...): shifts within the array.
RemoveAt(h, i) ==
  LET slice == subscribers[h] IN
  /\ heap' = [heap EXCEPT ![slice.arr] =
                [j \in DOMAIN @ |-> IF i <= j /\ j < slice.len THEN @[j + 1]
                                                               ELSE @[j]]]
  /\ subscribers' = [subscribers EXCEPT ![h].len = @ - 1]

\* Variant: forgets to take the channel out of the slice.
SubscribeExit_KeepsChannel(s) ==
  /\ ~panicked /\ streamPc[s] = "listening"
  /\ streamPc' = [streamPc EXCEPT ![s] = "gone"]
  /\ UNCHANGED <<connVars, sliceVars, streamConn, streamHandle, closed,
                 deliverVars, panicked>>

\* The channel is closed, or the stream's context is done, or a send failed.
SubscribeExit(s) ==
  LET h == streamHandle[s]
      found == {i \in 1..subscribers[h].len : heap[subscribers[h].arr][i] = s}
  IN /\ ~panicked /\ streamPc[s] = "listening"
     /\ streamPc' = [streamPc EXCEPT ![s] = "gone"]
     /\ IF found = {} THEN UNCHANGED sliceVars
        ELSE \E i \in found : (\A j \in found : i <= j) /\ RemoveAt(h, i)
     /\ UNCHANGED <<connVars, streamConn, streamHandle, closed, deliverVars,
                    panicked>>

-----------------------------------------------------------------------------
(* DeliverToLocal and DeliverRoomEventLocal.                               *)

DeliverBegin(d, h) ==
  /\ ~panicked /\ deliverPc[d] = "new"
  /\ deliverPc' = [deliverPc EXCEPT
                     ![d] = IF subscribers[h].len = 0 THEN "done" ELSE "sending"]
  /\ deliverSubs' = [deliverSubs EXCEPT ![d] = subscribers[h]]
  /\ UNCHANGED <<connVars, sliceVars, streamVars, closed, deliverPos, panicked>>

\* One iteration of the loop over the copied slice, without the lock.
DeliverSend(d) ==
  LET slice == deliverSubs[d]
      i     == deliverPos[d] + 1
      ch    == heap[slice.arr][i]
  IN /\ ~panicked /\ deliverPc[d] = "sending"
     /\ panicked' = (ch \in closed)
     /\ deliverPos' = [deliverPos EXCEPT ![d] = i]
     /\ deliverPc' = [deliverPc EXCEPT ![d] = IF i = slice.len THEN "done" ELSE @]
     /\ UNCHANGED <<connVars, sliceVars, streamVars, closed, deliverSubs>>

-----------------------------------------------------------------------------
Next ==
  \/ \E c \in Conns :
        \/ DisconnectConn(c)
        \/ \E h \in Handles : RegisterCall(c, h) \/ Register(c, h)
        \/ \E s \in Streams, h \in Handles : SubscribeCall(s, c, h)
  \/ \E s \in Streams : SubscribeAppend(s) \/ SubscribeExit(s)
  \/ \E d \in Deliveries :
        \/ \E h \in Handles : DeliverBegin(d, h)
        \/ DeliverSend(d)

Spec == Init /\ [][Next]_vars

-----------------------------------------------------------------------------
(* Properties                                                              *)

\* Types.
TypeOK ==
  /\ alive \subseteq Conns /\ registering \subseteq Conns \X Handles
  /\ handles \subseteq Handles
  /\ handleOwner \in [Handles -> Conns \union {NoConn}]
  /\ connHandles \in [Conns -> SUBSET Handles]
  /\ \A h \in Handles :
       LET slice == subscribers[h] IN
       slice.len > 0 => /\ slice.arr \in 1..Len(heap)
                        /\ slice.len <= Len(heap[slice.arr])
  /\ streamPc \in [Streams -> {"new", "verified", "listening", "gone"}]
  /\ streamConn \in [Streams -> Conns \union {NoConn}]
  /\ streamHandle \in [Streams -> Handles]
  /\ closed \subseteq Streams
  /\ deliverPc \in [Deliveries -> {"new", "sending", "done"}]
  /\ panicked \in BOOLEAN

\* The three maps agree: a registered handle has one owner, which lists it.
OwnersAgree ==
  \A h \in Handles, c \in Conns :
    (h \in handles /\ handleOwner[h] = c) <=> h \in connHandles[c]

\* "Handle ownership is enforced per Unix socket connection": a stream that
\* can still deliver to its client serves a handle its connection owns, also
\* when the handle was registered anew between its check and its append.
SubscriberOwns ==
  \A h \in Handles :
    \A s \in Slots(subscribers[h]) :
      streamConn[s] \in alive => handleOwner[h] = streamConn[s]

\* Shifting arrays in place keeps the slices clean: each channel is in one
\* slot, none is closed, and each belongs to a stream that listens.
SlicesClean ==
  \A h \in Handles :
    /\ Cardinality(Slots(subscribers[h])) = subscribers[h].len
    /\ \A s \in Slots(subscribers[h]) :
         s \notin closed /\ streamPc[s] = "listening"

\* "channel closed (disconnect)": a disconnect ends the streams of its handles
\* and nothing sends on a channel that it has closed.
NeverPanics == ~panicked

=============================================================================
