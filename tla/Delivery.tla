------------------------------ MODULE Delivery ------------------------------
(***************************************************************************)
(* Acknowledged delivery of envelopes between two daemons.                 *)
(*                                                                         *)
(* The sending daemon runs MessageRouter.Route, the AckTracker with its    *)
(* retry loop, and the pending bucket of the MessageStore.  The receiving  *)
(* daemon runs AgentServer.DeliverToLocal and one Subscribe stream.  The   *)
(* tracker changes its map under a mutex and the bbolt file after the      *)
(* mutex is released, so each lock region and each bbolt transaction is an *)
(* action of its own.                                                      *)
(***************************************************************************)
EXTENDS Naturals, Sequences, FiniteSets

CONSTANTS
  Messages,     \* envelopes that agents hand to Route, one message id each
  NoMsg,        \* no envelope
  MaxRetries,   \* AckTracker.maxRetries
  QueueCapacity, \* capacity of a subscriber channel
  MaxInFlight,  \* bound: copies of one envelope or ACK on the wire
  MaxCrashes,   \* bound: crashes of the sending daemon
  DiskMayFail   \* whether a bbolt transaction may return an error

ASSUME MessagesAssumption == NoMsg \notin Messages
ASSUME BoundsAssumption ==
  /\ MaxRetries \in Nat
  /\ QueueCapacity \in Nat
  /\ MaxInFlight \in Nat
  /\ MaxCrashes \in Nat
  /\ DiskMayFail \in BOOLEAN

VARIABLES
  up,            \* the sending daemon runs
  crashes,       \* crashes so far
  pc,            \* progress of the Route call of each envelope
  pending,       \* keys of AckTracker.pending
  retries,       \* pendingMessage.retries
  expired,       \* pending envelopes whose sentAt is older than the timeout
  stored,        \* keys of the pending bucket
  storedRetries, \* storedPending.Retries
  removing,      \* Acknowledge calls between unlock and RemovePending
  dropIDs,       \* sweep: dropped envelopes still to be removed from the bucket
  retryList,     \* sweep: envelopes still to be sent again
  retrying,      \* sweep: the envelope being retried
  retryCount,    \* sweep: retry count read under the lock, 0 before that
  envs,          \* copies of each envelope on the wire
  acks,          \* copies of each ACK on the wire
  subscribed,    \* the receiving agent has a Subscribe stream
  queue,         \* its channel
  accepted,      \* history: envelopes that entered the channel
  overflowed,    \* history: envelopes discarded because the channel was full
  acked,         \* history: envelopes that Acknowledge found pending
  dropped,       \* history: envelopes the sweep gave up on
  tries,         \* history: times the sweep has sent an envelope again
  diskErr        \* history: envelopes one of whose transactions failed

memVars   == <<pending, retries, expired>>
diskVars  == <<stored, storedRetries>>
sweepVars == <<dropIDs, retryList, retrying, retryCount>>
recvVars  == <<subscribed, queue, accepted, overflowed>>
deliveryVars ==
  <<up, crashes, pc, pending, retries, expired, stored, storedRetries,
    removing, dropIDs, retryList, retrying, retryCount, envs, acks,
    subscribed, queue, accepted, overflowed, acked, dropped, tries, diskErr>>

DeliveryInit ==
  /\ up = TRUE
  /\ crashes = 0
  /\ pc = [m \in Messages |-> "new"]
  /\ pending = {} /\ expired = {} /\ stored = {}
  /\ retries = [m \in Messages |-> 0]
  /\ storedRetries = [m \in Messages |-> 0]
  /\ removing = {}
  /\ dropIDs = {} /\ retryList = {} /\ retrying = NoMsg /\ retryCount = 0
  /\ envs = [m \in Messages |-> 0]
  /\ acks = [m \in Messages |-> 0]
  /\ subscribed = FALSE /\ queue = <<>>
  /\ accepted = {} /\ overflowed = {} /\ acked = {} /\ dropped = {}
  /\ tries = [m \in Messages |-> 0]
  /\ diskErr = {}

-----------------------------------------------------------------------------
(* The wire.  Transport.Send may put several copies on it: a direct stream *)
(* write that timed out can still be delivered, and Send then repeats the  *)
(* message on a new stream and on a relay.  It may also report an error    *)
(* for a message that is on its way.  Copies beyond MaxInFlight are lost.  *)

Put(wire, m, n) ==
  [wire EXCEPT ![m] = IF @ + n < MaxInFlight THEN @ + n ELSE MaxInFlight]

Send(m, ok) ==
  \E n \in (IF ok THEN 1 ELSE 0)..2 : envs' = Put(envs, m, n)

LoseEnvelope(m) ==
  /\ envs[m] > 0
  /\ envs' = [envs EXCEPT ![m] = @ - 1]
  /\ UNCHANGED <<up, crashes, pc, memVars, diskVars, removing, sweepVars, acks,
                 recvVars, acked, dropped, tries, diskErr>>

LoseAck(m) ==
  /\ acks[m] > 0
  /\ acks' = [acks EXCEPT ![m] = @ - 1]
  /\ UNCHANGED <<up, crashes, pc, memVars, diskVars, removing, sweepVars, envs,
                 recvVars, acked, dropped, tries, diskErr>>

-----------------------------------------------------------------------------
(* MessageRouter.Route for a remote handle, and AckTracker.Track.          *)

Route(m) ==
  /\ up /\ pc[m] = "new"
  /\ \E ok \in BOOLEAN :
        /\ Send(m, ok)
        /\ pc' = [pc EXCEPT ![m] = IF ok THEN "sent" ELSE "failed"]
  /\ UNCHANGED <<up, crashes, memVars, diskVars, removing, sweepVars, acks,
                 recvVars, acked, dropped, tries, diskErr>>

TrackMemory(m) ==
  /\ up /\ pc[m] = "sent"
  /\ pc' = [pc EXCEPT ![m] = "tracked"]
  /\ pending' = pending \union {m}
  /\ retries' = [retries EXCEPT ![m] = 0]
  /\ expired' = expired \ {m}
  /\ UNCHANGED <<up, crashes, diskVars, removing, sweepVars, envs, acks,
                 recvVars, acked, dropped, tries, diskErr>>

StorePending(m) ==
  /\ stored' = stored \union {m}
  /\ storedRetries' = [storedRetries EXCEPT ![m] = 0]
  /\ diskErr' = diskErr

RemovePending(m) ==
  /\ stored' = stored \ {m}
  /\ UNCHANGED <<storedRetries, diskErr>>

\* Variant: writes the record whether or not the bucket still has the key.
UpdatePending_Upsert(m, n) ==
  /\ storedRetries' = [storedRetries EXCEPT ![m] = n]
  /\ stored' = stored \union {m}
  /\ UNCHANGED diskErr

UpdatePending(m, n) ==
  /\ storedRetries' = IF m \in stored THEN [storedRetries EXCEPT ![m] = n]
                                      ELSE storedRetries
  /\ UNCHANGED <<stored, diskErr>>

\* A transaction that returns an error is logged and nothing else happens.
DiskFails(m) ==
  /\ DiskMayFail
  /\ diskErr' = diskErr \union {m}
  /\ UNCHANGED diskVars

TrackStore(m) ==
  /\ up /\ pc[m] = "tracked"
  /\ StorePending(m) \/ DiskFails(m)
  /\ pc' = [pc EXCEPT ![m] = "done"]
  /\ UNCHANGED <<up, crashes, memVars, removing, sweepVars, envs, acks,
                 recvVars, acked, dropped, tries>>

-----------------------------------------------------------------------------
(* AckTracker.Acknowledge, called from DeliverToLocal of the sender.       *)

Acknowledge(m) ==
  /\ up /\ acks[m] > 0
  /\ acks' = [acks EXCEPT ![m] = @ - 1]
  /\ pending' = pending \ {m}
  /\ removing' = removing \union (pending \intersect {m})
  /\ acked' = acked \union (pending \intersect {m})
  /\ expired' = expired \ {m}
  /\ UNCHANGED <<up, crashes, pc, retries, diskVars, sweepVars, envs,
                 recvVars, dropped, tries, diskErr>>

AcknowledgeRemove(m) ==
  /\ up /\ m \in removing
  /\ RemovePending(m) \/ DiskFails(m)
  /\ removing' = removing \ {m}
  /\ UNCHANGED <<up, crashes, pc, memVars, sweepVars, envs, acks, recvVars,
                 acked, dropped, tries>>

-----------------------------------------------------------------------------
(* AckTracker.sweep, one iteration of StartRetryLoop at a time.            *)

Expire(m) ==
  /\ up /\ m \in pending \ expired
  /\ expired' = expired \union {m}
  /\ UNCHANGED <<up, crashes, pc, pending, retries, diskVars, removing,
                 sweepVars, envs, acks, recvVars, acked, dropped, tries,
                 diskErr>>

SweepIdle == dropIDs = {} /\ retryList = {} /\ retrying = NoMsg

\* Variant: gives up one retry early.
Exhausted_Early == {m \in expired : retries[m] + 1 >= MaxRetries}

Exhausted == {m \in expired : retries[m] >= MaxRetries}

\* Variant: skips an exhausted entry and forgets to collect it in dropIDs.
SweepScan_SkipsExhausted ==
  /\ up /\ SweepIdle /\ expired # {}
  /\ retryList' = expired \ Exhausted
  /\ UNCHANGED <<up, crashes, pc, memVars, diskVars, removing, dropIDs, retrying,
                 retryCount, envs, acks, recvVars, acked, dropped, tries,
                 diskErr>>

SweepScan ==
  /\ up /\ SweepIdle /\ expired # {}
  /\ dropIDs' = Exhausted
  /\ retryList' = expired \ Exhausted
  /\ pending' = pending \ Exhausted
  /\ expired' = expired \ Exhausted
  /\ dropped' = dropped \union Exhausted
  /\ UNCHANGED <<up, crashes, pc, retries, diskVars, removing, retrying,
                 retryCount, envs, acks, recvVars, acked, tries, diskErr>>

SweepRemove(m) ==
  /\ up /\ m \in dropIDs
  /\ RemovePending(m) \/ DiskFails(m)
  /\ dropIDs' = dropIDs \ {m}
  /\ UNCHANGED <<up, crashes, pc, memVars, removing, retryList, retrying,
                 retryCount, envs, acks, recvVars, acked, dropped, tries>>

SweepSend(m) ==
  /\ up /\ dropIDs = {} /\ retrying = NoMsg /\ m \in retryList
  /\ \E ok \in BOOLEAN : Send(m, ok)   \* an error is only logged
  /\ retryList' = retryList \ {m}
  /\ retrying' = m
  /\ retryCount' = 0
  /\ tries' = [tries EXCEPT ![m] = @ + 1]
  /\ UNCHANGED <<up, crashes, pc, memVars, diskVars, removing, dropIDs, acks,
                 recvVars, acked, dropped, diskErr>>

\* The entry is still there unless it was acknowledged in the meantime.
SweepBump(m) ==
  /\ up /\ retrying = m /\ m # NoMsg /\ retryCount = 0
  /\ IF m \in pending
     THEN /\ retries' = [retries EXCEPT ![m] = @ + 1]
          /\ expired' = expired \ {m}
          /\ retryCount' = retries[m] + 1
          /\ retrying' = m
     ELSE /\ retrying' = NoMsg
          /\ UNCHANGED <<retries, expired, retryCount>>
  /\ UNCHANGED <<up, crashes, pc, pending, diskVars, removing, dropIDs,
                 retryList, envs, acks, recvVars, acked, dropped, tries,
                 diskErr>>

SweepUpdate(m) ==
  /\ up /\ retrying = m /\ m # NoMsg /\ retryCount > 0
  /\ UpdatePending(m, retryCount) \/ DiskFails(m)
  /\ retrying' = NoMsg
  /\ retryCount' = 0
  /\ UNCHANGED <<up, crashes, pc, memVars, removing, dropIDs, retryList, envs,
                 acks, recvVars, acked, dropped, tries>>

-----------------------------------------------------------------------------
(* The sending daemon stops at any point and Run restores the bucket.      *)

Crash ==
  /\ up /\ crashes < MaxCrashes
  /\ up' = FALSE
  /\ crashes' = crashes + 1
  /\ pc' = [m \in Messages |-> IF pc[m] \in {"sent", "tracked"} THEN "failed"
                                                               ELSE pc[m]]
  /\ pending' = {} /\ expired' = {}
  /\ removing' = {}
  /\ dropIDs' = {} /\ retryList' = {} /\ retrying' = NoMsg /\ retryCount' = 0
  /\ UNCHANGED <<retries, diskVars, envs, acks, recvVars, acked, dropped,
                 tries, diskErr>>

\* Variant: restores only the entries that were never sent again.
Restart_Unretried ==
  /\ ~up
  /\ up' = TRUE
  /\ pending' = {m \in stored : storedRetries[m] = 0}
  /\ retries' = storedRetries
  /\ expired' \in SUBSET pending'
  /\ UNCHANGED <<crashes, pc, diskVars, removing, sweepVars, envs, acks,
                 recvVars, acked, dropped, tries, diskErr>>

\* Time has passed since StoredAt: any restored entry may be due.
Restart ==
  /\ ~up
  /\ up' = TRUE
  /\ pending' = stored
  /\ retries' = storedRetries
  /\ expired' \in SUBSET stored
  /\ UNCHANGED <<crashes, pc, diskVars, removing, sweepVars, envs, acks,
                 recvVars, acked, dropped, tries, diskErr>>

-----------------------------------------------------------------------------
(* The receiving daemon: Subscribe and DeliverToLocal.                     *)

Subscribe ==
  /\ ~subscribed
  /\ subscribed' = TRUE
  /\ queue' = <<>>
  /\ UNCHANGED <<up, crashes, pc, memVars, diskVars, removing, sweepVars, envs,
                 acks, accepted, overflowed, acked, dropped, tries, diskErr>>

\* The stream or the receiving daemon ends; what the channel holds is lost.
Unsubscribe ==
  /\ subscribed
  /\ subscribed' = FALSE
  /\ queue' = <<>>
  /\ UNCHANGED <<up, crashes, pc, memVars, diskVars, removing, sweepVars, envs,
                 acks, accepted, overflowed, acked, dropped, tries, diskErr>>

StreamSend ==
  /\ subscribed /\ queue # <<>>
  /\ queue' = Tail(queue)
  /\ UNCHANGED <<up, crashes, pc, memVars, diskVars, removing, sweepVars, envs,
                 acks, subscribed, accepted, overflowed, acked, dropped, tries,
                 diskErr>>

\* The ACK leaves in a goroutine of its own and its Route may fail.
SendAck(m) == \E n \in 0..2 : acks' = Put(acks, m, n)

\* Variant: acknowledges an envelope that found no subscriber.
DeliverToLocal_AcksAlways(m) ==
  /\ envs[m] > 0
  /\ envs' = [envs EXCEPT ![m] = @ - 1]
  /\ SendAck(m)
  /\ IF subscribed /\ Len(queue) < QueueCapacity
     THEN queue' = Append(queue, m) /\ accepted' = accepted \union {m}
     ELSE UNCHANGED <<queue, accepted>>
  /\ UNCHANGED <<up, crashes, pc, memVars, diskVars, removing, sweepVars,
                 subscribed, overflowed, acked, dropped, tries, diskErr>>

DeliverToLocal(m) ==
  /\ envs[m] > 0
  /\ envs' = [envs EXCEPT ![m] = @ - 1]
  /\ IF ~subscribed
     THEN UNCHANGED <<queue, accepted, overflowed, acks>>
     ELSE /\ IF Len(queue) < QueueCapacity
             THEN /\ queue' = Append(queue, m)
                  /\ accepted' = accepted \union {m}
                  /\ UNCHANGED overflowed
             ELSE /\ overflowed' = overflowed \union {m}
                  /\ UNCHANGED <<queue, accepted>>
          /\ SendAck(m)
  /\ UNCHANGED <<up, crashes, pc, memVars, diskVars, removing, sweepVars,
                 subscribed, acked, dropped, tries, diskErr>>

-----------------------------------------------------------------------------
Sweep ==
  \/ SweepScan
  \/ \E m \in Messages : SweepRemove(m) \/ SweepSend(m) \/ SweepBump(m)
                           \/ SweepUpdate(m)

DeliveryNext ==
  \/ \E m \in Messages :
        \/ Route(m) \/ TrackMemory(m) \/ TrackStore(m)
        \/ Acknowledge(m) \/ AcknowledgeRemove(m)
        \/ Expire(m) \/ DeliverToLocal(m)
        \/ LoseEnvelope(m) \/ LoseAck(m)
  \/ Sweep
  \/ Crash \/ Restart
  \/ Subscribe \/ Unsubscribe \/ StreamSend

DeliverySpec == DeliveryInit /\ [][DeliveryNext]_deliveryVars

\* The retry loop runs on a ticker, clocks advance, a goroutine that was
\* started finishes, and a daemon that crashed is started again.
DeliveryFairness ==
  /\ WF_deliveryVars(Sweep)
  /\ WF_deliveryVars(Restart)
  /\ \A m \in Messages : WF_deliveryVars(Expire(m))
  /\ \A m \in Messages : WF_deliveryVars(TrackMemory(m)) /\ WF_deliveryVars(TrackStore(m))

DeliveryFairSpec == DeliverySpec /\ DeliveryFairness

-----------------------------------------------------------------------------
(* Properties                                                              *)

RouteType ==
  /\ up \in BOOLEAN
  /\ crashes \in Nat
  /\ pc \in [Messages -> {"new", "sent", "tracked", "done", "failed"}]

MemoryType ==
  /\ pending \subseteq Messages
  /\ expired \subseteq pending
  /\ retries \in [Messages -> Nat]

StoreType ==
  /\ stored \subseteq Messages
  /\ storedRetries \in [Messages -> Nat]
  /\ removing \subseteq Messages

SweepType ==
  /\ dropIDs \subseteq Messages
  /\ retryList \subseteq Messages
  /\ retrying \in Messages \union {NoMsg}
  /\ retryCount \in Nat

WireType ==
  /\ envs \in [Messages -> Nat]
  /\ acks \in [Messages -> Nat]

ReceiverType ==
  /\ subscribed \in BOOLEAN
  /\ queue \in Seq(Messages)
  /\ accepted \subseteq Messages
  /\ overflowed \subseteq Messages

HistoryType ==
  /\ acked \subseteq Messages
  /\ dropped \subseteq Messages
  /\ tries \in [Messages -> Nat]
  /\ diskErr \subseteq Messages

\* The types, and that only an entry of the map has a timer.
DeliveryTypeOK ==
  /\ RouteType /\ MemoryType /\ StoreType /\ SweepType
  /\ WireType /\ ReceiverType /\ HistoryType

\* The fate of an envelope is known: its ACK came or the sweep gave up.
Settled == acked \union dropped

\* Pending messages survive restarts: an envelope whose Route returned nil is
\* in the pending bucket until its ACK is handled or the sweep drops it, and a
\* running daemon has it in AckTracker.pending, whatever crashes in between.
Durable ==
  \A m \in Messages :
    (pc[m] = "done" /\ m \notin Settled \union diskErr)
      => /\ m \in stored
         /\ up => m \in pending

\* maxRetries bounds what the sweep sends: between two starts of the daemon it
\* sends an envelope again at most MaxRetries times, whatever order the ACK,
\* the retry and the two bbolt transactions run in.
RetryBudget ==
  \A m \in Messages : tries[m] <= MaxRetries * (crashes + 1)

\* The sweep gives up on an envelope only after it has sent it again
\* MaxRetries times: neither a restart nor a late transaction counts a retry
\* that was not made.
DropOnlyAfterRetries ==
  \A m \in dropped : tries[m] >= MaxRetries

\* An ACK is never sent for an envelope that DeliverToLocal found no
\* subscriber for: what Acknowledge takes out of pending reached a subscriber
\* channel, or found it full.
AckMeansHandled ==
  acked \subseteq accepted \union overflowed

\* An envelope whose ACK was handled, whose Route and RemovePending are
\* through, and that is gone from map and bucket.
Purged(m) ==
  /\ m \in acked
  /\ pc[m] = "done"
  /\ m \notin removing \union pending \union stored

\* A purged envelope never comes back: a sweep that was sending it again when
\* the ACK arrived must not write its retry count into the bucket.
PurgedForGood ==
  [][\A m \in Messages : Purged(m) => Purged(m)']_deliveryVars

\* Everything that Route accepted is settled in the end, by an ACK or by the
\* sweep, even if the network and the receiver never do anything again.
EventuallySettled ==
  \A m \in Messages :
    pc[m] = "done" ~> m \in Settled \union diskErr

\* "ACKs drive the persistence lifecycle: Acknowledge() removes from both
\* in-memory and bbolt": once Acknowledge has returned, the bucket does not
\* hold the envelope.
AckedIsRemoved ==
  \A m \in acked \ diskErr :
    (pc[m] = "done" /\ m \notin removing) => m \notin stored

\* Retries are exact: never more than MaxRetries, and an envelope is given up on
\* only after all of them, across crashes and restarts (checkTimeouts).
RetriesInBudget == RetryBudget /\ DropOnlyAfterRetries
=============================================================================
