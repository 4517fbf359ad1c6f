---------------------------- MODULE Daemon_proofs ----------------------------
(***************************************************************************)
(* The daemon towards its peers, coord and its agents: acknowledged        *)
(* delivery, for any set of envelopes, any number of retries and crashes,  *)
(* any channel capacity, with and without failing bbolt transactions; the  *)
(* credentials that coord and its clients hold on to, for any number of    *)
(* boots; then the ownership of handles and the slices of subscriber       *)
(* channels, for any number of connections, handles, streams and           *)
(* deliveries.                                                             *)
(***************************************************************************)
EXTENDS Delivery, Trust, Handles, TLAPS

-----------------------------------------------------------------------------
(* The inductive invariant, one conjunct per argument.                     *)

\* An ACK on the wire was caused by a delivery.
AcksCaused ==
  \A m \in Messages : acks[m] > 0 => m \in accepted \union overflowed

\* What a stopped daemon has lost, and where an envelope may be at all.
Lifecycle ==
  /\ ~up => /\ pending = {} /\ removing = {}
            /\ dropIDs = {} /\ retryList = {} /\ retrying = NoMsg
            /\ \A m \in Messages : pc[m] \notin {"sent", "tracked"}
  /\ \A m \in Messages :
       pc[m] \in {"new", "sent"} =>
         /\ m \notin pending /\ m \notin stored
         /\ m \notin retryList /\ retrying # m
         /\ tries[m] = 0

\* Why Durable is inductive: only settled envelopes are removed, and Track has
\* filled the map before it writes the bucket.
DurableInv ==
  /\ removing \subseteq acked
  /\ dropIDs \subseteq dropped
  /\ \A m \in Messages :
       (pc[m] = "tracked" /\ m \notin Settled) => m \in pending
  /\ Durable

\* The sweep is between the send and the count of a retry of m.
Uncounted(m) == retrying = m /\ retryCount = 0

\* The retries counted never exceed the retries made ...
CountedInv ==
  /\ \A m \in Messages :
       /\ retries[m] <= tries[m]
       /\ storedRetries[m] <= tries[m]
       /\ Uncounted(m) => retries[m] < tries[m]
       /\ retrying = m => retryCount <= tries[m]
  /\ DropOnlyAfterRetries

\* ... and the retries made since the last start exceed the retries counted by
\* the one that is in progress only.
BudgetInv ==
  /\ retryCount <= MaxRetries
  /\ \A m \in Messages :
       /\ retries[m] <= MaxRetries
       /\ storedRetries[m] <= MaxRetries
       /\ tries[m] <= MaxRetries * crashes + MaxRetries
       /\ ~up => tries[m] <= MaxRetries * crashes
       /\ m \in retryList => /\ retrying # m
                             /\ tries[m] < MaxRetries * crashes + MaxRetries
       /\ m \in pending =>
            /\ m \in retryList => retries[m] < MaxRetries
            /\ IF Uncounted(m)
               THEN /\ retries[m] < MaxRetries
                    /\ tries[m] <= MaxRetries * crashes + retries[m] + 1
               ELSE tries[m] <= MaxRetries * crashes + retries[m]

-----------------------------------------------------------------------------
(* Type correctness.                                                       *)

\* Send puts a number of copies on the wire.
LEMMA SendType ==
  ASSUME NEW m \in Messages, NEW ok \in BOOLEAN, envs \in [Messages -> Nat],
         Send(m, ok)
  PROVE  envs' \in [Messages -> Nat]
BY SMTT(20), BoundsAssumption DEF Send, Put

\* SendAck puts a number of copies on the wire, and of this ACK only.
LEMMA SendAckType ==
  ASSUME NEW m \in Messages, acks \in [Messages -> Nat], SendAck(m)
  PROVE  /\ acks' \in [Messages -> Nat]
         /\ \A k \in Messages \ {m} : acks'[k] = acks[k]
BY SMTT(20), BoundsAssumption DEF SendAck, Put

\* Every step of the tracker, the sweep, the store and the receiver keeps the
\* types, expired \subseteq pending included.
THEOREM TypeCorrect == DeliverySpec => []DeliveryTypeOK
<1>1. DeliveryInit => DeliveryTypeOK
  <2> SUFFICES ASSUME DeliveryInit PROVE DeliveryTypeOK
    BY Zenon
  <2>1. up \in BOOLEAN /\ subscribed \in BOOLEAN
    BY Zenon DEF DeliveryInit
  <2>2. RouteType /\ ReceiverType
    BY SMTT(20), <2>1 DEF DeliveryInit, RouteType, ReceiverType
  <2>3. MemoryType /\ StoreType /\ SweepType /\ WireType /\ HistoryType
    BY Zenon DEF DeliveryInit, MemoryType, StoreType, SweepType, WireType, HistoryType
  <2> QED BY Zenon, <2>2, <2>3 DEF DeliveryTypeOK
<1>2. DeliveryTypeOK /\ [DeliveryNext]_deliveryVars => DeliveryTypeOK'
  <2> SUFFICES ASSUME DeliveryTypeOK, [DeliveryNext]_deliveryVars PROVE DeliveryTypeOK'
    BY Zenon
  <2> USE DEF DeliveryTypeOK
  <2>1. UNCHANGED <<up, crashes, pc>> => RouteType'
    BY Zenon DEF RouteType
  <2>2. UNCHANGED memVars => MemoryType'
    BY Zenon DEF MemoryType, memVars
  <2>3. UNCHANGED <<diskVars, removing>> => StoreType'
    BY Zenon DEF StoreType, diskVars
  <2>4. UNCHANGED sweepVars => SweepType'
    BY Zenon DEF SweepType, sweepVars
  <2>5. UNCHANGED <<envs, acks>> => WireType'
    BY Zenon DEF WireType
  <2>6. UNCHANGED recvVars => ReceiverType'
    BY Zenon DEF ReceiverType, recvVars
  <2>7. UNCHANGED <<acked, dropped, tries, diskErr>> => HistoryType'
    BY Zenon DEF HistoryType
  <2>8. CASE UNCHANGED deliveryVars
    BY Zenon, <2>8, <2>1, <2>2, <2>3, <2>4, <2>5, <2>6, <2>7
       DEF deliveryVars, memVars, diskVars, sweepVars, recvVars
  <2>9. ASSUME NEW m \in Messages, Route(m) PROVE DeliveryTypeOK'
    <3>1. RouteType'
      BY Zenon, <2>9 DEF Route, RouteType
    <3>2. WireType'
      BY Zenon, <2>9, SendType DEF Route, WireType
    <3> QED
      BY Zenon, <2>9, <3>1, <3>2, <2>2, <2>3, <2>4, <2>6, <2>7 DEF Route
  <2>10. ASSUME NEW m \in Messages, TrackMemory(m) PROVE DeliveryTypeOK'
    <3>1. RouteType'
      BY Zenon, <2>10 DEF TrackMemory, RouteType
    <3>2. MemoryType'
      BY Zenon, <2>10 DEF TrackMemory, MemoryType
    <3> QED
      BY Zenon, <2>10, <3>1, <3>2, <2>3, <2>4, <2>5, <2>6, <2>7 DEF TrackMemory
  <2>11. ASSUME NEW m \in Messages, TrackStore(m) PROVE DeliveryTypeOK'
    <3>1. RouteType'
      BY Zenon, <2>11 DEF TrackStore, StorePending, DiskFails, RouteType
    <3>2. StoreType'
      BY SMTT(20), <2>11 DEF TrackStore, StorePending, DiskFails, StoreType, diskVars
    <3>3. HistoryType'
      BY Zenon, <2>11 DEF TrackStore, StorePending, DiskFails, HistoryType
    <3> QED
      BY Zenon, <2>11, <3>1, <3>2, <3>3, <2>2, <2>4, <2>5, <2>6 DEF TrackStore
  <2>12. ASSUME NEW m \in Messages, Acknowledge(m) PROVE DeliveryTypeOK'
    <3>1. MemoryType'
      BY Zenon, <2>12 DEF Acknowledge, MemoryType
    <3>2. StoreType'
      BY Zenon, <2>12 DEF Acknowledge, StoreType, diskVars, MemoryType
    <3>3. WireType'
      BY SMTT(20), <2>12 DEF Acknowledge, WireType, MemoryType
    <3>4. HistoryType'
      BY Zenon, <2>12 DEF Acknowledge, HistoryType, MemoryType
    <3> QED
      BY Zenon, <2>12, <3>1, <3>2, <3>3, <3>4, <2>1, <2>4, <2>6 DEF Acknowledge
  <2>13. ASSUME NEW m \in Messages, AcknowledgeRemove(m) PROVE DeliveryTypeOK'
    <3>1. StoreType'
      BY Zenon, <2>13 DEF AcknowledgeRemove, RemovePending, DiskFails, StoreType, diskVars
    <3>2. HistoryType'
      BY Zenon, <2>13 DEF AcknowledgeRemove, RemovePending, DiskFails, HistoryType
    <3> QED
      BY Zenon, <2>13, <3>1, <3>2, <2>1, <2>2, <2>4, <2>5, <2>6 DEF AcknowledgeRemove
  <2>14. ASSUME NEW m \in Messages, Expire(m) PROVE DeliveryTypeOK'
    <3>1. MemoryType'
      BY Zenon, <2>14 DEF Expire, MemoryType
    <3> QED
      BY Zenon, <2>14, <3>1, <2>1, <2>3, <2>4, <2>5, <2>6, <2>7 DEF Expire
  <2>15. ASSUME NEW m \in Messages, DeliverToLocal(m) PROVE DeliveryTypeOK'
    <3>1. WireType'
      BY SMTT(20), <2>15, SendAckType DEF DeliverToLocal, WireType
    <3>2. ReceiverType'
      BY SMTT(20), <2>15 DEF DeliverToLocal, ReceiverType
    <3> QED
      BY Zenon, <2>15, <3>1, <3>2, <2>1, <2>2, <2>3, <2>4, <2>7 DEF DeliverToLocal
  <2>16. ASSUME NEW m \in Messages, LoseEnvelope(m) PROVE DeliveryTypeOK'
    <3>1. WireType'
      BY SMTT(20), <2>16 DEF LoseEnvelope, WireType
    <3> QED
      BY Zenon, <2>16, <3>1, <2>1, <2>2, <2>3, <2>4, <2>6, <2>7 DEF LoseEnvelope
  <2>17. ASSUME NEW m \in Messages, LoseAck(m) PROVE DeliveryTypeOK'
    <3>1. WireType'
      BY SMTT(20), <2>17 DEF LoseAck, WireType
    <3> QED
      BY Zenon, <2>17, <3>1, <2>1, <2>2, <2>3, <2>4, <2>6, <2>7 DEF LoseAck
  <2>18. CASE SweepScan
    <3>1. MemoryType'
      BY Zenon, <2>18 DEF SweepScan, Exhausted, MemoryType
    <3>2. SweepType'
      BY Zenon, <2>18 DEF SweepScan, Exhausted, SweepType, MemoryType
    <3>3. HistoryType'
      BY Zenon, <2>18 DEF SweepScan, Exhausted, HistoryType, MemoryType
    <3> QED
      BY Zenon, <2>18, <3>1, <3>2, <3>3, <2>1, <2>3, <2>5, <2>6 DEF SweepScan
  <2>19. ASSUME NEW m \in Messages, SweepRemove(m) PROVE DeliveryTypeOK'
    <3>1. StoreType'
      BY Zenon, <2>19 DEF SweepRemove, RemovePending, DiskFails, StoreType, diskVars, SweepType
    <3>2. SweepType'
      BY Zenon, <2>19 DEF SweepRemove, RemovePending, DiskFails, SweepType
    <3>3. HistoryType'
      BY Zenon, <2>19 DEF SweepRemove, RemovePending, DiskFails, HistoryType
    <3> QED
      BY Zenon, <2>19, <3>1, <3>2, <3>3, <2>1, <2>2, <2>5, <2>6 DEF SweepRemove
  <2>20. ASSUME NEW m \in Messages, SweepSend(m) PROVE DeliveryTypeOK'
    <3>1. SweepType'
      BY Zenon, <2>20 DEF SweepSend, SweepType
    <3>2. WireType'
      BY Zenon, <2>20, SendType DEF SweepSend, WireType
    <3>3. HistoryType'
      BY SMTT(20), <2>20 DEF SweepSend, HistoryType
    <3> QED
      BY Zenon, <2>20, <3>1, <3>2, <3>3, <2>1, <2>2, <2>3, <2>6 DEF SweepSend
  <2>21. ASSUME NEW m \in Messages, SweepBump(m) PROVE DeliveryTypeOK'
    <3>1. MemoryType'
      BY SMTT(20), <2>21 DEF SweepBump, MemoryType
    <3>2. SweepType'
      BY SMTT(20), <2>21 DEF SweepBump, SweepType, MemoryType
    <3> QED
      BY Zenon, <2>21, <3>1, <3>2, <2>1, <2>3, <2>5, <2>6, <2>7 DEF SweepBump
  <2>22. ASSUME NEW m \in Messages, SweepUpdate(m) PROVE DeliveryTypeOK'
    <3>1. StoreType'
      BY Zenon, <2>22 DEF SweepUpdate, UpdatePending, DiskFails, StoreType, diskVars, SweepType
    <3>2. SweepType'
      BY Zenon, <2>22 DEF SweepUpdate, UpdatePending, DiskFails, SweepType
    <3>3. HistoryType'
      BY Zenon, <2>22 DEF SweepUpdate, UpdatePending, DiskFails, HistoryType
    <3> QED
      BY Zenon, <2>22, <3>1, <3>2, <3>3, <2>1, <2>2, <2>5, <2>6 DEF SweepUpdate
  <2>23. CASE Crash
    <3>1. RouteType'
      <4>1. up' \in BOOLEAN
        BY Zenon, <2>23, Zenon DEF Crash
      <4> QED BY SMTT(20), <2>23, <4>1 DEF Crash, RouteType
    <3>2. MemoryType'
      BY Zenon, <2>23 DEF Crash, MemoryType
    <3>3. StoreType'
      BY Zenon, <2>23 DEF Crash, StoreType, diskVars
    <3>4. SweepType'
      BY Zenon, <2>23 DEF Crash, SweepType
    <3> QED
      BY Zenon, <2>23, <3>1, <3>2, <3>3, <3>4, <2>5, <2>6, <2>7 DEF Crash
  <2>24. CASE Restart
    <3>1. RouteType'
      BY Zenon, <2>24 DEF Restart, RouteType
    <3>2. MemoryType'
      BY Zenon, <2>24 DEF Restart, MemoryType, StoreType
    <3> QED
      BY Zenon, <2>24, <3>1, <3>2, <2>3, <2>4, <2>5, <2>6, <2>7 DEF Restart
  <2>25. CASE Subscribe
    <3>1. ReceiverType'
      BY SMTT(20), <2>25 DEF Subscribe, ReceiverType
    <3> QED
      BY Zenon, <2>25, <3>1, <2>1, <2>2, <2>3, <2>4, <2>5, <2>7 DEF Subscribe
  <2>26. CASE Unsubscribe
    <3>1. ReceiverType'
      <4>1. subscribed' \in BOOLEAN
        BY Zenon, <2>26, Zenon DEF Unsubscribe
      <4> QED BY SMTT(20), <2>26, <4>1 DEF Unsubscribe, ReceiverType
    <3> QED
      BY Zenon, <2>26, <3>1, <2>1, <2>2, <2>3, <2>4, <2>5, <2>7 DEF Unsubscribe
  <2>27. CASE StreamSend
    <3>1. ReceiverType'
      BY SMTT(20), <2>27 DEF StreamSend, ReceiverType
    <3> QED
      BY Zenon, <2>27, <3>1, <2>1, <2>2, <2>3, <2>4, <2>5, <2>7 DEF StreamSend
  <2> QED
    BY Zenon, <2>8, <2>9, <2>10, <2>11, <2>12, <2>13, <2>14, <2>15, <2>16,
       <2>17, <2>18, <2>19, <2>20, <2>21, <2>22, <2>23, <2>24, <2>25,
       <2>26, <2>27
       DEF DeliveryNext, Sweep
<1> QED BY <1>1, <1>2, PTL DEF DeliverySpec

-----------------------------------------------------------------------------
(* Truthful ACKs.                                                          *)

\* Whatever the wire loses, duplicates or reorders, Acknowledge takes an
\* envelope out of pending only if DeliverToLocal found a subscriber for it.
THEOREM AckTruthful == DeliverySpec => []AckMeansHandled
<1> DEFINE Inv == AcksCaused /\ AckMeansHandled
<1>1. DeliveryInit => Inv
  BY SMTT(20) DEF DeliveryInit, AcksCaused, AckMeansHandled
<1>2. DeliveryTypeOK /\ Inv /\ [DeliveryNext]_deliveryVars => Inv'
  <2> SUFFICES ASSUME DeliveryTypeOK, Inv, [DeliveryNext]_deliveryVars PROVE Inv'
    BY Zenon
  <2>1. UNCHANGED <<acks, accepted, overflowed, acked>> => Inv'
    BY Zenon DEF AcksCaused, AckMeansHandled
  <2>2. CASE UNCHANGED deliveryVars
    BY Zenon, <2>1, <2>2 DEF deliveryVars
  <2>3. ASSUME NEW m \in Messages, Route(m) PROVE Inv'
    BY Zenon, <2>1, <2>3 DEF Route, recvVars
  <2>4. ASSUME NEW m \in Messages, TrackMemory(m) PROVE Inv'
    BY Zenon, <2>1, <2>4 DEF TrackMemory, recvVars
  <2>5. ASSUME NEW m \in Messages, TrackStore(m) PROVE Inv'
    BY Zenon, <2>1, <2>5 DEF TrackStore, recvVars
  <2>6. ASSUME NEW m \in Messages, Acknowledge(m) PROVE Inv'
    BY Zenon, <2>6 DEF Acknowledge, recvVars, AcksCaused, AckMeansHandled,
              DeliveryTypeOK, WireType
  <2>7. ASSUME NEW m \in Messages, AcknowledgeRemove(m) PROVE Inv'
    BY Zenon, <2>1, <2>7 DEF AcknowledgeRemove, recvVars
  <2>8. ASSUME NEW m \in Messages, Expire(m) PROVE Inv'
    BY Zenon, <2>1, <2>8 DEF Expire, recvVars
  <2>9. ASSUME NEW m \in Messages, DeliverToLocal(m) PROVE Inv'
    <3>1. CASE ~subscribed
      BY Zenon, <2>1, <3>1, <2>9 DEF DeliverToLocal
    <3>2. CASE subscribed
      <4>1. m \in accepted' \union overflowed'
        BY Zenon, <3>2, <2>9 DEF DeliverToLocal
      <4>2. accepted \subseteq accepted' /\ overflowed \subseteq overflowed'
        BY Zenon, <3>2, <2>9 DEF DeliverToLocal
      <4>3. \A k \in Messages \ {m} : acks'[k] = acks[k]
        BY Zenon, <3>2, <2>9, SendAckType DEF DeliverToLocal, DeliveryTypeOK, WireType
      <4> QED
        BY Zenon, <2>9, <4>1, <4>2, <4>3
           DEF DeliverToLocal, AcksCaused, AckMeansHandled
    <3> QED BY Zenon, <3>1, <3>2
  <2>10. ASSUME NEW m \in Messages, LoseEnvelope(m) PROVE Inv'
    BY Zenon, <2>1, <2>10 DEF LoseEnvelope, recvVars
  <2>11. ASSUME NEW m \in Messages, LoseAck(m) PROVE Inv'
    BY Zenon, <2>11 DEF LoseAck, recvVars, AcksCaused, AckMeansHandled,
              DeliveryTypeOK, WireType
  <2>12. CASE SweepScan
    BY Zenon, <2>1, <2>12 DEF SweepScan, recvVars
  <2>13. ASSUME NEW m \in Messages, SweepRemove(m) PROVE Inv'
    BY Zenon, <2>1, <2>13 DEF SweepRemove, recvVars
  <2>14. ASSUME NEW m \in Messages, SweepSend(m) PROVE Inv'
    BY Zenon, <2>1, <2>14 DEF SweepSend, recvVars
  <2>15. ASSUME NEW m \in Messages, SweepBump(m) PROVE Inv'
    BY Zenon, <2>1, <2>15 DEF SweepBump, recvVars
  <2>16. ASSUME NEW m \in Messages, SweepUpdate(m) PROVE Inv'
    BY Zenon, <2>1, <2>16 DEF SweepUpdate, recvVars
  <2>17. CASE Crash
    BY Zenon, <2>1, <2>17 DEF Crash, recvVars
  <2>18. CASE Restart
    BY Zenon, <2>1, <2>18 DEF Restart, recvVars
  <2>19. CASE Subscribe
    BY Zenon, <2>1, <2>19 DEF Subscribe, recvVars
  <2>20. CASE Unsubscribe
    BY Zenon, <2>1, <2>20 DEF Unsubscribe, recvVars
  <2>21. CASE StreamSend
    BY Zenon, <2>1, <2>21 DEF StreamSend, recvVars
  <2> QED
    BY Zenon, <2>2, <2>3, <2>4, <2>5, <2>6, <2>7, <2>8, <2>9, <2>10, <2>11,
       <2>12, <2>13, <2>14, <2>15, <2>16, <2>17, <2>18, <2>19, <2>20,
       <2>21
       DEF DeliveryNext, Sweep
<1> QED BY <1>1, <1>2, TypeCorrect, PTL DEF DeliverySpec

-----------------------------------------------------------------------------
(* A purged envelope stays purged.                                         *)

\* After the ACK, Track and RemovePending of an envelope are through, no step
\* of the sweep, no failed transaction and no restart brings it back.
THEOREM PurgeIsFinal == DeliverySpec => PurgedForGood
<1>1. DeliveryTypeOK /\ [DeliveryNext]_deliveryVars => [\A m \in Messages : Purged(m) => Purged(m)']_deliveryVars
  <2> SUFFICES ASSUME DeliveryTypeOK, DeliveryNext, NEW k \in Messages, Purged(k)
               PROVE  Purged(k)'
    BY Zenon DEF deliveryVars, Purged
  <2> USE DEF Purged
  <2>1. UNCHANGED <<acked, pc, removing, pending, stored>> => Purged(k)'
    BY Zenon DEF Purged
  <2>3. ASSUME NEW m \in Messages, Route(m) PROVE Purged(k)'
    BY Zenon, <2>3 DEF Route, memVars, diskVars, DeliveryTypeOK, RouteType
  <2>4. ASSUME NEW m \in Messages, TrackMemory(m) PROVE Purged(k)'
    BY Zenon, <2>4 DEF TrackMemory, diskVars, DeliveryTypeOK, RouteType
  <2>5. ASSUME NEW m \in Messages, TrackStore(m) PROVE Purged(k)'
    BY Zenon, <2>5 DEF TrackStore, StorePending, DiskFails, memVars, diskVars,
              DeliveryTypeOK, RouteType
  <2>6. ASSUME NEW m \in Messages, Acknowledge(m) PROVE Purged(k)'
    BY Zenon, <2>6 DEF Acknowledge, diskVars
  <2>7. ASSUME NEW m \in Messages, AcknowledgeRemove(m) PROVE Purged(k)'
    BY Zenon, <2>7 DEF AcknowledgeRemove, RemovePending, DiskFails, memVars, diskVars
  <2>8. ASSUME NEW m \in Messages, Expire(m) PROVE Purged(k)'
    BY Zenon, <2>1, <2>8 DEF Expire, memVars, diskVars
  <2>9. ASSUME NEW m \in Messages, DeliverToLocal(m) PROVE Purged(k)'
    BY Zenon, <2>1, <2>9 DEF DeliverToLocal, memVars, diskVars
  <2>10. ASSUME NEW m \in Messages, LoseEnvelope(m) PROVE Purged(k)'
    BY Zenon, <2>1, <2>10 DEF LoseEnvelope, memVars, diskVars
  <2>11. ASSUME NEW m \in Messages, LoseAck(m) PROVE Purged(k)'
    BY Zenon, <2>1, <2>11 DEF LoseAck, memVars, diskVars
  <2>12. CASE SweepScan
    BY Zenon, <2>12 DEF SweepScan, diskVars
  <2>13. ASSUME NEW m \in Messages, SweepRemove(m) PROVE Purged(k)'
    BY Zenon, <2>13 DEF SweepRemove, RemovePending, DiskFails, memVars, diskVars
  <2>14. ASSUME NEW m \in Messages, SweepSend(m) PROVE Purged(k)'
    BY Zenon, <2>1, <2>14 DEF SweepSend, memVars, diskVars
  <2>15. ASSUME NEW m \in Messages, SweepBump(m) PROVE Purged(k)'
    BY Zenon, <2>1, <2>15 DEF SweepBump, memVars, diskVars
  <2>16. ASSUME NEW m \in Messages, SweepUpdate(m) PROVE Purged(k)'
    BY Zenon, <2>16 DEF SweepUpdate, UpdatePending, DiskFails, memVars, diskVars
  <2>17. CASE Crash
    BY Zenon, <2>17 DEF Crash, diskVars
  <2>18. CASE Restart
    BY Zenon, <2>18 DEF Restart, diskVars
  <2>19. CASE Subscribe
    BY Zenon, <2>1, <2>19 DEF Subscribe, memVars, diskVars
  <2>20. CASE Unsubscribe
    BY Zenon, <2>1, <2>20 DEF Unsubscribe, memVars, diskVars
  <2>21. CASE StreamSend
    BY Zenon, <2>1, <2>21 DEF StreamSend, memVars, diskVars
  <2> QED
    BY Zenon, <2>3, <2>4, <2>5, <2>6, <2>7, <2>8, <2>9, <2>10, <2>11,
       <2>12, <2>13, <2>14, <2>15, <2>16, <2>17, <2>18, <2>19, <2>20,
       <2>21
       DEF DeliveryNext, Sweep
<1> QED BY <1>1, TypeCorrect, PTL DEF DeliverySpec, PurgedForGood

-----------------------------------------------------------------------------
(* Pending messages survive restarts.                                     *)

\* An envelope enters map and bucket only after Send, and a stopped daemon has
\* lost its map, its sweep and the Route calls that were under way.
LEMMA LifecycleHolds == DeliverySpec => []Lifecycle
<1>1. DeliveryInit => Lifecycle
  BY Zenon, MessagesAssumption DEF DeliveryInit, Lifecycle
<1>2. DeliveryTypeOK /\ Lifecycle /\ [DeliveryNext]_deliveryVars => Lifecycle'
  <2> SUFFICES ASSUME DeliveryTypeOK, Lifecycle, [DeliveryNext]_deliveryVars PROVE Lifecycle'
    BY Zenon
  <2>1. UNCHANGED <<up, pc, pending, stored, removing, dropIDs, retryList, retrying, tries>> => Lifecycle'
    BY SMTT(20) DEF Lifecycle
  <2>2. CASE UNCHANGED deliveryVars
    BY Zenon, <2>1, <2>2 DEF deliveryVars
  <2>3. ASSUME NEW m \in Messages, Route(m) PROVE Lifecycle'
    BY Zenon, <2>3 DEF Route, Lifecycle, memVars, diskVars, sweepVars, DeliveryTypeOK,
              RouteType
  <2>4. ASSUME NEW m \in Messages, TrackMemory(m) PROVE Lifecycle'
    BY Zenon, <2>4 DEF TrackMemory, Lifecycle, diskVars, sweepVars, DeliveryTypeOK, RouteType
  <2>5. ASSUME NEW m \in Messages, TrackStore(m) PROVE Lifecycle'
    BY Zenon, <2>5 DEF TrackStore, StorePending, DiskFails, Lifecycle, memVars, diskVars,
              sweepVars, DeliveryTypeOK, RouteType
  <2>6. ASSUME NEW m \in Messages, Acknowledge(m) PROVE Lifecycle'
    BY Zenon, <2>6 DEF Acknowledge, Lifecycle, diskVars, sweepVars
  <2>7. ASSUME NEW m \in Messages, AcknowledgeRemove(m) PROVE Lifecycle'
    BY Zenon, <2>7 DEF AcknowledgeRemove, RemovePending, DiskFails, Lifecycle, memVars,
              diskVars, sweepVars
  <2>8. ASSUME NEW m \in Messages, Expire(m) PROVE Lifecycle'
    BY Zenon, <2>1, <2>8 DEF Expire, memVars, diskVars, sweepVars
  <2>9. ASSUME NEW m \in Messages, DeliverToLocal(m) PROVE Lifecycle'
    BY Zenon, <2>1, <2>9 DEF DeliverToLocal, memVars, diskVars, sweepVars
  <2>10. ASSUME NEW m \in Messages, LoseEnvelope(m) PROVE Lifecycle'
    BY Zenon, <2>1, <2>10 DEF LoseEnvelope, memVars, diskVars, sweepVars
  <2>11. ASSUME NEW m \in Messages, LoseAck(m) PROVE Lifecycle'
    BY Zenon, <2>1, <2>11 DEF LoseAck, memVars, diskVars, sweepVars
  <2>12. CASE SweepScan
    BY Zenon, <2>12 DEF SweepScan, Exhausted, Lifecycle, diskVars, DeliveryTypeOK, MemoryType
  <2>13. ASSUME NEW m \in Messages, SweepRemove(m) PROVE Lifecycle'
    BY Zenon, <2>13 DEF SweepRemove, RemovePending, DiskFails, Lifecycle, memVars,
              diskVars
  <2>14. ASSUME NEW m \in Messages, SweepSend(m) PROVE Lifecycle'
    BY Zenon, <2>14 DEF SweepSend, Lifecycle, memVars, diskVars, DeliveryTypeOK, HistoryType
  <2>15. ASSUME NEW m \in Messages, SweepBump(m) PROVE Lifecycle'
    BY Zenon, <2>15, MessagesAssumption DEF SweepBump, Lifecycle, diskVars
  <2>16. ASSUME NEW m \in Messages, SweepUpdate(m) PROVE Lifecycle'
    BY Zenon, <2>16, MessagesAssumption DEF SweepUpdate, UpdatePending, DiskFails,
              Lifecycle, memVars, diskVars
  <2>17. CASE Crash
    BY Zenon, <2>17, MessagesAssumption DEF Crash, Lifecycle, diskVars, DeliveryTypeOK, RouteType
  <2>18. CASE Restart
    BY Zenon, <2>18 DEF Restart, Lifecycle, diskVars, sweepVars
  <2>19. CASE Subscribe
    BY Zenon, <2>1, <2>19 DEF Subscribe, memVars, diskVars, sweepVars
  <2>20. CASE Unsubscribe
    BY Zenon, <2>1, <2>20 DEF Unsubscribe, memVars, diskVars, sweepVars
  <2>21. CASE StreamSend
    BY Zenon, <2>1, <2>21 DEF StreamSend, memVars, diskVars, sweepVars
  <2> QED
    BY Zenon, <2>2, <2>3, <2>4, <2>5, <2>6, <2>7, <2>8, <2>9, <2>10, <2>11,
       <2>12, <2>13, <2>14, <2>15, <2>16, <2>17, <2>18, <2>19, <2>20,
       <2>21
       DEF DeliveryNext, Sweep
<1> QED BY <1>1, <1>2, TypeCorrect, PTL DEF DeliverySpec

\* An envelope whose Route returned nil is in the bucket, and in the map of a
\* running daemon, until it is acknowledged, dropped, or a transaction for it
\* fails: in every interleaving of Track, Acknowledge and sweep, with a crash
\* between any two of their steps.
THEOREM PendingIsDurable == DeliverySpec => []Durable
<1>1. DeliveryInit => DurableInv
  BY Zenon DEF DeliveryInit, DurableInv, Durable
<1>2. DeliveryTypeOK /\ Lifecycle /\ DurableInv /\ [DeliveryNext]_deliveryVars => DurableInv'
  <2> SUFFICES ASSUME DeliveryTypeOK, Lifecycle, DurableInv, [DeliveryNext]_deliveryVars
               PROVE  DurableInv'
    BY Zenon
  <2> USE DEF DurableInv, Durable, Settled
  <2>1. UNCHANGED <<up, pc, pending, stored, removing, dropIDs, acked, dropped, diskErr>> => DurableInv'
    BY SMTT(20)
  <2>2. CASE UNCHANGED deliveryVars
    BY Zenon, <2>1, <2>2 DEF deliveryVars
  <2>3. ASSUME NEW m \in Messages, Route(m) PROVE DurableInv'
    BY Zenon, <2>3 DEF Route, memVars, diskVars, sweepVars, DeliveryTypeOK, RouteType
  <2>4. ASSUME NEW m \in Messages, TrackMemory(m) PROVE DurableInv'
    BY Zenon, <2>4 DEF TrackMemory, diskVars, sweepVars, DeliveryTypeOK, RouteType
  <2>5. ASSUME NEW m \in Messages, TrackStore(m) PROVE DurableInv'
    BY Zenon, <2>5 DEF TrackStore, StorePending, DiskFails, memVars, diskVars,
              sweepVars, DeliveryTypeOK, RouteType
  <2>6. ASSUME NEW m \in Messages, Acknowledge(m) PROVE DurableInv'
    BY Zenon, <2>6 DEF Acknowledge, diskVars, sweepVars
  <2>7. ASSUME NEW m \in Messages, AcknowledgeRemove(m) PROVE DurableInv'
    BY Zenon, <2>7 DEF AcknowledgeRemove, RemovePending, DiskFails, memVars,
              diskVars, sweepVars
  <2>8. ASSUME NEW m \in Messages, Expire(m) PROVE DurableInv'
    BY Zenon, <2>1, <2>8 DEF Expire, memVars, diskVars, sweepVars
  <2>9. ASSUME NEW m \in Messages, DeliverToLocal(m) PROVE DurableInv'
    BY Zenon, <2>1, <2>9 DEF DeliverToLocal, memVars, diskVars, sweepVars
  <2>10. ASSUME NEW m \in Messages, LoseEnvelope(m) PROVE DurableInv'
    BY Zenon, <2>1, <2>10 DEF LoseEnvelope, memVars, diskVars, sweepVars
  <2>11. ASSUME NEW m \in Messages, LoseAck(m) PROVE DurableInv'
    BY Zenon, <2>1, <2>11 DEF LoseAck, memVars, diskVars, sweepVars
  <2>12. CASE SweepScan
    BY Zenon, <2>12 DEF SweepScan, diskVars
  <2>13. ASSUME NEW m \in Messages, SweepRemove(m) PROVE DurableInv'
    BY Zenon, <2>13 DEF SweepRemove, RemovePending, DiskFails, memVars, diskVars
  <2>14. ASSUME NEW m \in Messages, SweepSend(m) PROVE DurableInv'
    BY Zenon, <2>1, <2>14 DEF SweepSend, memVars, diskVars, sweepVars
  <2>15. ASSUME NEW m \in Messages, SweepBump(m) PROVE DurableInv'
    BY Zenon, <2>1, <2>15 DEF SweepBump, memVars, diskVars, sweepVars
  <2>16. ASSUME NEW m \in Messages, SweepUpdate(m) PROVE DurableInv'
    BY Zenon, <2>16 DEF SweepUpdate, UpdatePending, DiskFails, memVars, diskVars
  <2>17. CASE Crash
    BY Zenon, <2>17 DEF Crash, diskVars, DeliveryTypeOK, RouteType
  <2>18. CASE Restart
    BY Zenon, <2>18 DEF Restart, diskVars, sweepVars, Lifecycle
  <2>19. CASE Subscribe
    BY Zenon, <2>1, <2>19 DEF Subscribe, memVars, diskVars, sweepVars
  <2>20. CASE Unsubscribe
    BY Zenon, <2>1, <2>20 DEF Unsubscribe, memVars, diskVars, sweepVars
  <2>21. CASE StreamSend
    BY Zenon, <2>1, <2>21 DEF StreamSend, memVars, diskVars, sweepVars
  <2> QED
    BY Zenon, <2>2, <2>3, <2>4, <2>5, <2>6, <2>7, <2>8, <2>9, <2>10, <2>11,
       <2>12, <2>13, <2>14, <2>15, <2>16, <2>17, <2>18, <2>19, <2>20,
       <2>21
       DEF DeliveryNext, Sweep
<1>3. DurableInv => Durable
  BY Zenon DEF DurableInv
<1> QED BY <1>1, <1>2, <1>3, TypeCorrect, LifecycleHolds, PTL DEF DeliverySpec

-----------------------------------------------------------------------------
(* The retry count.                                                        *)

\* The sweep gives up on an envelope only after MaxRetries retries were made,
\* although the count lives in the map, in the bucket and in the sweep, and a
\* restart takes it from the bucket.
THEOREM DropsAreEarned == DeliverySpec => []DropOnlyAfterRetries
<1>1. DeliveryInit => CountedInv
  BY SMTT(20), MessagesAssumption DEF DeliveryInit, CountedInv, DropOnlyAfterRetries, Uncounted
<1>2. DeliveryTypeOK /\ Lifecycle /\ CountedInv /\ [DeliveryNext]_deliveryVars => CountedInv'
  <2> SUFFICES ASSUME DeliveryTypeOK, Lifecycle, CountedInv, [DeliveryNext]_deliveryVars
               PROVE  CountedInv'
    BY Zenon
  <2> USE BoundsAssumption, MessagesAssumption
      DEF CountedInv, DropOnlyAfterRetries, Uncounted
  <2>1. UNCHANGED <<retries, storedRetries, retrying, retryCount, dropped, tries>> => CountedInv'
    BY Zenon
  <2>2. CASE UNCHANGED deliveryVars
    BY Zenon, <2>1, <2>2 DEF deliveryVars
  <2>3. ASSUME NEW m \in Messages, Route(m) PROVE CountedInv'
    BY Zenon, <2>1, <2>3 DEF Route, memVars, diskVars, sweepVars
  <2>4. ASSUME NEW m \in Messages, TrackMemory(m) PROVE CountedInv'
    BY SMTT(20), <2>4 DEF TrackMemory, diskVars, sweepVars, DeliveryTypeOK, MemoryType, HistoryType
  <2>5. ASSUME NEW m \in Messages, TrackStore(m) PROVE CountedInv'
    BY SMTT(20), <2>5 DEF TrackStore, StorePending, DiskFails, memVars, diskVars,
              sweepVars, DeliveryTypeOK, StoreType, HistoryType
  <2>6. ASSUME NEW m \in Messages, Acknowledge(m) PROVE CountedInv'
    BY Zenon, <2>1, <2>6 DEF Acknowledge, memVars, diskVars, sweepVars
  <2>7. ASSUME NEW m \in Messages, AcknowledgeRemove(m) PROVE CountedInv'
    BY Zenon, <2>1, <2>7 DEF AcknowledgeRemove, RemovePending, DiskFails, memVars,
              diskVars, sweepVars
  <2>8. ASSUME NEW m \in Messages, Expire(m) PROVE CountedInv'
    BY Zenon, <2>1, <2>8 DEF Expire, memVars, diskVars, sweepVars
  <2>9. ASSUME NEW m \in Messages, DeliverToLocal(m) PROVE CountedInv'
    BY Zenon, <2>1, <2>9 DEF DeliverToLocal, memVars, diskVars, sweepVars
  <2>10. ASSUME NEW m \in Messages, LoseEnvelope(m) PROVE CountedInv'
    BY Zenon, <2>1, <2>10 DEF LoseEnvelope, memVars, diskVars, sweepVars
  <2>11. ASSUME NEW m \in Messages, LoseAck(m) PROVE CountedInv'
    BY Zenon, <2>1, <2>11 DEF LoseAck, memVars, diskVars, sweepVars
  <2>12. CASE SweepScan
    BY SMTT(20), <2>12 DEF SweepScan, Exhausted, diskVars, DeliveryTypeOK, MemoryType, HistoryType
  <2>13. ASSUME NEW m \in Messages, SweepRemove(m) PROVE CountedInv'
    BY Zenon, <2>1, <2>13 DEF SweepRemove, RemovePending, DiskFails, memVars, diskVars
  <2>14. ASSUME NEW m \in Messages, SweepSend(m) PROVE CountedInv'
    BY SMTT(20), <2>14 DEF SweepSend, memVars, diskVars, DeliveryTypeOK, MemoryType, StoreType,
              HistoryType
  <2>15. ASSUME NEW m \in Messages, SweepBump(m) PROVE CountedInv'
    BY SMTT(20), <2>15 DEF SweepBump, diskVars, DeliveryTypeOK, MemoryType, HistoryType
  <2>16. ASSUME NEW m \in Messages, SweepUpdate(m) PROVE CountedInv'
    BY Zenon, <2>16 DEF SweepUpdate, UpdatePending, DiskFails, memVars, diskVars,
              DeliveryTypeOK, StoreType, SweepType, HistoryType
  <2>17. CASE Crash
    BY Zenon, <2>17 DEF Crash, diskVars, DeliveryTypeOK, HistoryType
  <2>18. CASE Restart
    BY Zenon, <2>18 DEF Restart, diskVars, sweepVars, Lifecycle
  <2>19. CASE Subscribe
    BY Zenon, <2>1, <2>19 DEF Subscribe, memVars, diskVars, sweepVars
  <2>20. CASE Unsubscribe
    BY Zenon, <2>1, <2>20 DEF Unsubscribe, memVars, diskVars, sweepVars
  <2>21. CASE StreamSend
    BY Zenon, <2>1, <2>21 DEF StreamSend, memVars, diskVars, sweepVars
  <2> QED
    BY Zenon, <2>2, <2>3, <2>4, <2>5, <2>6, <2>7, <2>8, <2>9, <2>10, <2>11,
       <2>12, <2>13, <2>14, <2>15, <2>16, <2>17, <2>18, <2>19, <2>20,
       <2>21
       DEF DeliveryNext, Sweep
<1>3. CountedInv => DropOnlyAfterRetries
  BY Zenon DEF CountedInv
<1> QED BY <1>1, <1>2, <1>3, TypeCorrect, LifecycleHolds, PTL DEF DeliverySpec

\* The budget of one more life of the daemon.
LEMMA OneMoreBudget ==
  ASSUME NEW c \in Nat
  PROVE  /\ MaxRetries * c \in Nat
         /\ MaxRetries * (c + 1) = MaxRetries * c + MaxRetries
BY SMTT(20), BoundsAssumption

\* From one start of the daemon to the next, the sweep sends an envelope again
\* at most MaxRetries times: an ACK or a crash in the middle of a retry never
\* gives an envelope a retry more.
THEOREM RetriesAreBounded == DeliverySpec => []RetryBudget
<1>1. DeliveryInit => BudgetInv
  BY SMTT(20), BoundsAssumption, MessagesAssumption, OneMoreBudget
     DEF DeliveryInit, BudgetInv, Uncounted
<1>2. DeliveryTypeOK /\ Lifecycle /\ BudgetInv /\ [DeliveryNext]_deliveryVars => BudgetInv'
  <2> SUFFICES ASSUME DeliveryTypeOK, Lifecycle, BudgetInv, [DeliveryNext]_deliveryVars
               PROVE  BudgetInv'
    BY Zenon
  <2> DEFINE spent == MaxRetries * crashes
  <2>a. spent \in Nat /\ MaxRetries * (crashes + 1) = spent + MaxRetries
    BY Zenon, OneMoreBudget DEF DeliveryTypeOK, RouteType
  <2>b. UNCHANGED crashes => MaxRetries * crashes' = spent
    BY Zenon
  <2> USE BoundsAssumption, MessagesAssumption
      DEF BudgetInv, Uncounted
  <2>1. UNCHANGED <<up, crashes, pending, retries, storedRetries, retryList, retrying, retryCount, tries>> => BudgetInv'
    BY SMTT(20)
  <2>2. CASE UNCHANGED deliveryVars
    BY Zenon, <2>1, <2>2 DEF deliveryVars
  <2>3. ASSUME NEW m \in Messages, Route(m) PROVE BudgetInv'
    BY Zenon, <2>1, <2>3 DEF Route, memVars, diskVars, sweepVars
  <2>4. ASSUME NEW m \in Messages, TrackMemory(m) PROVE BudgetInv'
    BY SMTT(20), <2>4, <2>a DEF TrackMemory, diskVars, sweepVars, Lifecycle, DeliveryTypeOK,
              MemoryType, HistoryType
  <2>5. ASSUME NEW m \in Messages, TrackStore(m) PROVE BudgetInv'
    BY SMTT(20), <2>5, <2>a DEF TrackStore, StorePending, DiskFails, memVars, diskVars,
              sweepVars, DeliveryTypeOK, StoreType
  <2>6. ASSUME NEW m \in Messages, Acknowledge(m) PROVE BudgetInv'
    BY Zenon, <2>6 DEF Acknowledge, diskVars, sweepVars
  <2>7. ASSUME NEW m \in Messages, AcknowledgeRemove(m) PROVE BudgetInv'
    BY Zenon, <2>1, <2>7 DEF AcknowledgeRemove, RemovePending, DiskFails, memVars,
              diskVars, sweepVars
  <2>8. ASSUME NEW m \in Messages, Expire(m) PROVE BudgetInv'
    BY Zenon, <2>1, <2>8 DEF Expire, memVars, diskVars, sweepVars
  <2>9. ASSUME NEW m \in Messages, DeliverToLocal(m) PROVE BudgetInv'
    BY Zenon, <2>1, <2>9 DEF DeliverToLocal, memVars, diskVars, sweepVars
  <2>10. ASSUME NEW m \in Messages, LoseEnvelope(m) PROVE BudgetInv'
    BY Zenon, <2>1, <2>10 DEF LoseEnvelope, memVars, diskVars, sweepVars
  <2>11. ASSUME NEW m \in Messages, LoseAck(m) PROVE BudgetInv'
    BY Zenon, <2>1, <2>11 DEF LoseAck, memVars, diskVars, sweepVars
  <2>12. CASE SweepScan
    BY SMTT(20), <2>12, <2>a DEF SweepScan, SweepIdle, Exhausted, diskVars, DeliveryTypeOK,
              MemoryType, HistoryType
  <2>13. ASSUME NEW m \in Messages, SweepRemove(m) PROVE BudgetInv'
    BY Zenon, <2>1, <2>13 DEF SweepRemove, RemovePending, DiskFails, memVars, diskVars
  <2>14. ASSUME NEW m \in Messages, SweepSend(m) PROVE BudgetInv'
    BY SMTT(20), <2>14, <2>a DEF SweepSend, memVars, diskVars, DeliveryTypeOK, MemoryType,
              HistoryType
  <2>15. ASSUME NEW m \in Messages, SweepBump(m) PROVE BudgetInv'
    BY SMTT(20), <2>15, <2>a DEF SweepBump, diskVars, DeliveryTypeOK, MemoryType, HistoryType
  <2>16. ASSUME NEW m \in Messages, SweepUpdate(m) PROVE BudgetInv'
    BY SMTT(20), <2>16, <2>a DEF SweepUpdate, UpdatePending, DiskFails, memVars,
              diskVars, DeliveryTypeOK, StoreType, SweepType
  <2>17. CASE Crash
    BY SMTT(20), <2>17, <2>a DEF Crash, diskVars, DeliveryTypeOK, HistoryType
  <2>18. CASE Restart
    BY SMTT(20), <2>18, <2>a DEF Restart, diskVars, sweepVars, Lifecycle, DeliveryTypeOK, StoreType,
              HistoryType
  <2>19. CASE Subscribe
    BY Zenon, <2>1, <2>19 DEF Subscribe, memVars, diskVars, sweepVars
  <2>20. CASE Unsubscribe
    BY Zenon, <2>1, <2>20 DEF Unsubscribe, memVars, diskVars, sweepVars
  <2>21. CASE StreamSend
    BY Zenon, <2>1, <2>21 DEF StreamSend, memVars, diskVars, sweepVars
  <2> QED
    BY Zenon, <2>2, <2>3, <2>4, <2>5, <2>6, <2>7, <2>8, <2>9, <2>10, <2>11,
       <2>12, <2>13, <2>14, <2>15, <2>16, <2>17, <2>18, <2>19, <2>20,
       <2>21
       DEF DeliveryNext, Sweep
<1>3. DeliveryTypeOK /\ BudgetInv => RetryBudget
  BY Zenon, OneMoreBudget DEF DeliveryTypeOK, RouteType, BudgetInv, RetryBudget
<1> QED BY <1>1, <1>2, <1>3, TypeCorrect, LifecycleHolds, PTL DEF DeliverySpec

\* Retries are exact for any number of envelopes, crashes and restarts: never
\* more than MaxRetries, and no drop before them (checkTimeouts).
THEOREM RetriesAreExact == DeliverySpec => []RetriesInBudget
BY RetriesAreBounded, DropsAreEarned, PTL DEF RetriesInBudget

-----------------------------------------------------------------------------
(* Coord and its clients.                                                  *)

\* Coord's first token was the one it is configured with, unless that changed;
\* it is there once the start has come past SeedToken.
SeededInv ==
  /\ coord.pc # "down" => boots > 0
  /\ seeded # NoToken => boots > 0 /\ (seeded = coord.conf \/ rotated)
  /\ coord.pc \in {"jwt", "listen", "serve", "drain"} /\ coord.conf # NoToken => seeded # NoToken

\* Serving begins with a fresh row of the embedded relay.
EmbeddedInv == Serving => rows["embedded"] = "fresh" \/ missed

TrustInv ==
  /\ TrustTypeOK /\ ConnectedIsPinned /\ LoginSurvives
  /\ SeededInv /\ EmbeddedInv

\* TrustAgrees: across any number of starts, crashes and signals of coord, a
\* client that is connected talks to the start of coord it pinned, the daemon's
\* token stays valid, the configured token is accepted and the embedded relay is
\* listed.
THEOREM TrustStaysAgreed == TrustSpec => []TrustAgrees
<1>1. TrustInit => TrustInv
  BY TrustAssumption
     DEF TrustInit, TrustInv, TrustTypeOK, ConnectedIsPinned, LoginSurvives, SeededInv,
         EmbeddedInv, Serving, Open
<1>2. TrustInv /\ [TrustNext]_trustVars => TrustInv'
  <2> SUFFICES ASSUME TrustInv, [TrustNext]_trustVars PROVE TrustInv'
    BY Zenon
  <2> USE TrustAssumption
      DEF TrustInv, TrustTypeOK, ConnectedIsPinned, LoginSurvives, SeededInv, EmbeddedInv,
          Serving, Open, Nodes, Clients
  <2>1. CASE UNCHANGED trustVars
    BY SMTT(20), <2>1 DEF trustVars, trustDisk, trustHist
  <2>2. ASSUME NEW t \in PreShared \union {NoToken}, Boot(t) PROVE TrustInv'
    <3>1. TrustTypeOK'
      BY <2>2 DEF Boot, trustDisk
    <3>2. ConnectedIsPinned'
      BY Zenon, <2>2 DEF Boot, trustDisk
    <3>3. LoginSurvives'
      BY Zenon, <2>2 DEF Boot, trustDisk
    <3>4. SeededInv'
      <4>1. coord'.conf = t /\ coord'.pc = "key" /\ boots' > 0 /\ seeded' = seeded
        BY <2>2 DEF Boot, trustDisk
      <4>2. rotated \/ (boots > 0 /\ t # coord.conf) => rotated'
        BY Zenon, <2>2 DEF Boot
      <4> QED
        BY Zenon, <4>1, <4>2
    <3>5. EmbeddedInv'
      BY Zenon, <2>2 DEF Boot, trustDisk
    <3> QED
      BY Zenon, <3>1, <3>2, <3>3, <3>4, <3>5
  <2>3. ASSUME BootKey PROVE TrustInv'
    BY SMTT(20), <2>3 DEF BootKey, CoordTo, trustHist
  <2>4. ASSUME BootSeed PROVE TrustInv'
    <3>1. TrustTypeOK'
      BY Zenon, <2>4 DEF BootSeed, SeedToken, CoordTo, trustHist
    <3>2. ConnectedIsPinned'
      BY Zenon, <2>4 DEF BootSeed, SeedToken, CoordTo, trustHist
    <3>3. LoginSurvives'
      BY Zenon, <2>4 DEF BootSeed, SeedToken, CoordTo, trustHist
    <3>4. SeededInv'
      BY Zenon, <2>4 DEF BootSeed, SeedToken, CoordTo, trustHist
    <3>5. EmbeddedInv'
      BY Zenon, <2>4 DEF BootSeed, SeedToken, CoordTo, trustHist
    <3> QED
      BY Zenon, <3>1, <3>2, <3>3, <3>4, <3>5
  <2>5. ASSUME BootJWT PROVE TrustInv'
    BY <2>5 DEF BootJWT, NewJWTIssuer, CoordTo, trustHist
  <2>6. ASSUME BootServe PROVE TrustInv'
    BY Zenon, <2>6 DEF BootServe, CoordTo, trustDisk, trustHist
  <2>7. ASSUME Dies, trouble' \in 0..MaxTrouble PROVE TrustInv'
    <3>1. TrustTypeOK'
      <4>1. /\ coord' = [coord EXCEPT !.pc = "down"]
            /\ client' = [c \in Clients |-> [client[c] EXCEPT !.conn = FALSE]]
            /\ coordKey' \in {"none", "cut", "whole"} /\ trouble' \in 0..MaxTrouble
            /\ UNCHANGED <<boots, jwtKey, seeded, rows, jwt>>
        BY Zenon, <2>7 DEF Dies, CoordTo, trustHist
      <4>2. \A c \in Clients : /\ client'[c] \in [pc : {"register", "run", "exit"}, pinned : 0..boots,
                                                 conn : BOOLEAN]
                              /\ ~client'[c].conn
        BY Zenon, <4>1
      <4>3. client' \in [Clients -> [pc : {"register", "run", "exit"}, pinned : 0..boots,
                                     conn : BOOLEAN]]
        BY Zenon, <4>1, <4>2
      <4>4. coord' \in [pc : {"down", "key", "seed", "jwt", "listen", "serve", "drain"},
                        conf : PreShared \union {NoToken}]
        BY Zenon, <4>1
      <4> QED
        BY Zenon, <4>1, <4>2, <4>3, <4>4
    <3>2. ConnectedIsPinned'
      BY Zenon, <2>7 DEF Dies, CoordTo, trustHist
    <3>3. LoginSurvives'
      BY Zenon, <2>7 DEF Dies, CoordTo, trustHist
    <3>4. SeededInv'
      BY Zenon, <2>7 DEF Dies, CoordTo, trustHist
    <3>5. EmbeddedInv'
      BY Zenon, <2>7 DEF Dies, CoordTo, trustHist
    <3> QED
      BY Zenon, <3>1, <3>2, <3>3, <3>4, <3>5
  <2>8. ASSUME CoordSignal PROVE TrustInv'
    BY SMTT(20), <2>8 DEF CoordSignal, Trouble, CoordTo, trustDisk, trustHist
  <2>9. ASSUME CoordStopped PROVE TrustInv'
    BY Zenon, <2>7, <2>9 DEF CoordStopped
  <2>19. ASSUME CoordCrash PROVE TrustInv'
    BY SMTT(20), <2>7, <2>19 DEF CoordCrash, Trouble
  <2>10. ASSUME LogIn PROVE TrustInv'
    BY Zenon, <2>10 DEF LogIn, trustDisk, trustHist
  <2>11. ASSUME EmbeddedBeat PROVE TrustInv'
    BY Zenon, <2>11 DEF EmbeddedBeat, Beat, trustDisk, trustHist
  <2>12. ASSUME Reap PROVE TrustInv'
    BY Zenon, <2>12 DEF Reap, trustDisk, trustHist
  <2>13. ASSUME RelayStart PROVE TrustInv'
    BY <2>13 DEF RelayStart, Trouble, trustDisk, trustHist
  <2>14. ASSUME RelayStop PROVE TrustInv'
    <3>1. TrustTypeOK'
      <4>1. /\ client' = [client EXCEPT !["relay"] = [@ EXCEPT !.pc = "exit", !.conn = FALSE]]
            /\ trouble' \in 0..MaxTrouble
            /\ UNCHANGED <<coord, boots, coordKey, jwtKey, seeded, rows, jwt>>
        <5>1. trouble' \in 0..MaxTrouble
          BY <2>14 DEF RelayStop, Trouble
        <5>2. client' = [client EXCEPT !["relay"] = [@ EXCEPT !.pc = "exit", !.conn = FALSE]]
          BY Zenon, <2>14 DEF RelayStop
        <5> QED
          BY Zenon, <2>14, <5>1, <5>2 DEF RelayStop, trustDisk
      <4>2. /\ client'["relay"] \in [pc : {"register", "run", "exit"}, pinned : 0..boots,
                                     conn : BOOLEAN]
            /\ ~client'["relay"].conn /\ client'["daemon"] = client["daemon"]
        BY Zenon, <4>1
      <4>3. client' \in [Clients -> [pc : {"register", "run", "exit"}, pinned : 0..boots,
                                     conn : BOOLEAN]]
        BY Zenon, <4>1, <4>2
      <4> QED
        BY Zenon, <4>1, <4>2, <4>3
    <3>2. ConnectedIsPinned'
      BY Zenon, <2>14 DEF RelayStop, Trouble, trustDisk, trustHist
    <3>3. LoginSurvives'
      BY Zenon, <2>14 DEF RelayStop, Trouble, trustDisk, trustHist
    <3>4. SeededInv'
      BY Zenon, <2>14 DEF RelayStop, Trouble, trustDisk, trustHist
    <3>5. EmbeddedInv'
      BY Zenon, <2>14 DEF RelayStop, Trouble, trustDisk, trustHist
    <3> QED
      BY Zenon, <3>1, <3>2, <3>3, <3>4, <3>5
  <2>15. ASSUME NEW c \in Clients, Dial(c) PROVE TrustInv'
    <3>1. TrustTypeOK'
      <4>1. /\ client' = [client EXCEPT ![c] = [@ EXCEPT !.conn = TRUE, !.pinned = boots]] /\ Open
            /\ UNCHANGED <<coord, boots, coordKey, jwtKey, seeded, rows, trouble, jwt>>
        BY Zenon, <2>15 DEF Dial, Verify, SelfSignedCert, trustDisk, trustHist
      <4>2. [client[c] EXCEPT !.conn = TRUE, !.pinned = boots] \in
              [pc : {"register", "run", "exit"}, pinned : 0..boots, conn : BOOLEAN]
        <5>1. client[c] \in [pc : {"register", "run", "exit"}, pinned : 0..boots, conn : BOOLEAN]
          BY Zenon
        <5>2. boots \in 0..boots
          OBVIOUS
        <5> HIDE DEF TrustInv
        <5> QED
          BY Zenon, <5>1, <5>2
      <4>3. client' \in [Clients -> [pc : {"register", "run", "exit"}, pinned : 0..boots,
                                     conn : BOOLEAN]]
        BY Zenon, <4>1, <4>2
      <4> QED
        BY Zenon, <4>1, <4>3
    <3>2. ConnectedIsPinned'
      BY <2>15 DEF Dial, Verify, SelfSignedCert, trustDisk, trustHist
    <3>3. LoginSurvives'
      BY Zenon, <2>15 DEF Dial, Verify, SelfSignedCert, trustDisk, trustHist
    <3>4. SeededInv'
      BY Zenon, <2>15 DEF Dial, Verify, SelfSignedCert, trustDisk, trustHist
    <3>5. EmbeddedInv'
      BY Zenon, <2>15 DEF Dial, Verify, SelfSignedCert, trustDisk, trustHist
    <3> QED
      BY Zenon, <3>1, <3>2, <3>3, <3>4, <3>5
  <2>16. ASSUME NEW c \in Clients, Registers(c) PROVE TrustInv'
    BY <2>16 DEF Registers, trustDisk, trustHist
  <2>17. ASSUME NEW c \in Clients, Heartbeat(c) PROVE TrustInv'
    BY SMTT(20), <2>17 DEF Heartbeat, Beat, trustDisk, trustHist
  <2>18. ASSUME NEW n \in Nodes, Ages(n) PROVE TrustInv'
    <3>1. TrustTypeOK'
      BY SMTT(20), <2>18 DEF Ages, Trouble, trustDisk
    <3>2. ConnectedIsPinned'
      BY Zenon, <2>18 DEF Ages, Trouble, trustDisk
    <3>3. LoginSurvives'
      BY Zenon, <2>18 DEF Ages, Trouble, trustDisk
    <3>4. SeededInv'
      BY Zenon, <2>18 DEF Ages, Trouble, trustDisk
    <3>5. EmbeddedInv'
      BY Zenon, <2>18 DEF Ages, Trouble, trustDisk
    <3> QED
      BY Zenon, <3>1, <3>2, <3>3, <3>4, <3>5
  <2> HIDE DEF TrustInv
  <2> QED
    BY Zenon, <2>1, <2>2, <2>3, <2>4, <2>5, <2>6, <2>8, <2>9, <2>10, <2>11, <2>12, <2>13, <2>14, <2>15, <2>16, <2>17, <2>18, <2>19 DEF TrustNext
<1>3. TrustInv => TrustAgrees
  BY Zenon DEF TrustInv, TrustAgrees, SeededInv, EmbeddedInv, ConfiguredIsAccepted, EmbeddedIsListed,
         Open, Serving
<1>4. TrustSpec => TrustInit /\ [][TrustNext]_trustVars
  BY PTL DEF TrustSpec
<1> QED
  BY <1>1, <1>2, <1>3, <1>4, PTL

-----------------------------------------------------------------------------
(* Handles and their owners.                                              *)

OwnerType ==
  /\ handles \subseteq Handles
  /\ handleOwner \in [Handles -> Conns \union {NoConn}]
  /\ connHandles \in [Conns -> SUBSET Handles]
  /\ registering \subseteq Conns \X Handles

\* A handle has an owner exactly while it is registered; with it the three
\* maps determine each other.
OwnerInv ==
  /\ OwnerType
  /\ \A h \in Handles : h \notin handles => handleOwner[h] = NoConn
  /\ OwnersAgree

\* The maps of handles and their owners, as a whole.
LEMMA OwnersAlways == Spec => []OwnerInv
<1>1. Init => OwnerInv
  BY Zenon, NoneAssumption DEF Init, OwnerInv, OwnerType, OwnersAgree
<1>2. OwnerInv /\ [Next]_vars => OwnerInv'
  <2>. SUFFICES ASSUME OwnerInv, [Next]_vars PROVE OwnerInv'
    BY Zenon
  <2>1. UNCHANGED connVars => OwnerInv'
    BY Zenon DEF OwnerInv, OwnerType, OwnersAgree, connVars
  <2>2. ASSUME NEW c \in Conns, NEW h \in Handles, RegisterCall(c, h)
        PROVE  OwnerInv'
    BY SMTT(20), <2>2 DEF RegisterCall, OwnerInv, OwnerType, OwnersAgree
  <2>3. ASSUME NEW c \in Conns, NEW h \in Handles, Register(c, h)
        PROVE  OwnerInv'
    <3>1. CASE h \in handles
      BY SMTT(20), <2>3, <3>1 DEF Register, OwnerInv, OwnerType, OwnersAgree
    <3>2. CASE h \notin handles
      <4>1. /\ handles' = handles \union {h}
            /\ handleOwner' = [handleOwner EXCEPT ![h] = c]
            /\ connHandles' = [connHandles EXCEPT ![c] = @ \union {h}]
            /\ registering' = registering \ {<<c, h>>}
        BY Zenon, <2>3, <3>2 DEF Register
      <4>2. OwnerType'
        BY Zenon, <4>1 DEF OwnerInv, OwnerType
      <4>3. \A d \in Conns : h \notin connHandles[d]
        BY Zenon, <3>2 DEF OwnerInv, OwnersAgree
      <4>4. OwnersAgree'
        BY SMTT(20), <4>1, <4>3, NoneAssumption DEF OwnerInv, OwnerType, OwnersAgree
      <4>. QED
        BY Zenon, <4>1, <4>2, <4>4 DEF OwnerInv, OwnerType
    <3>. QED
      BY Zenon, <3>1, <3>2
  <2>4. ASSUME NEW c \in Conns, DisconnectConn(c) PROVE OwnerInv'
    <3>1. /\ handles' = handles \ connHandles[c]
          /\ handleOwner' = [h \in Handles |-> IF h \in connHandles[c]
                                              THEN NoConn ELSE handleOwner[h]]
          /\ connHandles' = [connHandles EXCEPT ![c] = {}]
          /\ registering' = registering
      BY Zenon, <2>4 DEF DisconnectConn
    <3>2. OwnerType'
      BY Zenon, <3>1 DEF OwnerInv, OwnerType
    <3>3. OwnersAgree'
      BY SMTT(20), <3>1, NoneAssumption DEF OwnerInv, OwnerType, OwnersAgree
    <3>. QED
      BY Zenon, <3>1, <3>2, <3>3 DEF OwnerInv, OwnerType
  <2>5. ASSUME NEW s \in Streams,
               \/ \E c \in Conns, h \in Handles : SubscribeCall(s, c, h)
               \/ SubscribeAppend(s) \/ SubscribeExit(s)
        PROVE  OwnerInv'
    BY Zenon, <2>1, <2>5 DEF SubscribeCall, SubscribeAppend, SubscribeExit
  <2>6. ASSUME NEW d \in Deliveries,
               (\E h \in Handles : DeliverBegin(d, h)) \/ DeliverSend(d)
        PROVE  OwnerInv'
    BY Zenon, <2>1, <2>6 DEF DeliverBegin, DeliverSend
  <2>7. CASE UNCHANGED vars
    BY Zenon, <2>1, <2>7 DEF vars, connVars
  <2>. QED
    BY Zenon, <2>2, <2>3, <2>4, <2>5, <2>6, <2>7 DEF Next
<1>. QED
  BY <1>1, <1>2, PTL DEF Spec

\* AgentServer's maps agree (OwnersAgree): however connections register,
\* compete for a handle and end, each registered handle is listed by its one
\* owner, and one without an owner by nobody.
THEOREM OwnersStayAgreed == Spec => []OwnersAgree
<1>1. OwnerInv => OwnersAgree
  BY Zenon DEF OwnerInv
<1>. QED
  BY <1>1, OwnersAlways, PTL

-----------------------------------------------------------------------------
(* Slices.  The proofs below speak of the i-th channel of a handle's slice *)
(* and never of the array it is in.                                        *)

Length(h) == subscribers[h].len

Slot(h, i) == heap[subscribers[h].arr][i]

\* A slice lies within its array, and no two handles share an array.
SliceType ==
  /\ heap \in Seq(Seq(Streams \union {NoStream}))
  /\ subscribers \in [Handles -> [arr : Nat, len : Nat]]
  /\ \A h \in Handles :
       /\ subscribers[h].arr <= Len(heap)
       /\ subscribers[h].arr = 0 => Length(h) = 0
       /\ subscribers[h].arr # 0 => Length(h) <= Len(heap[subscribers[h].arr])
  /\ \A g, h \in Handles : g # h /\ subscribers[g].arr = subscribers[h].arr => subscribers[h].arr = 0

StreamType ==
  /\ alive \subseteq Conns /\ closed \subseteq Streams
  /\ streamPc \in [Streams -> {"new", "verified", "listening", "gone"}]
  /\ streamConn \in [Streams -> Conns \union {NoConn}]
  /\ streamHandle \in [Streams -> Handles \union {CHOOSE h \in Handles : TRUE}]
  /\ \A s \in Streams : streamPc[s] # "new" => streamHandle[s] \in Handles

\* Every channel of a slice is that of a stream which listens to the handle,
\* is not closed and is in no other slot; a channel is closed after it was
\* appended.
SlotsInv ==
  /\ \A h \in Handles : \A i \in 1..Length(h) :
       /\ Slot(h, i) \in Streams \ closed
       /\ streamPc[Slot(h, i)] = "listening" /\ streamHandle[Slot(h, i)] = h
       /\ \A j \in 1..Length(h) : Slot(h, i) = Slot(h, j) => i = j
  /\ \A s \in closed : streamPc[s] \in {"listening", "gone"}

\* A stream of a connection that is alive serves a handle the connection owns:
\* it owned the handle when the stream was verified, and gives it up only when
\* it ends.
StreamOwns ==
  \A s \in Streams :
    streamPc[s] # "new" /\ streamConn[s] \in alive =>
      streamHandle[s] \in handles /\ handleOwner[streamHandle[s]] = streamConn[s]

Arrays == Seq(Streams \union {NoStream})

\* Arrays and slices after a step that gives one handle the slice [a, n],
\* either in its own array or in a new one.
LEMMA SliceTypeStep ==
  ASSUME SliceType, NEW h \in Handles, NEW a \in Nat, NEW n \in Nat,
         subscribers' = [subscribers EXCEPT ![h] = [arr |-> a, len |-> n]],
         heap' \in Seq(Arrays), Len(heap') >= Len(heap), a <= Len(heap'),
         a = 0 => n = 0, a # 0 => n <= Len(heap'[a]),
         a = subscribers[h].arr \/ a > Len(heap),
         \A k \in 1..Len(heap) : k # a => heap'[k] = heap[k]
  PROVE  /\ SliceType' /\ subscribers'[h] = [arr |-> a, len |-> n]
         /\ \A g \in Handles \ {h} :
              /\ Length(g)' = Length(g)
              /\ \A i \in 1..Length(g) : Slot(g, i)' = Slot(g, i)
<1>1. /\ subscribers \in [Handles -> [arr : Nat, len : Nat]]
      /\ heap \in Seq(Arrays) /\ Len(heap) \in Nat /\ Len(heap') \in Nat
  BY DEF SliceType, Arrays
<1>2. subscribers'[h] = [arr |-> a, len |-> n] /\ \A g \in Handles \ {h} : subscribers'[g] = subscribers[g]
  BY Zenon, <1>1
<1>3. subscribers' \in [Handles -> [arr : Nat, len : Nat]]
  BY Zenon, <1>1
<1>4. ASSUME NEW g \in Handles \ {h}
      PROVE  /\ subscribers[g].arr \in Nat /\ subscribers[g].len \in Nat
             /\ subscribers[g].arr <= Len(heap)
             /\ subscribers[g].arr = 0 => subscribers[g].len = 0
             /\ subscribers[g].arr # 0 => /\ subscribers[g].arr # a
                                          /\ subscribers[g].len <= Len(heap[subscribers[g].arr])
                                          /\ heap'[subscribers[g].arr] = heap[subscribers[g].arr]
  <2>1. /\ subscribers[g].arr \in Nat /\ subscribers[g].len \in Nat
        /\ subscribers[g].arr <= Len(heap)
    BY Zenon, <1>1 DEF SliceType
  <2>2. /\ subscribers[g].arr = 0 => subscribers[g].len = 0
        /\ subscribers[g].arr # 0 => subscribers[g].len <= Len(heap[subscribers[g].arr])
    BY Zenon DEF SliceType, Length
  <2>3. subscribers[g].arr # 0 => subscribers[g].arr # subscribers[h].arr
    BY Zenon DEF SliceType
  <2>4. subscribers[g].arr # 0 => subscribers[g].arr # a
    BY <1>1, <2>1, <2>3
  <2>5. subscribers[g].arr # 0 => subscribers[g].arr \in 1..Len(heap)
    BY <1>1, <2>1
  <2> QED
    BY Zenon, <2>1, <2>2, <2>4, <2>5
<1>5. ASSUME NEW g \in Handles
      PROVE  /\ subscribers'[g].arr <= Len(heap')
             /\ subscribers'[g].arr = 0 => subscribers'[g].len = 0
             /\ subscribers'[g].arr # 0 => subscribers'[g].len <= Len(heap'[subscribers'[g].arr])
  <2>1. CASE g = h
    BY <1>2, <2>1
  <2>2. CASE g # h
    <3>1. subscribers'[g] = subscribers[g]
      BY Zenon, <1>2, <2>2
    <3>2. subscribers[g].arr <= Len(heap')
      BY <1>1, <1>4, <2>2
    <3> QED
      BY Zenon, <1>4, <2>2, <3>1, <3>2
  <2> QED
    BY Zenon, <2>1, <2>2
<1>6. ASSUME NEW g \in Handles, NEW f \in Handles, g # f, subscribers'[g].arr = subscribers'[f].arr
      PROVE  subscribers'[f].arr = 0
  <2>1. CASE g # h /\ f # h
    <3>1. subscribers'[g] = subscribers[g] /\ subscribers'[f] = subscribers[f]
      BY Zenon, <1>2, <2>1
    <3> QED
      BY Zenon, <1>6, <3>1 DEF SliceType
  <2>2. CASE g = h
    <3>1. subscribers'[g].arr = a /\ subscribers'[f] = subscribers[f] /\ f \in Handles \ {h}
      BY <1>2, <1>6, <2>2
    <3> QED
      BY Zenon, <1>4, <1>6, <3>1
  <2>3. CASE f = h
    <3>1. subscribers'[f].arr = a /\ subscribers'[g] = subscribers[g] /\ g \in Handles \ {h}
      BY <1>2, <1>6, <2>3
    <3> QED
      BY Zenon, <1>4, <1>6, <3>1
  <2> QED
    BY Zenon, <2>1, <2>2, <2>3
<1>7. SliceType'
  BY Zenon, <1>3, <1>5, <1>6 DEF SliceType, Length, Arrays
<1>8. ASSUME NEW g \in Handles \ {h}
      PROVE  /\ subscribers'[g].len = subscribers[g].len
             /\ \A i \in 1..subscribers[g].len :
                  heap'[subscribers'[g].arr][i] = heap[subscribers[g].arr][i]
  <2>1. subscribers'[g] = subscribers[g]
    BY Zenon, <1>2
  <2>2. CASE subscribers[g].arr # 0
    BY Zenon, <1>4, <2>1, <2>2
  <2>3. CASE subscribers[g].arr = 0
    BY <1>4, <2>1, <2>3
  <2> QED
    BY Zenon, <2>2, <2>3
<1> QED
  BY Zenon, <1>2, <1>7, <1>8 DEF Length, Slot

\* Go's append, in place or into a new array, adds one channel at the end of
\* the handle's slice and leaves the other slices alone.
LEMMA AppendSlots ==
  ASSUME SliceType, NEW h \in Handles, NEW s \in Streams, Append1(h, s)
  PROVE  /\ SliceType' /\ Length(h) \in Nat /\ Length(h)' = Length(h) + 1
         /\ Slot(h, Length(h))' = s
         /\ \A i \in 1..Length(h) : Slot(h, i)' = Slot(h, i)
         /\ \A g \in Handles \ {h} :
              /\ Length(g)' = Length(g)
              /\ \A i \in 1..Length(g) : Slot(g, i)' = Slot(g, i)
<1> DEFINE n     == subscribers[h].len
           a     == subscribers[h].arr
           cap   == IF n = 0 THEN 1 ELSE 2 * n
           fresh == [i \in 1..cap |-> IF i <= n THEN heap[a][i]
                                      ELSE IF i = n + 1 THEN s ELSE NoStream]
<1>1. /\ heap \in Seq(Arrays) /\ Len(heap) \in Nat
      /\ a \in Nat /\ n \in Nat /\ a <= Len(heap)
      /\ subscribers \in [Handles -> [arr : Nat, len : Nat]]
  BY DEF SliceType, Arrays
<1>2. (a = 0 => n = 0) /\ (a # 0 => n <= Len(heap[a]))
  BY Zenon DEF SliceType, Length
<1>3. CASE a = 0 \/ n = Len(heap[a])
  <2>1. /\ heap' = Append(heap, fresh)
        /\ subscribers' = [subscribers EXCEPT ![h] = [arr |-> Len(heap) + 1, len |-> n + 1]]
    BY Zenon, <1>3 DEF Append1
  <2>2. cap \in Nat /\ n + 1 <= cap /\ n + 1 \in 1..cap
    BY <1>1
  <2>3. \A i \in 1..n : i \in 1..cap
    BY <1>1, <2>2
  <2>4. fresh \in Arrays
    <3>1. ASSUME NEW i \in 1..cap PROVE fresh[i] \in Streams \union {NoStream}
      <4>1. CASE i <= n
        <5>1. a # 0 /\ heap[a] \in Arrays /\ i \in 1..Len(heap[a])
          BY <1>1, <1>2, <2>2, <4>1
        <5> QED
          BY <4>1, <5>1 DEF Arrays
      <4>2. CASE ~(i <= n)
        BY Zenon, <4>2
      <4> QED
        BY Zenon, <4>1, <4>2
    <3>2. fresh \in [1..cap -> Streams \union {NoStream}]
      BY Zenon, <3>1
    <3> HIDE DEF fresh, cap
    <3> QED
      BY SMTT(20), <2>2, <3>2 DEF Arrays
  <2>5. Len(fresh) = cap
    BY <2>2
  <2>6. fresh[n + 1] = s /\ \A i \in 1..n : fresh[i] = heap[a][i]
    BY <1>1, <2>2, <2>3
  <2> HIDE DEF fresh, cap
  <2>7. /\ heap' \in Seq(Arrays) /\ Len(heap') = Len(heap) + 1
        /\ heap'[Len(heap) + 1] = fresh
        /\ \A k \in 1..Len(heap) : heap'[k] = heap[k]
    BY <1>1, <2>1, <2>4
  <2>8. /\ SliceType' /\ subscribers'[h] = [arr |-> Len(heap) + 1, len |-> n + 1]
        /\ \A g \in Handles \ {h} :
             /\ Length(g)' = Length(g)
             /\ \A i \in 1..Length(g) : Slot(g, i)' = Slot(g, i)
    <3>1. Len(heap) + 1 \in Nat /\ n + 1 \in Nat
      BY <1>1
    <3>2. /\ Len(heap') >= Len(heap) /\ Len(heap) + 1 <= Len(heap') /\ Len(heap) + 1 # 0
          /\ Len(heap) + 1 > Len(heap)
      BY <1>1, <2>7
    <3>3. n + 1 <= Len(heap'[Len(heap) + 1])
      BY Zenon, <2>2, <2>5, <2>7
    <3> QED
      BY Zenon, <2>1, <2>7, <3>1, <3>2, <3>3, SliceTypeStep
  <2>9. /\ subscribers'[h].len = n + 1
        /\ heap'[subscribers'[h].arr] = fresh
    BY <2>7, <2>8
  <2> QED
    BY Zenon, <1>1, <2>6, <2>8, <2>9 DEF Length, Slot
<1>4. CASE ~(a = 0 \/ n = Len(heap[a]))
  <2>1. /\ heap' = [heap EXCEPT ![a][n + 1] = s]
        /\ subscribers' = [subscribers EXCEPT ![h] = [arr |-> a, len |-> n + 1]]
    BY Zenon, <1>4 DEF Append1
  <2>2. a \in 1..Len(heap) /\ heap[a] \in Arrays
    BY <1>1, <1>4
  <2>3. Len(heap[a]) \in Nat /\ n + 1 \in 1..Len(heap[a]) /\ n + 1 <= Len(heap[a])
    BY SMTT(20), <1>1, <1>2, <1>4, <2>2 DEF Arrays
  <2> DEFINE arr == [heap[a] EXCEPT ![n + 1] = s]
  <2>4. /\ arr \in Arrays /\ Len(arr) = Len(heap[a]) /\ arr[n + 1] = s
        /\ \A i \in 1..n : arr[i] = heap[a][i]
    BY <1>1, <2>2, <2>3 DEF Arrays
  <2>5. heap' = [heap EXCEPT ![a] = arr]
    BY Zenon, <2>1
  <2> HIDE DEF arr
  <2>6. /\ heap' \in Seq(Arrays) /\ Len(heap') = Len(heap) /\ heap'[a] = arr
        /\ \A k \in 1..Len(heap) : k # a => heap'[k] = heap[k]
    BY <1>1, <2>2, <2>4, <2>5
  <2>7. /\ SliceType' /\ subscribers'[h] = [arr |-> a, len |-> n + 1]
        /\ \A g \in Handles \ {h} :
             /\ Length(g)' = Length(g)
             /\ \A i \in 1..Length(g) : Slot(g, i)' = Slot(g, i)
    <3>1. n + 1 \in Nat /\ Len(heap') >= Len(heap) /\ a <= Len(heap') /\ a # 0
      BY <1>1, <2>2, <2>6
    <3>2. n + 1 <= Len(heap'[a])
      BY Zenon, <2>3, <2>4, <2>6
    <3> QED
      BY Zenon, <1>1, <2>1, <2>6, <3>1, <3>2, SliceTypeStep
  <2>8. subscribers'[h].len = n + 1 /\ heap'[subscribers'[h].arr] = arr
    BY <2>6, <2>7
  <2> QED
    BY Zenon, <1>1, <2>4, <2>7, <2>8 DEF Length, Slot
<1> QED
  BY Zenon, <1>3, <1>4

\* Shifting the tail of the slice by one takes out the i-th channel and leaves
\* the other slices alone.
LEMMA RemoveSlots ==
  ASSUME SliceType, NEW h \in Handles, NEW i \in 1..Length(h), RemoveAt(h, i)
  PROVE  /\ SliceType' /\ Length(h) \in Nat /\ Length(h)' = Length(h) - 1
         /\ \A j \in 1..Length(h) - 1 : Slot(h, j)' = Slot(h, IF i <= j THEN j + 1 ELSE j)
         /\ \A g \in Handles \ {h} :
              /\ Length(g)' = Length(g)
              /\ \A j \in 1..Length(g) : Slot(g, j)' = Slot(g, j)
<1> DEFINE n   == subscribers[h].len
           a   == subscribers[h].arr
           arr == [j \in DOMAIN heap[a] |-> IF i <= j /\ j < n THEN heap[a][j + 1] ELSE heap[a][j]]
<1>1. /\ heap \in Seq(Arrays) /\ Len(heap) \in Nat
      /\ a \in Nat /\ n \in Nat /\ a <= Len(heap)
      /\ subscribers \in [Handles -> [arr : Nat, len : Nat]]
  BY DEF SliceType, Arrays
<1>2. (a = 0 => n = 0) /\ (a # 0 => n <= Len(heap[a])) /\ i \in 1..n
  BY Zenon DEF SliceType, Length
<1>3. a \in 1..Len(heap) /\ heap[a] \in Arrays
  BY SMTT(20), <1>1, <1>2
<1>4. Len(heap[a]) \in Nat /\ n <= Len(heap[a]) /\ DOMAIN heap[a] = 1..Len(heap[a])
  BY SMTT(20), <1>1, <1>2, <1>3 DEF Arrays
<1>5. arr \in Arrays /\ Len(arr) = Len(heap[a])
  <2>1. ASSUME NEW j \in 1..Len(heap[a]) PROVE arr[j] \in Streams \union {NoStream}
    <3>1. CASE i <= j /\ j < n
      <4>1. j + 1 \in 1..Len(heap[a])
        BY SMTT(20), <1>1, <1>4, <3>1
      <4> QED
        BY <1>3, <1>4, <3>1, <4>1 DEF Arrays
    <3>2. CASE ~(i <= j /\ j < n)
      BY <1>3, <1>4, <3>2 DEF Arrays
    <3> QED
      BY Zenon, <3>1, <3>2
  <2>2. DOMAIN arr = 1..Len(heap[a])
    BY Zenon, <1>4
  <2>3. arr \in [1..Len(heap[a]) -> Streams \union {NoStream}]
    BY Zenon, <1>4, <2>1
  <2> HIDE DEF arr
  <2> QED
    BY SMTT(20), <1>4, <2>2, <2>3 DEF Arrays
<1>6. \A j \in 1..n - 1 : arr[j] = heap[a][IF i <= j THEN j + 1 ELSE j]
  BY <1>1, <1>4
<1>7. /\ heap' = [heap EXCEPT ![a] = arr]
      /\ subscribers' = [subscribers EXCEPT ![h].len = n - 1]
  BY Zenon DEF RemoveAt
<1> HIDE DEF arr
<1>8. /\ heap' \in Seq(Arrays) /\ Len(heap') = Len(heap) /\ heap'[a] = arr
      /\ \A k \in 1..Len(heap) : k # a => heap'[k] = heap[k]
  BY <1>1, <1>3, <1>5, <1>7
<1>9. subscribers' = [subscribers EXCEPT ![h] = [arr |-> a, len |-> n - 1]]
  <2>1. [subscribers[h] EXCEPT !.len = n - 1] = [arr |-> a, len |-> n - 1]
    BY <1>1
  <2>2. subscribers' = [subscribers EXCEPT ![h] = [subscribers[h] EXCEPT !.len = n - 1]]
    BY Zenon, <1>7
  <2> QED
    BY Zenon, <2>1, <2>2
<1>10. n - 1 \in Nat /\ Len(heap') >= Len(heap) /\ a <= Len(heap') /\ a # 0
  BY SMTT(20), <1>1, <1>2, <1>3, <1>8
<1>11. n - 1 <= Len(heap'[a])
  BY <1>1, <1>4, <1>5, <1>8
<1>12. /\ SliceType' /\ subscribers'[h] = [arr |-> a, len |-> n - 1]
       /\ \A g \in Handles \ {h} :
            /\ Length(g)' = Length(g)
            /\ \A j \in 1..Length(g) : Slot(g, j)' = Slot(g, j)
  BY Zenon, <1>1, <1>8, <1>9, <1>10, <1>11, SliceTypeStep
<1>13. subscribers'[h].len = n - 1 /\ heap'[subscribers'[h].arr] = arr
  BY <1>8, <1>12
<1> QED
  BY Zenon, <1>1, <1>6, <1>12, <1>13 DEF Length, Slot

SlicesInv == SliceType /\ StreamType /\ SlotsInv

\* Steps that leave the slices and the closed channels alone and change the
\* state of no stream that listens.
LEMMA SlicesFrame ==
  ASSUME SlicesInv, UNCHANGED <<sliceVars, closed>>, StreamType',
         \A s \in Streams : streamPc[s] \in {"listening", "gone"} =>
                              streamPc'[s] = streamPc[s] /\ streamHandle'[s] = streamHandle[s]
  PROVE  SlicesInv'
<1>1. heap' = heap /\ subscribers' = subscribers /\ closed' = closed
  BY Zenon DEF sliceVars
<1>2. SliceType'
  BY Zenon, <1>1 DEF SlicesInv, SliceType, Length
<1>3. \A h \in Handles : Length(h)' = Length(h) /\ \A i : Slot(h, i)' = Slot(h, i)
  BY Zenon, <1>1 DEF Length, Slot
<1>4. \A s \in closed' : streamPc'[s] \in {"listening", "gone"}
  BY Zenon, <1>1 DEF SlicesInv, SlotsInv, StreamType
<1>5. ASSUME NEW h \in Handles, NEW i \in 1..Length(h)
      PROVE  /\ Slot(h, i) \in Streams \ closed'
             /\ streamPc'[Slot(h, i)] = "listening" /\ streamHandle'[Slot(h, i)] = h
             /\ \A j \in 1..Length(h) : Slot(h, i) = Slot(h, j) => i = j
  <2>1. /\ Slot(h, i) \in Streams \ closed
        /\ streamPc[Slot(h, i)] = "listening" /\ streamHandle[Slot(h, i)] = h
        /\ \A j \in 1..Length(h) : Slot(h, i) = Slot(h, j) => i = j
    BY Zenon DEF SlicesInv, SlotsInv
  <2> QED
    BY Zenon, <1>1, <2>1
<1>6. SlotsInv'
  BY <1>3, <1>4, <1>5 DEF SlotsInv
<1> QED
  BY Zenon, <1>2, <1>6 DEF SlicesInv

\* A stream that was verified adds its channel, which no slice has yet.
LEMMA SlicesAppend ==
  ASSUME SlicesInv, NEW s \in Streams, SubscribeAppend(s)
  PROVE  SlicesInv'
<1>0. PICK h \in Handles : h = streamHandle[s]
  BY Zenon DEF SubscribeAppend, SlicesInv, StreamType
<1>1. /\ streamPc[s] = "verified" /\ Append1(h, s)
      /\ streamPc' = [streamPc EXCEPT ![s] = "listening"]
      /\ UNCHANGED <<alive, closed, streamConn, streamHandle>>
  BY Zenon, <1>0 DEF SubscribeAppend, connVars
<1>2. streamPc'[s] = "listening" /\ \A q \in Streams \ {s} : streamPc'[q] = streamPc[q]
  BY Zenon, <1>1 DEF SlicesInv, StreamType
<1>3. StreamType'
  BY Zenon, <1>1, <1>2 DEF SlicesInv, StreamType
<1>4. /\ SliceType' /\ Length(h) \in Nat /\ Length(h)' = Length(h) + 1
      /\ Slot(h, Length(h))' = s
      /\ \A i \in 1..Length(h) : Slot(h, i)' = Slot(h, i)
      /\ \A g \in Handles \ {h} :
           /\ Length(g)' = Length(g)
           /\ \A i \in 1..Length(g) : Slot(g, i)' = Slot(g, i)
  BY Zenon, <1>1, AppendSlots DEF SlicesInv
<1>5. ASSUME NEW g \in Handles, NEW i \in 1..Length(g)
      PROVE  /\ Slot(g, i) \in Streams \ closed' /\ Slot(g, i) # s
             /\ streamPc'[Slot(g, i)] = "listening" /\ streamHandle'[Slot(g, i)] = g
             /\ \A j \in 1..Length(g) : Slot(g, i) = Slot(g, j) => i = j
  <2>1. /\ Slot(g, i) \in Streams \ closed
        /\ streamPc[Slot(g, i)] = "listening" /\ streamHandle[Slot(g, i)] = g
        /\ \A j \in 1..Length(g) : Slot(g, i) = Slot(g, j) => i = j
    BY Zenon DEF SlicesInv, SlotsInv
  <2>2. Slot(g, i) # s
    BY Zenon, <1>1, <2>1
  <2> QED
    BY Zenon, <1>1, <1>2, <2>1, <2>2
<1>6. s \notin closed' /\ \A q \in closed' : streamPc'[q] \in {"listening", "gone"}
  BY Zenon, <1>1, <1>2 DEF SlicesInv, SlotsInv, StreamType
<1>7. ASSUME NEW i \in 1..Length(h)'
      PROVE  /\ Slot(h, i)' \in Streams \ closed'
             /\ streamPc'[Slot(h, i)'] = "listening" /\ streamHandle'[Slot(h, i)'] = h
             /\ \A j \in 1..Length(h)' : Slot(h, i)' = Slot(h, j)' => i = j
  <2>1. i \in 1..Length(h) \/ i = Length(h)'
    BY <1>4
  <2>2. \A j \in 1..Length(h)' : j \in 1..Length(h) \/ j = Length(h)'
    BY <1>4
  <2>3. streamHandle'[s] = h
    BY ZenonT(30), <1>0, <1>1
  <2>4. CASE i \in 1..Length(h)
    <3>1. Slot(h, i)' = Slot(h, i)
      BY Zenon, <1>4, <2>4
    <3>2. /\ Slot(h, i) \in Streams \ closed' /\ Slot(h, i) # s
          /\ streamPc'[Slot(h, i)] = "listening" /\ streamHandle'[Slot(h, i)] = h
          /\ \A j \in 1..Length(h) : Slot(h, i) = Slot(h, j) => i = j
      BY Zenon, <1>5, <2>4
    <3>3. ASSUME NEW j \in 1..Length(h)', Slot(h, i)' = Slot(h, j)' PROVE i = j
      <4>1. CASE j \in 1..Length(h)
        <5>1. Slot(h, i) = Slot(h, j)
          BY Zenon, <1>4, <3>1, <3>3, <4>1
        <5> QED
          BY Zenon, <3>2, <4>1, <5>1
      <4>2. CASE j = Length(h)'
        BY Zenon, <1>4, <3>1, <3>2, <3>3, <4>2
      <4> QED
        BY Zenon, <2>2, <4>1, <4>2
    <3> QED
      BY Zenon, <3>1, <3>2, <3>3
  <2>5. CASE i = Length(h)'
    <3>1. Slot(h, i)' = s
      BY Zenon, <1>4, <2>5
    <3>2. ASSUME NEW j \in 1..Length(h)', Slot(h, i)' = Slot(h, j)' PROVE i = j
      <4>1. ASSUME j \in 1..Length(h) PROVE FALSE
        BY Zenon, <1>4, <1>5, <3>1, <3>2, <4>1
      <4> QED
        BY Zenon, <2>2, <2>5, <4>1
    <3> QED
      BY Zenon, <1>2, <1>6, <2>3, <3>1, <3>2
  <2> QED
    BY Zenon, <2>1, <2>4, <2>5
<1>8. ASSUME NEW g \in Handles \ {h}, NEW i \in 1..Length(g)'
      PROVE  /\ Slot(g, i)' \in Streams \ closed'
             /\ streamPc'[Slot(g, i)'] = "listening" /\ streamHandle'[Slot(g, i)'] = g
             /\ \A j \in 1..Length(g)' : Slot(g, i)' = Slot(g, j)' => i = j
  BY <1>4, <1>5
<1>9. SlotsInv'
  <2>1. ASSUME NEW g \in Handles, NEW i \in 1..Length(g)'
        PROVE  /\ Slot(g, i)' \in Streams \ closed'
               /\ streamPc'[Slot(g, i)'] = "listening" /\ streamHandle'[Slot(g, i)'] = g
               /\ \A j \in 1..Length(g)' : Slot(g, i)' = Slot(g, j)' => i = j
    BY Zenon, <1>7, <1>8
  <2> QED
    BY Zenon, <1>6, <2>1 DEF SlotsInv
<1> QED
  BY Zenon, <1>3, <1>4, <1>9 DEF SlicesInv

\* A stream that ends takes its channel out of its handle's slice, unless a
\* disconnect has dropped the slice.
LEMMA SlicesExit ==
  ASSUME SlicesInv, NEW s \in Streams, SubscribeExit(s)
  PROVE  SlicesInv'
<1>0. PICK h \in Handles : h = streamHandle[s]
  BY Zenon DEF SubscribeExit, SlicesInv, StreamType
<1> DEFINE found == {i \in 1..subscribers[h].len : heap[subscribers[h].arr][i] = s}
<1>1. /\ streamPc[s] = "listening"
      /\ streamPc' = [streamPc EXCEPT ![s] = "gone"]
      /\ UNCHANGED <<alive, closed, streamConn, streamHandle>>
      /\ IF found = {} THEN UNCHANGED sliceVars
         ELSE \E i \in found : (\A j \in found : i <= j) /\ RemoveAt(h, i)
  BY Zenon, <1>0 DEF SubscribeExit, connVars
<1>2. streamPc'[s] = "gone" /\ \A q \in Streams \ {s} : streamPc'[q] = streamPc[q]
  BY Zenon, <1>1 DEF SlicesInv, StreamType
<1>3. StreamType'
  BY Zenon, <1>1, <1>2 DEF SlicesInv, StreamType
<1>4. found = {i \in 1..Length(h) : Slot(h, i) = s}
  BY Zenon DEF Length, Slot
<1> HIDE DEF found
<1>5. ASSUME NEW g \in Handles, NEW i \in 1..Length(g)
      PROVE  /\ Slot(g, i) \in Streams \ closed'
             /\ Slot(g, i) = s => g = h /\ i \in found
             /\ Slot(g, i) # s => streamPc'[Slot(g, i)] = "listening"
             /\ streamHandle'[Slot(g, i)] = g
             /\ \A j \in 1..Length(g) : Slot(g, i) = Slot(g, j) => i = j
  <2>1. /\ Slot(g, i) \in Streams \ closed
        /\ streamPc[Slot(g, i)] = "listening" /\ streamHandle[Slot(g, i)] = g
        /\ \A j \in 1..Length(g) : Slot(g, i) = Slot(g, j) => i = j
    BY Zenon DEF SlicesInv, SlotsInv
  <2>2. Slot(g, i) = s => g = h
    BY Zenon, <1>0, <2>1
  <2>3. Slot(g, i) = s => i \in found
    BY Zenon, <1>4, <2>2
  <2> QED
    BY Zenon, <1>1, <1>2, <2>1, <2>2, <2>3
<1>6. \A q \in closed' : streamPc'[q] \in {"listening", "gone"}
  BY Zenon, <1>1, <1>2 DEF SlicesInv, SlotsInv, StreamType
<1>7. CASE found = {}
  <2>1. heap' = heap /\ subscribers' = subscribers
    BY Zenon, <1>1, <1>7 DEF sliceVars
  <2>2. SliceType'
    BY Zenon, <2>1 DEF SlicesInv, SliceType, Length
  <2>3. \A g \in Handles : Length(g)' = Length(g) /\ \A i : Slot(g, i)' = Slot(g, i)
    BY Zenon, <2>1 DEF Length, Slot
  <2>4. ASSUME NEW g \in Handles, NEW i \in 1..Length(g) PROVE Slot(g, i) # s
    BY ZenonT(30), <1>5, <1>7
  <2>5. SlotsInv'
    BY <1>5, <1>6, <2>3, <2>4 DEF SlotsInv
  <2> QED
    BY Zenon, <1>3, <2>2, <2>5 DEF SlicesInv
<1>8. CASE found # {}
  <2>1. PICK k \in found : TRUE
    BY Zenon, <1>8
  <2>2. k \in 1..Length(h) /\ Slot(h, k) = s
    BY Zenon, <1>4, <2>1
  <2>3. found = {k}
    BY Zenon, <1>4, <1>5, <2>1, <2>2
  <2>4. Length(h) \in Nat /\ k \in Nat
    BY <2>2 DEF SlicesInv, SliceType, Length
  <2>5. \A i \in found : i = k
    BY Zenon, <2>3
  <2>6. /\ SliceType' /\ Length(h)' = Length(h) - 1
        /\ \A j \in 1..Length(h) - 1 : Slot(h, j)' = Slot(h, IF k <= j THEN j + 1 ELSE j)
        /\ \A g \in Handles \ {h} :
             /\ Length(g)' = Length(g)
             /\ \A j \in 1..Length(g) : Slot(g, j)' = Slot(g, j)
    <3>1. RemoveAt(h, k)
      BY Zenon, <1>1, <1>8, <2>5
    <3> QED
      BY Zenon, <2>2, <3>1, RemoveSlots DEF SlicesInv
  <2> DEFINE At(j) == IF k <= j THEN j + 1 ELSE j
  <2>7. \A j \in 1..Length(h) - 1 : /\ At(j) \in 1..Length(h) /\ At(j) # k
                                   /\ \A l \in 1..Length(h) - 1 : At(j) = At(l) => j = l
    BY <2>2, <2>4
  <2>8. \A j \in 1..Length(h)' : Slot(h, j)' = Slot(h, At(j)) /\ j \in 1..Length(h) - 1
    BY Zenon, <2>6
  <2> HIDE DEF At
  <2>9. ASSUME NEW j \in 1..Length(h)'
        PROVE  /\ Slot(h, j)' \in Streams \ closed'
               /\ streamPc'[Slot(h, j)'] = "listening" /\ streamHandle'[Slot(h, j)'] = h
               /\ \A l \in 1..Length(h)' : Slot(h, j)' = Slot(h, l)' => j = l
    <3>1. Slot(h, At(j)) # s
      BY Zenon, <1>5, <2>2, <2>3, <2>7, <2>8
    <3>2. \A l \in 1..Length(h)' : Slot(h, At(j)) = Slot(h, At(l)) => At(j) = At(l)
      BY Zenon, <1>5, <2>2, <2>7, <2>8
    <3>3. \A l \in 1..Length(h)' : Slot(h, At(j)) = Slot(h, At(l)) => j = l
      BY Zenon, <2>7, <2>8, <3>2
    <3> QED
      BY <1>5, <2>2, <2>7, <2>8, <3>1, <3>3
  <2>10. ASSUME NEW g \in Handles \ {h}, NEW j \in 1..Length(g)'
         PROVE  /\ Slot(g, j)' \in Streams \ closed'
                /\ streamPc'[Slot(g, j)'] = "listening" /\ streamHandle'[Slot(g, j)'] = g
                /\ \A l \in 1..Length(g)' : Slot(g, j)' = Slot(g, l)' => j = l
    BY <1>5, <2>6
  <2>11. SlotsInv'
    <3>1. ASSUME NEW g \in Handles, NEW i \in 1..Length(g)'
          PROVE  /\ Slot(g, i)' \in Streams \ closed'
                 /\ streamPc'[Slot(g, i)'] = "listening" /\ streamHandle'[Slot(g, i)'] = g
                 /\ \A j \in 1..Length(g)' : Slot(g, i)' = Slot(g, j)' => i = j
      BY Zenon, <2>9, <2>10
    <3> QED
      BY Zenon, <1>6, <3>1 DEF SlotsInv
  <2> QED
    BY Zenon, <1>3, <2>6, <2>11 DEF SlicesInv
<1> QED
  BY Zenon, <1>7, <1>8

\* A disconnect closes the channels of the handles it ends, and with them
\* their slices; the channels of other handles are other channels.
LEMMA SlicesDisconnect ==
  ASSUME SlicesInv, OwnerInv, NEW c \in Conns, DisconnectConn(c)
  PROVE  SlicesInv'
<1>0. PICK hs \in SUBSET Handles : hs = connHandles[c]
  BY Zenon DEF OwnerInv, OwnerType
<1>1. /\ closed' = closed \union UNION {Slots(subscribers[h]) : h \in hs}
      /\ subscribers' = [h \in Handles |-> IF h \in hs THEN Nil ELSE subscribers[h]]
      /\ alive' = alive \ {c}
      /\ UNCHANGED <<heap, streamPc, streamConn, streamHandle>>
  BY Zenon, <1>0 DEF DisconnectConn, streamVars
<1>2. ASSUME NEW h \in Handles \ hs
      PROVE  subscribers'[h] = subscribers[h] /\ Length(h)' = Length(h) /\ \A i : Slot(h, i)' = Slot(h, i)
  BY Zenon, <1>1 DEF Length, Slot
<1>3. ASSUME NEW h \in hs PROVE subscribers'[h] = [arr |-> 0, len |-> 0] /\ Length(h)' = 0
  <2>1. subscribers'[h] = [arr |-> 0, len |-> 0]
    BY Zenon, <1>1 DEF Nil
  <2> QED
    BY <2>1 DEF Length
<1>4. SliceType'
  <2>1. subscribers' \in [Handles -> [arr : Nat, len : Nat]]
    BY Zenon, <1>1 DEF SlicesInv, SliceType, Nil
  <2>2. heap' = heap /\ heap \in Seq(Seq(Streams \union {NoStream})) /\ Len(heap) \in Nat
    BY <1>1 DEF SlicesInv, SliceType
  <2>3. ASSUME NEW h \in Handles
        PROVE  /\ subscribers'[h].arr <= Len(heap')
               /\ subscribers'[h].arr = 0 => subscribers'[h].len = 0
               /\ subscribers'[h].arr # 0 => subscribers'[h].len <= Len(heap'[subscribers'[h].arr])
    <3>1. CASE h \in hs
      BY <1>3, <2>2, <3>1
    <3>2. CASE h \notin hs
      BY Zenon, <1>2, <2>2, <3>2 DEF SlicesInv, SliceType, Length
    <3> QED
      BY Zenon, <3>1, <3>2
  <2>4. ASSUME NEW g \in Handles, NEW h \in Handles, g # h, subscribers'[g].arr = subscribers'[h].arr
        PROVE  subscribers'[h].arr = 0
    <3>1. CASE g \in hs \/ h \in hs
      BY <1>3, <2>4, <3>1
    <3>2. CASE g \notin hs /\ h \notin hs
      BY Zenon, <1>2, <2>4, <3>2 DEF SlicesInv, SliceType
    <3> QED
      BY Zenon, <3>1, <3>2
  <2> QED
    BY Zenon, <2>1, <2>2, <2>3, <2>4 DEF SliceType, Length
<1>5. ASSUME NEW s \in closed', s \notin closed
      PROVE  s \in Streams /\ streamPc[s] = "listening" /\ streamHandle[s] \in hs
  <2>1. PICK h \in hs : s \in Slots(subscribers[h])
    BY Zenon, <1>1, <1>5
  <2>2. PICK i \in 1..Length(h) : s = Slot(h, i)
    BY Zenon, <2>1 DEF Slots, Length, Slot
  <2>3. h \in Handles
    BY Zenon, <1>0
  <2> QED
    BY Zenon, <2>2, <2>3 DEF SlicesInv, SlotsInv
<1>6. StreamType'
  <2>1. closed' \subseteq Streams /\ alive' \subseteq Conns
    BY Zenon, <1>1, <1>5 DEF SlicesInv, StreamType
  <2> QED
    BY Zenon, <1>1, <2>1 DEF SlicesInv, StreamType
<1>7. \A s \in closed' : streamPc'[s] \in {"listening", "gone"}
  BY Zenon, <1>1, <1>5 DEF SlicesInv, SlotsInv
<1>8. ASSUME NEW h \in Handles, NEW i \in 1..Length(h)'
      PROVE  /\ Slot(h, i)' \in Streams \ closed'
             /\ streamPc'[Slot(h, i)'] = "listening" /\ streamHandle'[Slot(h, i)'] = h
             /\ \A j \in 1..Length(h)' : Slot(h, i)' = Slot(h, j)' => i = j
  <2>1. h \notin hs
    BY <1>3
  <2>2. /\ i \in 1..Length(h) /\ Slot(h, i)' = Slot(h, i) /\ Length(h)' = Length(h)
        /\ \A j : Slot(h, j)' = Slot(h, j)
    BY Zenon, <1>2, <2>1
  <2>3. /\ Slot(h, i) \in Streams \ closed
        /\ streamPc[Slot(h, i)] = "listening" /\ streamHandle[Slot(h, i)] = h
        /\ \A j \in 1..Length(h) : Slot(h, i) = Slot(h, j) => i = j
    BY Zenon, <2>2 DEF SlicesInv, SlotsInv
  <2>4. Slot(h, i) \notin closed'
    BY Zenon, <1>5, <2>1, <2>3
  <2> QED
    BY Zenon, <1>1, <2>2, <2>3, <2>4
<1>9. SlotsInv'
  BY Zenon, <1>7, <1>8 DEF SlotsInv
<1> QED
  BY Zenon, <1>4, <1>6, <1>9 DEF SlicesInv

\* The slices of the subscriber channels, with the streams they belong to.
LEMMA SlicesAlways == Spec => []SlicesInv
<1>1. Init => SlicesInv
  <2> SUFFICES ASSUME Init PROVE SlicesInv
    BY Zenon
  <2>1. /\ heap = <<>> /\ subscribers = [h \in Handles |-> [arr |-> 0, len |-> 0]] /\ closed = {}
    BY Zenon DEF Init, Nil
  <2>2. SliceType
    BY <2>1 DEF SliceType, Length
  <2>3. StreamType
    BY Zenon DEF Init, StreamType
  <2>4. \A h \in Handles : Length(h) = 0
    BY Zenon, <2>1 DEF Length
  <2> QED
    BY <2>1, <2>2, <2>3, <2>4 DEF SlicesInv, SlotsInv
<1>2. OwnerInv /\ SlicesInv /\ [Next]_vars => SlicesInv'
  <2> SUFFICES ASSUME OwnerInv, SlicesInv, [Next]_vars PROVE SlicesInv'
    BY Zenon
  <2>1. ASSUME UNCHANGED <<sliceVars, closed, streamVars, alive>> PROVE SlicesInv'
    <3>1. StreamType'
      BY Zenon, <2>1 DEF SlicesInv, StreamType, streamVars
    <3>2. UNCHANGED <<sliceVars, closed, streamPc, streamHandle>>
      BY Zenon, <2>1 DEF streamVars
    <3> QED
      BY Zenon, <3>1, <3>2, SlicesFrame
  <2>2. ASSUME NEW c \in Conns, NEW h \in Handles, RegisterCall(c, h) \/ Register(c, h)
        PROVE  SlicesInv'
    BY Zenon, <2>1, <2>2 DEF RegisterCall, Register
  <2>3. ASSUME NEW c \in Conns, DisconnectConn(c) PROVE SlicesInv'
    BY Zenon, <2>3, SlicesDisconnect
  <2>4. ASSUME NEW s \in Streams, NEW c \in Conns, NEW h \in Handles, SubscribeCall(s, c, h)
        PROVE  SlicesInv'
    <3>1. /\ streamPc[s] = "new" /\ streamPc' = [streamPc EXCEPT ![s] = "verified"]
          /\ streamConn' = [streamConn EXCEPT ![s] = c]
          /\ streamHandle' = [streamHandle EXCEPT ![s] = h]
          /\ UNCHANGED <<sliceVars, closed, alive>>
      BY Zenon, <2>4 DEF SubscribeCall, connVars
    <3>2. /\ streamPc \in [Streams -> {"new", "verified", "listening", "gone"}]
          /\ streamConn \in [Streams -> Conns \union {NoConn}]
          /\ streamHandle \in [Streams -> Handles \union {CHOOSE x \in Handles : TRUE}]
      BY Zenon DEF SlicesInv, StreamType
    <3>3. StreamType'
      <4>1. streamPc' \in [Streams -> {"new", "verified", "listening", "gone"}]
        BY Zenon, <3>1, <3>2
      <4>2. streamConn' \in [Streams -> Conns \union {NoConn}]
        BY Zenon, <3>1, <3>2
      <4>3. streamHandle' \in [Streams -> Handles \union {CHOOSE x \in Handles : TRUE}]
        BY Zenon, <3>1, <3>2
      <4>4. \A q \in Streams : streamPc'[q] # "new" => streamHandle'[q] \in Handles
        BY Zenon, <3>1, <3>2 DEF SlicesInv, StreamType
      <4> QED
        BY Zenon, <3>1, <4>1, <4>2, <4>3, <4>4 DEF SlicesInv, StreamType
    <3>4. \A q \in Streams : streamPc[q] \in {"listening", "gone"} =>
                               streamPc'[q] = streamPc[q] /\ streamHandle'[q] = streamHandle[q]
      BY Zenon, <3>1, <3>2
    <3> QED
      BY Zenon, <3>1, <3>3, <3>4, SlicesFrame
  <2>5. ASSUME NEW d \in Deliveries, NEW h \in Handles, DeliverBegin(d, h) PROVE SlicesInv'
    BY Zenon, <2>1, <2>5 DEF DeliverBegin, connVars
  <2>6. ASSUME NEW d \in Deliveries, DeliverSend(d) PROVE SlicesInv'
    BY Zenon, <2>1, <2>6 DEF DeliverSend, connVars
  <2>7. CASE UNCHANGED vars
    BY Zenon, <2>1, <2>7 DEF vars, sliceVars, streamVars
  <2> QED
    BY Zenon, <2>2, <2>3, <2>4, <2>5, <2>6, <2>7, SlicesAppend, SlicesExit DEF Next
<1> QED
  BY <1>1, <1>2, OwnersAlways, PTL DEF Spec

\* Ownership of handles, seen from the streams.
LEMMA StreamOwnsAlways == Spec => []StreamOwns
<1>1. Init => StreamOwns
  BY Zenon DEF Init, StreamOwns
<1>2. OwnerInv /\ SlicesInv /\ StreamOwns /\ [Next]_vars => StreamOwns'
  <2> SUFFICES ASSUME OwnerInv, SlicesInv, StreamOwns, [Next]_vars PROVE StreamOwns'
    BY Zenon
  <2>0. /\ streamPc \in [Streams -> {"new", "verified", "listening", "gone"}]
        /\ streamConn \in [Streams -> Conns \union {NoConn}]
        /\ streamHandle \in [Streams -> Handles \union {CHOOSE x \in Handles : TRUE}]
        /\ \A s \in Streams : streamPc[s] # "new" => streamHandle[s] \in Handles
    BY Zenon DEF SlicesInv, StreamType
  <2>1. ASSUME UNCHANGED <<alive, handles, handleOwner, streamConn, streamHandle>>,
               \A s \in Streams : streamPc[s] = "new" => streamPc'[s] = "new"
        PROVE  StreamOwns'
    BY Zenon, <2>1 DEF StreamOwns
  <2>2. ASSUME NEW c \in Conns, NEW h \in Handles, RegisterCall(c, h) PROVE StreamOwns'
    BY Zenon, <2>1, <2>2 DEF RegisterCall, streamVars
  <2>3. ASSUME NEW c \in Conns, NEW h \in Handles, Register(c, h) PROVE StreamOwns'
    <3>1. CASE h \in handles
      BY Zenon, <2>1, <2>3, <3>1 DEF Register, streamVars
    <3>2. CASE h \notin handles
      <4>1. /\ handles \subseteq handles' /\ UNCHANGED <<alive, streamPc, streamConn, streamHandle>>
            /\ handleOwner' = [handleOwner EXCEPT ![h] = c]
        BY Zenon, <2>3, <3>2 DEF Register, streamVars
      <4>2. \A g \in handles : handleOwner'[g] = handleOwner[g]
        BY Zenon, <3>2, <4>1 DEF OwnerInv, OwnerType
      <4> QED
        BY Zenon, <4>1, <4>2 DEF StreamOwns
    <3> QED
      BY Zenon, <3>1, <3>2
  <2>4. ASSUME NEW c \in Conns, DisconnectConn(c) PROVE StreamOwns'
    <3>1. /\ handles' = handles \ connHandles[c] /\ alive' = alive \ {c}
          /\ handleOwner' = [h \in Handles |-> IF h \in connHandles[c]
                                               THEN NoConn ELSE handleOwner[h]]
          /\ UNCHANGED <<streamPc, streamConn, streamHandle>>
      BY Zenon, <2>4 DEF DisconnectConn, streamVars
    <3>2. ASSUME NEW s \in Streams, streamPc[s] # "new", streamConn[s] \in alive, streamConn[s] # c
          PROVE  streamHandle[s] \in handles' /\ handleOwner'[streamHandle[s]] = streamConn[s]
      <4>1. streamHandle[s] \in handles /\ handleOwner[streamHandle[s]] = streamConn[s]
            /\ streamHandle[s] \in Handles
        BY Zenon, <2>0, <3>2 DEF StreamOwns
      <4>2. streamHandle[s] \notin connHandles[c]
        BY Zenon, <3>2, <4>1 DEF OwnerInv, OwnersAgree
      <4> QED
        BY Zenon, <3>1, <4>1, <4>2
    <3> QED
      BY Zenon, <3>1, <3>2 DEF StreamOwns
  <2>5. ASSUME NEW s \in Streams, NEW c \in Conns, NEW h \in Handles, SubscribeCall(s, c, h)
        PROVE  StreamOwns'
    <3>1. /\ h \in handles /\ handleOwner[h] = c
          /\ streamPc' = [streamPc EXCEPT ![s] = "verified"]
          /\ streamConn' = [streamConn EXCEPT ![s] = c]
          /\ streamHandle' = [streamHandle EXCEPT ![s] = h]
          /\ UNCHANGED <<alive, handles, handleOwner>>
      BY Zenon, <2>5 DEF SubscribeCall, VerifyOwnership, connVars
    <3>2. streamConn'[s] = c /\ streamHandle'[s] = h
      BY Zenon, <2>0, <3>1
    <3>3. \A q \in Streams \ {s} : /\ streamPc'[q] = streamPc[q] /\ streamConn'[q] = streamConn[q]
                                  /\ streamHandle'[q] = streamHandle[q]
      BY Zenon, <2>0, <3>1
    <3>4. ASSUME NEW q \in Streams, streamPc'[q] # "new", streamConn'[q] \in alive
          PROVE  streamHandle'[q] \in handles /\ handleOwner[streamHandle'[q]] = streamConn'[q]
      <4>1. CASE q = s
        BY Zenon, <3>1, <3>2, <4>1
      <4>2. CASE q # s
        BY Zenon, <3>3, <3>4, <4>2 DEF StreamOwns
      <4> QED
        BY Zenon, <4>1, <4>2
    <3> QED
      BY Zenon, <3>1, <3>4 DEF StreamOwns
  <2>6. ASSUME NEW s \in Streams, SubscribeAppend(s) \/ SubscribeExit(s) PROVE StreamOwns'
    <3>1. /\ streamPc[s] # "new" /\ UNCHANGED <<alive, handles, handleOwner, streamConn, streamHandle>>
          /\ \E x : streamPc' = [streamPc EXCEPT ![s] = x]
      BY Zenon, <2>6 DEF SubscribeAppend, SubscribeExit, connVars
    <3>2. \A q \in Streams : streamPc[q] = "new" => streamPc'[q] = "new"
      BY Zenon, <2>0, <3>1
    <3> QED
      BY Zenon, <2>1, <3>1, <3>2
  <2>7. ASSUME NEW d \in Deliveries, NEW h \in Handles, DeliverBegin(d, h) PROVE StreamOwns'
    BY Zenon, <2>1, <2>7 DEF DeliverBegin, connVars, streamVars
  <2>8. ASSUME NEW d \in Deliveries, DeliverSend(d) PROVE StreamOwns'
    BY Zenon, <2>1, <2>8 DEF DeliverSend, connVars, streamVars
  <2>9. CASE UNCHANGED vars
    BY Zenon, <2>1, <2>9 DEF vars
  <2> QED
    BY Zenon, <2>2, <2>3, <2>4, <2>5, <2>6, <2>7, <2>8, <2>9 DEF Next
<1> QED
  BY <1>1, <1>2, OwnersAlways, SlicesAlways, PTL DEF Spec

\* SubscriberOwns: the channel of a stream whose connection is alive is only in
\* the slice of a handle the connection owns, also when the handle is taken by
\* another connection between the stream's check and its append.
THEOREM SubscribersOwn == Spec => []SubscriberOwns
<1>1. SlicesInv /\ StreamOwns => SubscriberOwns
  <2> SUFFICES ASSUME SlicesInv, StreamOwns, NEW h \in Handles, NEW s \in Slots(subscribers[h]),
                      streamConn[s] \in alive
               PROVE  handleOwner[h] = streamConn[s]
    BY Zenon DEF SubscriberOwns
  <2>1. PICK i \in 1..Length(h) : s = Slot(h, i)
    BY Zenon DEF Slots, Slot, Length
  <2>2. s \in Streams /\ streamPc[s] = "listening" /\ streamHandle[s] = h
    BY Zenon, <2>1 DEF SlicesInv, SlotsInv
  <2> QED
    BY Zenon, <2>2 DEF StreamOwns
<1> QED
  BY <1>1, SlicesAlways, StreamOwnsAlways, PTL

-----------------------------------------------------------------------------
(* The size of a slice.  The theorems about finite sets enter here, where  *)
(* they are needed, and not in the context of the proofs above.            *)

F == INSTANCE FiniteSetTheorems

\* A set that is numbered one-to-one from 1 to n has n elements.
LEMMA SizeCounted ==
  ASSUME NEW n \in Nat, NEW S, NEW f \in F!Bijection(1..n, S)
  PROVE  Cardinality(S) = n
<1>1. F!Cardinality(S) = n
  BY Zenon, F!FS_CountingElements DEF F!ExistsBijection
<1>2. F!Cardinality(S) = Cardinality(S)
  BY Zenon DEF F!Cardinality, Cardinality
<1> QED
  BY Zenon, <1>1, <1>2

\* SlicesClean: however Subscribe streams come and go and connections end, the
\* channel of a stream is in one slot of its handle's slice at most, and a
\* slice holds only open channels of streams that listen, for any number of
\* streams, although slices are shifted within arrays that grow.
THEOREM SlicesStayClean == Spec => []SlicesClean
<1>1. SlicesInv => SlicesClean
  <2> SUFFICES ASSUME SlicesInv, NEW h \in Handles
               PROVE  /\ Cardinality(Slots(subscribers[h])) = subscribers[h].len
                      /\ \A s \in Slots(subscribers[h]) : s \notin closed /\ streamPc[s] = "listening"
    BY Zenon DEF SlicesClean
  <2>1. Length(h) \in Nat
    BY Zenon DEF SlicesInv, SliceType, Length
  <2>2. \A i \in 1..Length(h) :
          /\ Slot(h, i) \in Streams \ closed /\ streamPc[Slot(h, i)] = "listening"
          /\ \A j \in 1..Length(h) : Slot(h, i) = Slot(h, j) => i = j
    BY Zenon DEF SlicesInv, SlotsInv
  <2>3. Slots(subscribers[h]) = {Slot(h, i) : i \in 1..Length(h)}
    BY Zenon DEF Slots, Slot, Length
  <2> DEFINE f == [i \in 1..Length(h) |-> Slot(h, i)]
             S == {Slot(h, i) : i \in 1..Length(h)}
  <2>4. f \in F!Bijection(1..Length(h), S)
    <3>1. f \in [1..Length(h) -> S]
      BY Zenon
    <3>2. \A a, b \in 1..Length(h) : f[a] = f[b] => a = b
      BY Zenon, <2>2
    <3>3. \A t \in S : \E a \in 1..Length(h) : f[a] = t
      BY Zenon
    <3> QED
      BY Zenon, <3>1, <3>2, <3>3 DEF F!Bijection, F!Injection, F!Surjection, F!IsInjective
  <2>5. Cardinality(S) = Length(h)
    <3> HIDE DEF S
    <3> QED
      BY Zenon, <2>1, <2>4, SizeCounted
  <2> QED
    BY Zenon, <2>2, <2>3, <2>5 DEF Length
<1> QED
  BY <1>1, SlicesAlways, PTL

==============================================================================
