---------------------------- MODULE ActivityBus ----------------------------
(***************************************************************************)
(* What a daemon counts (internal/daemon/activitybus.go and the usage part *)
(* of internal/daemon/msgstore.go).  Every Emit helper is called from the  *)
(* goroutine of the request it reports, so several run at once: a counter  *)
(* is bumped, the usage history on disk is updated in one transaction, a   *)
(* routed message is counted as local or remote, and the event is fanned   *)
(* out.  The counters are atomics of the process and start again at zero   *)
(* with every daemon; the history is on disk, in one bucket per day and    *)
(* one per hour.  Fan-out to a watcher is the subject of Dashboard.        *)
(***************************************************************************)
EXTENDS Integers, FiniteSets, FiniteSetsExt

CONSTANTS
    Emitters,     \* goroutines that report something
    MaxEmits,     \* bound on the reports
    MaxHour,      \* bound on the clock, which starts at hour 0
    HoursPerDay,
    BusFaults     \* bound on restarts and failed disk writes together

ASSUME BusAssumption == MaxHour \in Nat /\ HoursPerDay \in Nat \ {0}

VARIABLES
    emit,     \* emitter -> what it reports and how far it has got
    counters, \* the process's counters
    daily, hourly, \* metric and bucket start -> count on disk
    hour,     \* the clock
    emits, busFaults,
    counted,  \* history: metric -> reports ever counted
    unwritten \* history: metric -> reports whose write failed or never ran

busVars == <<emit, counters, daily, hourly, hour, emits, busFaults, counted, unwritten>>

\* The reports whose counter has a usage metric, and those that only count.
usageMetricsInOrder == {"routed", "opened", "posted", "created"}
Reports == usageMetricsInOrder \cup {"resolved", "joined", "left", "closed"}
Counters == Reports \cup {"local", "remote", "received"}

Idle == [at |-> "idle", what |-> "routed", remote |-> FALSE, ack |-> FALSE, hour |-> 0]
Zero(S) == [x \in S |-> 0]
Buckets == 0 .. MaxHour

BusInit ==
    /\ emit = [e \in Emitters |-> Idle]
    /\ counters = Zero(Counters)
    /\ daily = Zero(usageMetricsInOrder \X Buckets)
    /\ hourly = Zero(usageMetricsInOrder \X Buckets)
    /\ hour = 0
    /\ emits = 0
    /\ busFaults = 0
    /\ counted = Zero(usageMetricsInOrder)
    /\ unwritten = Zero(usageMetricsInOrder)

\* The start of the day or hour a time falls in.
usageBucketStart(t, hourlyBucket) ==
    IF hourlyBucket THEN t ELSE (t \div HoursPerDay) * HoursPerDay

incrementUsageBucket(root, metric, bucket) == [root EXCEPT ![metric, bucket] = @ + 1]

\* A report begins: its counter goes up, and the time of the usage record is
\* taken before the write gets its turn at the database.
Begin(e, what, remote, ack, more) ==
    /\ emit[e].at = "idle"
    /\ emits < MaxEmits
    /\ emits' = emits + 1
    /\ counters' = [c \in Counters |-> IF c = what \/ c \in more THEN counters[c] + 1 ELSE counters[c]]
    /\ emit' = [emit EXCEPT ![e] =
          [at |-> IF what \in usageMetricsInOrder THEN "usage" ELSE "fanout",
           what |-> what, remote |-> remote, ack |-> ack, hour |-> hour]]
    /\ counted' = IF what \in usageMetricsInOrder THEN [counted EXCEPT ![what] = @ + 1] ELSE counted
    /\ UNCHANGED <<daily, hourly, hour, busFaults, unwritten>>

\* The router reports the messages it routed, acknowledgements excepted; the
\* transport's receive callback counts every envelope of a peer and reports
\* it as a message delivered here, acknowledgements included.
recordRouteDone(e) == \E remote \in BOOLEAN : Begin(e, "routed", remote, FALSE, {})
OnReceive(e) == \E ack \in BOOLEAN : Begin(e, "routed", FALSE, ack, {"received"})
EmitSessionOpened(e) == Begin(e, "opened", FALSE, FALSE, {})
EmitSessionResolved(e) == Begin(e, "resolved", FALSE, FALSE, {})
EmitRoomCreated(e) == Begin(e, "created", FALSE, FALSE, {})
EmitRoomMessagePosted(e) == Begin(e, "posted", FALSE, FALSE, {})
EmitRoomMemberJoined(e) == Begin(e, "joined", FALSE, FALSE, {})
EmitRoomMemberLeft(e) == Begin(e, "left", FALSE, FALSE, {})
EmitRoomClosed(e) == Begin(e, "closed", FALSE, FALSE, {})

\* Variant: the hour is that of the write.
RecordUsage_HourOfWrite(e) ==
    LET m == emit[e].what IN
    /\ daily' = incrementUsageBucket(daily, m, usageBucketStart(emit[e].hour, FALSE))
    /\ hourly' = incrementUsageBucket(hourly, m, usageBucketStart(hour, TRUE))

\* One transaction for both buckets, both derived from the one time taken.
RecordUsage(e) ==
    LET m == emit[e].what IN
    /\ daily' = incrementUsageBucket(daily, m, usageBucketStart(emit[e].hour, FALSE))
    /\ hourly' = incrementUsageBucket(hourly, m, usageBucketStart(emit[e].hour, TRUE))

\* The usage step of a report; a failed write is ignored.
recordUsage(e) ==
    /\ emit[e].at = "usage"
    /\ emit' = [emit EXCEPT ![e].at = "fanout"]
    /\ \/ RecordUsage(e) /\ UNCHANGED <<busFaults, unwritten>>
       \/ /\ busFaults < BusFaults
          /\ busFaults' = busFaults + 1
          /\ unwritten' = [unwritten EXCEPT ![emit[e].what] = @ + 1]
          /\ UNCHANGED <<daily, hourly>>
    /\ UNCHANGED <<counters, hour, emits, counted>>

\* The rest of the helper: a routed message is counted on one side, and the
\* event goes to the watchers.
FanOut(e) ==
    /\ emit[e].at = "fanout"
    /\ counters' = IF emit[e].what = "routed"
                   THEN [counters EXCEPT ![IF emit[e].remote THEN "remote" ELSE "local"] = @ + 1]
                   ELSE counters
    /\ emit' = [emit EXCEPT ![e] = Idle]
    /\ UNCHANGED <<daily, hourly, hour, emits, busFaults, counted, unwritten>>

ClockTicks ==
    /\ hour < MaxHour
    /\ hour' = hour + 1
    /\ UNCHANGED <<emit, counters, daily, hourly, emits, busFaults, counted, unwritten>>

\* A daemon that dies loses its counters and the reports under way.
Restart ==
    /\ busFaults < BusFaults
    /\ busFaults' = busFaults + 1
    /\ counters' = Zero(Counters)
    /\ emit' = [e \in Emitters |-> Idle]
    /\ unwritten' = [m \in usageMetricsInOrder |->
          unwritten[m] + Cardinality({e \in Emitters : emit[e].at = "usage" /\ emit[e].what = m})]
    /\ UNCHANGED <<daily, hourly, hour, emits, counted>>

BusNext ==
    \/ \E e \in Emitters :
          \/ recordRouteDone(e) \/ OnReceive(e)
          \/ EmitSessionOpened(e) \/ EmitSessionResolved(e)
          \/ EmitRoomCreated(e) \/ EmitRoomMessagePosted(e)
          \/ EmitRoomMemberJoined(e) \/ EmitRoomMemberLeft(e) \/ EmitRoomClosed(e)
          \/ recordUsage(e) \/ FanOut(e)
    \/ ClockTicks
    \/ Restart

BusSpec == BusInit /\ [][BusNext]_busVars

\* What a status request or a scrape of /metrics reports of the history.
loadUsageMetricHistory(metric) ==
    FoldSet(LAMBDA b, n : daily[metric, b] + n, 0, Buckets)

-----------------------------------------------------------------------------
\* Emitters, counters and buckets have their types.
BusTypeOK ==
    /\ emit \in [Emitters -> [at : {"idle", "usage", "fanout"}, what : Reports,
                              remote : BOOLEAN, ack : BOOLEAN, hour : Buckets]]
    /\ counters \in [Counters -> 0 .. MaxEmits]
    /\ daily \in [usageMetricsInOrder \X Buckets -> 0 .. MaxEmits]
    /\ hourly \in [usageMetricsInOrder \X Buckets -> 0 .. MaxEmits]

\* However the reports interleave, every routed message counted by this
\* daemon is counted on exactly one side once its report is over: routed is
\* local plus remote plus the reports still under way, and no more messages
\* were received from peers than were routed (recordRouteDone, OnReceive).
CountersAddUp ==
    LET open == {e \in Emitters : emit[e].at # "idle" /\ emit[e].what = "routed"} IN
    /\ counters["routed"] = counters["local"] + counters["remote"] + Cardinality(open)
    /\ counters["received"] <= counters["local"] + Cardinality({e \in open : ~emit[e].remote})

\* The history on disk is consistent across clock changes between a report
\* and its write, failed writes and restarts: each day's bucket is the sum of
\* the hours of that day (RecordUsage), and a metric's total is the number of
\* reports ever counted less those still under way and those whose write was
\* lost (loadUsageMetricHistory).
HistoryAddsUp ==
    \A m \in usageMetricsInOrder :
       /\ \A d \in Buckets :
             daily[m, d] =
                FoldSet(LAMBDA h, n : hourly[m, h] + n, 0,
                        {h \in Buckets : usageBucketStart(h, FALSE) = d})
       /\ loadUsageMetricHistory(m) =
             counted[m] - unwritten[m]
               - Cardinality({e \in Emitters : emit[e].at = "usage" /\ emit[e].what = m})

\* Counters and history account for every report (ActivityBus, RecordUsage).
UsageAddsUp == BusTypeOK /\ CountersAddUp /\ HistoryAddsUp
===========================================================================
