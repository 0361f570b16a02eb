---------------------------- MODULE StatsdGauges ----------------------------
(***************************************************************************)
(* One StatsD gauge: metrics that set it or add to it are received by      *)
(* listeners, drained by flush threads that may overlap, aggregated on top *)
(* of the gauge's cached value, put back in the cache, in the database and *)
(* in the map of values to send again; a cleanup forgets the gauge; a      *)
(* restart reads it from the database.                                     *)
(*                                                                         *)
(* The application sends previous values and persists gauges, as it does   *)
(* by default.  Values are integers: the rounding of a value to seven      *)
(* decimals is left out, and so are the buckets the gauge shares the maps  *)
(* with.                                                                   *)
(***************************************************************************)
EXTENDS Integers, FiniteSetsExt, Folds, Sequences

CONSTANTS
    Listeners,     \* threads that receive metrics
    Ops,           \* what a metric may do: [set : BOOLEAN, value : Int]
    PacketSize,    \* bound on the metrics in a packet
    Null,          \* no value for the gauge
    OnTime,        \* has a flush thread listed its start before the next one is invoked?
    MaxMetrics,    \* bound on the metrics received
    MaxFlushes,    \* bound on the flush threads
    MaxForgets     \* bound on the requests to forget the gauge

ASSUME OpsAssumption == \A op \in Ops : op.set \in BOOLEAN /\ op.value \in Int

ASSUME BoundsAssumption ==
    /\ PacketSize \in Nat \ {0}
    /\ {MaxMetrics, MaxFlushes, MaxForgets} \subseteq Nat
    /\ OnTime \in BOOLEAN
    /\ Null \notin Int

VARIABLES
    now,        \* flush threads invoked so far; thread n starts at time n
    hand,       \* the packet each listener is working on
    metric,     \* the metrics by hash key
    queue,      \* hash keys in statsdGaugeMetrics
    starts,     \* activeStatsdAggregationThreadStartTimestamps
    getStarts,  \* activeStatsdAggregationThreadStartGetMetricsTimestamps
    pc,         \* how far each flush thread is
    flush,      \* the other locals of each flush thread
    cache,      \* statsdGaugeCache
    row,        \* the row in GAUGES
    recent,     \* statsdMetricsAggregatedMostRecentValue
    forget,     \* is the gauge in immediateCleanupMetrics?
    cleanup,    \* the locals of the cleanup thread
    ordered,    \* the value the metrics give in the order they were received
    behind,     \* has the last update of the row failed?
    torn,       \* have the last updates of cache and row crossed with the cleanup's?
    raced,      \* has a thread past its check of what to forget met the last cleanup?
    forgets     \* requests to forget the gauge so far

inputVars == <<hand, metric, queue, ordered>>
gaugeVars == <<cache, row, recent>>
overlaps == <<behind, torn, raced>>
forgetVars == <<forget, cleanup, forgets>>
flushVars == <<starts, getStarts, pc, flush>>
vars == <<now, inputVars, flushVars, gaugeVars, overlaps, forgetVars>>

-----------------------------------------------------------------------------
Threads == 1..MaxFlushes
Hashes == 1..MaxMetrics
Values == Int \cup {Null}

\* Before the aggregation of the gauges.
BeforeTurn == {"invoked", "added", "elders", "drain", "aggregate", "turn"}

\* From the aggregation of the gauges to the end.
InTurn == {"gauge", "forget", "cache", "upsert", "refresh", "resend", "recent", "end"}

\* The check of what is to be forgotten is done, its outcome not yet stored.
Writing == {"cache", "upsert", "refresh", "resend", "recent"}

Pcs == {"none", "done"} \cup BeforeTurn \cup InTurn

CleanupPcs == {"idle", "maps", "row", "cache", "end"}

\* must: keys a drain cannot miss; got: keys drained; agg: the aggregated
\* value; held: the value about to be sent again
Flush == [must : SUBSET Hashes, got : SUBSET Hashes, agg : Values, held : Values]

NotStarted == [must |-> {}, got |-> {}, agg |-> Null, held |-> Null]

NotCleaning == [pc |-> "idle", gauge |-> FALSE, deleted |-> FALSE]

NoPacket == [ts |-> 0, ops |-> <<>>]

Active(n) == pc[n] \notin {"none", "done"}

NoFlush == \A n \in Threads : ~Active(n)

\* One metric applied to the value so far; a gauge starts at 0.
Apply(value, op) ==
    IF op.set THEN op.value
    ELSE (IF value = Null THEN 0 ELSE value) + op.value

\* aggregateGauge: the metrics in the order of their hash keys, on top of the
\* cached value.
AggregateGauge(keys, initial) ==
    MapThenFoldSet(LAMBDA k, value : Apply(value, metric[k].op), initial,
                   LAMBDA k : k, LAMBDA S : Max(S), keys)

\* What the start-up leaves in memory.
FreshMemory ==
    /\ hand' = [l \in Listeners |-> NoPacket]
    /\ queue' = {}
    /\ starts' = {} /\ getStarts' = {}
    /\ pc' = [n \in Threads |-> IF Active(n) THEN "done" ELSE pc[n]]
    /\ flush' = [n \in Threads |-> NotStarted]
    /\ forget' = FALSE
    /\ cleanup' = NotCleaning

Init ==
    /\ now = 0
    /\ hand = [l \in Listeners |-> NoPacket]
    /\ metric = <<>>
    /\ queue = {}
    /\ starts = {} /\ getStarts = {}
    /\ pc = [n \in Threads |-> "none"]
    /\ flush = [n \in Threads |-> NotStarted]
    /\ row \in {Null, 1}
    /\ cache = row /\ recent = row /\ ordered = row
    /\ forget = FALSE
    /\ cleanup = NotCleaning
    /\ behind = FALSE /\ torn = FALSE /\ raced = FALSE
    /\ forgets = 0

-----------------------------------------------------------------------------
(* Listeners.                                                              *)

Packets == UNION {[1..size -> Ops] : size \in 1..PacketSize}

\* A packet is stamped and parsed.  It comes in the millisecond in which the
\* last thread was invoked, or later; the clock does not run back.
ReceivePacket(l, ts, ops) ==
    /\ hand[l].ops = <<>>
    /\ Len(metric) < MaxMetrics
    /\ \A other \in Listeners : hand[other].ts <= ts
    /\ hand' = [hand EXCEPT ![l] = [ts |-> ts, ops |-> ops]]
    /\ UNCHANGED <<now, metric, queue, ordered, flushVars, gaugeVars, overlaps, forgetVars>>

\* Mutant: a second hash key is drawn for the map.
QueueMetricTwoKeys(l) ==
    /\ hand[l].ops # <<>>
    /\ Len(metric) < MaxMetrics
    /\ LET op == Head(hand[l].ops)
       IN  /\ metric' = Append(metric, [ts |-> hand[l].ts, op |-> op])
           /\ queue' = queue \cup {Len(metric) + 2}
           /\ hand' = [hand EXCEPT ![l].ops = Tail(@)]
           /\ ordered' = Apply(ordered, op)
    /\ UNCHANGED <<now, flushVars, gaugeVars, overlaps, forgetVars>>

\* Its next metric gets a hash key and is queued.
QueueMetric(l) ==
    /\ hand[l].ops # <<>>
    /\ Len(metric) < MaxMetrics
    /\ LET op == Head(hand[l].ops)
       IN  /\ metric' = Append(metric, [ts |-> hand[l].ts, op |-> op])
           /\ queue' = queue \cup {Len(metric) + 1}
           /\ hand' = [hand EXCEPT ![l].ops = Tail(@)]
           /\ ordered' = Apply(ordered, op)
    /\ UNCHANGED <<now, flushVars, gaugeVars, overlaps, forgetVars>>

-----------------------------------------------------------------------------
(* Flush threads.                                                          *)

\* Go from one step of a thread to the next.
Step(n, from, to) ==
    /\ pc[n] = from
    /\ pc' = [pc EXCEPT ![n] = to]

InvokeThread ==
    /\ now < MaxFlushes
    /\ OnTime => \A n \in Threads : pc[n] # "invoked"
    /\ now' = now + 1
    /\ pc' = [pc EXCEPT ![now + 1] = "invoked"]
    /\ UNCHANGED <<inputVars, starts, getStarts, flush, gaugeVars, overlaps, forgetVars>>

AddStart(n) ==
    /\ Step(n, "invoked", "added")
    /\ starts' = starts \cup {n}
    /\ UNCHANGED <<now, inputVars, getStarts, flush, gaugeVars, overlaps, forgetVars>>

AddGetStart(n) ==
    /\ Step(n, "added", "elders")
    /\ getStarts' = getStarts \cup {n}
    /\ UNCHANGED <<now, inputVars, starts, flush, gaugeVars, overlaps, forgetVars>>

\* waitUntilThisIsYoungestActiveThread: the smallest start is the thread's own.
IsFirst(n, list) == n \in list /\ \A other \in list : n <= other

\* Mutant: the start stays in the list.
StartDrainKept(n) ==
    /\ IsFirst(n, getStarts)
    /\ Step(n, "elders", "drain")
    /\ UNCHANGED <<now, inputVars, starts, getStarts, flush, gaugeVars, overlaps, forgetVars>>

WaitForElders(n) ==
    /\ IsFirst(n, getStarts)
    /\ Step(n, "elders", "drain")
    /\ getStarts' = getStarts \ {n}
    /\ UNCHANGED <<now, inputVars, starts, flush, gaugeVars, overlaps, forgetVars>>

Due(n) == {k \in queue : metric[k].ts <= n}

\* getCurrentStatsdMetricsAndRemoveMetricsFromGlobal walks through a concurrent
\* map: it meets what is in it when it begins ...
DrainBegin(n) ==
    /\ Step(n, "drain", "aggregate")
    /\ flush' = [flush EXCEPT ![n].must = Due(n)]
    /\ UNCHANGED <<now, inputVars, starts, getStarts, gaugeVars, overlaps, forgetVars>>

\* ... and may or may not meet what is put in or taken out meanwhile.
DrainEnd(n) ==
    /\ Step(n, "aggregate", "turn")
    /\ \E got \in SUBSET (flush[n].must \cup Due(n)) :
          /\ flush[n].must \cap queue \subseteq got
          /\ flush' = [flush EXCEPT ![n].must = {}, ![n].got = got]
          /\ queue' = queue \ got
    /\ UNCHANGED <<now, hand, metric, ordered, starts, getStarts, gaugeVars, overlaps, forgetVars>>

\* Mutant: the wrong list of starts.
WaitForTurnWrongList(n) ==
    /\ \A other \in getStarts : n <= other
    /\ Step(n, "turn", "gauge")
    /\ UNCHANGED <<now, inputVars, starts, getStarts, flush, gaugeVars, overlaps, forgetVars>>

WaitForTurn(n) ==
    /\ IsFirst(n, starts)
    /\ Step(n, "turn", "gauge")
    /\ UNCHANGED <<now, inputVars, starts, getStarts, flush, gaugeVars, overlaps, forgetVars>>

\* Mutant: the gauges are aggregated before the thread's turn.
GaugeBeforeTurn(n) ==
    /\ Step(n, "turn", "forget")
    /\ flush' = [flush EXCEPT ![n].agg =
          IF flush[n].got = {} THEN Null ELSE AggregateGauge(flush[n].got, cache)]
    /\ UNCHANGED <<now, inputVars, starts, getStarts, gaugeVars, overlaps, forgetVars>>

AggregateGauges(n) ==
    /\ Step(n, "gauge", "forget")
    /\ flush' = [flush EXCEPT ![n].agg =
          IF flush[n].got = {} THEN Null ELSE AggregateGauge(flush[n].got, cache)]
    /\ UNCHANGED <<now, inputVars, starts, getStarts, gaugeVars, overlaps, forgetVars>>

\* removeBucketsFromStatsdMetricsList
DropForgotten(n) ==
    /\ Step(n, "forget", "cache")
    /\ flush' = [flush EXCEPT ![n].agg = IF forget THEN Null ELSE @]
    /\ raced' = (raced \/ cleanup.pc = "maps")
    /\ UNCHANGED <<now, inputVars, starts, getStarts, gaugeVars, behind, torn, forgetVars>>

\* updateStatsdGaugesInDatabaseAndCache: the cache ...
UpdateCache(n) ==
    /\ IF flush[n].agg = Null
       THEN Step(n, "cache", "refresh") /\ UNCHANGED <<cache, torn>>
       ELSE Step(n, "cache", "upsert") /\ cache' = flush[n].agg /\ torn' = (cleanup.pc = "cache")
    /\ UNCHANGED <<now, inputVars, starts, getStarts, flush, row, recent, behind, raced, forgetVars>>

\* Mutant: a row is updated but not inserted.
UpdateDatabaseOnly(n) ==
    /\ Step(n, "upsert", "refresh")
    /\ row' = IF row = Null THEN Null ELSE flush[n].agg
    /\ behind' = FALSE
    /\ UNCHANGED <<now, inputVars, starts, getStarts, flush, cache, recent, torn, raced, forgetVars>>

\* ... then the database, whose failure is only logged.
UpdateDatabase(n) ==
    /\ Step(n, "upsert", "refresh")
    /\ \/ row' = flush[n].agg /\ behind' = FALSE
       \/ UNCHANGED row /\ behind' = TRUE
    /\ UNCHANGED <<now, inputVars, starts, getStarts, flush, cache, recent, torn, raced, forgetVars>>

\* updateMetricMostRecentValues: what is to be sent again is read ...
ReadRecent(n) ==
    /\ Step(n, "refresh", "resend")
    /\ flush' = [flush EXCEPT ![n].held = recent]
    /\ UNCHANGED <<now, inputVars, starts, getStarts, gaugeVars, overlaps, forgetVars>>

\* ... and put back with a new timestamp, ...
RefreshRecent(n) ==
    /\ Step(n, "resend", "recent")
    /\ recent' = IF flush[n].held = Null THEN recent ELSE flush[n].held
    /\ flush' = [flush EXCEPT ![n].held = Null]
    /\ UNCHANGED <<now, inputVars, starts, getStarts, cache, row, overlaps, forgetVars>>

\* ... then replaced by what has been aggregated now.
PutRecent(n) ==
    /\ Step(n, "recent", "end")
    /\ recent' = IF flush[n].agg = Null THEN recent ELSE flush[n].agg
    /\ UNCHANGED <<now, inputVars, starts, getStarts, flush, cache, row, overlaps, forgetVars>>

FinishThread(n) ==
    /\ Step(n, "end", "done")
    /\ starts' = starts \ {n}
    /\ flush' = [flush EXCEPT ![n].agg = Null]
    /\ UNCHANGED <<now, inputVars, getStarts, gaugeVars, overlaps, forgetVars>>

-----------------------------------------------------------------------------
(* Forgetting the gauge.                                                   *)

ForgetMetric ==
    /\ forgets < MaxForgets
    /\ forgets' = forgets + 1
    /\ forget' = TRUE
    /\ UNCHANGED <<now, inputVars, flushVars, gaugeVars, overlaps, cleanup>>

CleanupTo(to) == cleanup' = [cleanup EXCEPT !.pc = to]

\* The cleanup has read that the gauge is to be forgotten; is it a gauge?
CleanupBegin ==
    /\ cleanup.pc = "idle"
    /\ forget
    /\ cleanup' = [pc |-> "maps", gauge |-> cache # Null, deleted |-> FALSE]
    /\ raced' = (\E n \in Threads : pc[n] \in Writing)
    /\ UNCHANGED <<now, inputVars, flushVars, gaugeVars, behind, torn, forget, forgets>>

\* removeMetricAssociations
CleanupMaps ==
    /\ cleanup.pc = "maps"
    /\ CleanupTo(IF cleanup.gauge THEN "row" ELSE "end")
    /\ recent' = Null
    /\ UNCHANGED <<now, inputVars, flushVars, cache, row, overlaps, forget, forgets>>

\* cleanupGauges: the row first; if that fails the gauge stays and is still to
\* be forgotten.
CleanupRow ==
    /\ cleanup.pc = "row"
    /\ \/ /\ row' = Null /\ behind' = FALSE
          /\ torn' = (\E n \in Threads : pc[n] = "upsert")
          /\ cleanup' = [cleanup EXCEPT !.pc = "cache", !.deleted = TRUE]
       \/ /\ CleanupTo("end")
          /\ UNCHANGED <<row, behind, torn>>
    /\ UNCHANGED <<now, inputVars, flushVars, cache, recent, raced, forget, forgets>>

CleanupCache ==
    /\ cleanup.pc = "cache"
    /\ CleanupTo("end")
    /\ cache' = Null
    /\ UNCHANGED <<now, inputVars, flushVars, row, recent, overlaps, forget, forgets>>

\* Mutant: forgotten whether or not the row could be deleted.
CleanupEndAlways ==
    /\ cleanup.pc = "end"
    /\ forget' = FALSE
    /\ cleanup' = NotCleaning
    /\ UNCHANGED <<now, inputVars, flushVars, gaugeVars, overlaps, forgets>>

CleanupEnd ==
    /\ cleanup.pc = "end"
    /\ forget' = (cleanup.gauge /\ ~cleanup.deleted)
    /\ cleanup' = NotCleaning
    /\ UNCHANGED <<now, inputVars, flushVars, gaugeVars, overlaps, forgets>>

-----------------------------------------------------------------------------
\* The process dies; the next one reads the gauge from the database before it
\* starts anything (readGaugesFromDatabaseAndAddToGlobalVariables).  What had
\* not been aggregated is lost.
Restart ==
    /\ FreshMemory
    /\ cache' = row /\ recent' = row /\ ordered' = row
    /\ behind' = FALSE /\ torn' = FALSE /\ raced' = FALSE
    /\ UNCHANGED <<now, metric, row, forgets>>

FlushStep(n) ==
    \/ AddStart(n) \/ AddGetStart(n)
    \/ WaitForElders(n) \/ DrainBegin(n) \/ DrainEnd(n)
    \/ WaitForTurn(n) \/ AggregateGauges(n) \/ DropForgotten(n)
    \/ UpdateCache(n) \/ UpdateDatabase(n)
    \/ ReadRecent(n) \/ RefreshRecent(n) \/ PutRecent(n)
    \/ FinishThread(n)

ListenerStep ==
    \E l \in Listeners :
        \/ \E ts \in {now, now + 1} \ {0}, ops \in Packets : ReceivePacket(l, ts, ops)
        \/ QueueMetric(l)

CleanupStep == CleanupMaps \/ CleanupRow \/ CleanupCache \/ CleanupEnd

Next ==
    \/ ListenerStep
    \/ InvokeThread
    \/ \E n \in Threads : FlushStep(n)
    \/ ForgetMetric \/ CleanupBegin \/ CleanupStep
    \/ Restart

Spec == Init /\ [][Next]_vars

\* The pool runs every thread.
FairSpec == Spec /\ \A n \in Threads : WF_vars(FlushStep(n))

-----------------------------------------------------------------------------
(* Properties                                                              *)

TypeOK ==
    /\ now \in 0..MaxFlushes
    /\ hand \in [Listeners -> [ts : Nat, ops : Seq(Ops)]]
    /\ metric \in Seq([ts : Nat, op : Ops])
    /\ queue \subseteq DOMAIN metric
    /\ starts \subseteq Threads /\ getStarts \subseteq Threads
    /\ pc \in [Threads -> Pcs]
    /\ flush \in [Threads -> Flush]
    /\ {cache, row, recent, ordered} \subseteq Values
    /\ {forget, behind, torn, raced} \subseteq BOOLEAN
    /\ cleanup \in [pc : CleanupPcs, gauge : BOOLEAN, deleted : BOOLEAN]
    /\ forgets \in 0..MaxForgets

AtRest == NoFlush /\ cleanup.pc = "idle"

\* The walks of the queue have handed the metrics out in their order: each
\* thread's are older than those of the threads after it.  The code does not
\* ensure it: two walks may overlap, and a walk that meets a metric may have
\* missed an older one that was put in or read in the same millisecond.
BatchesInOrder ==
    \A m, n \in Threads : m < n => \A j \in flush[m].got, k \in flush[n].got : j < k

\* When everything received has been flushed, the gauge is what its metrics
\* give in the order in which they were received: however the threads that
\* share the metrics overlap, none is lost, applied twice or applied out of
\* turn.
GaugeInOrder == AtRest /\ queue = {} /\ forgets = 0 /\ BatchesInOrder => cache = ordered

\* After a restart the gauge picks up where it left off: once the threads are
\* done, the row holds the cached value, unless the last update failed or it
\* came between the cleanup's two deletes, or they between its two updates.
RestartPicksUp == AtRest /\ ~behind /\ ~torn => row = cache

\* The value sent again when no metric arrives is the gauge's own, and a gauge
\* that has been forgotten is not sent again, unless a flush thread that had
\* done its check of what to forget met the cleanup.
ResendsGauge == AtRest /\ ~forget /\ ~raced => recent = cache

\* Only one thread at a time reads the cached value and writes it back.
OneWriter == \A m, n \in Threads : {pc[m], pc[n]} \subseteq InTurn => m = n

\* A flush thread gets its turns: no thread waits for ever for an elder one.
FlushesEnd == \A n \in Threads : pc[n] = "invoked" ~> pc[n] = "done"
=============================================================================
