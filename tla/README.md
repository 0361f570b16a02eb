# StatsAgg in TLA+

StatsAgg is a Java service that receives metrics (StatsD, Graphite, OpenTSDB,
InfluxDB), aggregates them, forwards them to output modules, and raises alerts on
them.  Operators maintain alerts, suspensions, notification groups and templates
in a web interface backed by a SQL database.  This directory models the parts of
the program whose correctness depends on the order of events, checks them with
TLC and proves their safety invariants, where the prover reaches, with TLAPS.

## Inventory

| Component | State it keeps | Operations | Hard behaviour |
|---|---|---|---|
| Alert routine (`AlertThread`, `AlertInvokerThread`) | the ALERTS rows, `pending...AlertsByAlertId_`, run-local maps | load, evaluate, recovery stages 1, 2a-2c, take action, persist | a run writes whole alerts it read at its start; crashes; failed writes; restarts |
| Alert requests (`AlertsDaoWrapper`, `web_ui`, `TemplateThread`) | rows read outside the lock | form, enable/disable, acknowledge, delete, template rewrite | stale reads, lost updates |
| Alert criteria and recent values (`AlertThread`, `Common`, `CleanupThread`) | `recentMetricTimestampsAndValuesByMetricKey` | append, copy, sort, cut out the window, combine, trim | boundaries of windows; a run, its windows and a cleanup that go by different clocks |
| Availability alerts and last-seen times (`AlertThread`, `Common`, `CleanupThread`) | METRIC_LAST_SEEN, `metricKeysLastSeenTimestamp`, the sets of active availability alerts | judge, track, persist, release, reload | what is tracked must outlive cleanups and restarts and still be let go |
| Suspensions (`Suspensions`, `Suspension`) | SUSPENSIONS rows, global suspension maps | activity, association, level | time windows over midnight, precedence of levels |
| Metric association (`MetricAssociation`) | association maps shared with all threads | associate, detect changes, blacklist | regex changes and deletion while associating |
| Cleanup (`CleanupThread`, `ForgetMetrics`) | last-seen, values, associations | forget, expire, trim, drop availability keys | races with association through two flags |
| Flush threads (`StatsdThread`, `GraphiteThread`, `Common`) | aggregated values, last-seen, recent values | drain, aggregate, wait for elder threads, publish | ordering of overlapping flushes |
| Output and notification pools | thread pools | execute, limit, shut down | limit at the pool, loss at shutdown |
| Invokers, start-up and shutdown (`Driver`, `InvokerThread`) | invoker threads, start timestamp | start, interrupt, terminate | start order, waiting for pools |
| Templates (`TemplateThread`) | derived alerts, groups | rename, delete, create or alter | renames outside the lock |
| Web pages, API, parsers, DAO/SQL, configuration, utilities | - | - | I/O and formatting; not modelled |

How they interact: listeners put metrics in global queues; flush threads drain
them, update the recent values and the last-seen times, and hand them to the
output pool.  The alert thread associates metric keys, takes
`alertRoutineLock`, reads the alerts, determines suspensions, evaluates the
criteria against the recent values, hands notifications to a pool, and writes
the rows back.  Requests take the same lock to write, but some read the row
before they take it.  The cleanup thread removes what the others forget.

The properties that make each part correct:

- alert routine and requests: a level's status stays coherent whatever is
  written over what; no incident opens without its notification and none is
  notified against the row; a restart does not close incidents for want of data;
  saving what was there keeps the status; the row follows the criteria in the end;
- association and cleanup: the associations are those the groups' regexes in the
  database give; a changed group is re-associated in the end; nothing is kept for
  a key the cleanup can no longer find;
- flush threads and gauges: metrics are applied once and in order although flush
  threads overlap; cache, database and resent value of a gauge agree; the waits end;
- availability: an absence that was found is remembered through cleanups, crashes
  and restarts; the verdict is right once everything rests; what is silent is let go;
- recent values: no value that an alert counts on goes while it may still be judged
  by it, and none stays for nothing; a criterion gives what its description says;
- suspensions: pure rules, right at the boundaries;
- pools, invokers, templates: limits are kept, nothing waits for ever, derived
  objects converge to their templates.

## Modules and plan

| Module | Contents |
|---|---|
| `AlertStatus`, `MCAlertStatus`, `AlertStatus_proofs` | one alert through runs, requests, crashes and restarts |
| `Incident`, `AlertIncident_proofs` | what one level of an alert promises, abstractly, and the proof that `AlertStatus` implements it |
| `AvailabilityAlerts`, `MCAvailabilityAlerts`, `AvailabilityAlerts_proofs` | one availability alert, last-seen times, tracking, cleanup, restart |
| `AlertCriteria`, `AlertCriteria_proofs` | windows and threshold criteria as operators |
| `FoldTheorems` | folds, sums and sorted lists over finite sets, for the proofs about values and gauges |
| `RecentValues`, `MCRecentValues`, `RecentValues_proofs` | the recent values: arrival, judgement, trimming; extends `AlertCriteria` |
| `MetricAssociation`, `MCMetricAssociation`, `MetricAssociation_proofs` | metric keys, metric groups, association, cleanup, output blacklist |
| `StatsdGauges`, `MCStatsdGauges`, `StatsdGauges_proofs` | overlapping flush threads, a gauge's copies, forgetting it, restarts |

`RecentValues` is built from the operators of `AlertCriteria`, and `AlertStatus`
instantiates `Incident` once per level.  Beyond that each model stands for itself
and takes what another one explains as a choice: `AlertStatus` lets a run find the
criteria met or not, `AvailabilityAlerts` and `RecentValues` say what it finds;
both of these let a key become associated, `MetricAssociation` says when.  No
module composes them all: each joint is one value (a set of keys, a Boolean) that
the module behind it may choose in any way the module before it can give.

What is left, in the order of its worth: the rules of suspensions as operators
with a reference definition; several availability alerts over shared keys; the
templates' derived objects; the guard that keeps a second routine from starting
and the pools behind it.  The reasons they are not here yet are at the end.

## AlertStatus

One alert with its two levels, caution and danger.

| Specification | Code |
|---|---|
| `db`, `nextId` | the row of the ALERTS table and its id sequence |
| `run` | the locals of the alert thread: its copy of the alert, the map of metric keys, the suspension level, what it has handed to the notification pool |
| `pending`, `pendingOf`, `firstRunDone`, `startTs` | the statics of the recovery routine and `statsaggStartTimestamp` |
| `ui` | what each session has read and is about to write |
| `RunLoad`, `RunEvaluate`, `TakeAction`, `Persist`, `RunFinish` | `run` and `runAlertRoutine`, split where another thread, the clock or a crash can be seen |
| `StillPending`, `HasReachedPreviousState` | stages 2a, 2c and 2b of the recovery routine |
| `AlterRecord`, `CopyStatusMetadata`, `CriteriaEqual` | `AlertsDaoWrapper.alterRecordInDatabase` and `Alert.is...CriteriaEqual` |
| `SubmitForm`, `BeginToggle`, `BeginAck`, `BeginTemplate`, `CommitRequest`, `DeleteAlert` | the requests; those that read before they take the lock are two actions |
| `Crash`, `Boot`, `SetStartTimestamp` | end and start of the process |

Which metric keys meet the criteria, and the level of suspension, are choices of
`RunLoad` and `RunEvaluate`.  Names, the list of active keys and the texts of
notifications are left out.  `run.sent`, `seen`, `bootTime` and `crashes` are
history the properties and bounds need.

`Incident` is the abstract specification of one level: an incident is opened,
repeated, resolved or suspended by a decision made on the status on record, with
the notification that goes with it, and the record is then that decision, or what
it was before; requests clear the record or write back a copy they took earlier,
but not between a decision and its end.  It knows no lock, no recovery, no start-up
and no other level.  `RefinesIncident` maps `record` to the level's status in the
row, `draft` and `note` to what the run has decided for the level and handed over
(`DraftOf`, `NoteOf`), and `copies` to what the sessions hold (`CopiesOf`).

| Run | Question | Result |
|---|---|---|
| recovery | does the recovery routine hold and release, do incidents open announced, does the row follow the criteria, and does each level implement an incident, across a crash, failed writes and suspensions? | holds |
| manual | do the lock and the whole-row writes keep the row, the run's copy, the notifications and the incidents consistent while a session acknowledges, toggles, edits and deletes? | holds |
| template | does a template's rewrite keep the status of a level whose criteria it leaves, and are notifications right beside it? | holds |
| slow_startup | what if the first run comes before the start timestamp is set? | the recovery routine is void |
| lost_ack | can overlapping acknowledgements lose one? | yes |
| form_edit | does saving a form keep an unchanged alert's status? | no |

Bounds: the clock runs to 3, or 5 where a crash must fit between an incident and
the recovery timeout of 2; resend interval and windows are 1 and 2, so each
comparison is met below, at and above its limit.  One session is enough for a
request to be stale against the alert thread; two make two requests race
(lost_ack).  Two row ids allow a deleted alert and its successor.

Fairness (`FairSpec`): the clock runs, a dead process is started again, the
start-up completes, and the alert thread is invoked every interval by
`AlertInvokerThread` and runs to its end.  Nothing is assumed of requests,
crashes or the success of writes: `StatusFollowsCriteria` asks for the latter as
a premise.

## AvailabilityAlerts

An availability alert fires for a key that has not been received for longer than
a window.  The key must therefore be kept although it is silent: the cleanup
spares the keys that the last run published, and a restart knows only what the
table holds.

| Specification | Code |
|---|---|
| `alert` | the alert's row: its status, its enabled levels, its group's keys |
| `rows` | METRIC_LAST_SEEN |
| `queue`, `mostRecent`, `lastSeen`, `known` | what is received and not flushed, the StatsD values to send again, `metricKeysLastSeenTimestamp` with its two times, the keys with recent values |
| `associated`, `active`, `published` | the group's keys, `active(Caution/Danger)AvailabilityAlerts`, `activeAvailabilityAlerts` |
| `run`, `removing` | the locals of the alert thread and of the cleanup |
| `Receive`, `Flush` | listeners; `updateMetricLastSeenTimestamps`, both of them |
| `RunAssociate`, `RunLoad`, `Evaluate`, `RunEvaluated` | a run up to its verdicts: its start is taken before the association and the lock |
| `DeleteRows`, `UpsertRows`, `Publish` | `updateMetricLastSeen` in two commits, then `updateAlertGlobalVariables` |
| `CleanupCheck`, `CleanupRemove` | the cleanup looks at one key and then removes it |
| `EditAlert`, `Suspend` | requests under the lock; metric suspensions |
| `Crash`, `Boot` | memory is lost; `readMetricLastSeenFromDatabaseAndAddToGlobalVariables` |

`received` (when a key last arrived, as far as a restart can know) and `absent`
(pairs of level and key that were found absent, and nothing has ended it) are
history.  Writes of METRIC_LAST_SEEN succeed.  A unit of the clock is longer than
it takes to flush a metric: windows are minutes, flushes seconds.

| Run | Question | Result |
|---|---|---|
| availability | is an absence that was found remembered with its time through runs, cleanups, requests, suspensions and restarts, is the verdict right at rest, and are silent keys let go? | holds |
| availability_resend | is the verdict right when StatsD values are sent again, as they are by default? | no: the time of the last metric is overwritten with null |

Bounds: one key, as keys meet only in sets; windows of 1 and 2 with a day of 2 put
one level's window below the time after which a silent key is dropped and the
other's at it; one level stops tracking after 4, the other never.  A clock up to 6
leaves room for an absence, a restart and the limit; two edits make disable and
enable, or one of them and a suspension; two crashes make a restart of a restart.

Three cases are outside the run and named by constants.  `EarlyCleanup`: if a
cleanup comes after a restart and before the first run, tracked keys may be
forgotten (the model then violates `AbsenceRemembered`).  `Edits` without "group"
and "level": an alert given another group, or with a level switched off, keeps the
keys it had (`VerdictSettles` and `KeysReleased` are then violated).  A key that
is suspended during the first run after a restart loses its row; the history ends
there what is remembered of it.  They are hazards with a note; no document says
what should happen.

Fairness: the clock runs, a dead process is started again, the alert routine and
the metric threads are invoked again and again and get on.  The cleanup's look at
a key has strong fairness: it shares the lock with the alert routine, and each of
the two sleeps between its runs while the other gets the lock.

## AlertCriteria and RecentValues

`AlertCriteria` states when a list of samples meets a criterion: the two indexes
that cut out the window, the minimum count, and the five combinations with their
rounding.  `RecentValues` models the lists themselves.  A run takes its start,
where its windows end, before it has the lock; the cleanup goes by a later time of
its own.

| Specification | Code |
|---|---|
| `IndexAtOrAfter`, `EndIndex`, `WindowOf` | `getStartAndEndIndexesOfTimestamps` and the sublist it gives |
| `ThresholdResult`, `ResultAt` | `doesMeetThresholdCriteria_...`, `isAlertActive_Threshold` |
| `listed`, `values` | `recentMetricTimestampsAndValuesByMetricKey`: the keys that have a list, and each list as a set of samples, their order of arrival in `n`; a restart gives the keys it knows empty lists |
| `Put` | `updateAlertMetricRecentValues`; a timestamp lies up to `Skew` in the past |
| `RunBegin`, `RunLock`, `Evaluate`, `RunEnd` | a run: start, lock, one alert and key at a time, end |
| `CleanupBegin`, `LookUp`, `Trim`, `CleanupEnd`, `IsOld` | `cleanupRecentMetricTimestampsAndValues`: first, alert by alert, which alerts need which of the keys that have a list by then; then the walk over the lists |
| `SetEnabled`, `SetSuspended`, `SetAssociated` | what changes which alert needs which key: requests, metric suspensions, the association, at any time and before a key's first value as well |

`owed` is history: for an alert and a key, what arrived while the alert counted on
it (`CountsOn`) and has needed the key ever since.  An alert counts on a key that it
needs, but not on what arrives in the course of a cleanup that has looked the
alert's keys up and not found the key needed, or not found a list of it.  The
latter hits an alert that has needed the key all along: the last-seen time by which
a key is associated is set before its first value is put (`StatsdThread` 131, 136),
so the key may have no list when the cleanup asks for it (`CleanupThread` 428), and
the list that is then put is cleared when the walk meets it (384).  It can happen
once in the life of a list.  It is a hazard with a note, and so is what is wiped
while an alert does not need the key; TLC violates `ValuesRetained` if `CountsOn`
includes such values.

| Run | Question | Result |
|---|---|---|
| values | does a value stay while an alert may be judged by it, is a level judged by its whole window, does each criterion give what its description says, is every list trimmed in the end, and do verdicts become right? | holds |

Bounds: one alert needs a key's values for two units at its caution level and for one
at the other, the other alert for one, so that a value goes when one alert or the
other alone needs its key and stays when both do; windows and counts are those the
web form stores (1 or more).  A clock up to 2 and timestamps up to one unit in the
past give samples aged 0 to 3: before, at both ends of, within and after each window,
in and out of order.  Two samples are enough for an order and for an average; four
edits associate a key and make an alert lose and regain it, with one to spare.  The
average of the two values -2 and 1 is half a unit below zero, where the direction of
the rounding shows, and thresholds lie at the values and at the rounded average.
`CriteriaAsDescribed` puts
every operator and combination in place of the alert's own, so that
`AlertCriteria` is compared with a reference definition (over sets, without
indexes or order) on every list that can arise.  One case is excluded there: of
several samples with the very timestamp of the window's end only the first counts
(`WindowIsCutOut` says exactly which); the code's description does not speak of it.

Fairness: as in `AvailabilityAlerts`; `RunLock` and `CleanupBegin` share the lock
and have strong fairness, everything else weak.

## MetricAssociation

Two flags that each side reads once keep the cleanup and the association apart,
and a lock orders both with the operators' edits.

| Specification | Code |
|---|---|
| `db`, `changes` | METRIC_GROUPS with their regexes, `metricGroupChanges` |
| `merged`, `matching`, `any` | the regex cache, the keys by group, `metricKeysAssociatedWithAnyMetricGroup` |
| `lastSeen`, `forget` | `metricKeysLastSeenTimestamp`, `immediateCleanupMetrics` |
| `unread`, `missed` | history: groups whose regexes a failed read has left out, and the keys of each group that a run without group ids has |
| `CreateGroup`, `AlterGroup`, `RemoveGroup` | `MetricGroupsDaoWrapper`: commit and record the change under the lock |
| `MetricSeen`, `FlushReadsBlacklist`, `FlushCachesBlacklist` | the flush threads: last-seen times, and the regex cache filled outside the lock |
| `AssociateBegin` ... `AssociateEnd` | `associateMetricKeysWithMetricGroups`: changes first, then each key not processed yet, match and mark apart |
| `CleanupBegin` ... `CleanupEnd` | `CleanupThread.run`: the flag, the lock, then each forgotten or expired key, group by group and map by map |

A group's match and blacklist regexes are one set of keys they let through.  The
worker threads of the association handle keys one by one in any order; they share
no key.  `Overlap` says whether a cleanup may have read the flag before the
association set it.

| Run | Question | Result |
|---|---|---|
| association | are the associations those of the database but for failed reads, can every key that is kept still expire, is every edit applied and every arriving key processed, if cleanup and association do not overlap? | holds |
| association_overlap | are the associations right when the cleanup has read the flag too early? | no: a processed key misses its group |

Two reads under the lock may fail, and the start-up's read of the regexes may, too.
Nothing repeats them.  If the regexes of an altered group cannot be read
(`MetricAssociation` 667) the group has none cached, although its change has been
taken off the record; if the group ids cannot be read (350) the keys at hand are
marked as processed without being matched with any group.  Either lasts until the
group is edited again (or, of regexes, until a flush thread caches them; of a key,
until it is forgotten or expires).  `AssociationsCurrent` excludes exactly these
(`unread`, `missed`) and says that a failed read does nothing else; a hazard names
them.

`AssociationsCurrent` leaves out the groups of the output blacklist: a flush thread
may have read a group's regexes before an edit and cache them after it, so such a
group can keep old regexes until its next edit.  This is a hazard with a note, as
nothing in the repository says otherwise.

Bounds: one key and two groups, the first of them the output blacklist's: a group
that is altered, one that must not suffer, and a key that is in one, both or none.
Two edits make create and alter, alter twice, or alter and remove of one group, or
an edit of each; the start-up may find either group there or not.  The inductive
invariant of the proof was checked with two keys as well, where the state space is
larger than a run can be; the proof holds for any keys and groups.

Fairness: the association goes on once it has begun, a cleanup ends, and the
alert thread is invoked again and again.  Strong fairness of `AssociateBegin`
says that a thread waiting for the flags and the lock gets its turn although
cleanups come back: `CleanupInvokerThread` waits a random time of at least
five seconds between two of them so that they do not keep step with the alert
routine, and a Java monitor is granted to a waiting thread in practice.

## StatsdGauges

A flush thread is invoked every interval whether or not the ones before it are
done.  It registers in two lists of starts, waits to be the eldest in the first
one, drains the queue, waits to be the eldest in the second one, and then
aggregates the gauge on top of the cached value.

| Specification | Code |
|---|---|
| `hand`, `metric`, `queue` | the packet a listener works on, the hash keys handed out, `statsdGaugeMetrics` |
| `starts`, `getStarts` | the two lists of active threads' start timestamps |
| `pc`, `flush` | the locals of each `StatsdThread` |
| `cache`, `row`, `recent` | `statsdGaugeCache`, GAUGES, `statsdMetricsAggregatedMostRecentValue` |
| `forget`, `cleanup` | `immediateCleanupMetrics`, the locals of the cleanup |
| `AddStart` ... `FinishThread` | `StatsdThread.run`, step by step |
| `DrainBegin`, `DrainEnd` | the walk through the concurrent map: what is there from beginning to end is met, what comes or goes meanwhile may be |
| `CleanupBegin` ... `CleanupEnd` | forgetting the gauge: maps, row, cache, request |
| `Restart` | start-up after the process died at any point |

The default configuration is modelled: previous values are sent again and gauges
are persisted.  Time is counted in flush threads; a packet is stamped with the very
millisecond of the last thread or a later one, so the walk of a thread may run
while packets it is to take are still arriving.  Drains of two threads may overlap,
and a cleanup falls anywhere between the steps of the threads.

Four variables are history.  `ordered` is what the metrics give in the order
received.  The others say when the copies of a gauge may differ for good, which the
code does not prevent:

- `behind`: the last write of the row failed.  It is only logged.
- `torn`: a thread's write of cached value and row and the cleanup's removal of row
  and cached value have crossed, so that one copy stays and the other is gone; a row
  that stays comes back with a restart.
- `raced`: a thread that had checked what is to be forgotten before a cleanup, and
  had not stored its values yet, met that cleanup; it puts the forgotten value back
  to be sent again.

`RestartPicksUp` excludes the first two, `ResendsGauge` the third, and `GaugeInOrder`
the states in which the walks have handed metrics out in another order
(`BatchesInOrder` fails): a walk may miss a metric that is put in during it and meet
a later one, and two walks may meet the same metric.  All are hazards with notes; TLC
violates each property if its exclusion is dropped.  One constant names what the code
leaves to timing: `OnTime`, a thread has put its start in the first list, the first
thing it does, before the next one is invoked, a flush interval later.

| Run | Question | Result |
|---|---|---|
| gauges | are metrics applied once and in turn by overlapping threads, do row, cache and resent value agree at rest through restarts, failed writes and a request to forget the gauge, and do the waits end? (`OnTime`) | holds |

Bounds: two packets of one metric over two flush threads leave one thread waiting for
the other with metrics before, between and after; one request to forget falls
anywhere among them.  Values are 1 (added) and 5 (set), so every loss, repetition
and change of order gives another result.  Larger packets and more metrics are left
to the proofs.  Fairness: the pool runs every thread.

## What is proved

TLAPS checks the seven `..._proofs` modules and `FoldTheorems` for every value of
the constants that meets the assumptions in the modules: any number of keys,
groups, alerts, sessions, threads and metrics, and any bounds.  A theorem that
needs more says so in its statement.

`AlertStatus_proofs`:

- `TypeCorrect`, by one lemma per action on what it writes.
- `StatusAlwaysCoherent`.  `StatusCoherent` is not inductive: a run or a request
  may write a copy it holds.  `CopiesCoherent` adds that every copy of the row, of
  the run and of each session, is coherent at the current time; time only grows,
  so a stale copy stays coherent, and each of the writes keeps the pairing of
  active, first active time and last sent time.
- `SnapshotAlwaysCurrent`: during a run only the run writes the row, since every
  request needs the lock; a level it has not acted on yet is as it was read.
- `NotificationsMatchRow` follows from the snapshot: what a run decides on its
  copy holds of the row.
- `IncidentsAnnounced`, with the invariant `UnwrittenAnnounced`: a level that is
  active in the run's copy and not in the row has its notification handed over,
  or notifications are suspended.
- `UnchangedCriteriaKept`, if the requests are neither the form nor a removal.  A
  status is kept only if the row written has the id of the row it replaces;
  `MadeForRow` says so of every request under way.  It needs that ids do not
  change: only the form, which does not know the id, and a removal, after which a
  late request inserts the alert anew, break it (form_edit shows the former).  A
  template may begin before its alert exists, but only one runs at a time.
- `RecoveryIsHeld`, if the start time is set before a run is evaluated
  (`SlowStartup` is false; slow_startup shows what happens otherwise), nothing is
  toggled, and acknowledgements are not mixed with other requests.  The invariant
  has three parts.  `HeldBack`: once the first run has begun, each level that is
  active in the row or in the run's copy is *held*: pending under the row's id and
  window, or its criteria have been seen met, or the process is old enough.
  `Enabled`: a row that is not enabled, or not there, has no active level, so the
  first run misses none; a run makes a level active only when its criteria are
  met; and what a session is about to write is `Tame`, i.e. has no active level or
  has the row's id and criteria.  `Started`: the start time, once set, is not
  before the process began.  The conditions on requests are needed: TLC finds a
  counterexample with two sessions and `Ops` = {"toggle"}, and one with a single
  session and `Ops` = {"ack", "form"}.  A request that read the alert while it was active, and writes it
  after another has disabled it and the first run has passed, leaves a level
  active that the recovery routine never saw.

`AlertIncident_proofs`: `AlertImplementsIncidents`, for both levels at once.  The
initial states map to initial states; each action maps to one action of `Incident`
or a stutter, from `TypeOK` and `SnapshotCurrent`: the snapshot turns a decision on
the run's copy into one on the record, and the lock keeps requests away from a
decision.  An action on one level is a stutter of the other, or its `Record`, as a
write takes the whole row.

`AvailabilityAlerts_proofs`:

- `TrackingTypeCorrect`.
- `AbsenceAlwaysRemembered`, if nothing is sent again without a metric (`Resent`
  is empty) and no cleanup precedes the first run, for every kind of edit.
  `AbsenceRemembered` speaks of the time between runs; the invariant follows the
  run.  `Process` says who keeps out of whose way and what a dead process leaves,
  `TimesKept` that a last-seen time is when the key was received unless the key
  is just queued or forgotten, `Written` that a run about to publish has written
  what it found absent.  `Remembered` has two parts for each pair in `absent`:
  `StillAbsent`, it is absent for every time from the start of the run under way
  to now, and the row has its time; `StillTracked`, wherever the run is, the pair
  is in the set of active keys or still to be judged.

`FoldTheorems`: the library's folds are recursive functions on sets, and its
induction takes an operator, which the provers cannot instantiate.  Here the set
of numbers for which a statement fails is shown to have no least element, as `<` is
well-founded on the naturals, and that set is a value.  `FoldExists` gives a
fold as a function on the subsets, `SumOfBijection` says that the sum over a list
is the sum over the set it lists, and `SortedListExists` that every finite set has
a sorted list.

`AlertCriteria_proofs`: `WindowIsCutOut`, for every sorted list and every window
the two indexes select exactly the samples within it, of those at its very end the
first; `RoundedAtLeast`, the quotient is at least t exactly if the sum is at
least t counts less half a count, with half a unit rounded away from zero;
`AverageOfSamples`, the average of a list is the rounded quotient of the sum over
its set.

`RecentValues_proofs`:

- `ValuesTypeCorrect`.
- `ResultIsDescribed`: for each of the five combinations what
  the code counts on indexes of the sorted window is what the description counts on
  the set of samples.  It excludes two samples at the very end of the window,
  as the property does.
- `WholeWindowIsJudged` and `CriteriaAreAsDescribed` apply it to the copy a run
  makes.  Their invariant `JudgedInv` says that a key's values are finitely many and
  differ in their order of arrival, which makes the sorted copy a list of
  all of them, and that what was owed to an alert when the run got the lock is
  still there when it is judged: it is owed to the alert, and the cleanup is kept
  out by the lock.
- `ValuesAreRetained` with `OwedIsNeeded` (what is owed to an alert belongs to a
  key that has a list and that the alert needs, and a cleanup under way has seen it
  so or is still to look at the alert) and `CleanupStarted` (the cleanup's time is
  not ahead of the clock): a sample that is taken is out of both windows of every
  alert it is owed to, and stays so.  What is owed is what `CountsOn` says, no more.

`MetricAssociation_proofs`:

- `TypeCorrect`, overlap included.
- `AssociationsStayCurrent` and `KeysAlwaysExpire`, without overlap and with reads
  that may fail, share one invariant.  `Threads` says that cleanup and association keep apart and which
  locals are set when.  `Regexes` says that a group whose database row and cache
  differ has its change recorded, is being worked on or could not be read, that an
  altered group is visited before its turn is over and that other caches are current.
  `Associated` says that a group has only keys that are processed or about to be
  (`MatchedProcessed`), that it has every such key it matches except those a failed
  read has missed and those the routine in hand has left (`Complete`, `Removing`), and
  that all of them were seen (`KnownSeen`).

`StatsdGauges_proofs`:

`OnTime` is assumed for all of these but types, and nothing else, for any number of
listeners, packets of any size, metrics and threads.

- `FlushesTakeTurns`: `Turns` says who is registered, that threads register in the
  order of their starts, and that a thread in its turn is the eldest that is active.
- `GaugeCopiesAgree` and `GaugeResentAsCached`: `Synced` says where row and resent
  value may differ from the cached one: between the steps of the one thread in its
  turn or of the cleanup, or after a failed write (`behind`), as long as the two have
  not crossed (`RowSync` unless `torn`, `RecentSync` unless `raced`).  They hold for
  every interleaving; what they leave out is what the three variables name.
- `GaugeTypeCorrect`: the aggregate is a fold over the drained metrics, a finite
  set; `GaugeFold` says that it is some fold function on its subsets, which gives
  its type and the steps of the next proof.
- `GaugeKeepsOrder` is about states at rest in which the batches are in order
  (`BatchesInOrder`), which the code does not ensure.  `Drains` says that what a walk
  met at its beginning is still queued or some thread's.  `OrderKept` says that as
  long as the batches are in order, and before all that is queued (`InLine`), and
  nothing has been forgotten, there is a number d such that the cached value is what
  the first d metrics give, each later one is queued or with a thread that has not
  put it in the cache, and such a thread carries on from there (`Tally`).

Only model-checked are the liveness properties (`RecoveryEnds`,
`StatusFollowsCriteria`, `VerdictSettles`, `KeysReleased`, `ValuesTrimmed`,
`ActiveAsMet`, `ChangesApplied`, `KeysProcessed`, `FlushesEnd`), which the prover
does not reach: they need fairness and ENABLED.  Every safety property
that a passing run checks is a theorem, under the conditions given above.

## Where the code disagrees with what it says

Each has a run that shows it and an entry under `findings` in PROJECT.json.

1. The alert invoker starts before the start timestamp is set (slow_startup).
2. Overlapping acknowledgements lose one (lost_ack).
3. Saving an alert's form unchanged resets its status (form_edit).
4. Cleanup and association may overlap, and a key is lost to its group
   (association_overlap).
5. An availability alert on a StatsD key whose value is sent again never fires
   (availability_resend).

## What is not modelled

- The rules of suspensions (time windows, tags, precedence of levels): calendar
  arithmetic over one suspension at a time, with unit tests.  Their result is a
  choice in `AlertStatus`, and the suspension of keys an action in
  `AvailabilityAlerts` and `RecentValues`.
- Invalid criteria, levels switched off and edits of a window in `RecentValues`;
  several alerts over one key and failed writes in `AvailabilityAlerts`; the swap
  of the output blacklist's own maps.
- The flush threads of the other metric types: they wait and drain as StatsD's do,
  and their aggregation is arithmetic over one batch.  Counters, timers, sets and
  the output modules' formats likewise.
- The output and notification pools, the invokers' guard and the shutdown: Java
  executors around sockets.  A crash at any point stands for a shutdown that loses
  something; what else can go wrong is listed as hazards.
- The splitting of a run over worker threads: each key is judged on its own, so the
  order is left open and the end is assumed to be reached.
- Templates beyond the rewrite of an alert: SQL and names in one thread.
- SQL, sockets, mail, HTML and JSON, the parsers of metric formats, configuration,
  schema migration and internal statistics: I/O or sequential text processing that
  unit tests reach better.  A write to the database succeeds whole or leaves it as
  it was.
- The scripts under `src/webapp`: most are third-party libraries (jQuery,
  Bootstrap, DataTables, Moment, Font Awesome), and the program's own
  `statsagg*.js` show and hide fields and fill tables in the browser.  They keep no
  state of the program; all of its behaviour is in the Java code modelled above.

The hazards in PROJECT.json without a property name what each of these would have
to cover.
