-------------------------- MODULE MetricAssociation --------------------------
(***************************************************************************)
(* Which metric keys belong to which metric group.  The association        *)
(* routine of the alert thread matches each key against the groups' regexes*)
(* once and remembers the result; operators create, alter and remove       *)
(* groups; flush threads report keys and consult the output blacklist; the *)
(* cleanup thread drops keys that are forgotten or no longer seen.         *)
(*                                                                         *)
(* Metric suspensions go through the same methods with maps of their own:  *)
(* read 'suspension' for 'group'.  A group's match and blacklist regexes   *)
(* are one rule, the set of keys they let through (both are cached and     *)
(* dropped together).                                                      *)
(***************************************************************************)
EXTENDS Integers, FiniteSets

CONSTANTS
    Keys,         \* metric keys
    Rules,        \* what the regexes of a group may match
    Null,         \* no entry in a map, no row in the database
    MaxGroup,     \* bound on the group ids the database hands out
    Blacklists,   \* ids of groups that are the output blacklist
    Overlap,      \* can the cleanup run while keys are being associated?
    MaxEdits      \* bound on the changes operators make

Groups == 1..MaxGroup

ASSUME RulesAssumption ==
    /\ Rules \subseteq SUBSET Keys
    /\ {} \in Rules             \* the merged regex "()" of no regex at all
    /\ \A keys \in SUBSET Keys : keys # Null
    /\ Null \notin Keys \cup Groups

ASSUME BoundsAssumption ==
    /\ MaxGroup \in Nat /\ MaxEdits \in Nat
    /\ Blacklists \subseteq Groups
    /\ Overlap \in BOOLEAN

VARIABLES
    db,        \* METRIC_GROUPS and their regexes
    nextId,    \* the id of the next group
    changes,   \* metricGroupChanges: none, NEW, ALTER or REMOVE
    merged,    \* mergedMatchRegexesByMetricGroupId
    matching,  \* matchingMetricKeysAssociatedWithMetricGroup
    any,       \* keys of metricKeysAssociatedWithAnyMetricGroup: already processed
    lastSeen,  \* keys of metricKeysLastSeenTimestamp
    forget,    \* immediateCleanupMetrics
    assoc,     \* locals of the association routine
    cleanup,   \* locals of the cleanup thread
    flush,     \* regexes a flush thread has read for the output blacklist
    edits,     \* number of operators' changes so far
    unread,    \* history: groups whose regexes the last attempt failed to read
    missed     \* history: keys processed without the group, its id was not read

groupVars == <<db, nextId, changes, edits>>
failures == <<unread, missed>>
vars == <<groupVars, merged, matching, any, lastSeen, forget, assoc, cleanup, flush, failures>>

-----------------------------------------------------------------------------
Rule(id) == IF db[id] = Null THEN {} ELSE db[id]

Matched(id) == IF matching[id] = Null THEN {} ELSE matching[id]

Matches(id, k) == merged[id] # Null /\ k \in merged[id]

\* pc, the groups still to re-associate, the keys dropped for that, all group
\* ids and whether they could be read, the group in hand, the keys left for it,
\* the keys matched but not marked
Assoc == [pc : {"idle", "detect", "redo", "keys"}, altered : SUBSET Groups,
          dropped : SUBSET Keys, ids : SUBSET Groups, listed : BOOLEAN,
          id : Groups \cup {Null}, left : SUBSET Keys, half : SUBSET Keys]

NotAssociating == [pc |-> "idle", altered |-> {}, dropped |-> {}, ids |-> {}, listed |-> TRUE,
                   id |-> Null, left |-> {}, half |-> {}]

Cleanup == [pc : {"idle", "check", "lock", "clean"}, asked : SUBSET Keys,
            left : SUBSET Keys, key : Keys \cup {Null}]

NotCleaning == [pc |-> "idle", asked |-> {}, left |-> {}, key |-> Null]

\* synchronized(metricGroupChanges)
ChangesLockFree == assoc.pc # "detect" /\ cleanup.pc # "clean"

\* The start-up reads the groups' regexes, where it can, and the keys last seen.
Init ==
    /\ db \in [Groups -> Rules \cup {Null}]
    /\ nextId \in 1..(MaxGroup + 1)
    /\ \A id \in Groups : db[id] # Null <=> id < nextId
    /\ changes = [id \in Groups |-> "none"]
    /\ unread \in SUBSET {id \in Groups : db[id] # Null}
    /\ merged = [id \in Groups |-> IF id \in unread THEN Null ELSE db[id]]
    /\ missed = [id \in Groups |-> {}]
    /\ matching = [id \in Groups |-> Null]
    /\ any = {}
    /\ lastSeen \in SUBSET Keys
    /\ forget = {}
    /\ assoc = NotAssociating
    /\ cleanup = NotCleaning
    /\ flush = [id |-> Null, rule |-> Null]
    /\ edits = 0

-----------------------------------------------------------------------------
(* Operators.  The change is recorded under the lock in which it is        *)
(* committed.                                                              *)

Edit(id, rule, change) ==
    /\ ChangesLockFree
    /\ edits < MaxEdits
    /\ edits' = edits + 1
    /\ db' = [db EXCEPT ![id] = rule]
    /\ changes' = [changes EXCEPT ![id] = change]
    /\ UNCHANGED <<merged, matching, any, lastSeen, forget, assoc, cleanup, flush, failures>>

CreateGroup(rule) ==
    /\ nextId \in Groups
    /\ Edit(nextId, rule, "new")
    /\ nextId' = nextId + 1

\* Mutant: an altered group counts as a new one.
AlterGroupAsNew(id, rule) ==
    /\ db[id] \notin {Null, rule}
    /\ Edit(id, rule, "new")
    /\ UNCHANGED nextId

\* An edit that leaves the regexes as they are records no change.
AlterGroup(id, rule) ==
    /\ db[id] \notin {Null, rule}
    /\ Edit(id, rule, "alter")
    /\ UNCHANGED nextId

\* Mutant: the removal is recorded under a name the routine does not know.
RemoveGroupAsDelete(id) ==
    /\ db[id] # Null
    /\ Edit(id, Null, "delete")
    /\ UNCHANGED nextId

RemoveGroup(id) ==
    /\ db[id] # Null
    /\ Edit(id, Null, "remove")
    /\ UNCHANGED nextId

ForgetMetric(k) ==
    /\ forget' = forget \cup {k}
    /\ UNCHANGED <<groupVars, merged, matching, any, lastSeen, assoc, cleanup, flush, failures>>

-----------------------------------------------------------------------------
(* Flush threads.                                                          *)

\* updateMetricLastSeenTimestamps.  A flush thread drops the keys that were to
\* be forgotten when it started, so a key in 'forget' may still arrive.
MetricSeen(k) ==
    /\ lastSeen' = lastSeen \cup {k}
    /\ UNCHANGED <<groupVars, merged, matching, any, forget, assoc, cleanup, flush, failures>>

\* updateMergedRegexesForMetricGroups for the output blacklist: the regexes
\* are read from the database if they are not cached, outside any lock ...
FlushReadsBlacklist(id) ==
    /\ id \in Blacklists
    /\ flush.id = Null
    /\ db[id] # Null
    /\ merged[id] = Null
    /\ flush' = [id |-> id, rule |-> db[id]]
    /\ UNCHANGED <<groupVars, merged, matching, any, lastSeen, forget, assoc, cleanup, failures>>

\* ... and put in the cache.
FlushCachesBlacklist ==
    /\ flush.id # Null
    /\ merged' = [merged EXCEPT ![flush.id] = flush.rule]
    /\ flush' = [id |-> Null, rule |-> Null]
    /\ unread' = unread \ {flush.id}
    /\ UNCHANGED <<groupVars, matching, any, lastSeen, forget, assoc, cleanup, missed>>

-----------------------------------------------------------------------------
(* The association routine.                                                *)

\* One 50 ms sleep if the cleanup is running, then the flag is set.
AssociateBegin ==
    /\ assoc.pc = "idle"
    /\ cleanup.pc # "clean"        \* waits for the lock
    /\ Overlap \/ cleanup.pc = "idle"
    /\ assoc' = [NotAssociating EXCEPT !.pc = "detect"]
    /\ UNCHANGED <<groupVars, merged, matching, any, lastSeen, forget, cleanup, flush, failures>>

\* getMetricKeysWhereThisIdIsTheOnlyIdAssociated
OnlyAssociatedWith(id) ==
    {k \in Matched(id) : \A other \in Groups \ {id} : k \notin Matched(other)}

\* Mutant: the change stays in the map when it has been applied.
DetectChangeKept(id) ==
    LET only == OnlyAssociatedWith(id)
    IN  /\ assoc.pc = "detect"
        /\ changes[id] # "none"
        /\ any' = IF changes[id] = "alter" THEN any \ only ELSE any
        /\ merged' = [merged EXCEPT ![id] = IF changes[id] = "new" THEN @ ELSE Null]
        /\ matching' = [matching EXCEPT ![id] = IF changes[id] = "new" THEN @ ELSE Null]
        /\ assoc' = [assoc EXCEPT !.altered = @ \cup {id}]
        /\ UNCHANGED <<groupVars, lastSeen, forget, cleanup, flush, failures>>

\* associateMetricKeysWithNewOrAlteredIds_DetectChanges, for one group.  A key
\* that only an altered group had is dropped; one that only a removed group
\* had stays processed.
DetectChange(id) ==
    LET change == changes[id]
        only == OnlyAssociatedWith(id)
    IN  /\ assoc.pc = "detect"
        /\ change # "none"
        /\ changes' = [changes EXCEPT ![id] = "none"]
        /\ any' = CASE change = "new" -> any
                    [] change = "alter" -> any \ only
                    [] change = "remove" -> any \cup only
        /\ merged' = [merged EXCEPT ![id] = IF change = "new" THEN @ ELSE Null]
        /\ matching' = [matching EXCEPT ![id] = IF change = "new" THEN @ ELSE Null]
        /\ assoc' = [assoc EXCEPT
              !.altered = IF change = "remove" THEN @ ELSE @ \cup {id},
              !.dropped = IF change = "alter" THEN @ \cup only ELSE @]
        /\ unread' = unread \ {id}
        /\ missed' = [missed EXCEPT ![id] = {}]
        /\ UNCHANGED <<db, nextId, edits, lastSeen, forget, cleanup, flush>>

\* Still under the lock: read the regexes that are not cached and the group ids.
\* A group whose regexes cannot be read has none cached; if the ids cannot be
\* read, the routine goes on with no ids.  The changes are gone in either case.
UpdateRegexes ==
    LET toRead == {id \in assoc.altered : merged[id] = Null}
    IN  /\ assoc.pc = "detect"
        /\ \A id \in Groups : changes[id] = "none"
        /\ \E failed \in SUBSET toRead :
              /\ merged' = [id \in Groups |->
                    IF id \in toRead \ failed THEN Rule(id) ELSE merged[id]]
              /\ unread' = unread \cup failed
        /\ \E listed \in BOOLEAN :
              assoc' = [assoc EXCEPT !.pc = "redo", !.listed = listed,
                    !.ids = {id \in Groups : listed /\ db[id] # Null}]
        /\ UNCHANGED <<groupVars, matching, any, lastSeen, forget, cleanup, flush, missed>>

\* associateMetricKeysWithNewOrAlteredIds_AssociateMetrics: the loop over the
\* new and altered groups, and in it the loop over the processed and the
\* dropped keys.
RedoGroup(id) ==
    /\ assoc.pc = "redo"
    /\ assoc.id = Null
    /\ id \in assoc.altered
    /\ assoc' = [assoc EXCEPT !.id = id, !.left = any \cup assoc.dropped]
    /\ UNCHANGED <<groupVars, merged, matching, any, lastSeen, forget, cleanup, flush, failures>>

\* associateMetricKeyWithId
RedoKey(k) ==
    /\ assoc.pc = "redo"
    /\ k \in assoc.left
    /\ assoc' = [assoc EXCEPT !.left = @ \ {k}]
    /\ IF k \notin forget /\ Matches(assoc.id, k)
       THEN matching' = [matching EXCEPT ![assoc.id] = Matched(assoc.id) \cup {k}]
       ELSE UNCHANGED matching
    /\ UNCHANGED <<groupVars, merged, any, lastSeen, forget, cleanup, flush, failures>>

RedoMark ==
    /\ assoc.pc = "redo"
    /\ assoc.id # Null
    /\ assoc.left = {}
    /\ any' = any \cup Matched(assoc.id)
    /\ assoc' = [assoc EXCEPT !.altered = @ \ {assoc.id}, !.id = Null]
    /\ UNCHANGED <<groupVars, merged, matching, lastSeen, forget, cleanup, flush, failures>>

\* createMatchingMetricKeysDataStructures..., and hand the keys to the workers.
StartWorkers ==
    /\ assoc.pc = "redo"
    /\ assoc.altered = {}
    /\ matching' = [id \in Groups |->
          IF id \in assoc.ids /\ matching[id] = Null THEN {} ELSE matching[id]]
    /\ assoc' = [assoc EXCEPT !.pc = "keys", !.left = lastSeen]
    /\ UNCHANGED <<groupVars, merged, any, lastSeen, forget, cleanup, flush, failures>>

SkipKey(k) ==
    /\ assoc.pc = "keys"
    /\ k \in assoc.left
    /\ k \in forget \cup any
    /\ assoc' = [assoc EXCEPT !.left = @ \ {k}]
    /\ UNCHANGED <<groupVars, merged, matching, any, lastSeen, forget, cleanup, flush, failures>>

\* associateMetricKeyWithIds, in a worker thread: add the key to every group
\* that it matches ...
MatchKey(k) ==
    /\ assoc.pc = "keys"
    /\ k \in assoc.left
    /\ k \notin forget \cup any
    /\ matching' = [id \in Groups |->
          IF id \in assoc.ids /\ matching[id] # Null /\ Matches(id, k)
          THEN matching[id] \cup {k} ELSE matching[id]]
    /\ assoc' = [assoc EXCEPT !.left = @ \ {k}, !.half = @ \cup {k}]
    /\ missed' = [id \in Groups |->
          IF ~assoc.listed /\ k \in Rule(id) THEN missed[id] \cup {k} ELSE missed[id] \ {k}]
    /\ UNCHANGED <<groupVars, merged, any, lastSeen, forget, cleanup, flush, unread>>

\* Mutant: only a key that belongs to some group is remembered.
MarkMatchedKey(k) ==
    /\ assoc.pc = "keys"
    /\ k \in assoc.half
    /\ any' = any \cup {key \in {k} : \E id \in Groups : key \in Matched(id)}
    /\ assoc' = [assoc EXCEPT !.half = @ \ {k}]
    /\ UNCHANGED <<groupVars, merged, matching, lastSeen, forget, cleanup, flush, failures>>

\* ... and remember that it has been processed.
MarkKey(k) ==
    /\ assoc.pc = "keys"
    /\ k \in assoc.half
    /\ any' = any \cup {k}
    /\ assoc' = [assoc EXCEPT !.half = @ \ {k}]
    /\ UNCHANGED <<groupVars, merged, matching, lastSeen, forget, cleanup, flush, failures>>

AssociateEnd ==
    /\ assoc.pc = "keys"
    /\ assoc.left = {} /\ assoc.half = {}
    /\ assoc' = NotAssociating
    /\ UNCHANGED <<groupVars, merged, matching, any, lastSeen, forget, cleanup, flush, failures>>

-----------------------------------------------------------------------------
(* The cleanup thread.                                                     *)

CleanupBegin ==
    /\ cleanup.pc = "idle"
    /\ cleanup' = [NotCleaning EXCEPT !.pc = "check", !.asked = forget]
    /\ UNCHANGED <<groupVars, merged, matching, any, lastSeen, forget, assoc, flush, failures>>

\* The flag is read once, before the locks are taken.
CleanupCheck ==
    /\ cleanup.pc = "check"
    /\ cleanup' = IF assoc.pc = "idle" THEN [cleanup EXCEPT !.pc = "lock"] ELSE NotCleaning
    /\ UNCHANGED <<groupVars, merged, matching, any, lastSeen, forget, assoc, flush, failures>>

\* Take the locks; any key may not have been seen for a day.
CleanupLock ==
    /\ cleanup.pc = "lock"
    /\ ChangesLockFree
    /\ \E expired \in SUBSET lastSeen :
          cleanup' = [cleanup EXCEPT !.pc = "clean", !.left = cleanup.asked \cup expired]
    /\ UNCHANGED <<groupVars, merged, matching, any, lastSeen, forget, assoc, flush, failures>>

\* removeMetricAssociations: first the groups' sets ...
RemoveFromGroups(k) ==
    /\ cleanup.pc = "clean"
    /\ cleanup.key = Null
    /\ k \in cleanup.left
    /\ matching' = [id \in Groups |->
          IF matching[id] = Null THEN Null ELSE matching[id] \ {k}]
    /\ cleanup' = [cleanup EXCEPT !.left = @ \ {k}, !.key = k]
    /\ UNCHANGED <<groupVars, merged, any, lastSeen, forget, assoc, flush, failures>>

\* Mutant: the key stays processed.
RemoveFromLastSeenOnly ==
    /\ cleanup.key # Null
    /\ lastSeen' = lastSeen \ {cleanup.key}
    /\ cleanup' = [cleanup EXCEPT !.key = Null]
    /\ UNCHANGED <<groupVars, merged, matching, any, forget, assoc, flush, failures>>

\* ... then the maps by key.
RemoveFromMaps ==
    /\ cleanup.key # Null
    /\ any' = any \ {cleanup.key}
    /\ lastSeen' = lastSeen \ {cleanup.key}
    /\ cleanup' = [cleanup EXCEPT !.key = Null]
    /\ missed' = [id \in Groups |-> missed[id] \ {cleanup.key}]
    /\ UNCHANGED <<groupVars, merged, matching, forget, assoc, flush, unread>>

\* The keys that were to be forgotten are forgotten, except gauges that could
\* not be deleted from the database.
CleanupEnd ==
    /\ cleanup.pc = "clean"
    /\ cleanup.left = {} /\ cleanup.key = Null
    /\ \E gauges \in SUBSET cleanup.asked : forget' = forget \ (cleanup.asked \ gauges)
    /\ cleanup' = NotCleaning
    /\ UNCHANGED <<groupVars, merged, matching, any, lastSeen, assoc, flush, failures>>

-----------------------------------------------------------------------------
Operators ==
    \/ \E rule \in Rules :
          \/ CreateGroup(rule)
          \/ \E id \in Groups : AlterGroup(id, rule)
    \/ \E id \in Groups : RemoveGroup(id)
    \/ \E k \in Keys : ForgetMetric(k)

FlushThreads ==
    \/ \E k \in Keys : MetricSeen(k)
    \/ \E id \in Groups : FlushReadsBlacklist(id)
    \/ FlushCachesBlacklist

AssociationStep ==
    \/ \E id \in Groups : DetectChange(id) \/ RedoGroup(id)
    \/ UpdateRegexes
    \/ RedoMark
    \/ StartWorkers
    \/ \E k \in Keys : RedoKey(k) \/ SkipKey(k) \/ MatchKey(k) \/ MarkKey(k)
    \/ AssociateEnd

Association == AssociateBegin \/ AssociationStep

CleanupStep ==
    \/ CleanupCheck
    \/ CleanupLock
    \/ \E k \in Keys : RemoveFromGroups(k)
    \/ RemoveFromMaps
    \/ CleanupEnd

Next == Operators \/ FlushThreads \/ Association \/ CleanupBegin \/ CleanupStep

Spec == Init /\ [][Next]_vars

\* The alert thread is invoked again and again; a cleanup that has begun ends;
\* a thread that waits for the lock gets it although cleanups take it, too.
FairSpec ==
    /\ Spec
    /\ SF_vars(AssociateBegin)
    /\ WF_vars(AssociationStep)
    /\ WF_vars(CleanupStep)

-----------------------------------------------------------------------------
(* Properties                                                              *)

TypeOK ==
    /\ db \in [Groups -> Rules \cup {Null}]
    /\ nextId \in 1..(MaxGroup + 1)
    /\ changes \in [Groups -> {"none", "new", "alter", "remove"}]
    /\ merged \in [Groups -> Rules \cup {Null}]
    /\ matching \in [Groups -> (SUBSET Keys) \cup {Null}]
    /\ any \subseteq Keys /\ lastSeen \subseteq Keys /\ forget \subseteq Keys
    /\ assoc \in Assoc
    /\ cleanup \in Cleanup
    /\ flush \in [id : Groups \cup {Null}, rule : Rules \cup {Null}]
    /\ edits \in 0..MaxEdits
    /\ unread \subseteq Groups
    /\ missed \in [Groups -> SUBSET Keys]

\* Nobody is in the middle of changing the associations.
AtRest == assoc.pc = "idle" /\ cleanup.pc # "clean"

\* When the alert thread goes on to evaluate the alerts, a group whose change
\* has been applied has only keys that its regexes match in the database, and a
\* removed group has none.  It has all such keys that have been processed, too,
\* but for those that a failed read leaves out, for nothing repeats the read: all
\* of them, if the group's regexes could not be read after it was changed; those
\* that were processed by a run that could not read the group ids.  A key that is
\* to be forgotten is not matched again.  The groups of the output blacklist are
\* left out: a flush thread may cache their regexes after they have been altered.
AssociationsCurrent ==
    AtRest => \A id \in Groups \ Blacklists : changes[id] = "none" =>
        /\ id \notin unread =>
              Rule(id) \cap (any \ forget) \subseteq Matched(id) \cup missed[id]
        /\ Matched(id) \subseteq Rule(id) \cap any

\* The cleanup finds the keys to drop among those last seen, so a key that is
\* associated or processed must be there or it is kept for ever.
KeysCanExpire ==
    AtRest => any \cup UNION {Matched(id) : id \in Groups} \subseteq lastSeen

\* A change an operator makes is applied in the end, whatever the cleanup and
\* the other operators do.
ChangesApplied ==
    \A id \in Groups : changes[id] # "none" ~> changes[id] = "none"

\* A key that keeps arriving, and is neither forgotten nor dropped for ever,
\* is processed: no key is left out because groups are altered around it.
KeysProcessed ==
    \A k \in Keys : <>[](k \in lastSeen /\ k \notin forget) => <>[](k \in any)
=============================================================================
