---------------------- MODULE MetricAssociation_proofs ----------------------
(***************************************************************************)
(* Proofs about MetricAssociation: type correctness, and, as long as the   *)
(* cleanup and the association do not overlap, that the associations are   *)
(* those of the groups in the database and that every key can expire.      *)
(***************************************************************************)
EXTENDS MetricAssociation, TLAPS

LEMMA NullIsNothingElse ==
    /\ Null \notin Rules /\ Null \notin Keys /\ Null \notin Groups
    /\ \A set \in SUBSET Keys : set # Null
    /\ {} \in Rules
BY RulesAssumption

LEMMA NextIdStep == \A id \in Groups : id + 1 \in 1..(MaxGroup + 1)
BY BoundsAssumption DEF Groups

-----------------------------------------------------------------------------
(* Type correctness.                                                       *)

LEMMA TypeInit == Init => TypeOK
<1> SUFFICES ASSUME Init PROVE TypeOK
  OBVIOUS
<1>1. assoc \in Assoc /\ cleanup \in Cleanup
  BY DEF Init, Assoc, NotAssociating, Cleanup, NotCleaning
<1>2. matching \in [Groups -> (SUBSET Keys) \cup {Null}]
  BY DEF Init
<1> QED BY <1>1, <1>2, BoundsAssumption DEF Init, TypeOK

LEMMA OperatorsType ==
    ASSUME TypeOK, Operators
    PROVE  TypeOK'
<1> USE DEF TypeOK, failures
<1>1. ASSUME NEW id \in Groups, NEW rule \in Rules \cup {Null},
             NEW change \in {"new", "alter", "remove"}, Edit(id, rule, change),
             nextId' \in 1..(MaxGroup + 1)
      PROVE  TypeOK'
  <2>1. edits' \in 0..MaxEdits
    BY <1>1, BoundsAssumption DEF Edit
  <2> QED BY <1>1, <2>1 DEF Edit
<1>2. ASSUME NEW rule \in Rules, CreateGroup(rule)
      PROVE  TypeOK'
  BY <1>1, <1>2, NextIdStep DEF CreateGroup
<1>3. ASSUME NEW rule \in Rules, NEW id \in Groups, AlterGroup(id, rule)
      PROVE  TypeOK'
  BY <1>1, <1>3 DEF AlterGroup
<1>4. ASSUME NEW id \in Groups, RemoveGroup(id)
      PROVE  TypeOK'
  BY <1>1, <1>4 DEF RemoveGroup
<1>5. ASSUME NEW k \in Keys, ForgetMetric(k)
      PROVE  TypeOK'
  BY <1>5 DEF ForgetMetric, groupVars, failures
<1> QED BY <1>2, <1>3, <1>4, <1>5 DEF Operators

LEMMA FlushType ==
    ASSUME TypeOK, FlushThreads
    PROVE  TypeOK'
<1> USE DEF TypeOK, groupVars, failures
<1>1. ASSUME NEW k \in Keys, MetricSeen(k)
      PROVE  TypeOK'
  BY <1>1 DEF MetricSeen
<1>2. ASSUME NEW id \in Groups, FlushReadsBlacklist(id)
      PROVE  TypeOK'
  BY <1>2 DEF FlushReadsBlacklist
<1>3. CASE FlushCachesBlacklist
  BY <1>3 DEF FlushCachesBlacklist
<1> QED BY <1>1, <1>2, <1>3 DEF FlushThreads

LEMMA AssociationType ==
    ASSUME TypeOK, Association
    PROVE  TypeOK'
<1> USE DEF TypeOK, Assoc, groupVars, failures, Matched, OnlyAssociatedWith
<1>1. CASE AssociateBegin
  BY <1>1 DEF AssociateBegin, NotAssociating
<1>2. ASSUME NEW id \in Groups, DetectChange(id)
      PROVE  TypeOK'
  BY <1>2 DEF DetectChange
<1>3. CASE UpdateRegexes
  <2>1. \A id \in Groups : Rule(id) \in Rules
    BY NullIsNothingElse DEF Rule
  <2>2. merged' \in [Groups -> Rules \cup {Null}] /\ unread' \subseteq Groups
    BY <1>3, <2>1 DEF UpdateRegexes
  <2>3. assoc' \in Assoc
    <3>1. PICK listed \in BOOLEAN :
              assoc' = [assoc EXCEPT !.pc = "redo", !.listed = listed,
                            !.ids = {id \in Groups : listed /\ db[id] # Null}]
      BY <1>3 DEF UpdateRegexes
    <3>2. {id \in Groups : listed /\ db[id] # Null} \in SUBSET Groups
      OBVIOUS
    <3> QED BY <3>1, <3>2
  <2> QED BY <1>3, <2>2, <2>3 DEF UpdateRegexes
<1>4. ASSUME NEW id \in Groups, RedoGroup(id)
      PROVE  TypeOK'
  BY <1>4 DEF RedoGroup
<1>5. ASSUME NEW k \in Keys, RedoKey(k)
      PROVE  TypeOK'
  BY <1>5 DEF RedoKey
<1>6. CASE RedoMark
  BY <1>6 DEF RedoMark
<1>7. CASE StartWorkers
  BY <1>7 DEF StartWorkers
<1>8. ASSUME NEW k \in Keys, SkipKey(k) \/ MarkKey(k)
      PROVE  TypeOK'
  BY <1>8 DEF SkipKey, MarkKey
<1>10. ASSUME NEW k \in Keys, MatchKey(k)
      PROVE  TypeOK'
  <2>1. matching' \in [Groups -> (SUBSET Keys) \cup {Null}]
    BY <1>10 DEF MatchKey
  <2> QED BY <1>10, <2>1 DEF MatchKey
<1>9. CASE AssociateEnd
  BY <1>9 DEF AssociateEnd, NotAssociating
<1> QED BY <1>1, <1>2, <1>3, <1>4, <1>5, <1>6, <1>7, <1>8, <1>9, <1>10 DEF Association, AssociationStep

LEMMA CleanupType ==
    ASSUME TypeOK, CleanupBegin \/ CleanupStep
    PROVE  TypeOK'
<1> USE DEF TypeOK, Cleanup, groupVars, failures
<1>1. CASE CleanupBegin \/ CleanupCheck
  <2>1. /\ cleanup' \in {NotCleaning, [NotCleaning EXCEPT !.pc = "check", !.asked = forget],
                         [cleanup EXCEPT !.pc = "lock"]}
        /\ UNCHANGED <<groupVars, merged, matching, any, lastSeen, forget, assoc, flush, failures>>
    BY <1>1 DEF CleanupBegin, CleanupCheck
  <2>2. NotCleaning \in Cleanup
    BY DEF NotCleaning
  <2>3. forget \in SUBSET Keys
    OBVIOUS
  <2>4. /\ [NotCleaning EXCEPT !.pc = "check", !.asked = forget] \in Cleanup
        /\ [cleanup EXCEPT !.pc = "lock"] \in Cleanup
    BY <2>2, <2>3
  <2> QED BY <2>1, <2>2, <2>4
<1>2. CASE CleanupLock
  <2>1. PICK expired \in SUBSET lastSeen :
            cleanup' = [cleanup EXCEPT !.pc = "clean", !.left = cleanup.asked \cup expired]
    BY <1>2 DEF CleanupLock
  <2>2. cleanup' \in Cleanup
    BY <2>1
  <2> QED BY <1>2, <2>2 DEF CleanupLock
<1>3. ASSUME NEW k \in Keys, RemoveFromGroups(k)
      PROVE  TypeOK'
  BY <1>3 DEF RemoveFromGroups
<1>4. CASE RemoveFromMaps
  BY <1>4 DEF RemoveFromMaps
<1>5. CASE CleanupEnd
  BY <1>5 DEF CleanupEnd, NotCleaning
<1> QED BY <1>1, <1>2, <1>3, <1>4, <1>5 DEF CleanupStep

LEMMA TypeStep == TypeOK /\ [Next]_vars => TypeOK'
<1> SUFFICES ASSUME TypeOK, [Next]_vars PROVE TypeOK'
  OBVIOUS
<1>1. CASE UNCHANGED vars
  BY <1>1 DEF vars, groupVars, failures, TypeOK
<1> QED BY <1>1, OperatorsType, FlushType, AssociationType, CleanupType DEF Next

\* The groups, the maps of the association and the locals of each thread have
\* the values that the code gives them, for any keys, rules and bounds.
THEOREM TypeCorrect == Spec => []TypeOK
BY TypeInit, TypeStep, PTL DEF Spec

-----------------------------------------------------------------------------
(* The inductive invariant.  The groups of the output blacklist, whose      *)
(* regexes the flush threads cache outside the lock, are left out of what   *)
(* it says about regexes.                                                   *)

Alertable == Groups \ Blacklists

FlushShape == flush.id # Null => flush.id \in Blacklists

AssocShape ==
    /\ assoc.pc = "idle" => assoc = NotAssociating
    /\ assoc.pc = "detect" => assoc.left = {} /\ assoc.ids = {}
    /\ assoc.pc = "keys" => assoc.altered = {}
    /\ assoc.pc # "keys" => assoc.half = {}
    /\ assoc.id # Null => assoc.pc = "redo" /\ assoc.id \in assoc.altered
    /\ assoc.pc = "redo" /\ assoc.id = Null => assoc.left = {}
    /\ assoc.pc = "redo" => assoc.left \subseteq any \cup assoc.dropped

\* The two routines exclude each other.
CleanupApart ==
    /\ assoc.pc # "idle" => cleanup.pc \in {"idle", "check"}
    /\ cleanup.pc # "clean" => cleanup.key = Null

\* What the cleanup has dealt with is gone from the groups, and in the end
\* from the processed keys.
Removing ==
    /\ \A id \in Groups : cleanup.key \notin Matched(id)
    /\ cleanup.pc = "clean" => cleanup.asked \cap any \subseteq cleanup.left \cup {cleanup.key}

\* The association has not come across a group.
Untouched(id) ==
    /\ merged[id] = Null /\ matching[id] = Null
    /\ id \notin assoc.altered \cup assoc.ids

\* What a recorded change says of the group.
ChangesRecorded ==
    \A id \in Alertable :
        /\ nextId <= id => db[id] = Null /\ changes[id] = "none" /\ Untouched(id)
        /\ changes[id] = "new" => db[id] # Null /\ Untouched(id)
        /\ changes[id] = "alter" => db[id] # Null
        /\ changes[id] = "remove" => db[id] = Null

\* Detected by this run, and the regexes are not read again yet.
Outdated(id) == assoc.pc = "detect" /\ id \in assoc.altered

\* The cached regexes are those of the database, or none if the last attempt to
\* read them failed, unless a change is recorded or being applied, and no group
\* has a key that its cached regexes do not match.
RegexesCached ==
    \A id \in Alertable :
        /\ changes[id] = "none" /\ ~Outdated(id)
              => merged[id] = IF id \in unread THEN Null ELSE db[id]
        /\ Outdated(id) => /\ changes[id] = "none" /\ merged[id] = Null
                           /\ db[id] # Null /\ id \notin unread
        /\ \A k \in Matched(id) : Matches(id, k)

\* A group only has keys that are processed, or about to be.
MatchedProcessed ==
    \A id \in Groups : Matched(id) \subseteq
        any \cup assoc.half \cup (IF id = assoc.id THEN assoc.dropped ELSE {})

\* The workers go through every group whose change has been applied, unless the
\* group ids could not be read.
GroupsVisited ==
    \A id \in Alertable :
        /\ assoc.pc \in {"redo", "keys"} /\ assoc.listed
              /\ changes[id] = "none" /\ db[id] # Null => id \in assoc.ids
        /\ assoc.pc = "keys" /\ id \in assoc.ids => matching[id] # Null

\* Processed, or dropped or half processed by this run: no key moves from these
\* to another group without being matched.
Known == any \cup assoc.dropped \cup assoc.half

\* A group whose change has been applied has every known key that it matches,
\* but for those that a failed read has left out; the group in hand may lack the
\* keys that are left.
Complete ==
    \A id \in Alertable : changes[id] = "none" /\ id \notin unread =>
        /\ id \notin assoc.altered =>
              \A k \in Known : k \in Rule(id) =>
                  k \in Matched(id) \/ k \in forget \/ k = cleanup.key \/ k \in missed[id]
        /\ id = assoc.id =>
              \A k \in Known : k \in Rule(id) =>
                  k \in Matched(id) \/ k \in forget \/ k \in assoc.left

\* What is known has been seen.
KnownSeen ==
    /\ Known \subseteq lastSeen
    /\ assoc.pc = "keys" => assoc.left \subseteq lastSeen

Threads == FlushShape /\ AssocShape /\ CleanupApart
Regexes == ChangesRecorded /\ RegexesCached /\ GroupsVisited
Associated == Removing /\ MatchedProcessed /\ Complete /\ KnownSeen

IInv == TypeOK /\ Threads /\ Regexes /\ Associated

LEMMA IInvInit == Init => IInv
<1> SUFFICES ASSUME Init PROVE IInv
  OBVIOUS
<1>1. TypeOK
  BY TypeInit
<1>2. Threads
  BY DEF Init, Threads, FlushShape, AssocShape, CleanupApart, NotAssociating, NotCleaning
<1>3. \A id \in Groups : Matched(id) = {}
  BY DEF Init, Matched
<1>4. Known = {}
  BY DEF Init, Known, NotAssociating
<1>5. Associated
  BY <1>3, <1>4 DEF Init, Associated, Removing, MatchedProcessed, Complete, KnownSeen,
        NotAssociating, NotCleaning, Alertable
<1>6. ChangesRecorded
  BY DEF Init, ChangesRecorded, Untouched, NotAssociating, Alertable, Groups
<1>7. RegexesCached /\ GroupsVisited
  BY <1>3 DEF Init, RegexesCached, Outdated, GroupsVisited, NotAssociating, Alertable
<1> QED BY <1>1, <1>2, <1>5, <1>6, <1>7 DEF IInv, Regexes

\* A step that leaves the threads and the keys alone, with one change of a
\* group, as Edit records it.
LEMMA EditKeeps ==
    ASSUME IInv, TypeOK', NEW id \in Groups, NEW rule \in Rules \cup {Null},
           NEW change \in {"new", "alter", "remove"}, Edit(id, rule, change),
           \/ change = "new" /\ rule # Null /\ id = nextId /\ nextId' = nextId + 1
           \/ change = "alter" /\ rule # Null /\ db[id] # Null /\ nextId' = nextId
           \/ change = "remove" /\ rule = Null /\ db[id] # Null /\ nextId' = nextId
    PROVE  IInv'
<1>1. /\ UNCHANGED <<merged, matching, any, lastSeen, forget, assoc, cleanup, flush, failures>>
      /\ assoc.pc # "detect"
      /\ db' = [db EXCEPT ![id] = rule] /\ changes' = [changes EXCEPT ![id] = change]
      /\ unread' = unread /\ missed' = missed
  BY DEF Edit, ChangesLockFree, failures
<1>2. \A other \in Groups : /\ Matched(other)' = Matched(other)
                            /\ Untouched(other)' = Untouched(other)
                            /\ Outdated(other)' = Outdated(other)
                            /\ \A k \in Keys : Matches(other, k)' = Matches(other, k)
  BY <1>1 DEF Matched, Untouched, Outdated, Matches
<1>3. /\ changes'[id] = change /\ db'[id] = rule
      /\ \A other \in Groups \ {id} :
            /\ db'[other] = db[other] /\ changes'[other] = changes[other]
            /\ Rule(other)' = Rule(other)
  BY <1>1 DEF IInv, TypeOK, Rule
<1>4. Known' = Known
  BY <1>1 DEF Known
<1>5. Threads'
  BY <1>1 DEF IInv, Threads, FlushShape, AssocShape, CleanupApart, NotAssociating
<1>6. (Removing /\ MatchedProcessed /\ KnownSeen)'
  BY <1>1, <1>2, <1>4 DEF IInv, Associated, Removing, MatchedProcessed, KnownSeen
<1>7. Complete'
  <2> SUFFICES ASSUME NEW other \in Alertable, changes'[other] = "none", other \notin unread
               PROVE  /\ other \notin assoc.altered =>
                            \A k \in Known : k \in Rule(other)' =>
                                k \in Matched(other) \/ k \in forget \/ k = cleanup.key
                                \/ k \in missed[other]
                      /\ other = assoc.id =>
                            \A k \in Known : k \in Rule(other)' =>
                                k \in Matched(other) \/ k \in forget \/ k \in assoc.left
    BY <1>1, <1>2, <1>4 DEF Complete, Alertable
  <2>1. other # id
    BY <1>3
  <2> QED BY <1>3, <2>1 DEF IInv, Associated, Complete, Alertable
<1>8. ChangesRecorded'
  <2> SUFFICES ASSUME NEW other \in Alertable
               PROVE  /\ nextId' <= other => db'[other] = Null /\ changes'[other] = "none"
                                              /\ Untouched(other)
                      /\ changes'[other] = "new" => db'[other] # Null /\ Untouched(other)
                      /\ changes'[other] = "alter" => db'[other] # Null
                      /\ changes'[other] = "remove" => db'[other] = Null
    BY <1>2 DEF ChangesRecorded, Alertable
  <2>1. nextId \in Int /\ nextId' >= nextId /\ other \in Int
    BY DEF IInv, TypeOK, Alertable, Groups
  <2>2. CASE other # id
    BY <1>3, <2>1, <2>2 DEF IInv, Regexes, ChangesRecorded, Alertable
  <2>3. CASE other = id
    BY <1>3, <2>1, <2>3 DEF IInv, Regexes, ChangesRecorded, Alertable
  <2> QED BY <2>2, <2>3
<1>9. (RegexesCached /\ GroupsVisited)'
  <2> SUFFICES ASSUME NEW other \in Alertable
               PROVE  /\ changes'[other] = "none"
                            => merged[other] = IF other \in unread THEN Null ELSE db'[other]
                      /\ \A k \in Matched(other) : Matches(other, k)
                      /\ assoc.pc \in {"redo", "keys"} /\ assoc.listed /\ changes'[other] = "none"
                            /\ db'[other] # Null => other \in assoc.ids
                      /\ assoc.pc = "keys" /\ other \in assoc.ids => matching[other] # Null
    <3>1. \A g \in Groups : Matched(g) \subseteq Keys /\ ~Outdated(g)
      BY <1>1, NullIsNothingElse DEF IInv, TypeOK, Matched, Outdated
    <3> QED BY <1>1, <1>2, <3>1 DEF RegexesCached, GroupsVisited, Alertable
  <2>1. ~Outdated(other) /\ (other = id => changes'[other] # "none")
    BY <1>1, <1>3 DEF Outdated
  <2> QED BY <1>3, <2>1 DEF IInv, Regexes, RegexesCached, GroupsVisited, Alertable
<1> QED BY <1>5, <1>6, <1>7, <1>8, <1>9 DEF IInv, Regexes, Associated

LEMMA OperatorsKeep ==
    ASSUME IInv, TypeOK', Operators
    PROVE  IInv'
<1>1. ASSUME NEW rule \in Rules, CreateGroup(rule)
      PROVE  IInv'
  BY <1>1, EditKeeps, NullIsNothingElse DEF CreateGroup
<1>2. ASSUME NEW rule \in Rules, NEW id \in Groups, AlterGroup(id, rule)
      PROVE  IInv'
  BY <1>2, EditKeeps, NullIsNothingElse DEF AlterGroup
<1>3. ASSUME NEW id \in Groups, RemoveGroup(id)
      PROVE  IInv'
  BY <1>3, EditKeeps DEF RemoveGroup
<1>4. ASSUME NEW k \in Keys, ForgetMetric(k)
      PROVE  IInv'
  <2>1. UNCHANGED <<groupVars, merged, matching, any, lastSeen, assoc, cleanup, flush, failures>>
        /\ forget \subseteq forget'
    BY <1>4 DEF ForgetMetric
  <2>2. Threads' /\ Regexes'
    BY <2>1 DEF IInv, groupVars, failures, Threads, FlushShape, AssocShape, CleanupApart, NotAssociating,
          Regexes, ChangesRecorded, RegexesCached, GroupsVisited, Untouched, Outdated, Matched, Matches
  <2>3. (Removing /\ MatchedProcessed /\ KnownSeen)'
    BY <2>1 DEF IInv, Associated, Removing, MatchedProcessed, KnownSeen, Known, Matched
  <2>4. Complete'
    BY <2>1 DEF IInv, groupVars, failures, Associated, Complete, Known, Matched, Rule
  <2> QED BY <2>2, <2>3, <2>4 DEF IInv, Associated
<1> QED BY <1>1, <1>2, <1>3, <1>4 DEF Operators

LEMMA FlushThreadsKeep ==
    ASSUME IInv, TypeOK', FlushThreads
    PROVE  IInv'
<1>1. ASSUME NEW k \in Keys, MetricSeen(k)
      PROVE  IInv'
  <2>1. UNCHANGED <<groupVars, merged, matching, any, forget, assoc, cleanup, flush, failures>>
        /\ lastSeen \subseteq lastSeen'
    BY <1>1 DEF MetricSeen
  <2>2. Threads' /\ Regexes'
    BY <2>1 DEF IInv, groupVars, failures, Threads, FlushShape, AssocShape, CleanupApart, NotAssociating,
          Regexes, ChangesRecorded, RegexesCached, GroupsVisited, Untouched, Outdated, Matched, Matches
  <2>3. Associated'
    BY <2>1 DEF IInv, groupVars, failures, Associated, Removing, MatchedProcessed, KnownSeen, Known, Matched,
          Complete, Rule
  <2> QED BY <2>2, <2>3 DEF IInv
<1>2. ASSUME UNCHANGED <<groupVars, matching, any, lastSeen, forget, assoc, cleanup, missed>>, FlushShape',
             \A id \in Alertable : merged'[id] = merged[id] /\ (id \in unread' <=> id \in unread)
      PROVE  IInv'
  <2>1. Threads' /\ Associated'
    BY <1>2 DEF IInv, groupVars, failures, Threads, AssocShape, CleanupApart, NotAssociating,
          Associated, Removing, MatchedProcessed, KnownSeen, Known, Matched, Complete, Rule
  <2>2. Regexes'
    BY <1>2 DEF IInv, groupVars, failures, Regexes, ChangesRecorded, RegexesCached, GroupsVisited, Untouched,
          Outdated, Matched, Matches, Alertable
  <2> QED BY <2>1, <2>2 DEF IInv
<1>3. ASSUME NEW id \in Groups, FlushReadsBlacklist(id)
      PROVE  IInv'
  BY <1>2, <1>3 DEF FlushReadsBlacklist, FlushShape, failures
<1>4. CASE FlushCachesBlacklist
  BY <1>2, <1>4 DEF FlushCachesBlacklist, FlushShape, IInv, Threads, TypeOK, Alertable
<1> QED BY <1>1, <1>3, <1>4 DEF FlushThreads

LEMMA AssociateBeginKeeps ==
    ASSUME IInv, TypeOK', ~Overlap, AssociateBegin
    PROVE  IInv'
<1>1. /\ assoc = NotAssociating /\ cleanup.pc = "idle"
      /\ assoc' = [NotAssociating EXCEPT !.pc = "detect"]
      /\ UNCHANGED <<groupVars, merged, matching, any, lastSeen, forget, cleanup, flush, failures>>
  BY DEF AssociateBegin, IInv, Threads, AssocShape
<1>2. Threads'
  BY <1>1 DEF IInv, Threads, FlushShape, AssocShape, CleanupApart, NotAssociating
<1>3. Regexes'
  BY <1>1 DEF IInv, groupVars, failures, Regexes, ChangesRecorded, RegexesCached, GroupsVisited, Untouched,
        Outdated, Matched, Matches, NotAssociating
<1>4. Associated'
  BY <1>1 DEF IInv, groupVars, failures, Associated, Removing, MatchedProcessed, KnownSeen, Known, Matched,
        Complete, Rule, NotAssociating
<1> QED BY <1>2, <1>3, <1>4 DEF IInv

LEMMA DetectChangeKeeps ==
    ASSUME IInv, TypeOK', NEW id \in Groups, DetectChange(id)
    PROVE  IInv'
<1> DEFINE change == changes[id]
           only == OnlyAssociatedWith(id)
<1>1. /\ assoc.pc = "detect" /\ assoc.left = {} /\ assoc.ids = {} /\ assoc.half = {}
      /\ assoc.id = Null /\ cleanup.pc \in {"idle", "check"} /\ cleanup.key = Null
      /\ UNCHANGED <<db, nextId, edits, lastSeen, forget, cleanup, flush>>
      /\ unread' = unread \ {id} /\ \A g \in Groups \ {id} : missed'[g] = missed[g]
  BY DEF DetectChange, IInv, TypeOK, Threads, AssocShape, CleanupApart
<1>2. change \in {"new", "alter", "remove"}
  BY DEF DetectChange, IInv, TypeOK
<1>3. /\ changes'[id] = "none"
      /\ \A other \in Groups \ {id} : /\ changes'[other] = changes[other]
                                      /\ merged'[other] = merged[other]
                                      /\ matching'[other] = matching[other]
      /\ change = "new" => merged'[id] = merged[id] /\ matching'[id] = matching[id]
      /\ change # "new" => merged'[id] = Null /\ matching'[id] = Null
  BY DEF DetectChange, IInv, TypeOK
<1>4. /\ assoc'.pc = "detect" /\ assoc'.left = {} /\ assoc'.ids = {} /\ assoc'.half = {}
      /\ assoc'.id = Null
      /\ assoc'.altered = IF change = "remove" THEN assoc.altered ELSE assoc.altered \cup {id}
      /\ assoc'.dropped = IF change = "alter" THEN assoc.dropped \cup only ELSE assoc.dropped
  BY <1>1 DEF DetectChange, IInv, TypeOK, Assoc
<1>5. any' = IF change = "alter" THEN any \ only ELSE any
  <2>1. only \subseteq any
    BY <1>1, NullIsNothingElse DEF OnlyAssociatedWith, IInv, Associated, MatchedProcessed
  <2> QED BY <1>2, <2>1 DEF DetectChange
<1>6. \A other \in Groups : other # id => /\ Matched(other)' = Matched(other)
                                          /\ only \cap Matched(other) = {}
  BY <1>3 DEF Matched, OnlyAssociatedWith
<1>7. Matched(id)' = IF change = "new" THEN Matched(id) ELSE {}
  BY <1>3 DEF Matched
<1>8. only \subseteq Keys /\ only \subseteq any
  BY <1>1, NullIsNothingElse DEF OnlyAssociatedWith, IInv, TypeOK, Matched, Associated, MatchedProcessed
<1>9. Known' = Known
  BY <1>1, <1>4, <1>5, <1>8 DEF Known
<1>10. \A g \in Groups : Rule(g)' = Rule(g)
  BY <1>1 DEF Rule
<1> HIDE DEF only, change
<1>11. Threads'
  BY <1>1, <1>4 DEF IInv, Threads, FlushShape, AssocShape, CleanupApart
<1>12. (Removing /\ KnownSeen)'
  BY <1>1, <1>4, <1>9, <1>6, <1>7 DEF IInv, Associated, Removing, KnownSeen
<1>13. MatchedProcessed'
  BY <1>1, <1>4, <1>5, <1>6, <1>7, NullIsNothingElse DEF IInv, Associated, MatchedProcessed, change
<1>14. Complete'
  <2> SUFFICES ASSUME NEW g \in Alertable, changes'[g] = "none", g \notin assoc'.altered,
                      NEW k \in Known, k \in Rule(g),
                      g \notin unread'
               PROVE  k \in Matched(g)' \/ k \in forget \/ k \in missed'[g]
    BY <1>1, <1>4, <1>9, <1>10, NullIsNothingElse DEF Complete, Alertable
  <2>1. CASE g = id
    BY <1>2, <1>4, <2>1 DEF IInv, Regexes, ChangesRecorded, Rule, change
  <2>2. CASE g # id
    <3>1. changes[g] = "none" /\ g \notin assoc.altered /\ g \in Groups
      BY <1>3, <1>4, <2>2 DEF Alertable
    <3>2. k # Null
      BY NullIsNothingElse DEF Known, IInv, TypeOK, Assoc
    <3> QED BY <1>1, <1>6, <2>2, <3>1, <3>2 DEF IInv, Associated, Complete
  <2> QED BY <2>1, <2>2
<1>15. ChangesRecorded'
  BY <1>1, <1>2, <1>3, <1>4 DEF IInv, Regexes, ChangesRecorded, Untouched, Alertable, change
<1>16. RegexesCached'
  <2> SUFFICES ASSUME NEW g \in Alertable
               PROVE  (/\ changes[g] = "none" /\ ~Outdated(g)
                             => merged[g] = IF g \in unread THEN Null ELSE db[g]
                       /\ Outdated(g) => /\ changes[g] = "none" /\ merged[g] = Null
                                         /\ db[g] # Null /\ g \notin unread
                       /\ \A k \in Matched(g) : Matches(g, k))'
    BY DEF RegexesCached, Alertable
  <2>1. CASE g # id
    BY <1>1, <1>3, <1>4, <1>6, <2>1 DEF IInv, Regexes, RegexesCached, Outdated, Matches, Alertable
  <2>2. CASE g = id
    <3>1. /\ change = "new" => merged[id] = Null /\ db[id] # Null
          /\ change = "alter" => db[id] # Null
          /\ change = "remove" => db[id] = Null
      BY <2>2 DEF IInv, Regexes, ChangesRecorded, Untouched, change
    <3>2. change = "remove" => id \notin assoc.altered
      BY <1>1, <2>2 DEF IInv, Regexes, RegexesCached, Outdated, change
    <3>3. merged'[id] = Null /\ Matched(id)' = {}
      BY <1>2, <1>3, <1>7, <2>2, <3>1 DEF IInv, Regexes, ChangesRecorded, Untouched, Matched, change
    <3> QED BY <1>1, <1>2, <1>3, <1>4, <2>2, <3>1, <3>2, <3>3 DEF Outdated
  <2> QED BY <2>1, <2>2
<1>17. GroupsVisited'
  BY <1>4 DEF GroupsVisited
<1> QED BY <1>11, <1>12, <1>13, <1>14, <1>15, <1>16, <1>17 DEF IInv, Regexes, Associated

LEMMA UpdateRegexesKeeps ==
    ASSUME IInv, TypeOK', UpdateRegexes
    PROVE  IInv'
<1>1. /\ assoc.pc = "detect" /\ assoc.left = {} /\ assoc.half = {} /\ assoc.id = Null
      /\ cleanup.pc \in {"idle", "check"}
      /\ \A id \in Groups : changes[id] = "none"
      /\ UNCHANGED <<groupVars, matching, any, lastSeen, forget, cleanup, flush, missed>>
  BY DEF UpdateRegexes, IInv, Threads, AssocShape, CleanupApart
<1>2. /\ assoc'.pc = "redo" /\ assoc'.left = {} /\ assoc'.half = {} /\ assoc'.id = Null
      /\ assoc'.altered = assoc.altered /\ assoc'.dropped = assoc.dropped
      /\ assoc'.ids = {id \in Groups : assoc'.listed /\ db[id] # Null}
  <2>1. PICK listed \in BOOLEAN :
            assoc' = [assoc EXCEPT !.pc = "redo", !.listed = listed,
                          !.ids = {id \in Groups : listed /\ db[id] # Null}]
    BY DEF UpdateRegexes
  <2> QED BY <1>1, <2>1 DEF IInv, TypeOK, Assoc
<1>3. unread \subseteq unread'
      /\ \A id \in Alertable :
            /\ merged'[id] = IF id \in unread' THEN Null ELSE db[id]
            /\ ~Outdated(id) => merged'[id] = merged[id]
  <2>1. PICK failed \in SUBSET {id \in assoc.altered : merged[id] = Null} :
            /\ merged' = [id \in Groups |->
                  IF id \in {other \in assoc.altered : merged[other] = Null} \ failed
                  THEN Rule(id) ELSE merged[id]]
            /\ unread' = unread \cup failed
    BY DEF UpdateRegexes
  <2>2. ASSUME NEW id \in Alertable
        PROVE  /\ merged'[id] = IF id \in unread' THEN Null ELSE db[id]
               /\ ~Outdated(id) => merged'[id] = merged[id]
    <3>1. changes[id] = "none" /\ id \in Groups
      BY <1>1 DEF Alertable
    <3>2. CASE Outdated(id)
      BY <1>1, <2>1, <3>1, <3>2 DEF IInv, Regexes, RegexesCached, Outdated, Rule
    <3>3. CASE ~Outdated(id)
      BY <1>1, <2>1, <3>1, <3>3 DEF IInv, Regexes, RegexesCached, Outdated
    <3> QED BY <3>2, <3>3
  <2> QED BY <2>1, <2>2
<1>4. Threads'
  BY <1>1, <1>2 DEF IInv, Threads, FlushShape, AssocShape, CleanupApart
<1>5. Associated'
  <2>1. /\ Known' = Known
        /\ \A id \in Groups : Matched(id)' = Matched(id) /\ Rule(id)' = Rule(id)
    BY <1>1, <1>2 DEF Known, Matched, Rule, groupVars
  <2>2. (Removing /\ MatchedProcessed /\ KnownSeen)'
    BY <1>1, <1>2, <2>1, NullIsNothingElse DEF IInv, Associated, Removing, MatchedProcessed, KnownSeen
  <2>3. Complete'
    BY <1>1, <1>2, <1>3, <2>1, NullIsNothingElse
       DEF IInv, groupVars, Associated, Complete, Alertable
  <2> QED BY <2>2, <2>3 DEF Associated
<1>6. ChangesRecorded'
  <2>1. \A id \in Alertable : db[id] = Null /\ Untouched(id) => Untouched(id)'
    BY <1>1, <1>2, <1>3 DEF Untouched, Outdated, Alertable
  <2> QED BY <1>1, <2>1 DEF IInv, groupVars, Regexes, ChangesRecorded, Alertable
<1>7. RegexesCached'
  <2>1. ASSUME NEW id \in Alertable, NEW k \in Matched(id)
        PROVE  Matches(id, k)'
    <3>1. Matches(id, k) /\ ~Outdated(id)
      BY <2>1 DEF IInv, Regexes, RegexesCached, Matches
    <3>2. merged'[id] = merged[id]
      BY <1>3, <2>1, <3>1
    <3> QED BY <3>1, <3>2 DEF Matches
  <2>2. \A id \in Alertable : /\ Matched(id)' = Matched(id) /\ ~Outdated(id)'
                             /\ changes'[id] = "none" /\ db'[id] = db[id]
    BY <1>1, <1>2 DEF Matched, Outdated, groupVars, Alertable
  <2> QED BY <1>3, <2>1, <2>2 DEF RegexesCached
<1>8. GroupsVisited'
  BY <1>1, <1>2 DEF GroupsVisited, groupVars, failures, Alertable
<1> QED BY <1>4, <1>5, <1>6, <1>7, <1>8 DEF IInv, Regexes

LEMMA RedoGroupKeeps ==
    ASSUME IInv, TypeOK', NEW id \in Groups, RedoGroup(id)
    PROVE  IInv'
<1>1. /\ assoc.pc = "redo" /\ assoc.id = Null /\ id \in assoc.altered /\ assoc.half = {}
      /\ cleanup.pc \in {"idle", "check"}
      /\ UNCHANGED <<groupVars, merged, matching, any, lastSeen, forget, cleanup, flush, failures>>
  BY DEF RedoGroup, IInv, Threads, AssocShape, CleanupApart
<1>2. /\ assoc'.pc = "redo" /\ assoc'.id = id /\ assoc'.left = any \cup assoc.dropped
      /\ assoc'.half = {} /\ assoc'.altered = assoc.altered
      /\ assoc'.dropped = assoc.dropped /\ assoc'.ids = assoc.ids /\ assoc'.listed = assoc.listed
  BY <1>1 DEF RedoGroup, IInv, TypeOK, Assoc
<1>3. Threads'
  BY <1>1, <1>2, NullIsNothingElse DEF IInv, Threads, FlushShape, AssocShape, CleanupApart
<1>4. Regexes'
  BY <1>1, <1>2 DEF IInv, groupVars, failures, Regexes, ChangesRecorded, RegexesCached, GroupsVisited,
        Untouched, Outdated, Matched, Matches
<1>5. Associated'
  BY <1>1, <1>2, NullIsNothingElse DEF IInv, groupVars, failures, Associated, Removing, MatchedProcessed,
        KnownSeen, Known, Matched, Complete, Rule
<1> QED BY <1>3, <1>4, <1>5 DEF IInv

LEMMA RedoKeyKeeps ==
    ASSUME IInv, TypeOK', NEW k \in Keys, RedoKey(k)
    PROVE  IInv'
<1>0. PICK id \in Groups : id = assoc.id
  BY DEF RedoKey, IInv, TypeOK, Assoc, Threads, AssocShape
<1>1. /\ assoc.pc = "redo" /\ k \in assoc.left /\ assoc.half = {}
      /\ id \in Groups /\ id \in assoc.altered /\ k \in any \cup assoc.dropped
      /\ cleanup.pc \in {"idle", "check"} /\ cleanup.key = Null
      /\ UNCHANGED <<groupVars, merged, any, lastSeen, forget, cleanup, flush, failures>>
  BY <1>0 DEF RedoKey, IInv, TypeOK, Assoc, Threads, AssocShape, CleanupApart
<1>2. /\ assoc'.pc = "redo" /\ assoc'.id = id /\ assoc'.left = assoc.left \ {k}
      /\ assoc'.half = {} /\ assoc'.altered = assoc.altered
      /\ assoc'.dropped = assoc.dropped /\ assoc'.ids = assoc.ids /\ assoc'.listed = assoc.listed
  BY <1>0, <1>1 DEF RedoKey, IInv, TypeOK, Assoc
<1>3. /\ \A g \in Groups \ {id} : matching'[g] = matching[g]
      /\ Matched(id)' = IF k \notin forget /\ Matches(id, k) THEN Matched(id) \cup {k} ELSE Matched(id)
  <2>1. Matched(id) \subseteq Keys /\ Matched(id) \cup {k} # Null
    BY NullIsNothingElse DEF IInv, TypeOK, Matched
  <2>2. CASE k \notin forget /\ Matches(id, k)
    <3>1. matching' = [matching EXCEPT ![id] = Matched(id) \cup {k}]
      BY <1>0, <2>2 DEF RedoKey
    <3>2. matching'[id] = Matched(id) \cup {k} /\ \A g \in Groups \ {id} : matching'[g] = matching[g]
      BY <3>1 DEF IInv, TypeOK
    <3> QED BY <2>1, <2>2, <3>2 DEF Matched
  <2>3. CASE ~(k \notin forget /\ Matches(id, k))
    BY <1>0, <2>3 DEF RedoKey, Matched
  <2> QED BY <2>2, <2>3
<1>4. \A g \in Groups \ {id} : Matched(g)' = Matched(g)
  BY <1>3 DEF Matched
<1>5. Known' = Known /\ \A g \in Groups : Rule(g)' = Rule(g) /\ \A key : Matches(g, key)' = Matches(g, key)
  BY <1>0, <1>1, <1>2 DEF Known, Rule, groupVars, failures, Matches
<1>6. Threads'
  BY <1>0, <1>1, <1>2, NullIsNothingElse DEF IInv, Threads, FlushShape, AssocShape, CleanupApart
<1>7. ChangesRecorded'
  <2>1. \A g \in Groups : Untouched(g) => Untouched(g)'
    BY <1>0, <1>1, <1>2, <1>3 DEF Untouched
  <2> QED BY <1>0, <1>1, <2>1 DEF IInv, groupVars, failures, Regexes, ChangesRecorded, Alertable
<1>8. RegexesCached'
  BY <1>0, <1>1, <1>2, <1>3, <1>4, <1>5 DEF IInv, groupVars, failures, Regexes, RegexesCached, Outdated, Alertable
<1>9. GroupsVisited'
  BY <1>0, <1>1, <1>2 DEF IInv, groupVars, failures, Regexes, GroupsVisited
<1>10. (Removing /\ KnownSeen)'
  BY <1>0, <1>1, <1>2, <1>3, <1>4, <1>5, NullIsNothingElse DEF IInv, Associated, Removing, KnownSeen
<1>11. MatchedProcessed'
  BY <1>0, <1>1, <1>2, <1>3, <1>4 DEF IInv, Associated, MatchedProcessed
<1>12. Complete'
  <2> SUFFICES ASSUME NEW g \in Alertable, changes[g] = "none", g \notin unread,
                      NEW key \in Known, key \in Rule(g)
               PROVE  /\ g \notin assoc.altered =>
                            key \in Matched(g)' \/ key \in forget \/ key = cleanup.key \/ key \in missed[g]
                      /\ g = id => key \in Matched(g)' \/ key \in forget \/ key \in assoc.left \ {k}
    BY <1>0, <1>1, <1>2, <1>5 DEF groupVars, failures, Complete, Alertable
  <2>1. CASE g # id
    BY <1>0, <1>1, <1>4, <2>1 DEF IInv, Associated, Complete, Alertable
  <2>2. CASE g = id
    <3>1. merged[id] = db[id] /\ db[id] # Null
      BY <1>0, <1>1, <2>2 DEF IInv, Regexes, RegexesCached, Outdated, Rule, Alertable
    <3>2. key = k => Matches(id, k)
      BY <2>2, <3>1 DEF Matches, Rule
    <3> QED BY <1>0, <1>1, <1>3, <2>2, <3>2 DEF IInv, Associated, Complete
  <2> QED BY <2>1, <2>2
<1> QED BY <1>6, <1>7, <1>8, <1>9, <1>10, <1>11, <1>12 DEF IInv, Regexes, Associated

LEMMA RedoMarkKeeps ==
    ASSUME IInv, TypeOK', RedoMark
    PROVE  IInv'
<1> DEFINE id == assoc.id
<1>1. /\ assoc.pc = "redo" /\ assoc.left = {} /\ assoc.half = {}
      /\ id \in Groups /\ id \in assoc.altered
      /\ cleanup.pc \in {"idle", "check"} /\ cleanup.key = Null
      /\ any' = any \cup Matched(id)
      /\ UNCHANGED <<groupVars, merged, matching, lastSeen, forget, cleanup, flush, failures>>
  BY DEF RedoMark, IInv, TypeOK, Assoc, Threads, AssocShape, CleanupApart
<1>2. /\ assoc'.pc = "redo" /\ assoc'.id = Null /\ assoc'.left = {} /\ assoc'.half = {}
      /\ assoc'.altered = assoc.altered \ {id}
      /\ assoc'.dropped = assoc.dropped /\ assoc'.ids = assoc.ids /\ assoc'.listed = assoc.listed
  BY <1>1 DEF RedoMark, IInv, TypeOK, Assoc
<1>3. Matched(id) \subseteq any \cup assoc.dropped
  BY <1>1 DEF IInv, Associated, MatchedProcessed
<1>4. \A g \in Groups : Matched(g)' = Matched(g) /\ Rule(g)' = Rule(g)
  BY <1>1 DEF Matched, Rule, groupVars, failures
<1>5. Known' = Known
  BY <1>1, <1>2, <1>3 DEF Known
<1>6. Threads'
  BY <1>1, <1>2 DEF IInv, Threads, FlushShape, AssocShape, CleanupApart
<1>7. Regexes'
  BY <1>1, <1>2 DEF IInv, groupVars, failures, Regexes, ChangesRecorded, RegexesCached, GroupsVisited,
        Untouched, Outdated, Matched, Matches
<1>8. (Removing /\ KnownSeen)'
  BY <1>1, <1>2, <1>4, <1>5 DEF IInv, Associated, Removing, KnownSeen
<1>9. MatchedProcessed'
  BY <1>1, <1>2, <1>4 DEF IInv, Associated, MatchedProcessed
<1>10. Complete'
  <2> SUFFICES ASSUME NEW g \in Alertable, changes[g] = "none", g \notin assoc.altered \ {id}, g \notin unread,
                      NEW key \in Known, key \in Rule(g)
               PROVE  key \in Matched(g) \/ key \in forget \/ key = cleanup.key \/ key \in missed[g]
    BY <1>1, <1>2, <1>4, <1>5, NullIsNothingElse DEF groupVars, failures, Complete, Alertable
  <2> QED BY <1>1 DEF IInv, Associated, Complete
<1> QED BY <1>6, <1>7, <1>8, <1>9, <1>10 DEF IInv, Associated

LEMMA StartWorkersKeeps ==
    ASSUME IInv, TypeOK', StartWorkers
    PROVE  IInv'
<1>1. /\ assoc.pc = "redo" /\ assoc.altered = {} /\ assoc.half = {} /\ assoc.id = Null
      /\ cleanup.pc \in {"idle", "check"} /\ cleanup.key = Null
      /\ UNCHANGED <<groupVars, merged, any, lastSeen, forget, cleanup, flush, failures>>
      /\ matching' = [g \in Groups |-> IF g \in assoc.ids /\ matching[g] = Null THEN {} ELSE matching[g]]
  BY DEF StartWorkers, IInv, Threads, AssocShape, CleanupApart
<1>2. /\ assoc'.pc = "keys" /\ assoc'.id = Null /\ assoc'.left = lastSeen /\ assoc'.half = {}
      /\ assoc'.altered = {} /\ assoc'.dropped = assoc.dropped /\ assoc'.ids = assoc.ids /\ assoc'.listed = assoc.listed
  BY <1>1 DEF StartWorkers, IInv, TypeOK, Assoc
<1>3. \A g \in Groups : Matched(g)' = Matched(g)
  BY <1>1, NullIsNothingElse DEF Matched
<1>4. Threads'
  BY <1>1, <1>2 DEF IInv, Threads, FlushShape, AssocShape, CleanupApart
<1>5. ChangesRecorded'
  BY <1>1, <1>2 DEF IInv, groupVars, failures, Regexes, ChangesRecorded, Untouched, Alertable
<1>6. RegexesCached'
  BY <1>1, <1>2, <1>3 DEF IInv, groupVars, failures, Regexes, RegexesCached, Outdated, Matches, Alertable
<1>7. GroupsVisited'
  BY <1>1, <1>2, NullIsNothingElse DEF IInv, groupVars, failures, Regexes, GroupsVisited, Alertable
<1>8. Associated'
  BY <1>1, <1>2, <1>3, NullIsNothingElse DEF IInv, groupVars, failures, Associated, Removing,
        MatchedProcessed, KnownSeen, Known, Complete, Rule, Alertable
<1> QED BY <1>4, <1>5, <1>6, <1>7, <1>8 DEF IInv, Regexes

LEMMA SkipOrMarkKeeps ==
    ASSUME IInv, TypeOK', NEW k \in Keys, SkipKey(k) \/ MarkKey(k)
    PROVE  IInv'
<1>1. /\ assoc.pc = "keys" /\ assoc.altered = {} /\ assoc.id = Null
      /\ cleanup.pc \in {"idle", "check"} /\ cleanup.key = Null
      /\ UNCHANGED <<groupVars, merged, matching, lastSeen, forget, cleanup, flush, failures>>
  BY DEF SkipKey, MarkKey, IInv, Threads, AssocShape, CleanupApart
<1>2. /\ assoc'.pc = "keys" /\ assoc'.id = Null /\ assoc'.altered = {}
      /\ assoc'.dropped = assoc.dropped /\ assoc'.ids = assoc.ids /\ assoc'.listed = assoc.listed
      /\ assoc'.left \subseteq assoc.left
      /\ any' \cup assoc'.half = any \cup assoc.half
  BY DEF SkipKey, MarkKey, IInv, Threads, AssocShape, TypeOK, Assoc
<1>3. Known' = Known
  BY <1>2 DEF Known
<1>4. \A g \in Groups : Matched(g)' = Matched(g) /\ Rule(g)' = Rule(g)
  BY <1>1 DEF Matched, Rule, groupVars, failures
<1>5. Threads'
  BY <1>1, <1>2 DEF IInv, Threads, FlushShape, AssocShape, CleanupApart
<1>6. Regexes'
  BY <1>1, <1>2 DEF IInv, groupVars, failures, Regexes, ChangesRecorded, RegexesCached, GroupsVisited,
        Untouched, Outdated, Matched, Matches
<1>7. (Removing /\ KnownSeen)'
  BY <1>1, <1>2, <1>3, <1>4 DEF IInv, Associated, Removing, KnownSeen
<1>8. MatchedProcessed'
  BY <1>1, <1>2, <1>4, NullIsNothingElse DEF IInv, Associated, MatchedProcessed
<1>9. Complete'
  <2> SUFFICES ASSUME NEW g \in Alertable, changes[g] = "none", g \notin unread,
                      NEW key \in Known, key \in Rule(g)
               PROVE  key \in Matched(g) \/ key \in forget \/ key = cleanup.key \/ key \in missed[g]
    BY <1>1, <1>2, <1>3, <1>4, NullIsNothingElse DEF groupVars, failures, Complete, Alertable, Groups
  <2> QED BY <1>1 DEF IInv, Associated, Complete
<1> QED BY <1>5, <1>6, <1>7, <1>8, <1>9 DEF IInv, Associated

LEMMA MatchKeyKeeps ==
    ASSUME IInv, TypeOK', NEW k \in Keys, MatchKey(k)
    PROVE  IInv'
<1>1. /\ assoc.pc = "keys" /\ assoc.altered = {} /\ assoc.id = Null /\ k \in assoc.left
      /\ cleanup.pc \in {"idle", "check"} /\ cleanup.key = Null
      /\ UNCHANGED <<groupVars, merged, any, lastSeen, forget, cleanup, flush, unread>>
      /\ matching' = [g \in Groups |->
            IF g \in assoc.ids /\ matching[g] # Null /\ Matches(g, k)
            THEN matching[g] \cup {k} ELSE matching[g]]
  BY DEF MatchKey, IInv, Threads, AssocShape, CleanupApart
<1>2. /\ assoc'.pc = "keys" /\ assoc'.id = Null /\ assoc'.altered = {}
      /\ assoc'.dropped = assoc.dropped /\ assoc'.ids = assoc.ids
      /\ assoc'.left = assoc.left \ {k} /\ assoc'.half = assoc.half \cup {k}
      /\ assoc'.listed = assoc.listed
  BY <1>1 DEF MatchKey, IInv, TypeOK, Assoc
<1>3. \A g \in Groups :
        /\ matching[g] = Null => matching'[g] = Null
        /\ matching[g] # Null => matching'[g] # Null
        /\ g \notin assoc.ids => matching'[g] = matching[g]
  <2>1. \A g \in Groups : matching[g] # Null => matching[g] \cup {k} # Null
    BY NullIsNothingElse DEF IInv, TypeOK
  <2> QED BY <1>1, <2>1
<1>4. \A g \in Groups : Matched(g)' =
        IF g \in assoc.ids /\ matching[g] # Null /\ Matches(g, k)
        THEN Matched(g) \cup {k} ELSE Matched(g)
  BY <1>1, <1>3 DEF Matched
<1>5. Known' = Known \cup {k} /\ \A g \in Groups : Rule(g)' = Rule(g)
  BY <1>1, <1>2 DEF Known, Rule, groupVars, failures
<1>6. Threads'
  BY <1>1, <1>2 DEF IInv, Threads, FlushShape, AssocShape, CleanupApart
<1>7. ChangesRecorded'
  <2>1. \A g \in Groups : Untouched(g) => Untouched(g)'
    BY <1>1, <1>2, <1>3 DEF Untouched
  <2> QED BY <1>1, <2>1 DEF IInv, groupVars, failures, Regexes, ChangesRecorded, Alertable
<1>8. RegexesCached'
  <2>1. \A g \in Groups, key \in Keys : Matches(g, key)' = Matches(g, key)
    BY <1>1 DEF Matches
  <2>2. \A g \in Groups : Matched(g) \subseteq Keys
    BY NullIsNothingElse DEF IInv, TypeOK, Matched
  <2> QED BY <1>1, <1>2, <1>4, <2>1, <2>2 DEF IInv, groupVars, failures, Regexes, RegexesCached, Outdated, Alertable
<1>9. GroupsVisited'
  BY <1>1, <1>2, <1>3 DEF IInv, groupVars, failures, Regexes, GroupsVisited, Alertable
<1>10. (Removing /\ KnownSeen)'
  BY <1>1, <1>2, <1>4, <1>5, NullIsNothingElse DEF IInv, Associated, Removing, KnownSeen
<1>11. MatchedProcessed'
  BY <1>1, <1>2, <1>4, NullIsNothingElse DEF IInv, Associated, MatchedProcessed
<1>12. Complete'
  <2> SUFFICES ASSUME NEW g \in Alertable, changes[g] = "none", g \notin unread,
                      NEW key \in Known \cup {k},
                      key \in Rule(g)
               PROVE  key \in Matched(g)' \/ key \in forget \/ key = cleanup.key \/ key \in missed'[g]
    BY <1>1, <1>2, <1>5, NullIsNothingElse DEF groupVars, failures, Complete, Alertable
  <2>1. CASE key = k
    <3>1. db[g] # Null /\ key \in db[g]
      BY DEF Rule
    <3>2. CASE assoc.listed
      <4>1. g \in assoc.ids /\ matching[g] # Null /\ Matches(g, k)
        BY <1>1, <2>1, <3>1, <3>2 DEF IInv, Regexes, RegexesCached, GroupsVisited, Outdated, Matches
      <4> QED BY <1>4, <2>1, <4>1 DEF Alertable
    <3>3. CASE ~assoc.listed
      BY <2>1, <3>3 DEF MatchKey, Alertable
    <3> QED BY <3>2, <3>3
  <2>2. CASE key \in Known /\ key # k
    <3>1. key \in missed[g] => key \in missed'[g]
      BY <2>2 DEF MatchKey, Alertable
    <3> QED BY <1>1, <1>4, <2>2, <3>1 DEF IInv, Associated, Complete, Alertable
  <2> QED BY <2>1, <2>2
<1> QED BY <1>6, <1>7, <1>8, <1>9, <1>10, <1>11, <1>12 DEF IInv, Regexes, Associated

LEMMA AssociateEndKeeps ==
    ASSUME IInv, TypeOK', AssociateEnd
    PROVE  IInv'
<1>1. /\ assoc.pc = "keys" /\ assoc.altered = {} /\ assoc.id = Null /\ assoc.half = {}
      /\ cleanup.pc \in {"idle", "check"} /\ cleanup.key = Null
      /\ UNCHANGED <<groupVars, merged, matching, any, lastSeen, forget, cleanup, flush, failures>>
      /\ assoc' = NotAssociating
  BY DEF AssociateEnd, IInv, Threads, AssocShape, CleanupApart
<1>2. /\ assoc'.pc = "idle" /\ assoc'.id = Null /\ assoc'.altered = {} /\ assoc'.ids = {}
      /\ assoc'.left = {} /\ assoc'.half = {} /\ assoc'.dropped = {}
  BY <1>1 DEF NotAssociating
<1>3. Known' \subseteq Known
  BY <1>1, <1>2 DEF Known
<1>4. \A g \in Groups : Matched(g)' = Matched(g) /\ Rule(g)' = Rule(g)
  BY <1>1 DEF Matched, Rule, groupVars, failures
<1>5. Threads'
  BY <1>1, <1>2 DEF IInv, Threads, FlushShape, AssocShape, CleanupApart
<1>6. Regexes'
  BY <1>1, <1>2 DEF IInv, groupVars, failures, Regexes, ChangesRecorded, RegexesCached, GroupsVisited,
        Untouched, Outdated, Matched, Matches
<1>7. (Removing /\ KnownSeen)'
  BY <1>1, <1>2, <1>3, <1>4 DEF IInv, Associated, Removing, KnownSeen
<1>8. MatchedProcessed'
  BY <1>1, <1>2, <1>4, NullIsNothingElse DEF IInv, Associated, MatchedProcessed
<1>9. Complete'
  BY <1>1, <1>2, <1>3, <1>4, NullIsNothingElse DEF IInv, groupVars, failures, Associated, Complete, Alertable
<1> QED BY <1>5, <1>6, <1>7, <1>8, <1>9 DEF IInv, Associated

-----------------------------------------------------------------------------
(* The cleanup.  Its steps leave the groups, their regexes and the routine  *)
(* alone.                                                                   *)

\* Before it holds the lock, the cleanup changes nothing but its locals.
LEMMA CleanupWaitsKeeps ==
    ASSUME IInv, TypeOK', CleanupBegin \/ CleanupCheck \/ CleanupLock
    PROVE  IInv'
<1>1. /\ cleanup.key = Null /\ cleanup'.key = Null
      /\ UNCHANGED <<groupVars, merged, matching, any, lastSeen, forget, assoc, flush, failures>>
      /\ cleanup'.pc = "clean" => cleanup'.asked \subseteq cleanup'.left
      /\ assoc.pc # "idle" => cleanup'.pc \in {"idle", "check"}
  <2>1. CASE CleanupBegin
    BY <2>1 DEF CleanupBegin, NotCleaning, IInv, Threads, CleanupApart
  <2>2. CASE CleanupCheck
    BY <2>2 DEF CleanupCheck, NotCleaning, IInv, Threads, CleanupApart, TypeOK, Cleanup
  <2>3. CASE CleanupLock
    <3>1. PICK expired \in SUBSET lastSeen :
              cleanup' = [cleanup EXCEPT !.pc = "clean", !.left = cleanup.asked \cup expired]
      BY <2>3 DEF CleanupLock
    <3>2. /\ cleanup'.key = cleanup.key /\ cleanup'.asked = cleanup.asked
          /\ cleanup'.left = cleanup.asked \cup expired
      BY <3>1 DEF IInv, TypeOK, Cleanup
    <3> QED BY <2>3, <3>2 DEF CleanupLock, IInv, Threads, CleanupApart
  <2> QED BY <2>1, <2>2, <2>3
<1>2. Threads'
  BY <1>1 DEF IInv, Threads, FlushShape, AssocShape, CleanupApart, NotAssociating
<1>3. Regexes'
  BY <1>1 DEF IInv, groupVars, failures, Regexes, ChangesRecorded, RegexesCached, GroupsVisited,
        Untouched, Outdated, Matched, Matches
<1>4. Removing'
  BY <1>1 DEF IInv, Associated, Removing, Matched
<1>5. (MatchedProcessed /\ Complete /\ KnownSeen)'
  BY <1>1 DEF IInv, groupVars, failures, Associated, MatchedProcessed, Complete, KnownSeen, Known, Matched, Rule
<1> QED BY <1>2, <1>3, <1>4, <1>5 DEF IInv, Associated

\* With the lock, it is alone.
LEMMA CleanupIsAlone ==
    ASSUME IInv, cleanup.pc \notin {"idle", "check"}
    PROVE  /\ assoc = NotAssociating
           /\ assoc.pc = "idle" /\ assoc.altered = {} /\ assoc.ids = {} /\ assoc.id = Null
           /\ Known = any
<1>1. assoc = NotAssociating
  BY DEF IInv, Threads, CleanupApart, AssocShape
<1> QED BY <1>1 DEF NotAssociating, Known

LEMMA RemoveFromGroupsKeeps ==
    ASSUME IInv, TypeOK', NEW k \in Keys, RemoveFromGroups(k)
    PROVE  IInv'
<1>1. /\ assoc = NotAssociating
      /\ assoc.pc = "idle" /\ assoc.altered = {} /\ assoc.ids = {} /\ assoc.id = Null
      /\ Known = any
  BY CleanupIsAlone DEF RemoveFromGroups
<1>2. /\ cleanup.pc = "clean" /\ cleanup.key = Null
      /\ UNCHANGED <<groupVars, merged, any, lastSeen, forget, assoc, flush, failures>>
      /\ matching' = [g \in Groups |-> IF matching[g] = Null THEN Null ELSE matching[g] \ {k}]
      /\ cleanup'.pc = "clean" /\ cleanup'.key = k
      /\ cleanup'.left = cleanup.left \ {k} /\ cleanup'.asked = cleanup.asked
  BY DEF RemoveFromGroups, IInv, TypeOK, Cleanup
<1>3. \A g \in Groups : Matched(g)' = Matched(g) \ {k}
  <2>1. \A g \in Groups : matching[g] # Null => matching[g] \ {k} # Null
    BY NullIsNothingElse DEF IInv, TypeOK
  <2> QED BY <1>2, <2>1 DEF Matched
<1>4. Known' = Known /\ \A g \in Groups : Rule(g)' = Rule(g)
  BY <1>2 DEF Known, Rule, groupVars, failures
<1>5. Threads'
  BY <1>1, <1>2 DEF IInv, Threads, FlushShape, AssocShape, CleanupApart, NotAssociating
<1>6. ChangesRecorded'
  BY <1>2 DEF IInv, groupVars, failures, Regexes, ChangesRecorded, Untouched, Alertable
<1>7. RegexesCached'
  BY <1>2, <1>3 DEF IInv, groupVars, failures, Regexes, RegexesCached, Outdated, Matches, Alertable
<1>8. GroupsVisited'
  BY <1>1, <1>2 DEF GroupsVisited
<1>9. (Removing /\ KnownSeen)'
  <2>1. any \subseteq Keys
    BY DEF IInv, TypeOK
  <2> QED BY <1>1, <1>2, <1>3, <1>4, <2>1, NullIsNothingElse DEF IInv, Associated, Removing, KnownSeen
<1>10. MatchedProcessed'
  BY <1>1, <1>2, <1>3 DEF IInv, Associated, MatchedProcessed
<1>11. Complete'
  <2> SUFFICES ASSUME NEW g \in Alertable, changes[g] = "none", g \notin unread,
                      NEW key \in Known, key \in Rule(g)
               PROVE  key \in Matched(g)' \/ key \in forget \/ key = k \/ key \in missed[g]
    BY <1>1, <1>2, <1>4, NullIsNothingElse DEF groupVars, failures, Complete, Alertable
  <2>1. key # Null
    BY <1>1, NullIsNothingElse DEF IInv, TypeOK
  <2> QED BY <1>1, <1>2, <1>3, <2>1 DEF IInv, Associated, Complete, Alertable
<1> QED BY <1>5, <1>6, <1>7, <1>8, <1>9, <1>10, <1>11 DEF IInv, Regexes, Associated

LEMMA RemoveFromMapsKeeps ==
    ASSUME IInv, TypeOK', RemoveFromMaps
    PROVE  IInv'
<1>1. cleanup.pc = "clean"
  BY DEF RemoveFromMaps, IInv, Threads, CleanupApart
<1>2. /\ assoc = NotAssociating
      /\ assoc.pc = "idle" /\ assoc.altered = {} /\ assoc.ids = {} /\ assoc.id = Null
      /\ Known = any
  BY <1>1, CleanupIsAlone
<1>3. /\ any' = any \ {cleanup.key} /\ lastSeen' = lastSeen \ {cleanup.key}
      /\ UNCHANGED <<groupVars, merged, matching, forget, assoc, flush, unread>>
      /\ missed' = [g \in Groups |-> missed[g] \ {cleanup.key}]
      /\ cleanup'.pc = "clean" /\ cleanup'.key = Null
      /\ cleanup'.left = cleanup.left /\ cleanup'.asked = cleanup.asked
  BY <1>1 DEF RemoveFromMaps, IInv, TypeOK, Cleanup
<1>4. Known' = any'
  BY <1>2, <1>3 DEF Known, NotAssociating
<1>5. \A g \in Groups : Matched(g)' = Matched(g) /\ Rule(g)' = Rule(g)
  BY <1>3 DEF Matched, Rule, groupVars, failures
<1>6. Threads'
  BY <1>1, <1>2, <1>3 DEF IInv, Threads, FlushShape, AssocShape, CleanupApart, NotAssociating
<1>7. Regexes'
  BY <1>2, <1>3 DEF IInv, groupVars, failures, Regexes, ChangesRecorded, RegexesCached, GroupsVisited,
        Untouched, Outdated, Matched, Matches
<1>8. Removing'
  <2>1. \A g \in Groups : Matched(g) \subseteq Keys
    BY NullIsNothingElse DEF IInv, TypeOK, Matched
  <2> QED BY <1>1, <1>3, <1>5, <2>1, NullIsNothingElse DEF IInv, Associated, Removing
<1>9. (MatchedProcessed /\ KnownSeen)'
  BY <1>2, <1>3, <1>4, <1>5 DEF IInv, Associated, Removing, MatchedProcessed, KnownSeen, NotAssociating
<1>10. Complete'
  BY <1>2, <1>3, <1>4, <1>5, NullIsNothingElse DEF IInv, groupVars, failures, Associated, Complete, Alertable
<1> QED BY <1>6, <1>7, <1>8, <1>9, <1>10 DEF IInv, Associated

LEMMA CleanupEndKeeps ==
    ASSUME IInv, TypeOK', CleanupEnd
    PROVE  IInv'
<1>1. PICK gauges \in SUBSET cleanup.asked : forget' = forget \ (cleanup.asked \ gauges)
  BY DEF CleanupEnd
<1>2. /\ cleanup.pc = "clean" /\ cleanup.left = {} /\ cleanup.key = Null
      /\ UNCHANGED <<groupVars, merged, matching, any, lastSeen, assoc, flush, failures>>
      /\ cleanup'.pc = "idle" /\ cleanup'.key = Null
  BY DEF CleanupEnd, NotCleaning
<1>3. /\ assoc = NotAssociating
      /\ assoc.pc = "idle" /\ assoc.altered = {} /\ assoc.ids = {} /\ assoc.id = Null
      /\ Known = any
  BY <1>2, CleanupIsAlone
<1>4. cleanup.asked \cap any = {}
  BY <1>2, NullIsNothingElse DEF IInv, TypeOK, Associated, Removing
<1>5. Known' = Known /\ \A g \in Groups : Matched(g)' = Matched(g) /\ Rule(g)' = Rule(g)
  BY <1>2 DEF Known, Matched, Rule, groupVars, failures
<1>6. Threads'
  BY <1>2, <1>3 DEF IInv, Threads, FlushShape, AssocShape, CleanupApart, NotAssociating
<1>7. Regexes'
  BY <1>2 DEF IInv, groupVars, failures, Regexes, ChangesRecorded, RegexesCached, GroupsVisited,
        Untouched, Outdated, Matched, Matches
<1>8. (Removing /\ MatchedProcessed /\ KnownSeen)'
  BY <1>2, <1>5 DEF IInv, Associated, Removing, MatchedProcessed, KnownSeen
<1>9. Complete'
  BY <1>1, <1>2, <1>3, <1>4, <1>5, NullIsNothingElse DEF IInv, groupVars, failures, Associated, Complete, Alertable
<1> QED BY <1>6, <1>7, <1>8, <1>9 DEF IInv, Associated

LEMMA IInvStep == ~Overlap /\ IInv /\ [Next]_vars => IInv'
<1> SUFFICES ASSUME ~Overlap, IInv, [Next]_vars PROVE IInv'
  OBVIOUS
<1>1. TypeOK'
  BY TypeStep DEF IInv
<1>2. CASE UNCHANGED vars
  BY <1>1, <1>2 DEF vars, groupVars, failures, IInv, Threads, FlushShape, AssocShape, CleanupApart, Regexes,
        ChangesRecorded, RegexesCached, GroupsVisited, Untouched, Outdated, Associated, Removing,
        MatchedProcessed, Complete, KnownSeen, Known, Matched, Matches, Rule
<1>3. CASE AssociationStep
  <2>1. ASSUME NEW id \in Groups, DetectChange(id) \/ RedoGroup(id)
        PROVE  IInv'
    BY <1>1, <2>1, DetectChangeKeeps, RedoGroupKeeps
  <2>2. ASSUME NEW k \in Keys, RedoKey(k) \/ SkipKey(k) \/ MatchKey(k) \/ MarkKey(k)
        PROVE  IInv'
    BY <1>1, <2>2, RedoKeyKeeps, SkipOrMarkKeeps, MatchKeyKeeps
  <2>3. CASE UpdateRegexes \/ RedoMark \/ StartWorkers \/ AssociateEnd
    BY <1>1, <2>3, UpdateRegexesKeeps, RedoMarkKeeps, StartWorkersKeeps, AssociateEndKeeps
  <2> QED BY <1>3, <2>1, <2>2, <2>3 DEF AssociationStep
<1>4. CASE CleanupBegin \/ CleanupStep
  <2>1. ASSUME NEW k \in Keys, RemoveFromGroups(k)
        PROVE  IInv'
    BY <1>1, <2>1, RemoveFromGroupsKeeps
  <2> QED BY <1>1, <1>4, <2>1, CleanupWaitsKeeps, RemoveFromMapsKeeps, CleanupEndKeeps DEF CleanupStep
<1> QED BY <1>1, <1>2, <1>3, <1>4, OperatorsKeep, FlushThreadsKeep, AssociateBeginKeeps
      DEF Next, Association

\* Between the runs of the two routines nothing is half done.
LEMMA NothingHalfDone ==
    ASSUME IInv, AtRest
    PROVE  /\ Known = any /\ assoc.altered = {} /\ assoc.id = Null /\ assoc.half = {}
           /\ ~(assoc.pc = "detect") /\ cleanup.key = Null
<1>1. assoc = NotAssociating /\ assoc.pc = "idle" /\ cleanup.key = Null
  BY DEF IInv, AtRest, Threads, AssocShape, CleanupApart
<1> QED BY <1>1 DEF NotAssociating, Known

LEMMA IInvSaysCurrent == IInv => AssociationsCurrent
<1> SUFFICES ASSUME IInv, AtRest, NEW id \in Alertable, changes[id] = "none"
             PROVE  /\ id \notin unread =>
                          Rule(id) \cap (any \ forget) \subseteq Matched(id) \cup missed[id]
                    /\ Matched(id) \subseteq Rule(id) \cap any
  BY DEF AssociationsCurrent, Alertable
<1>1. id \notin unread => Rule(id) \cap (any \ forget) \subseteq Matched(id) \cup missed[id]
  <2> SUFFICES ASSUME id \notin unread, NEW k \in Rule(id) \cap (any \ forget)
               PROVE  k \in Matched(id) \cup missed[id]
    OBVIOUS
  <2>1. k # Null
    BY NullIsNothingElse DEF IInv, TypeOK
  <2> QED BY <2>1, NothingHalfDone DEF IInv, Associated, Complete
<1>2. Matched(id) \subseteq any
  BY NothingHalfDone, NullIsNothingElse DEF IInv, Associated, MatchedProcessed, Alertable
<1>3. Matched(id) \subseteq Rule(id)
  BY NothingHalfDone DEF IInv, Regexes, RegexesCached, Outdated, Matches, Rule
<1> QED BY <1>1, <1>2, <1>3

LEMMA IInvSaysExpire == IInv => KeysCanExpire
<1> SUFFICES ASSUME IInv, AtRest
             PROVE  any \cup UNION {Matched(id) : id \in Groups} \subseteq lastSeen
  BY DEF KeysCanExpire
<1>1. any \subseteq lastSeen
  BY NothingHalfDone DEF IInv, Associated, KnownSeen
<1>2. \A id \in Groups : Matched(id) \subseteq any
  BY NothingHalfDone, NullIsNothingElse DEF IInv, Associated, MatchedProcessed
<1> QED BY <1>1, <1>2

\* If the cleanup and the association do not overlap, then between their runs
\* every group whose change has been applied has exactly the processed keys
\* that its regexes match: whatever the operators did meanwhile and however
\* many groups, keys and changes there are.
THEOREM AssociationsStayCurrent ==
    ASSUME ~Overlap PROVE Spec => []AssociationsCurrent
<1>1. IInv /\ [Next]_vars => IInv'
  BY IInvStep
<1> QED BY <1>1, IInvInit, IInvSaysCurrent, PTL DEF Spec

\* Under the same condition every key that is processed or associated is among
\* those last seen, where the cleanup finds it: no key is kept for ever.
THEOREM KeysAlwaysExpire ==
    ASSUME ~Overlap PROVE Spec => []KeysCanExpire
<1>1. IInv /\ [Next]_vars => IInv'
  BY IInvStep
<1> QED BY <1>1, IInvInit, IInvSaysExpire, PTL DEF Spec
=============================================================================
