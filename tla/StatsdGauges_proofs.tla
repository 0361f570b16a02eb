------------------------ MODULE StatsdGauges_proofs ------------------------
(***************************************************************************)
(* Proofs about StatsdGauges, for any number of listeners, metrics and     *)
(* flush threads: every variable keeps its type.  If a flush thread has    *)
(* listed its start before the next one is invoked, their turns do not     *)
(* overlap; the gauge is what its metrics give in their order, if the      *)
(* threads have drained them in that order; and its three copies agree at  *)
(* rest but where a thread and the cleanup have crossed.                   *)
(***************************************************************************)
EXTENDS StatsdGauges, FoldTheorems

USE DEF Threads, BeforeTurn, InTurn, Writing, Pcs, CleanupPcs

\* What the functions and records are, without the values in them: the value
\* of a fold has no type here.
Shape ==
    /\ now \in 0..MaxFlushes
    /\ starts \subseteq Threads
    /\ pc \in [Threads -> Pcs]
    /\ DOMAIN flush = Threads
    /\ \A n \in Threads : DOMAIN flush[n] = {"must", "got", "agg", "held"}
    /\ cleanup \in [pc : CleanupPcs, gauge : BOOLEAN, deleted : BOOLEAN]

\* Threads register in the order of their starts, so the one in its turn is
\* the eldest that is active, and those that are done are elder still.
Turns ==
    /\ \A n \in Threads : n \in starts <=> pc[n] \notin {"none", "invoked", "done"}
    /\ \A n \in Threads : n > now => pc[n] = "none"
    /\ \A m, n \in Threads : m < n /\ pc[m] = "invoked" => pc[n] = "none"
    /\ \A m, n \in Threads : pc[n] \in InTurn \cup {"done"} /\ Active(m) => n <= m

-----------------------------------------------------------------------------
(* Shape.                                                                  *)

LEMMA InitShape == Init => Shape /\ Turns
BY BoundsAssumption DEF Init, Shape, Turns, Active, NotStarted, NotCleaning

\* What a step of a flush thread does to its program counter and its locals.
LEMMA StepEffect ==
    ASSUME Shape, NEW n \in Threads, NEW from, NEW to \in Pcs, Step(n, from, to)
    PROVE  /\ pc[n] = from
           /\ pc' \in [Threads -> Pcs]
           /\ pc'[n] = to
           /\ \A m \in Threads \ {n} : pc'[m] = pc[m]
BY DEF Shape, Step

LEMMA LocalsEffect ==
    ASSUME Shape, NEW n \in Threads, NEW x,
           \/ flush' = [flush EXCEPT ![n].must = x]
           \/ flush' = [flush EXCEPT ![n].must = {}, ![n].got = x]
           \/ flush' = [flush EXCEPT ![n].agg = x]
           \/ flush' = [flush EXCEPT ![n].held = x]
    PROVE  /\ DOMAIN flush' = Threads
           /\ \A m \in Threads : DOMAIN flush'[m] = {"must", "got", "agg", "held"}
           /\ \A m \in Threads \ {n} : flush'[m] = flush[m]
BY DEF Shape

LEMMA FlushStepShape ==
    ASSUME Shape, NEW n \in Threads, FlushStep(n)
    PROVE  Shape'
<1> USE DEF Shape
<1>1. CASE AddStart(n)
    BY <1>1, StepEffect DEF AddStart, forgetVars
<1>2. CASE AddGetStart(n)
    BY <1>2, StepEffect DEF AddGetStart, forgetVars
<1>3. CASE WaitForElders(n)
    BY <1>3, StepEffect DEF WaitForElders, forgetVars
<1>4. CASE DrainBegin(n)
    BY <1>4, StepEffect, LocalsEffect DEF DrainBegin, forgetVars
<1>5. CASE DrainEnd(n)
    BY <1>5, StepEffect, LocalsEffect DEF DrainEnd, forgetVars
<1>6. CASE WaitForTurn(n)
    BY <1>6, StepEffect DEF WaitForTurn, forgetVars
<1>7. CASE AggregateGauges(n)
    BY <1>7, StepEffect, LocalsEffect DEF AggregateGauges, forgetVars
<1>8. CASE DropForgotten(n)
    BY <1>8, StepEffect, LocalsEffect DEF DropForgotten, forgetVars
<1>9. CASE UpdateCache(n)
    BY <1>9, StepEffect DEF UpdateCache, forgetVars
<1>10. CASE UpdateDatabase(n)
    BY <1>10, StepEffect DEF UpdateDatabase, forgetVars
<1>11. CASE ReadRecent(n)
    BY <1>11, StepEffect, LocalsEffect DEF ReadRecent, forgetVars
<1>12. CASE RefreshRecent(n)
    BY <1>12, StepEffect, LocalsEffect DEF RefreshRecent, forgetVars
<1>13. CASE PutRecent(n)
    BY <1>13, StepEffect DEF PutRecent, forgetVars
<1>14. CASE FinishThread(n)
    BY <1>14, StepEffect, LocalsEffect DEF FinishThread, forgetVars
<1> QED
    BY <1>1, <1>2, <1>3, <1>4, <1>5, <1>6, <1>7, <1>8, <1>9, <1>10, <1>11, <1>12,
       <1>13, <1>14 DEF FlushStep

\* Listeners, requests and the cleanup leave the flush threads alone.
LEMMA OthersLeaveFlushes ==
    ASSUME ListenerStep \/ ForgetMetric \/ CleanupBegin \/ CleanupStep
    PROVE  UNCHANGED <<now, flushVars>>
BY DEF ListenerStep, ReceivePacket, QueueMetric, ForgetMetric, CleanupBegin, CleanupStep,
       CleanupMaps, CleanupRow, CleanupCache, CleanupEnd, flushVars

LEMMA CleanupShape ==
    ASSUME Shape, CleanupBegin \/ CleanupStep
    PROVE  cleanup' \in [pc : CleanupPcs, gauge : BOOLEAN, deleted : BOOLEAN]
<1> USE DEF Shape
<1>1. CASE CleanupBegin
  <2>1. (cache # Null) \in BOOLEAN
    OBVIOUS
  <2> QED
    BY <1>1, <2>1, Zenon DEF CleanupBegin
<1>2. CASE CleanupMaps
    BY <1>2 DEF CleanupMaps, CleanupTo
<1>3. CASE CleanupRow
    BY <1>3 DEF CleanupRow, CleanupTo
<1>4. CASE CleanupCache
    BY <1>4 DEF CleanupCache, CleanupTo
<1>5. CASE CleanupEnd
    BY <1>5 DEF CleanupEnd, NotCleaning
<1> QED
    BY <1>1, <1>2, <1>3, <1>4, <1>5 DEF CleanupStep

LEMMA NextShape ==
    ASSUME Shape, [Next]_vars
    PROVE  Shape'
<1>1. CASE ListenerStep \/ ForgetMetric
    BY <1>1, OthersLeaveFlushes
       DEF Shape, ListenerStep, ReceivePacket, QueueMetric, ForgetMetric, forgetVars, flushVars
<1>2. CASE CleanupBegin \/ CleanupStep
    BY <1>2, OthersLeaveFlushes, CleanupShape DEF Shape, flushVars
<1>3. CASE InvokeThread
    BY <1>3, BoundsAssumption DEF Shape, InvokeThread, forgetVars
<1>4. CASE \E n \in Threads : FlushStep(n)
    BY <1>4, FlushStepShape
<1>5. CASE Restart
    BY <1>5 DEF Shape, Restart, FreshMemory, NotStarted, NotCleaning
<1>6. CASE UNCHANGED vars
    BY <1>6 DEF Shape, vars, flushVars, forgetVars
<1> QED
    BY <1>1, <1>2, <1>3, <1>4, <1>5, <1>6 DEF Next

-----------------------------------------------------------------------------
(* One writer at a time.                                                   *)

\* A step in which a thread stays registered, and enters its turn only if it
\* is the first.
LEMMA ThreadKeepsTurns ==
    ASSUME Shape, Turns, NEW n \in Threads, NEW from, NEW to \in Pcs, Step(n, from, to),
           from \notin {"none", "invoked", "done"}, to \notin {"none", "invoked", "done"},
           to \in InTurn => from \in InTurn \/ IsFirst(n, starts),
           UNCHANGED <<now, starts>>
    PROVE  Turns'
<1>1. pc[n] = from /\ pc'[n] = to /\ \A m \in Threads \ {n} : pc'[m] = pc[m]
  BY StepEffect
<1>2. \A m \in Threads : Active(m)' <=> Active(m)
  BY <1>1 DEF Active
<1>3. ASSUME IsFirst(n, starts), NEW m \in Threads, Active(m)
      PROVE  n <= m
  BY <1>1, <1>3 DEF Turns, IsFirst, Active
<1> QED BY <1>1, <1>2, <1>3 DEF Turns

LEMMA FlushStepTurns ==
    ASSUME Shape, Turns, NEW n \in Threads, FlushStep(n)
    PROVE  Turns'
<1>1. CASE AddStart(n)
  <2> DEFINE added == starts \cup {n}
  <2>1. pc[n] = "invoked" /\ starts' = added /\ now' = now
      BY <1>1 DEF AddStart, Step
  <2>2. pc'[n] = "added" /\ \A m \in Threads \ {n} : pc'[m] = pc[m]
      BY <1>1, StepEffect DEF AddStart
  <2>3. \A m \in Threads : Active(m)' <=> Active(m)
      BY <2>1, <2>2 DEF Active
  <2> QED
      BY <2>1, <2>2, <2>3 DEF Turns, Shape
<1>2. CASE FinishThread(n)
  <2>1. pc[n] = "end" /\ starts' = starts \ {n} /\ now' = now
      BY <1>2 DEF FinishThread, Step
  <2>2. pc'[n] = "done" /\ \A m \in Threads \ {n} : pc'[m] = pc[m]
      BY <1>2, StepEffect DEF FinishThread
  <2> QED
      BY <2>1, <2>2 DEF Turns, Shape, Active
<1>3. CASE AddGetStart(n)
    BY <1>3, ThreadKeepsTurns DEF AddGetStart
<1>4. CASE WaitForElders(n)
    BY <1>4, ThreadKeepsTurns DEF WaitForElders
<1>5. CASE DrainBegin(n) \/ DrainEnd(n)
    BY <1>5, ThreadKeepsTurns DEF DrainBegin, DrainEnd
<1>6. CASE WaitForTurn(n)
    BY <1>6, ThreadKeepsTurns DEF WaitForTurn
<1>7. CASE AggregateGauges(n) \/ DropForgotten(n)
    BY <1>7, ThreadKeepsTurns DEF AggregateGauges, DropForgotten
<1>8. CASE UpdateCache(n) \/ UpdateDatabase(n)
    BY <1>8, ThreadKeepsTurns DEF UpdateCache, UpdateDatabase
<1>9. CASE ReadRecent(n) \/ RefreshRecent(n) \/ PutRecent(n)
    BY <1>9, ThreadKeepsTurns DEF ReadRecent, RefreshRecent, PutRecent
<1> QED
    BY <1>1, <1>2, <1>3, <1>4, <1>5, <1>6, <1>7, <1>8, <1>9 DEF FlushStep

LEMMA InvokeTurns ==
    ASSUME OnTime, Shape, Turns, InvokeThread
    PROVE  Turns'
<1> DEFINE new == now + 1
<1>1. new \in Threads /\ now' = new /\ starts' = starts
    BY BoundsAssumption DEF Shape, InvokeThread
<1>2. pc'[new] = "invoked" /\ \A m \in Threads \ {new} : pc'[m] = pc[m]
    BY <1>1 DEF Shape, InvokeThread
<1>3. \A m \in Threads : pc[m] # "invoked"
    BY DEF InvokeThread
<1>4. pc[new] = "none"
    BY <1>1 DEF Turns, Shape
<1> HIDE DEF new
<1>5. new = now + 1 /\ now \in Nat
    BY BoundsAssumption DEF new, Shape
<1>6. \A m \in Threads : Active(m)' <=> Active(m) \/ m = new
    BY <1>2, <1>4 DEF Active
<1> QED
    BY <1>1, <1>2, <1>3, <1>4, <1>5, <1>6 DEF Turns

LEMMA NextTurns ==
    ASSUME OnTime, Shape, Turns, [Next]_vars
    PROVE  Turns'
<1>1. CASE ListenerStep \/ ForgetMetric \/ CleanupBegin \/ CleanupStep
    BY <1>1, OthersLeaveFlushes DEF Turns, Active, flushVars
<1>2. CASE InvokeThread
    BY <1>2, InvokeTurns
<1>3. CASE \E n \in Threads : FlushStep(n)
    BY <1>3, FlushStepTurns
<1>4. CASE Restart
    BY <1>4 DEF Restart, FreshMemory, Active, Turns, Shape
<1>5. CASE UNCHANGED vars
    BY <1>5 DEF Turns, Active, vars, flushVars
<1> QED
    BY <1>1, <1>2, <1>3, <1>4, <1>5 DEF Next

LEMMA TurnsGiveOneWriter == Shape /\ Turns => OneWriter
BY DEF Shape, Turns, OneWriter, Active

\* The flush threads read the cached gauge and write it back one at a time
\* (Common.waitUntilThisIsYoungestActiveThread, StatsdThread.run), provided
\* that each has listed its start before the next is invoked.
THEOREM FlushesTakeTurns ==
    ASSUME OnTime
    PROVE  Spec => []OneWriter
<1>1. Init => Shape /\ Turns
    BY InitShape
<1>2. Shape /\ Turns /\ [Next]_vars => (Shape /\ Turns)'
    BY NextShape, NextTurns
<1>3. Shape /\ Turns => OneWriter
    BY TurnsGiveOneWriter
<1> QED
    BY <1>1, <1>2, <1>3, PTL DEF Spec

-----------------------------------------------------------------------------
(* The cache, the row and the value to send again.                         *)

Upserting == \E n \in Threads : pc[n] = "upsert"

\* Row and cache differ only between the two updates of a thread or of the
\* cleanup, or after a failed update; none comes between those of another
\* unseen.
RowSync ==
    /\ \A n \in Threads : pc[n] = "upsert" => cache = flush[n].agg
    /\ cleanup.pc = "cache" => row = Null
    /\ Upserting => cleanup.pc # "cache"
    /\ ~Upserting /\ cleanup.pc # "cache" /\ ~behind => row = cache

\* A thread has cached a value that is not yet the one to send again.
Ahead(n) == pc[n] \in {"upsert", "refresh", "resend", "recent"} /\ flush[n].agg # Null

\* A thread that writes while the cleanup is under way has nothing to write.
OutOfTheWay(n) ==
    pc[n] \in Writing => cleanup.pc # "maps" /\ (cleanup.pc # "idle" => flush[n].agg = Null)

\* A gauge whose row could not be deleted is cached, still to be forgotten and
\* not to be sent again.
RecentSync ==
    /\ \A n \in Threads : OutOfTheWay(n)
    /\ \A n \in Threads : Ahead(n) => cache = flush[n].agg
    /\ \A n \in Threads : pc[n] = "resend" => flush[n].held = recent
    /\ (\A n \in Threads : ~Ahead(n)) /\ cleanup.pc = "idle" =>
          recent = cache \/ (forget /\ recent = Null)
    /\ cleanup.pc = "maps" => (cleanup.gauge <=> cache # Null)
    /\ cleanup.pc \in {"row", "cache", "end"} => recent = Null
    /\ cleanup.pc = "end" /\ (cleanup.gauge => cleanup.deleted) => cache = Null

\* What the cleanup has seen and done.
CleanupSound ==
    /\ cleanup.pc # "idle" => forget
    /\ cleanup.pc \in {"maps", "row"} => ~cleanup.deleted
    /\ cleanup.pc \in {"row", "cache"} => cleanup.gauge
    /\ cleanup.pc = "cache" => cleanup.deleted

Synced == CleanupSound /\ (~torn => RowSync) /\ (~raced => RecentSync)

LEMMA InitSynced == Init => Synced
BY DEF Init, Synced, CleanupSound, RowSync, Upserting, RecentSync, OutOfTheWay, Ahead,
       NotCleaning, NotStarted

\* A thread before its turn, one that only aggregates, and one that is done
\* disturb nothing.
LEMMA QuietStepSynced ==
    ASSUME Shape, Synced, NEW n \in Threads, NEW from, NEW to \in Pcs, Step(n, from, to),
           from \notin Writing, to \notin Writing,
           \A m \in Threads \ {n} : flush'[m] = flush[m],
           UNCHANGED <<gaugeVars, overlaps, forgetVars>>
    PROVE  Synced'
<1>1. pc[n] = from /\ pc'[n] = to /\ \A m \in Threads \ {n} : pc'[m] = pc[m]
    BY StepEffect
<1>2. /\ Upserting' <=> Upserting
      /\ \A m \in Threads : (Ahead(m)' <=> Ahead(m)) /\ (pc'[m] \in Writing <=> pc[m] \in Writing)
    BY <1>1 DEF Upserting, Ahead
<1>3. ASSUME ~torn, RowSync PROVE RowSync'
    BY <1>1, <1>2, <1>3 DEF RowSync, gaugeVars, overlaps, forgetVars
<1>4. ASSUME ~raced, RecentSync PROVE RecentSync'
    BY <1>1, <1>2, <1>4 DEF RecentSync, OutOfTheWay, Ahead, gaugeVars, overlaps, forgetVars
<1> QED
    BY <1>3, <1>4 DEF Synced, CleanupSound, overlaps, forgetVars

LEMMA DropForgottenSynced ==
    ASSUME Shape, Synced, NEW n \in Threads, DropForgotten(n)
    PROVE  Synced'
<1>1. /\ pc[n] = "forget" /\ pc'[n] = "cache"
      /\ \A m \in Threads \ {n} : pc'[m] = pc[m] /\ flush'[m] = flush[m]
      /\ flush'[n].agg = IF forget THEN Null ELSE flush[n].agg
      /\ UNCHANGED <<gaugeVars, behind, torn, forgetVars>>
      /\ raced' = (raced \/ cleanup.pc = "maps")
    BY StepEffect, LocalsEffect DEF DropForgotten, Shape
<1>2. Upserting' <=> Upserting
    BY <1>1 DEF Upserting
<1>3. ASSUME ~torn, RowSync PROVE RowSync'
    BY <1>1, <1>2, <1>3 DEF RowSync, gaugeVars, forgetVars
<1>4. ASSUME ~raced' PROVE RecentSync'
  <2>1. RecentSync /\ cleanup.pc # "maps" /\ (cleanup.pc # "idle" => flush'[n].agg = Null)
      BY <1>1, <1>4 DEF Synced, CleanupSound
  <2>2. \A m \in Threads : (Ahead(m)' <=> Ahead(m)) /\ OutOfTheWay(m)'
      BY <1>1, <2>1 DEF Ahead, RecentSync, OutOfTheWay, forgetVars
  <2> QED
      BY <1>1, <2>1, <2>2 DEF RecentSync, Ahead, gaugeVars, forgetVars
<1> QED
    BY <1>1, <1>3, <1>4 DEF Synced, CleanupSound, forgetVars

\* In the turn of one thread no other is ahead.
LEMMA OnlyOneAhead ==
    ASSUME OneWriter, NEW n \in Threads, pc[n] \in InTurn
    PROVE  \A m \in Threads \ {n} : pc[m] \notin InTurn /\ ~Ahead(m)
BY DEF OneWriter, Ahead

LEMMA WriteStepSynced ==
    ASSUME Shape, OneWriter, Synced, NEW n \in Threads,
           UpdateCache(n) \/ UpdateDatabase(n) \/ ReadRecent(n) \/ RefreshRecent(n) \/ PutRecent(n)
    PROVE  Synced'
<1>1. /\ \A m \in Threads \ {n} : pc'[m] = pc[m] /\ flush'[m] = flush[m]
      /\ pc[n] \in InTurn /\ pc'[n] \in InTurn
      /\ UNCHANGED <<raced, forgetVars>>
    BY StepEffect, LocalsEffect
       DEF UpdateCache, UpdateDatabase, ReadRecent, RefreshRecent, PutRecent, overlaps
<1>2. \A m \in Threads \ {n} : /\ pc[m] \notin InTurn /\ ~Ahead(m)
                              /\ pc'[m] \notin InTurn /\ ~Ahead(m)'
    BY <1>1, OnlyOneAhead DEF Ahead
<1>3. CleanupSound'
    BY <1>1 DEF Synced, CleanupSound, forgetVars
<1>4. CASE UpdateCache(n)
  <2>1. CASE flush[n].agg = Null
    <3>1. /\ pc[n] = "cache" /\ pc'[n] = "refresh"
          /\ UNCHANGED <<flush, gaugeVars, behind, torn>>
        BY <1>4, <2>1, StepEffect DEF UpdateCache, gaugeVars
    <3>2. ASSUME RowSync PROVE RowSync'
        BY <1>1, <1>2, <3>1, <3>2 DEF RowSync, Upserting, gaugeVars, forgetVars
    <3>3. ASSUME RecentSync PROVE RecentSync'
        BY <1>1, <1>2, <2>1, <3>1, <3>3
           DEF RecentSync, OutOfTheWay, Ahead, gaugeVars, forgetVars
    <3> QED
        BY <1>1, <1>3, <3>1, <3>2, <3>3 DEF Synced
  <2>2. CASE flush[n].agg # Null
    <3>1. /\ pc[n] = "cache" /\ pc'[n] = "upsert" /\ cache' = flush[n].agg
          /\ torn' = (cleanup.pc = "cache")
          /\ UNCHANGED <<flush, row, recent, behind>>
        BY <1>4, <2>2, StepEffect DEF UpdateCache
    <3>2. ASSUME ~torn' PROVE RowSync'
        BY <1>1, <1>2, <3>1, <3>2 DEF RowSync, Upserting, forgetVars
    <3>3. ASSUME RecentSync PROVE RecentSync'
      <4>1. cleanup.pc = "idle"
          BY <2>2, <3>1, <3>3 DEF RecentSync, OutOfTheWay
      <4>2. Ahead(n)'
          BY <2>2, <3>1 DEF Ahead
      <4> QED
          BY <1>1, <1>2, <3>1, <3>3, <4>1, <4>2 DEF RecentSync, OutOfTheWay, forgetVars
    <3> QED
        BY <1>1, <1>3, <3>1, <3>2, <3>3 DEF Synced
  <2> QED
      BY <2>1, <2>2
<1>5. CASE UpdateDatabase(n)
  <2>1. /\ pc[n] = "upsert" /\ pc'[n] = "refresh" /\ UNCHANGED <<flush, cache, recent, torn>>
        /\ row' = flush[n].agg \/ behind' = TRUE
      BY <1>5, StepEffect DEF UpdateDatabase
  <2>2. ASSUME RowSync PROVE RowSync'
      BY <1>1, <1>2, <2>1, <2>2 DEF RowSync, Upserting, forgetVars
  <2>3. ASSUME RecentSync PROVE RecentSync'
      BY <1>1, <1>2, <2>1, <2>3 DEF RecentSync, OutOfTheWay, Ahead, forgetVars
  <2> QED
      BY <1>1, <1>3, <2>1, <2>2, <2>3 DEF Synced
<1>6. CASE ReadRecent(n)
  <2>1. pc[n] = "refresh" /\ pc'[n] = "resend" /\ UNCHANGED <<gaugeVars, behind, torn>>
      BY <1>6, StepEffect DEF ReadRecent, overlaps
  <2>2. flush'[n].held = recent /\ flush'[n].agg = flush[n].agg
      BY <1>6 DEF ReadRecent, Shape
  <2>3. ASSUME RowSync PROVE RowSync'
      BY <1>1, <1>2, <2>1, <2>3 DEF RowSync, Upserting, gaugeVars, forgetVars
  <2>4. ASSUME RecentSync PROVE RecentSync'
      BY <1>1, <1>2, <2>1, <2>2, <2>4 DEF RecentSync, OutOfTheWay, Ahead, gaugeVars, forgetVars
  <2> QED
      BY <1>1, <1>3, <2>1, <2>3, <2>4 DEF Synced
<1>7. CASE RefreshRecent(n)
  <2>1. /\ pc[n] = "resend" /\ pc'[n] = "recent" /\ UNCHANGED <<cache, row, behind, torn>>
        /\ recent' = IF flush[n].held = Null THEN recent ELSE flush[n].held
        /\ flush'[n].agg = flush[n].agg
      BY <1>7, StepEffect DEF RefreshRecent, Shape, overlaps
  <2>2. ASSUME RowSync PROVE RowSync'
      BY <1>1, <1>2, <2>1, <2>2 DEF RowSync, Upserting, forgetVars
  <2>3. ASSUME RecentSync PROVE RecentSync'
    <3>1. recent' = recent
        BY <2>1, <2>3 DEF RecentSync
    <3> QED
        BY <1>1, <1>2, <2>1, <2>3, <3>1 DEF RecentSync, OutOfTheWay, Ahead, forgetVars
  <2> QED
      BY <1>1, <1>3, <2>1, <2>2, <2>3 DEF Synced
<1>8. CASE PutRecent(n)
  <2>1. /\ pc[n] = "recent" /\ pc'[n] = "end" /\ UNCHANGED <<flush, cache, row, behind, torn>>
        /\ recent' = IF flush[n].agg = Null THEN recent ELSE flush[n].agg
      BY <1>8, StepEffect DEF PutRecent, overlaps
  <2>2. ASSUME RowSync PROVE RowSync'
      BY <1>1, <1>2, <2>1, <2>2 DEF RowSync, Upserting, forgetVars
  <2>3. ASSUME RecentSync PROVE RecentSync'
      BY <1>1, <1>2, <2>1, <2>3 DEF RecentSync, OutOfTheWay, Ahead, forgetVars
  <2> QED
      BY <1>1, <1>3, <2>1, <2>2, <2>3 DEF Synced
<1> QED
    BY <1>4, <1>5, <1>6, <1>7, <1>8

LEMMA FlushStepSynced ==
    ASSUME Shape, OneWriter, Synced, NEW n \in Threads, FlushStep(n)
    PROVE  Synced'
<1>1. CASE AddStart(n) \/ AddGetStart(n) \/ WaitForElders(n) \/ WaitForTurn(n)
    BY <1>1, QuietStepSynced DEF AddStart, AddGetStart, WaitForElders, WaitForTurn
<1>2. CASE DrainBegin(n)
    BY <1>2, QuietStepSynced, LocalsEffect DEF DrainBegin
<1>3. CASE DrainEnd(n)
    BY <1>3, QuietStepSynced, LocalsEffect DEF DrainEnd
<1>4. CASE AggregateGauges(n)
    BY <1>4, QuietStepSynced, LocalsEffect DEF AggregateGauges
<1>5. CASE DropForgotten(n)
    BY <1>5, DropForgottenSynced
<1>6. CASE UpdateCache(n) \/ UpdateDatabase(n) \/ ReadRecent(n) \/ RefreshRecent(n) \/ PutRecent(n)
    BY <1>6, WriteStepSynced
<1>7. CASE FinishThread(n)
    BY <1>7, QuietStepSynced, LocalsEffect DEF FinishThread
<1> QED
    BY <1>1, <1>2, <1>3, <1>4, <1>5, <1>6, <1>7 DEF FlushStep

\* The cleanup begins anew, whatever has raced before: a thread that is writing
\* now is what it may meet.
LEMMA CleanupSynced ==
    ASSUME Shape, Synced, CleanupBegin \/ CleanupStep
    PROVE  Synced'
<1> USE DEF Shape, Synced, CleanupSound
<1>0. UNCHANGED <<pc, flush>>
    BY DEF CleanupBegin, CleanupStep, CleanupMaps, CleanupRow, CleanupCache, CleanupEnd, flushVars
<1>1. CASE CleanupBegin
  <2>1. /\ cleanup.pc = "idle" /\ forget /\ UNCHANGED <<gaugeVars, behind, torn, forget>>
        /\ cleanup'.pc = "maps" /\ ~cleanup'.deleted /\ (cleanup'.gauge <=> cache # Null)
        /\ raced' = (\E n \in Threads : pc[n] \in Writing)
      BY <1>1 DEF CleanupBegin
  <2>2. ASSUME ~torn, RowSync PROVE RowSync'
      BY <1>0, <2>1, <2>2 DEF RowSync, Upserting, gaugeVars
  <2>3. ASSUME ~raced' PROVE RecentSync'
      BY <1>0, <2>1, <2>3 DEF RecentSync, OutOfTheWay, Ahead, gaugeVars
  <2> QED
      BY <2>1, <2>2, <2>3
<1>2. CASE CleanupMaps
    BY <1>0, <1>2 DEF CleanupMaps, CleanupTo, RowSync, Upserting, RecentSync, OutOfTheWay, Ahead, overlaps
<1>3. CASE CleanupRow
  <2>1. CASE row' = Null /\ cleanup' = [cleanup EXCEPT !.pc = "cache", !.deleted = TRUE] /\ torn' = Upserting
      BY <1>0, <1>3, <2>1
         DEF CleanupRow, RowSync, Upserting, RecentSync, OutOfTheWay, Ahead
  <2>2. CASE CleanupTo("end") /\ UNCHANGED <<row, behind, torn>>
      BY <1>0, <1>3, <2>2
         DEF CleanupRow, CleanupTo, RowSync, Upserting, RecentSync, OutOfTheWay, Ahead
  <2> QED
      BY <1>3, <2>1, <2>2 DEF CleanupRow, Upserting
<1>4. CASE CleanupCache
    BY <1>0, <1>4 DEF CleanupCache, CleanupTo, RowSync, Upserting, RecentSync, OutOfTheWay, Ahead, overlaps
<1>5. CASE CleanupEnd
    BY <1>0, <1>5 DEF CleanupEnd, NotCleaning, RowSync, Upserting, RecentSync, OutOfTheWay, Ahead,
                gaugeVars, overlaps
<1> QED
    BY <1>1, <1>2, <1>3, <1>4, <1>5 DEF CleanupStep

LEMMA NextSynced ==
    ASSUME Shape, Turns, OneWriter, Synced, [Next]_vars
    PROVE  Synced'
<1> USE DEF Synced, CleanupSound, RowSync, Upserting, RecentSync, OutOfTheWay, Ahead
<1>1. CASE ListenerStep \/ UNCHANGED vars
  <2>1. UNCHANGED <<flushVars, gaugeVars, overlaps, forgetVars>>
      BY <1>1 DEF ListenerStep, ReceivePacket, QueueMetric, vars
  <2> QED
      BY <2>1 DEF flushVars, gaugeVars, overlaps, forgetVars
<1>2. CASE ForgetMetric
    BY <1>2 DEF ForgetMetric, flushVars, gaugeVars, overlaps
<1>3. CASE CleanupBegin \/ CleanupStep
    BY <1>3, CleanupSynced
<1>4. CASE InvokeThread
  <2> DEFINE new == now + 1
  <2>1. new \in Threads /\ UNCHANGED <<flush, gaugeVars, overlaps, forgetVars>>
      BY <1>4, BoundsAssumption DEF Shape, InvokeThread
  <2>2. pc'[new] = "invoked" /\ \A m \in Threads \ {new} : pc'[m] = pc[m]
      BY <1>4, <2>1 DEF Shape, InvokeThread
  <2>3. pc[new] = "none"
      BY <2>1 DEF Shape, Turns
  <2> HIDE DEF new
  <2> QED
      BY <2>1, <2>2, <2>3 DEF gaugeVars, overlaps, forgetVars
<1>5. CASE \E n \in Threads : FlushStep(n)
    BY <1>5, FlushStepSynced
<1>6. CASE Restart
    BY <1>6 DEF Restart, FreshMemory, NotCleaning, NotStarted, Active, Shape
<1> QED
    BY <1>1, <1>2, <1>3, <1>4, <1>5, <1>6 DEF Next

LEMMA SyncedAtRest == Synced => RestartPicksUp /\ ResendsGauge
BY DEF Synced, RowSync, Upserting, RecentSync, Ahead, RestartPicksUp, ResendsGauge, AtRest, NoFlush, Active

LEMMA AlwaysSynced ==
    ASSUME OnTime
    PROVE  Spec => []Synced
<1>1. Init => Shape /\ Turns /\ Synced
    BY InitShape, InitSynced
<1>2. Shape /\ Turns /\ Synced /\ [Next]_vars => (Shape /\ Turns /\ Synced)'
    BY NextShape, NextTurns, TurnsGiveOneWriter, NextSynced
<1> QED
    BY <1>1, <1>2, PTL DEF Spec

\* At rest the row that a restart reads is the cached value, however cleanups
\* and flush threads overlap and through crashes and failed deletes
\* (StatsdThread.updateStatsdGaugesInDatabaseAndCache,
\* CleanupThread.cleanupGauges), unless the last update of the row failed
\* (behind) or a flush thread was between its two updates while the cleanup was
\* between its two deletes (torn), provided that each thread has listed its
\* start before the next is invoked.
THEOREM GaugeCopiesAgree ==
    ASSUME OnTime
    PROVE  Spec => []RestartPicksUp
BY AlwaysSynced, SyncedAtRest, PTL

\* At rest the value sent again is the cached one unless the gauge is still to
\* be forgotten, and a forgotten gauge is not sent again
\* (StatsdThread.updateMetricMostRecentValues, CleanupThread.cleanupGauges),
\* unless a flush thread was between its check of what to forget and its last
\* update of the value when the cleanup began, or came there before the cleanup
\* had removed the value (raced).
THEOREM GaugeResentAsCached ==
    ASSUME OnTime
    PROVE  Spec => []ResendsGauge
BY AlwaysSynced, SyncedAtRest, PTL

-----------------------------------------------------------------------------
(* The aggregated value and the types.                                     *)

Received ==
    /\ hand \in [Listeners -> [ts : Nat, ops : Seq(Ops)]]
    /\ metric \in Seq([ts : Nat, op : Ops])

LEMMA PacketsAreSequences == Packets \subseteq Seq(Ops)
<1> SUFFICES ASSUME NEW size \in 1..PacketSize, NEW ops \in [1..size -> Ops]
             PROVE  ops \in Seq(Ops)
  BY DEF Packets
<1>1. size \in Nat
  BY BoundsAssumption
<1> QED BY <1>1

\* Of the other locals of a thread, none is what it has drained.
LEMMA GotStays ==
    ASSUME Shape, NEW n \in Threads, NEW x,
           \/ flush' = [flush EXCEPT ![n].must = x]
           \/ flush' = [flush EXCEPT ![n].agg = x]
           \/ flush' = [flush EXCEPT ![n].held = x]
    PROVE  flush'[n].got = flush[n].got
<1>1. CASE flush' = [flush EXCEPT ![n].must = x]
  BY <1>1 DEF Shape
<1>2. CASE flush' = [flush EXCEPT ![n].agg = x]
  BY <1>2 DEF Shape
<1>3. CASE flush' = [flush EXCEPT ![n].held = x]
  BY <1>3 DEF Shape
<1> QED BY <1>1, <1>2, <1>3

LEMMA MaxIsGreatest ==
    ASSUME NEW N \in Nat, NEW T \in SUBSET (1..N), T # {}
    PROVE  Max(T) \in T /\ \A j \in T : j <= Max(T)
<1> DEFINE Gaps == {N - j : j \in T}
<1>1. PICK gap \in Gaps : \A g \in Gaps : gap <= g
  <2>1. ASSUME NEW g \in Gaps PROVE g \in Nat
    <3>1. PICK j \in 1..N : g = N - j
      BY <2>1
    <3> QED BY <3>1
  <2>2. Gaps # {}
    OBVIOUS
  <2> HIDE DEF Gaps
  <2> QED BY <2>1, <2>2, LeastElement
<1>2. PICK m \in T : gap = N - m
  OBVIOUS
<1>3. \A j \in T : m >= j
  <2> SUFFICES ASSUME NEW j \in T PROVE m >= j
    OBVIOUS
  <2>1. N - m <= N - j
    BY <1>1, <1>2
  <2> QED BY <2>1
<1>4. Max(T) \in T /\ \A j \in T : Max(T) >= j
  BY <1>3 DEF Max
<1> QED BY <1>4

LEMMA ApplyType ==
    ASSUME NEW value \in Values, NEW op \in Ops
    PROVE  Apply(value, op) \in Int
BY OpsAssumption DEF Apply, Values

LEMMA MetricTypes ==
    ASSUME Received
    PROVE  /\ Len(metric) \in Nat /\ DOMAIN metric = 1..Len(metric)
           /\ \A k \in 1..Len(metric) : metric[k].ts \in Nat /\ metric[k].op \in Ops
<1> DEFINE Metrics == [ts : Nat, op : Ops]
<1>1. metric \in Seq(Metrics)
  BY DEF Received
<1> HIDE DEF Metrics
<1>2. Len(metric) \in Nat /\ DOMAIN metric = 1..Len(metric)
  BY <1>1
<1>3. ASSUME NEW k \in 1..Len(metric) PROVE metric[k] \in Metrics
  BY <1>1, <1>2
<1> QED BY <1>2, <1>3 DEF Metrics

\* it[T] is what the metrics in T, some of the keys, give on top of the initial
\* value: the last of them is applied to what the others give.
IsAggregate(it, keys, initial) ==
    /\ it[{}] = initial
    /\ \A T \in SUBSET keys : it[T] \in Values
    /\ \A T \in SUBSET keys : \A k \in T :
          (\A j \in T : j <= k) => it[T] = Apply(it[T \ {k}], metric[k].op)

LEMMA GaugeFold ==
    ASSUME Received, NEW keys, keys \subseteq 1..Len(metric), keys # {}, NEW initial \in Values
    PROVE  \E it : IsAggregate(it, keys, initial) /\ AggregateGauge(keys, initial) = it[keys]
<1> DEFINE Eq(it) == it = [T \in SUBSET keys |->
                             IF T = {} THEN initial
                             ELSE Apply(it[T \ {Max(T)}], metric[Max(T)].op)]
           first == CHOOSE x \in keys : TRUE
           c == [T \in SUBSET keys |-> IF T = {} THEN first ELSE Max(T)]
           o == [p \in keys \X Values |-> Apply(p[2], metric[p[1]].op)]
<1>1. Len(metric) \in Nat /\ \A k \in keys : k \in Nat /\ metric[k].op \in Ops
  BY MetricTypes
<1>2. IsFiniteSet(keys)
  <2>1. 1 \in Int /\ Len(metric) \in Int
    BY <1>1
  <2>2. IsFiniteSet(1..Len(metric))
    BY <2>1, FS_Interval
  <2> QED BY <2>2, FS_Subset
<1>3. \A T \in SUBSET keys : T # {} => Max(T) \in T /\ \A j \in T : j <= Max(T)
  BY <1>1, MaxIsGreatest
<1>4. c \in Selections(keys)
  BY <1>3 DEF Selections
<1>5. o \in [keys \X Values -> Values]
  BY <1>1, ApplyType DEF Values
<1>6. \E it : Eq(it)
  <2> HIDE DEF o, c
  <2>1. PICK it \in [SUBSET keys -> Values] : IsFold(it, keys, initial, c, o)
    BY <1>2, <1>4, <1>5, FoldExists
  <2>2. it = [T \in SUBSET keys |->
                IF T = {} THEN initial ELSE o[<<c[T], it[T \ {c[T]}]>>]]
    BY <2>1 DEF IsFold
  <2>3. \A T \in SUBSET keys : T # {} =>
            o[<<c[T], it[T \ {c[T]}]>>] = Apply(it[T \ {Max(T)}], metric[Max(T)].op)
    <3> SUFFICES ASSUME NEW T \in SUBSET keys, T # {}
                 PROVE  o[<<c[T], it[T \ {c[T]}]>>] = Apply(it[T \ {Max(T)}], metric[Max(T)].op)
      OBVIOUS
    <3>1. c[T] = Max(T) /\ Max(T) \in keys /\ it[T \ {Max(T)}] \in Values
      BY <1>3, <2>1 DEF c
    <3> QED BY <3>1 DEF o
  <2>4. Eq(it)
    BY <2>2, <2>3
  <2> QED BY <2>4
<1> HIDE DEF Eq
<1>7. PICK it : it = (CHOOSE jt : Eq(jt)) /\ Eq(it)
  BY <1>6
<1>8. AggregateGauge(keys, initial) = it[keys]
  BY <1>7 DEF AggregateGauge, MapThenFoldSet, Eq
<1>9. \A T \in SUBSET keys :
         it[T] = IF T = {} THEN initial ELSE Apply(it[T \ {Max(T)}], metric[Max(T)].op)
  BY <1>7 DEF Eq
<1>10. \A T \in SUBSET keys : it[T] \in Values
  <2> DEFINE F == {T \in SUBSET keys : it[T] \in Values}
  <2>1. {} \in F
    BY <1>9
  <2>2. ASSUME NEW T \in SUBSET keys, T # {}, \A x \in T : T \ {x} \in F
        PROVE  T \in F
    <3>1. Max(T) \in T /\ Max(T) \in keys /\ T \ {Max(T)} \in F
      BY <1>3, <2>2
    <3>2. it[T \ {Max(T)}] \in Values
      BY <3>1
    <3>3. it[T] \in Int
      BY <1>1, <1>9, <2>2, <3>1, <3>2, ApplyType
    <3> QED BY <3>3 DEF Values
  <2>3. F \in SUBSET SUBSET keys
    OBVIOUS
  <2> HIDE DEF F
  <2>4. F = SUBSET keys
    BY <1>2, <2>1, <2>2, <2>3, SubsetInduction
  <2> QED BY <2>4 DEF F
<1>11. ASSUME NEW T \in SUBSET keys, NEW k \in T, \A j \in T : j <= k
       PROVE  it[T] = Apply(it[T \ {k}], metric[k].op)
  <2>1. Max(T) \in T /\ k <= Max(T)
    BY <1>3, <1>11
  <2>2. Max(T) \in Nat /\ k \in Nat /\ Max(T) <= k
    BY <1>1, <1>11, <2>1
  <2>3. Max(T) = k
    BY <2>1, <2>2
  <2> QED BY <1>9, <2>3
<1>12. IsAggregate(it, keys, initial)
  BY <1>9, <1>10, <1>11 DEF IsAggregate
<1> QED BY <1>8, <1>12

\* Keys that a thread holds are drawn.
Typed ==
    /\ TypeOK
    /\ Len(metric) <= MaxMetrics
    /\ \A n \in Threads : flush[n].must \cup flush[n].got \subseteq DOMAIN metric

LEMMA InitTyped == Init => Typed
<1> SUFFICES ASSUME Init PROVE Typed
  OBVIOUS
<1>1. metric = <<>> /\ Len(metric) = 0 /\ DOMAIN metric = {}
  BY DEF Init
<1>2. NoPacket \in [ts : Nat, ops : Seq(Ops)]
  BY DEF NoPacket
<1>3. hand \in [Listeners -> [ts : Nat, ops : Seq(Ops)]]
  BY <1>2 DEF Init
<1>4. NotStarted \in Flush
  BY DEF NotStarted, Flush, Values
<1>5. {cache, row, recent, ordered} \subseteq Values
  BY DEF Init, Values
<1>6. metric \in Seq([ts : Nat, op : Ops])
  BY <1>1
<1>7. cleanup \in [pc : CleanupPcs, gauge : BOOLEAN, deleted : BOOLEAN]
  BY DEF Init, NotCleaning
<1>8. /\ flush \in [Threads -> Flush]
      /\ \A n \in Threads : flush[n].must \cup flush[n].got \subseteq DOMAIN metric
  BY <1>4 DEF Init, NotStarted
<1>9. /\ now \in 0..MaxFlushes /\ forgets \in 0..MaxForgets /\ Len(metric) <= MaxMetrics
      /\ queue = {} /\ starts = {} /\ getStarts = {} /\ pc \in [Threads -> Pcs]
      /\ forget = FALSE /\ behind = FALSE /\ torn = FALSE /\ raced = FALSE
  BY <1>1, BoundsAssumption DEF Init
<1> QED
  BY <1>3, <1>5, <1>6, <1>7, <1>8, <1>9 DEF Typed, TypeOK

\* What a thread writes to its locals has their type.
LEMMA LocalsTyped ==
    ASSUME Typed, NEW n \in Threads, NEW x,
           \/ flush' = [flush EXCEPT ![n].must = x] /\ x \subseteq DOMAIN metric
           \/ flush' = [flush EXCEPT ![n].must = {}, ![n].got = x] /\ x \subseteq DOMAIN metric
           \/ flush' = [flush EXCEPT ![n].agg = x] /\ x \in Values
           \/ flush' = [flush EXCEPT ![n].held = x] /\ x \in Values,
           metric' = metric
    PROVE  /\ flush' \in [Threads -> Flush]
           /\ \A m \in Threads : flush'[m].must \cup flush'[m].got \subseteq DOMAIN metric'
<1>1. flush \in [Threads -> Flush] /\ DOMAIN metric \subseteq Hashes
  BY MetricTypes, BoundsAssumption DEF Typed, TypeOK, Received, Hashes
<1>2. \A m \in Threads : flush[m].must \cup flush[m].got \subseteq DOMAIN metric
  BY DEF Typed
<1>3. flush'[n] \in Flush /\ flush'[n].must \cup flush'[n].got \subseteq DOMAIN metric
  BY <1>1, <1>2 DEF Flush
<1>4. \A m \in Threads \ {n} : flush'[m] = flush[m]
  BY <1>1
<1>5. DOMAIN flush' = Threads /\ flush' = [m \in Threads |-> flush'[m]]
  BY <1>1
<1>6. flush' \in [Threads -> Flush]
  BY <1>1, <1>3, <1>4, <1>5
<1> QED BY <1>2, <1>3, <1>4, <1>6

LEMMA TypedShape == Typed => Shape /\ Received
BY DEF Typed, TypeOK, Shape, Received, Flush

LEMMA AggregateType ==
    ASSUME Typed, NEW n \in Threads
    PROVE  (IF flush[n].got = {} THEN Null ELSE AggregateGauge(flush[n].got, cache)) \in Values
<1>1. CASE flush[n].got = {}
  BY <1>1 DEF Values
<1>2. CASE flush[n].got # {}
  <2> DEFINE keys == flush[n].got
  <2>1. Received /\ keys \subseteq 1..Len(metric) /\ keys # {} /\ cache \in Values
    BY <1>2, TypedShape, MetricTypes DEF Typed, TypeOK
  <2> HIDE DEF keys
  <2>2. PICK it : IsAggregate(it, keys, cache) /\ AggregateGauge(keys, cache) = it[keys]
    BY <2>1, GaugeFold
  <2>3. AggregateGauge(keys, cache) \in Values
    BY <2>2 DEF IsAggregate
  <2> QED BY <1>2, <2>3 DEF keys
<1> QED BY <1>1, <1>2

\* What a step of a flush thread leaves alone.
LEMMA FlushStepLeaves ==
    ASSUME NEW n \in Threads, FlushStep(n)
    PROVE  UNCHANGED <<now, hand, metric, ordered, forgetVars>>
BY DEF FlushStep, AddStart, AddGetStart, WaitForElders, DrainBegin, DrainEnd, WaitForTurn,
       AggregateGauges, DropForgotten, UpdateCache, UpdateDatabase, ReadRecent, RefreshRecent,
       PutRecent, FinishThread, inputVars

LEMMA FlushStepTyped ==
    ASSUME Typed, NEW n \in Threads, FlushStep(n)
    PROVE  Typed'
<1> USE DEF gaugeVars, overlaps
<1>1. UNCHANGED <<now, hand, metric, ordered, forgetVars>> /\ Shape
  BY FlushStepLeaves, TypedShape
<1>2. SUFFICES /\ queue' \subseteq queue /\ starts' \subseteq Threads /\ getStarts' \subseteq Threads
               /\ pc' \in [Threads -> Pcs]
               /\ flush' \in [Threads -> Flush]
               /\ \A m \in Threads : flush'[m].must \cup flush'[m].got \subseteq DOMAIN metric'
               /\ cache' \in Values /\ row' \in Values /\ recent' \in Values
               /\ {behind', torn', raced'} \subseteq BOOLEAN
  BY <1>1 DEF Typed, TypeOK, forgetVars
<1>3. /\ starts \subseteq Threads /\ getStarts \subseteq Threads
      /\ pc \in [Threads -> Pcs]
      /\ flush \in [Threads -> Flush]
      /\ \A m \in Threads : flush[m].must \cup flush[m].got \subseteq DOMAIN metric
      /\ cache \in Values /\ row \in Values /\ recent \in Values
      /\ {behind, torn, raced} \subseteq BOOLEAN /\ queue \subseteq DOMAIN metric
  BY DEF Typed, TypeOK
<1>4. flush[n].agg \in Values /\ flush[n].held \in Values
  BY <1>3 DEF Flush
<1>5. CASE AddStart(n) \/ AddGetStart(n) \/ WaitForElders(n) \/ WaitForTurn(n)
  BY <1>1, <1>3, <1>5, StepEffect
     DEF AddStart, AddGetStart, WaitForElders, WaitForTurn, inputVars
<1>6. CASE DrainBegin(n)
  <2>1. Due(n) \subseteq DOMAIN metric
    BY <1>3 DEF Due
  <2>2. pc' \in [Threads -> Pcs] /\ UNCHANGED <<inputVars, starts, getStarts, gaugeVars, overlaps>>
    BY <1>1, <1>6, StepEffect DEF DrainBegin
  <2> QED BY <1>1, <1>3, <1>6, <2>1, <2>2, LocalsTyped DEF DrainBegin, inputVars
<1>7. CASE DrainEnd(n)
  <2>1. PICK got \in SUBSET (flush[n].must \cup Due(n)) :
            flush' = [flush EXCEPT ![n].must = {}, ![n].got = got] /\ queue' = queue \ got
    BY <1>7 DEF DrainEnd
  <2>2. got \subseteq DOMAIN metric
    BY <1>3, <2>1 DEF Due
  <2>3. pc' \in [Threads -> Pcs] /\ UNCHANGED <<starts, getStarts, gaugeVars, overlaps>>
    BY <1>1, <1>7, StepEffect DEF DrainEnd
  <2> QED BY <1>1, <1>3, <2>1, <2>2, <2>3, LocalsTyped
<1>8. CASE AggregateGauges(n)
  <2>1. pc' \in [Threads -> Pcs] /\ UNCHANGED <<inputVars, starts, getStarts, gaugeVars, overlaps>>
    BY <1>1, <1>8, StepEffect DEF AggregateGauges
  <2> QED BY <1>1, <1>3, <1>8, <2>1, AggregateType, LocalsTyped DEF AggregateGauges, inputVars
<1>9. CASE DropForgotten(n)
  <2>1. /\ pc' \in [Threads -> Pcs] /\ UNCHANGED <<inputVars, starts, getStarts, gaugeVars, behind, torn>>
        /\ raced' \in BOOLEAN
    <3>1. (raced \/ cleanup.pc = "maps") \in BOOLEAN
      OBVIOUS
    <3>2. raced' \in BOOLEAN
      BY <1>9, <3>1, Zenon DEF DropForgotten
    <3> QED BY <1>1, <1>9, <3>2, StepEffect DEF DropForgotten
  <2> DEFINE agg == IF forget THEN Null ELSE flush[n].agg
  <2>2. agg \in Values
    BY <1>4 DEF Values
  <2>3. flush' = [flush EXCEPT ![n].agg = agg]
    BY <1>3, <1>9 DEF DropForgotten, Flush
  <2> HIDE DEF agg
  <2> QED BY <1>1, <1>3, <2>1, <2>2, <2>3, LocalsTyped DEF inputVars
<1>10. CASE UpdateCache(n) \/ UpdateDatabase(n) \/ PutRecent(n)
  <2>1. pc' \in [Threads -> Pcs] /\ UNCHANGED <<inputVars, starts, getStarts, flush>>
    BY <1>1, <1>10, StepEffect DEF UpdateCache, UpdateDatabase, PutRecent
  <2>2. cache' \in {cache, flush[n].agg} /\ row' \in {row, flush[n].agg} /\ recent' \in {recent, flush[n].agg}
    BY <1>10 DEF UpdateCache, UpdateDatabase, PutRecent
  <2>3. behind' \in {behind, TRUE, FALSE} /\ raced' = raced
    BY <1>10 DEF UpdateCache, UpdateDatabase, PutRecent
  <2>4. torn' \in BOOLEAN
    <3>1. torn' \in {torn, (cleanup.pc = "cache")} /\ (cleanup.pc = "cache") \in BOOLEAN
      BY <1>10, Zenon DEF UpdateCache, UpdateDatabase, PutRecent
    <3> QED BY <1>3, <3>1, Zenon
  <2> QED BY <1>1, <1>3, <1>4, <2>1, <2>2, <2>3, <2>4 DEF inputVars
<1>11. CASE ReadRecent(n)
  <2>1. pc' \in [Threads -> Pcs] /\ UNCHANGED <<inputVars, starts, getStarts, gaugeVars, overlaps>>
    BY <1>1, <1>11, StepEffect DEF ReadRecent
  <2> QED BY <1>1, <1>3, <1>11, <2>1, LocalsTyped DEF ReadRecent, inputVars
<1>12. CASE RefreshRecent(n)
  <2>1. pc' \in [Threads -> Pcs] /\ UNCHANGED <<inputVars, starts, getStarts, cache, row, overlaps>>
    BY <1>1, <1>12, StepEffect DEF RefreshRecent
  <2>2. recent' \in {recent, flush[n].held} /\ Null \in Values
    BY <1>12 DEF RefreshRecent, Values
  <2> QED BY <1>1, <1>3, <1>4, <1>12, <2>1, <2>2, LocalsTyped DEF RefreshRecent, inputVars
<1>13. CASE FinishThread(n)
  <2>1. pc' \in [Threads -> Pcs] /\ UNCHANGED <<inputVars, getStarts, gaugeVars, overlaps>>
    BY <1>1, <1>13, StepEffect DEF FinishThread
  <2>2. starts' \subseteq Threads /\ Null \in Values
    BY <1>3, <1>13 DEF FinishThread, Values
  <2> QED BY <1>1, <1>3, <1>13, <2>1, <2>2, LocalsTyped DEF FinishThread, inputVars
<1> QED
  BY <1>5, <1>6, <1>7, <1>8, <1>9, <1>10, <1>11, <1>12, <1>13 DEF FlushStep

LEMMA NextTyped ==
    ASSUME Typed, [Next]_vars
    PROVE  Typed'
<1>1. CASE ListenerStep
  <2>1. UNCHANGED <<now, flushVars, gaugeVars, overlaps, forgetVars>>
    BY <1>1 DEF ListenerStep, ReceivePacket, QueueMetric
  <2>2. Shape /\ Received /\ Len(metric) \in Nat /\ DOMAIN metric = 1..Len(metric)
    BY TypedShape, MetricTypes
  <2>3. SUFFICES /\ hand' \in [Listeners -> [ts : Nat, ops : Seq(Ops)]]
                 /\ metric' \in Seq([ts : Nat, op : Ops])
                 /\ Len(metric') <= MaxMetrics
                 /\ DOMAIN metric \subseteq DOMAIN metric'
                 /\ queue' \subseteq DOMAIN metric'
                 /\ ordered' \in Values
    BY <2>1 DEF Typed, TypeOK, flushVars, gaugeVars, overlaps, forgetVars
  <2>4. ASSUME NEW l \in Listeners, NEW ts \in {now, now + 1}, NEW ops \in Packets, ReceivePacket(l, ts, ops)
        PROVE  hand' \in [Listeners -> [ts : Nat, ops : Seq(Ops)]] /\ UNCHANGED <<metric, queue, ordered>>
    <3>1. ops \in Seq(Ops) /\ ts \in Nat
      BY <2>2, PacketsAreSequences, BoundsAssumption DEF Shape
    <3>2. hand \in [Listeners -> [ts : Nat, ops : Seq(Ops)]]
      BY <2>2 DEF Received
    <3> QED BY <2>4, <3>1, <3>2 DEF ReceivePacket
  <2>5. ASSUME NEW l \in Listeners, QueueMetric(l)
        PROVE  /\ hand' \in [Listeners -> [ts : Nat, ops : Seq(Ops)]]
               /\ metric' \in Seq([ts : Nat, op : Ops])
               /\ Len(metric') = Len(metric) + 1 /\ Len(metric) < MaxMetrics
               /\ queue' = queue \cup {Len(metric) + 1}
               /\ ordered' \in Values
    <3> DEFINE new == [ts |-> hand[l].ts, op |-> Head(hand[l].ops)]
    <3>1. /\ hand[l].ops \in Seq(Ops) /\ hand[l].ops # <<>> /\ hand[l].ts \in Nat
      BY <2>2, <2>5 DEF QueueMetric, Received
    <3>2. Head(hand[l].ops) \in Ops /\ Tail(hand[l].ops) \in Seq(Ops)
      BY <3>1
    <3>3. new \in [ts : Nat, op : Ops]
      BY <3>1, <3>2
    <3>4. metric' = Append(metric, new) /\ ordered' = Apply(ordered, Head(hand[l].ops))
      BY <2>5 DEF QueueMetric
    <3>5. ordered' \in Values
      BY <3>2, <3>4, ApplyType DEF Typed, TypeOK, Values
    <3> HIDE DEF new
    <3>6. hand' \in [Listeners -> [ts : Nat, ops : Seq(Ops)]]
      BY <2>2, <2>5, <3>2 DEF QueueMetric, Received
    <3>7. metric' \in Seq([ts : Nat, op : Ops]) /\ Len(metric') = Len(metric) + 1
      BY <2>2, <3>3, <3>4 DEF Received
    <3>8. Len(metric) < MaxMetrics /\ queue' = queue \cup {Len(metric) + 1}
      BY <2>5 DEF QueueMetric
    <3> QED BY <3>5, <3>6, <3>7, <3>8
  <2>6. CASE \E l \in Listeners : \E ts \in {now, now + 1}, ops \in Packets : ReceivePacket(l, ts, ops)
    BY <2>4, <2>6 DEF Typed, TypeOK
  <2>7. CASE \E l \in Listeners : QueueMetric(l)
    <3>1. /\ hand' \in [Listeners -> [ts : Nat, ops : Seq(Ops)]]
          /\ metric' \in Seq([ts : Nat, op : Ops]) /\ ordered' \in Values
      BY <2>5, <2>7
    <3>2. /\ Len(metric') = Len(metric) + 1 /\ Len(metric) < MaxMetrics
          /\ queue' = queue \cup {Len(metric) + 1}
      BY <2>5, <2>7
    <3>3. DOMAIN metric' = 1..Len(metric')
      BY <3>1
    <3>4. queue \subseteq DOMAIN metric /\ MaxMetrics \in Nat
      BY BoundsAssumption DEF Typed, TypeOK
    <3>5. DOMAIN metric \subseteq DOMAIN metric' /\ queue' \subseteq DOMAIN metric' /\ Len(metric') <= MaxMetrics
      BY <2>2, <3>2, <3>3, <3>4
    <3> QED BY <3>1, <3>5
  <2> QED BY <1>1, <2>6, <2>7 DEF ListenerStep
<1>2. CASE InvokeThread
  <2>1. now + 1 \in Threads /\ now + 1 \in 0..MaxFlushes
    BY <1>2, BoundsAssumption DEF InvokeThread, Typed, TypeOK
  <2> QED BY <1>2, <2>1 DEF InvokeThread, Typed, TypeOK, inputVars, gaugeVars, overlaps, forgetVars
<1>3. CASE \E n \in Threads : FlushStep(n)
  BY <1>3, FlushStepTyped
<1>4. CASE ForgetMetric
  <2>1. forgets + 1 \in 0..MaxForgets
    BY <1>4, BoundsAssumption DEF ForgetMetric, Typed, TypeOK
  <2> QED BY <1>4, <2>1 DEF ForgetMetric, Typed, TypeOK, inputVars, flushVars, gaugeVars, overlaps
<1>5. CASE CleanupBegin \/ CleanupStep
  <2>1. cleanup' \in [pc : CleanupPcs, gauge : BOOLEAN, deleted : BOOLEAN]
    BY <1>5, CleanupShape, TypedShape
  <2>2. UNCHANGED <<now, inputVars, flushVars, forgets>>
    BY <1>5 DEF CleanupBegin, CleanupStep, CleanupMaps, CleanupRow, CleanupCache, CleanupEnd
  <2>3. cache' \in {cache, Null} /\ row' \in {row, Null} /\ recent' \in {recent, Null}
    BY <1>5 DEF CleanupBegin, CleanupStep, CleanupMaps, CleanupRow, CleanupCache, CleanupEnd, gaugeVars
  <2>4. behind' \in {behind, FALSE}
    BY <1>5 DEF CleanupBegin, CleanupStep, CleanupMaps, CleanupRow, CleanupCache, CleanupEnd, overlaps
  <2>5. forget' \in BOOLEAN
    <3>1. (cleanup.gauge /\ ~cleanup.deleted) \in BOOLEAN /\ forget \in BOOLEAN
      BY DEF Typed, TypeOK
    <3> QED BY <1>5, <3>1, Zenon
            DEF CleanupBegin, CleanupStep, CleanupMaps, CleanupRow, CleanupCache, CleanupEnd
  <2>6. {cache', row', recent', ordered'} \subseteq Values
    BY <2>2, <2>3 DEF Typed, TypeOK, Values, inputVars
  <2>7. {behind', torn', raced'} \subseteq BOOLEAN
    <3>1. /\ raced' \in {raced, \E n \in Threads : pc[n] \in Writing}
          /\ torn' \in {torn, \E n \in Threads : pc[n] = "upsert"}
      BY <1>5, Zenon
         DEF CleanupBegin, CleanupStep, CleanupMaps, CleanupRow, CleanupCache, CleanupEnd, overlaps
    <3>2. /\ (\E n \in Threads : pc[n] \in Writing) \in BOOLEAN
          /\ (\E n \in Threads : pc[n] = "upsert") \in BOOLEAN
      OBVIOUS
    <3>3. behind \in BOOLEAN /\ torn \in BOOLEAN /\ raced \in BOOLEAN
      BY DEF Typed, TypeOK
    <3>4. torn' \in BOOLEAN /\ raced' \in BOOLEAN
      BY <3>1, <3>2, <3>3, Zenon
    <3> QED BY <2>4, <3>3, <3>4
  <2> QED BY <2>1, <2>2, <2>5, <2>6, <2>7 DEF Typed, TypeOK, inputVars, flushVars
<1>6. CASE Restart
  <2>1. NoPacket \in [ts : Nat, ops : Seq(Ops)]
    BY DEF NoPacket
  <2>2. NotStarted \in Flush /\ NotStarted.must = {} /\ NotStarted.got = {}
    BY DEF NotStarted, Flush, Values
  <2>3. /\ hand' \in [Listeners -> [ts : Nat, ops : Seq(Ops)]]
        /\ flush' \in [Threads -> Flush]
        /\ \A n \in Threads : flush'[n].must = {} /\ flush'[n].got = {}
    BY <1>6, <2>1, <2>2 DEF Restart, FreshMemory
  <2>4. pc' \in [Threads -> Pcs]
    BY <1>6 DEF Restart, FreshMemory, Typed, TypeOK
  <2>5. /\ {cache', row', recent', ordered'} \subseteq Values /\ forget' = FALSE /\ behind' = FALSE
        /\ torn' = FALSE /\ raced' = FALSE
    BY <1>6 DEF Restart, FreshMemory, Typed, TypeOK
  <2>6. cleanup' \in [pc : CleanupPcs, gauge : BOOLEAN, deleted : BOOLEAN]
    BY <1>6 DEF Restart, FreshMemory, NotCleaning
  <2>7. UNCHANGED <<now, metric, forgets>> /\ queue' = {} /\ starts' = {} /\ getStarts' = {}
    BY <1>6 DEF Restart, FreshMemory
  <2> QED BY <2>3, <2>4, <2>5, <2>6, <2>7 DEF Typed, TypeOK
<1>7. CASE UNCHANGED vars
  BY <1>7 DEF vars, inputVars, flushVars, gaugeVars, overlaps, forgetVars, Typed, TypeOK
<1> QED BY <1>1, <1>2, <1>3, <1>4, <1>5, <1>6, <1>7 DEF Next

\* Every variable keeps its type, the aggregated values, which are folds over
\* the drained metrics, included.
THEOREM GaugeTypeCorrect == Spec => []TypeOK
<1>1. Typed => TypeOK
  BY DEF Typed
<1> QED BY <1>1, InitTyped, NextTyped, PTL DEF Spec

-----------------------------------------------------------------------------
(* The order of the metrics.                                               *)

\* A thread has taken its metrics and not yet put what they give in the cache.
Pending(n) == pc[n] \in {"turn", "gauge", "forget", "cache"}

\* A thread has had its turn, or has it now.
Settled(n) == pc[n] \in InTurn \cup {"done"}

\* What a thread met when it began to walk is still queued, or another has it.
Drains ==
    /\ \A n \in Threads : pc[n] \in {"none"} \cup (BeforeTurn \ {"turn"}) => flush[n].got = {}
    /\ \A n \in Threads : pc[n] = "aggregate" =>
          \A k \in flush[n].must : k \in queue \/ \E m \in Threads : k \in flush[m].got

\* The batches are in order, and so is what is queued: it goes to threads that
\* have their turns later.
InLine ==
    /\ BatchesInOrder
    /\ \A n \in Threads : Settled(n) => \A j \in flush[n].got, k \in queue : j < k

\* Queued, or taken by a thread that has not put it in the cache.
Waiting(k) == k \in queue \/ \E n \in Threads : Pending(n) /\ k \in flush[n].got

\* A thread has what the metrics up to its last give, or nothing.
Aggregated(n, v) ==
    /\ flush[n].got = {} => flush[n].agg = Null
    /\ \A k \in flush[n].got : (\A j \in flush[n].got : j <= k) => flush[n].agg = v[k]

\* The metrics up to d are in the cached value, and v[k] is what those up to k
\* give; the others are waiting.
Tally(d, v) ==
    /\ v[d] = cache
    /\ v[Len(metric)] = ordered
    /\ \A k \in (d + 1)..Len(metric) : v[k] \in Int /\ v[k] = Apply(v[k - 1], metric[k].op)
    /\ \A k \in 1..Len(metric) : d < k <=> Waiting(k)
    /\ \A n \in Threads : pc[n] \in {"forget", "cache"} => Aggregated(n, v)

\* Nothing is to be forgotten.
Remembered == forgets = 0 => ~forget /\ cleanup.pc = "idle"

OrderKept == forgets = 0 /\ InLine => \E d \in 0..Len(metric) : \E v : Tally(d, v)

LEMMA InitOrder ==
    ASSUME Init
    PROVE  Drains /\ Remembered /\ OrderKept
<1>1. Len(metric) = 0
  BY DEF Init
<1>2. \A n \in Threads : pc[n] = "none" /\ flush[n].got = {}
  BY DEF Init, NotStarted
<1>3. Drains /\ Remembered
  BY <1>2 DEF Drains, Remembered, Init, NotCleaning
<1>4. Tally(0, [k \in {0} |-> cache])
  BY <1>1, <1>2 DEF Tally, Init
<1> QED BY <1>1, <1>3, <1>4 DEF OrderKept

\* A step of a thread outside its walk of the queue leaves alone what it has taken.
LEMMA OtherStepGot ==
    ASSUME Shape, NEW n \in Threads, FlushStep(n), ~DrainBegin(n), ~DrainEnd(n)
    PROVE  /\ queue' = queue
           /\ \A m \in Threads : flush'[m].got = flush[m].got
           /\ pc[n] # "aggregate" /\ pc'[n] # "aggregate"
           /\ \A m \in Threads \ {n} : pc'[m] = pc[m] /\ flush'[m] = flush[m]
           /\ Settled(n) => Settled(n)'
           /\ pc'[n] \in {"none"} \cup (BeforeTurn \ {"turn"}) => pc[n] \in BeforeTurn \ {"turn"}
<1>1. CASE AddStart(n) \/ AddGetStart(n) \/ WaitForElders(n) \/ WaitForTurn(n)
  BY <1>1, StepEffect DEF AddStart, AddGetStart, WaitForElders, WaitForTurn, inputVars, Settled
<1>2. CASE AggregateGauges(n)
  BY <1>2, StepEffect, LocalsEffect, GotStays DEF AggregateGauges, inputVars, Settled
<1>3. CASE DropForgotten(n)
  BY <1>3, StepEffect, LocalsEffect, GotStays DEF DropForgotten, inputVars, Settled
<1>4. CASE UpdateCache(n) \/ UpdateDatabase(n) \/ PutRecent(n)
  BY <1>4, StepEffect DEF UpdateCache, UpdateDatabase, PutRecent, inputVars, Settled
<1>5. CASE ReadRecent(n)
  BY <1>5, StepEffect, LocalsEffect, GotStays DEF ReadRecent, inputVars, Settled
<1>6. CASE RefreshRecent(n)
  BY <1>6, StepEffect, LocalsEffect, GotStays DEF RefreshRecent, inputVars, Settled
<1>7. CASE FinishThread(n)
  BY <1>7, StepEffect, LocalsEffect, GotStays DEF FinishThread, inputVars, Settled
<1> QED BY <1>1, <1>2, <1>3, <1>4, <1>5, <1>6, <1>7 DEF FlushStep

LEMMA DrainBeginEffect ==
    ASSUME Shape, NEW n \in Threads, DrainBegin(n)
    PROVE  /\ pc[n] = "drain" /\ pc'[n] = "aggregate"
           /\ \A m \in Threads \ {n} : pc'[m] = pc[m] /\ flush'[m] = flush[m]
           /\ \A m \in Threads : flush'[m].got = flush[m].got
           /\ flush'[n].must \subseteq queue
           /\ UNCHANGED <<metric, queue, cache, ordered>>
<1>1. flush'[n].must = Due(n)
  BY DEF DrainBegin, Shape
<1> QED BY <1>1, StepEffect, LocalsEffect, GotStays DEF DrainBegin, Due, inputVars, gaugeVars

LEMMA DrainEndEffect ==
    ASSUME Shape, NEW n \in Threads, DrainEnd(n)
    PROVE  /\ pc[n] = "aggregate" /\ pc'[n] = "turn"
           /\ \A m \in Threads \ {n} : pc'[m] = pc[m] /\ flush'[m] = flush[m]
           /\ flush'[n].got \subseteq flush[n].must \cup queue
           /\ queue' = queue \ flush'[n].got
           /\ UNCHANGED <<metric, cache, ordered>>
<1>1. PICK got \in SUBSET (flush[n].must \cup Due(n)) :
          flush' = [flush EXCEPT ![n].must = {}, ![n].got = got] /\ queue' = queue \ got
  BY DEF DrainEnd
<1>2. flush'[n].got = got /\ Due(n) \subseteq queue
  BY <1>1 DEF Shape, Due
<1>3. \A m \in Threads \ {n} : flush'[m] = flush[m]
  BY <1>1, LocalsEffect
<1>4. pc[n] = "aggregate" /\ pc'[n] = "turn" /\ \A m \in Threads \ {n} : pc'[m] = pc[m]
  BY StepEffect DEF DrainEnd
<1>5. UNCHANGED <<metric, cache, ordered>>
  BY DEF DrainEnd, gaugeVars
<1> QED BY <1>1, <1>2, <1>3, <1>4, <1>5

LEMMA NextDrains ==
    ASSUME Shape, Turns, Drains, [Next]_vars
    PROVE  Drains'
<1>1. CASE ListenerStep
  <2>1. UNCHANGED flushVars /\ queue \subseteq queue'
    BY <1>1 DEF ListenerStep, ReceivePacket, QueueMetric
  <2> QED BY <2>1 DEF Drains, flushVars
<1>2. CASE \E n \in Threads : FlushStep(n)
  <2> SUFFICES ASSUME NEW n \in Threads, FlushStep(n) PROVE Drains'
    BY <1>2
  <2>1. CASE DrainBegin(n)
    BY <2>1, DrainBeginEffect DEF Drains
  <2>2. CASE DrainEnd(n)
    BY <2>2, DrainEndEffect DEF Drains
  <2>3. CASE ~DrainBegin(n) /\ ~DrainEnd(n)
    BY <2>3, OtherStepGot DEF Drains
  <2> QED BY <2>1, <2>2, <2>3
<1>3. CASE InvokeThread
  <2> DEFINE new == now + 1
  <2>1. new \in Threads /\ UNCHANGED <<queue, flush>>
    BY <1>3, BoundsAssumption DEF Shape, InvokeThread, inputVars
  <2>2. pc'[new] = "invoked" /\ \A m \in Threads \ {new} : pc'[m] = pc[m]
    BY <1>3, <2>1 DEF Shape, InvokeThread
  <2>3. pc[new] = "none"
    BY <2>1 DEF Shape, Turns
  <2> HIDE DEF new
  <2> QED BY <2>1, <2>2, <2>3 DEF Drains
<1>4. CASE ForgetMetric \/ CleanupBegin \/ CleanupStep
  <2>1. UNCHANGED <<inputVars, flushVars>>
    BY <1>4 DEF ForgetMetric, CleanupBegin, CleanupStep, CleanupMaps, CleanupRow, CleanupCache,
          CleanupEnd
  <2> QED BY <2>1 DEF Drains, inputVars, flushVars
<1>5. CASE Restart
  <2>1. \A n \in Threads : pc'[n] # "aggregate" /\ flush'[n].got = {}
    BY <1>5 DEF Restart, FreshMemory, Active, NotStarted
  <2> QED BY <2>1 DEF Drains
<1>6. CASE UNCHANGED vars
  BY <1>6 DEF vars, inputVars, flushVars, Drains
<1> QED BY <1>1, <1>2, <1>3, <1>4, <1>5, <1>6 DEF Next

\* Once out of line the metrics stay so, until a restart.
LEMMA InLineBefore ==
    ASSUME Shape, Turns, Drains, [Next]_vars, ~Restart, InLine'
    PROVE  InLine
<1>1. ASSUME queue \subseteq queue', \A n \in Threads : flush'[n].got = flush[n].got,
             \A n \in Threads : Settled(n) => Settled(n)'
      PROVE  InLine
  BY <1>1 DEF InLine, BatchesInOrder
<1>2. CASE ListenerStep \/ ForgetMetric \/ CleanupBegin \/ CleanupStep \/ UNCHANGED vars
  <2>1. queue \subseteq queue' /\ UNCHANGED flushVars
    BY <1>2 DEF ListenerStep, ReceivePacket, QueueMetric, ForgetMetric, CleanupBegin, CleanupStep,
          CleanupMaps, CleanupRow, CleanupCache, CleanupEnd, vars, inputVars
  <2> QED BY <1>1, <2>1 DEF Settled, flushVars
<1>3. CASE InvokeThread
  <2> DEFINE new == now + 1
  <2>1. new \in Threads /\ UNCHANGED <<queue, flush>>
    BY <1>3, BoundsAssumption DEF Shape, InvokeThread, inputVars
  <2>2. pc'[new] = "invoked" /\ \A m \in Threads \ {new} : pc'[m] = pc[m]
    BY <1>3, <2>1 DEF Shape, InvokeThread
  <2>3. pc[new] = "none"
    BY <2>1 DEF Shape, Turns
  <2> HIDE DEF new
  <2>4. \A n \in Threads : Settled(n) => Settled(n)'
    BY <2>2, <2>3 DEF Settled
  <2> QED BY <1>1, <2>1, <2>4
<1>4. ASSUME NEW n \in Threads, DrainBegin(n) PROVE InLine
  BY <1>1, <1>4, DrainBeginEffect DEF Settled
<1>5. ASSUME NEW n \in Threads, DrainEnd(n) PROVE InLine
  <2>1. /\ pc[n] = "aggregate" /\ pc'[n] = "turn" /\ flush[n].got = {}
        /\ \A m \in Threads \ {n} : pc'[m] = pc[m] /\ flush'[m].got = flush[m].got
        /\ queue' = queue \ flush'[n].got
    BY <1>5, DrainEndEffect DEF Drains
  <2>2. BatchesInOrder
    BY <2>1 DEF InLine, BatchesInOrder
  <2>3. ASSUME NEW m \in Threads, Settled(m), NEW j \in flush[m].got, NEW k \in queue
        PROVE  j < k
    <3>1. m # n /\ m <= n /\ Settled(m)' /\ j \in flush'[m].got
      BY <2>1, <2>3 DEF Settled, Turns, Active
    <3>2. m < n
      BY <3>1
    <3>3. CASE k \in queue'
      BY <3>1, <3>3 DEF InLine
    <3>4. CASE k \in flush'[n].got
      BY <3>1, <3>2, <3>4 DEF InLine, BatchesInOrder
    <3> QED BY <2>1, <3>3, <3>4
  <2> QED BY <2>2, <2>3 DEF InLine
<1>6. ASSUME NEW n \in Threads, FlushStep(n), ~DrainBegin(n), ~DrainEnd(n) PROVE InLine
  <2>1. \A m \in Threads : Settled(m) => Settled(m)'
    BY <1>6, OtherStepGot DEF Settled
  <2> QED BY <1>1, <1>6, <2>1, OtherStepGot
<1> QED BY <1>2, <1>3, <1>4, <1>5, <1>6 DEF Next

LEMMA NextRemembered ==
    ASSUME Typed, Remembered, [Next]_vars
    PROVE  Remembered'
<1>1. CASE ForgetMetric
  <2>1. forgets \in Nat /\ forgets' = forgets + 1
    BY <1>1, BoundsAssumption DEF ForgetMetric, Typed, TypeOK
  <2> QED BY <2>1 DEF Remembered
<1>2. CASE ListenerStep \/ InvokeThread \/ UNCHANGED vars
  BY <1>2 DEF ListenerStep, ReceivePacket, QueueMetric, InvokeThread, vars, forgetVars, Remembered
<1>3. CASE \E n \in Threads : FlushStep(n)
  BY <1>3, FlushStepLeaves DEF forgetVars, Remembered
<1>4. CASE CleanupBegin \/ CleanupStep
  BY <1>4 DEF CleanupBegin, CleanupStep, CleanupMaps, CleanupRow, CleanupCache, CleanupEnd, Remembered
<1>5. CASE Restart
  BY <1>5 DEF Restart, FreshMemory, NotCleaning, Remembered
<1> QED BY <1>1, <1>2, <1>3, <1>4, <1>5 DEF Next

-----------------------------------------------------------------------------
(* The gauge in order.                                                     *)

\* Aggregating the metrics from the one after d to e gives what those up to e give.
LEMMA AggregateInOrder ==
    ASSUME Typed, NEW d \in 0..Len(metric), NEW v, Tally(d, v), NEW e \in (d + 1)..Len(metric)
    PROVE  AggregateGauge((d + 1)..e, cache) = v[e]
<1>1. Received /\ Len(metric) \in Nat /\ d \in Nat /\ e \in Nat /\ d < e /\ e <= Len(metric)
  BY TypedShape, MetricTypes
<1> DEFINE upTo(n) == (d + 1)..(d + n)
           keys == (d + 1)..e
<1>2. keys \subseteq 1..Len(metric) /\ keys # {} /\ cache \in Values
  <2>1. keys \subseteq 1..Len(metric) /\ e \in keys
    BY <1>1
  <2>2. cache \in Values
    BY DEF Typed, TypeOK
  <2> QED BY <2>1, <2>2
<1> HIDE DEF keys
<1>3. PICK it : IsAggregate(it, keys, cache) /\ AggregateGauge(keys, cache) = it[keys]
  BY <1>1, <1>2, GaugeFold
<1> DEFINE N == {n \in Nat : d + n <= e => it[upTo(n)] = v[d + n]}
<1>4. 0 \in N
  <2>1. upTo(0) = {} /\ d + 0 = d
    BY <1>1
  <2>2. it[{}] = v[d]
    BY <1>3 DEF IsAggregate, Tally
  <2> HIDE DEF upTo
  <2> QED BY <2>1, <2>2
<1>5. ASSUME NEW n \in N
      PROVE  n + 1 \in N
  <2> SUFFICES ASSUME d + (n + 1) <= e
               PROVE  it[upTo(n + 1)] = v[d + (n + 1)]
    OBVIOUS
  <2> DEFINE k == d + (n + 1)
  <2>1. /\ n \in Nat /\ k \in (d + 1)..Len(metric) /\ k - 1 = d + n /\ d + n <= e
        /\ it[upTo(n)] = v[d + n]
    BY <1>1
  <2>2. /\ upTo(n + 1) \in SUBSET keys /\ k \in upTo(n + 1)
        /\ \A j \in upTo(n + 1) : j <= k
        /\ upTo(n + 1) \ {k} = upTo(n)
    BY <1>1, <2>1 DEF keys
  <2> HIDE DEF upTo, k
  <2>3. it[upTo(n + 1)] = Apply(it[upTo(n)], metric[k].op)
    BY <1>3, <2>2 DEF IsAggregate
  <2>4. v[k] = Apply(v[k - 1], metric[k].op)
    BY <2>1 DEF Tally
  <2>5. it[upTo(n + 1)] = v[k]
    BY <2>1, <2>3, <2>4
  <2> QED BY <2>5 DEF k
<1>6. N = Nat
  <2>1. N \in SUBSET Nat
    OBVIOUS
  <2> HIDE DEF N
  <2> QED BY <1>4, <1>5, <2>1, Induction
<1>7. e - d \in N
  <2>1. e - d \in Nat
    BY <1>1
  <2> HIDE DEF N
  <2> QED BY <1>6, <2>1
<1>8. it[upTo(e - d)] = v[d + (e - d)] /\ d + (e - d) = e
  BY <1>1, <1>7
<1> QED BY <1>3, <1>8 DEF keys

\* The thread that has its turn has taken the first metrics that are not
\* yet in the cached value.
LEMMA EldestIsNext ==
    ASSUME Typed, Turns, InLine, NEW d \in 0..Len(metric), NEW v, Tally(d, v),
           NEW n \in Threads, Pending(n), pc[n] \in InTurn, flush[n].got # {}
    PROVE  \E e \in (d + 1)..Len(metric) : flush[n].got = (d + 1)..e
<1> DEFINE got == flush[n].got
           e == Max(got)
<1>1. Len(metric) \in Nat /\ d \in Nat /\ got \in SUBSET (1..Len(metric))
  BY TypedShape, MetricTypes DEF Typed
<1>2. e \in got /\ \A k \in got : k <= e
  BY <1>1, MaxIsGreatest
<1>3. \A k \in got : d < k
  BY <1>1 DEF Tally, Waiting
<1>4. ASSUME NEW k \in (d + 1)..e
      PROVE  k \in got
  <2>1. k \in 1..Len(metric) /\ d < k /\ ~(e < k)
    BY <1>1, <1>2, <1>4
  <2>2. Waiting(k)
    BY <2>1 DEF Tally
  <2>3. k \notin queue
    BY <1>2, <2>1 DEF InLine, Settled
  <2>4. PICK m \in Threads : Pending(m) /\ k \in flush[m].got
    BY <2>2, <2>3 DEF Waiting
  <2>5. m = n \/ n < m
    <3>1. n <= m
      BY <2>4 DEF Turns, Active, Pending
    <3> QED BY <3>1
  <2>6. ~(n < m)
    BY <1>2, <2>1, <2>4 DEF InLine, BatchesInOrder
  <2> QED BY <2>4, <2>5, <2>6
<1>5. e \in (d + 1)..Len(metric)
  BY <1>1, <1>2, <1>3
<1>6. got = (d + 1)..e
  <2>1. ASSUME NEW k \in got PROVE k \in (d + 1)..e
    BY <1>1, <1>2, <1>3
  <2> HIDE DEF got, e
  <2> QED BY <1>4, <2>1
<1> QED BY <1>5, <1>6

\* What keeps every tally: the same metrics wait, and no thread has aggregated.
LEMMA TallyKept ==
    ASSUME NEW d, NEW v, Tally(d, v), UNCHANGED <<metric, cache, ordered>>,
           \A k \in 1..Len(metric) : Waiting(k)' <=> Waiting(k),
           \A n \in Threads : pc'[n] \in {"forget", "cache"} => Aggregated(n, v)'
    PROVE  Tally(d, v)'
BY DEF Tally

LEMMA OtherStepTally ==
    ASSUME Shape, NEW d, NEW v, Tally(d, v),
           NEW n \in Threads, NEW from, NEW to \in Pcs, Step(n, from, to),
           to \in {"forget", "cache"} => Aggregated(n, v)',
           Pending(n)' <=> Pending(n),
           \A m \in Threads \ {n} : flush'[m] = flush[m],
           flush'[n].got = flush[n].got,
           UNCHANGED <<metric, queue, cache, ordered>>
    PROVE  Tally(d, v)'
<1>1. pc[n] = from /\ pc'[n] = to /\ \A m \in Threads \ {n} : pc'[m] = pc[m]
  BY StepEffect
<1>2. \A m \in Threads : flush'[m].got = flush[m].got /\ (Pending(m)' <=> Pending(m))
  BY <1>1 DEF Pending
<1>3. \A k : Waiting(k)' <=> Waiting(k)
  BY <1>2 DEF Waiting
<1>4. ASSUME NEW m \in Threads, pc'[m] \in {"forget", "cache"}
      PROVE  Aggregated(m, v)'
  <2>1. CASE m = n
    BY <1>1, <1>4, <2>1
  <2>2. CASE m # n
    BY <1>1, <1>4, <2>2 DEF Tally, Aggregated
  <2> QED BY <2>1, <2>2
<1> QED BY <1>3, <1>4, TallyKept

LEMMA UpdateCacheTally ==
    ASSUME Typed, Turns, InLine, OneWriter,
           NEW d \in 0..Len(metric), NEW v, Tally(d, v), NEW n \in Threads, UpdateCache(n)
    PROVE  \E e \in 0..Len(metric) : Tally(e, v)'
<1>1. /\ Shape /\ pc[n] = "cache" /\ pc'[n] \in {"refresh", "upsert"}
      /\ \A m \in Threads \ {n} : pc'[m] = pc[m]
      /\ UNCHANGED <<metric, queue, ordered, flush>>
  BY TypedShape, StepEffect DEF UpdateCache, inputVars
<1>2. \A m \in Threads : pc'[m] \notin {"forget", "cache"}
  BY <1>1 DEF OneWriter
<1>3. Aggregated(n, v)
  BY <1>1 DEF Tally
<1>4. \A m \in Threads : Pending(m)' <=> Pending(m) /\ m # n
  BY <1>1 DEF Pending
<1>5. CASE flush[n].got = {}
  <2>1. cache' = cache
    BY <1>3, <1>5 DEF UpdateCache, Aggregated
  <2>2. \A k : Waiting(k)' <=> Waiting(k)
    BY <1>1, <1>4, <1>5 DEF Waiting
  <2>3. Tally(d, v)'
    BY <1>1, <1>2, <2>1, <2>2, TallyKept
  <2> QED BY <2>3
<1>6. CASE flush[n].got # {}
  <2>1. Pending(n) /\ pc[n] \in InTurn
    BY <1>1 DEF Pending
  <2>2. PICK e \in (d + 1)..Len(metric) : flush[n].got = (d + 1)..e
    BY <1>6, <2>1, EldestIsNext
  <2>3. Len(metric) \in Nat /\ d \in Nat /\ e \in Nat /\ d < e
    BY TypedShape, MetricTypes
  <2>4. flush[n].agg = v[e] /\ v[e] \in Int
    <3>1. e \in flush[n].got /\ \A j \in flush[n].got : j <= e
      BY <2>2, <2>3
    <3> QED BY <1>3, <3>1 DEF Aggregated, Tally
  <2>5. cache' = v[e]
    BY <2>4, BoundsAssumption DEF UpdateCache
  <2>6. ASSUME NEW k \in 1..Len(metric)
        PROVE  e < k <=> Waiting(k)'
    <3>1. k \in flush[n].got <=> d < k /\ k <= e
      BY <2>2, <2>3
    <3>2. k \in flush[n].got => k \notin queue /\ \A m \in Threads \ {n} : k \notin flush[m].got
      <4>1. ~(k < k) /\ \A m \in Threads \ {n} : m < n \/ n < m
        BY <2>3
      <4> QED BY <2>1, <4>1 DEF InLine, BatchesInOrder, Settled
    <3>3. Waiting(k)' <=> Waiting(k) /\ k \notin flush[n].got
      BY <1>1, <1>4, <2>1, <3>2 DEF Waiting
    <3>4. Waiting(k) <=> d < k
      BY DEF Tally
    <3> QED BY <2>3, <3>1, <3>3, <3>4
  <2>7. \A k \in (e + 1)..Len(metric) : v[k] \in Int /\ v[k] = Apply(v[k - 1], metric[k].op)
    BY <2>3 DEF Tally
  <2>8. v[Len(metric)] = ordered
    BY DEF Tally
  <2>9. Tally(e, v)'
    BY <1>1, <1>2, <2>5, <2>6, <2>7, <2>8 DEF Tally
  <2>10. e \in 0..Len(metric)
    BY <2>3
  <2> QED BY <2>9, <2>10
<1> QED BY <1>5, <1>6

LEMMA AggregateGaugesTally ==
    ASSUME Typed, Turns, InLine,
           NEW d \in 0..Len(metric), NEW v, Tally(d, v), NEW n \in Threads, AggregateGauges(n)
    PROVE  Tally(d, v)'
<1>1. /\ Shape /\ Step(n, "gauge", "forget") /\ pc[n] = "gauge" /\ pc'[n] = "forget"
      /\ \A m \in Threads \ {n} : flush'[m] = flush[m]
      /\ flush'[n].got = flush[n].got
      /\ UNCHANGED <<metric, queue, cache, ordered>>
  BY TypedShape, StepEffect, LocalsEffect, GotStays DEF AggregateGauges, inputVars, gaugeVars
<1>2. flush'[n].agg = IF flush[n].got = {} THEN Null ELSE AggregateGauge(flush[n].got, cache)
  BY <1>1 DEF AggregateGauges, Shape
<1>3. Pending(n)' <=> Pending(n)
  BY <1>1 DEF Pending
<1>4. Aggregated(n, v)'
  <2>1. CASE flush[n].got = {}
    BY <1>1, <1>2, <2>1 DEF Aggregated
  <2>2. CASE flush[n].got # {}
    <3>1. Pending(n) /\ pc[n] \in InTurn
      BY <1>1 DEF Pending
    <3>2. PICK e \in (d + 1)..Len(metric) : flush[n].got = (d + 1)..e
      BY <2>2, <3>1, EldestIsNext
    <3>3. flush'[n].agg = v[e]
      BY <1>2, <2>2, <3>2, AggregateInOrder
    <3>4. \A k \in flush[n].got : (\A j \in flush[n].got : j <= k) => k = e
      <4>1. Len(metric) \in Nat /\ d \in Nat
        BY TypedShape, MetricTypes
      <4> QED BY <3>2, <4>1
    <3> QED BY <1>1, <2>2, <3>3, <3>4 DEF Aggregated
  <2> QED BY <2>1, <2>2
<1> QED BY <1>1, <1>3, <1>4, OtherStepTally

LEMMA FlushStepTally ==
    ASSUME Typed, Turns, Drains, InLine, InLine', OneWriter, ~forget,
           NEW d \in 0..Len(metric), NEW v, Tally(d, v), NEW n \in Threads, FlushStep(n)
    PROVE  \E e \in 0..Len(metric) : Tally(e, v)'
<1>0. Shape /\ UNCHANGED <<metric, ordered>>
  BY TypedShape, FlushStepLeaves
<1>1. CASE AddStart(n) \/ AddGetStart(n) \/ WaitForElders(n) \/ WaitForTurn(n)
  <2>1. Tally(d, v)'
    BY <1>0, <1>1, OtherStepTally, StepEffect
       DEF AddStart, AddGetStart, WaitForElders, WaitForTurn, inputVars, gaugeVars, Pending
  <2> QED BY <2>1
<1>2. CASE UpdateDatabase(n) \/ PutRecent(n)
  <2>1. Tally(d, v)'
    BY <1>0, <1>2, OtherStepTally, StepEffect DEF UpdateDatabase, PutRecent, inputVars, Pending
  <2> QED BY <2>1
<1>3. CASE ReadRecent(n) \/ RefreshRecent(n) \/ FinishThread(n) \/ DrainBegin(n)
  <2>1. \E from \in Pcs, to \in Pcs \ {"turn", "gauge", "forget", "cache"} :
            Step(n, from, to) /\ from \notin {"turn", "gauge", "forget", "cache"}
    BY <1>3 DEF ReadRecent, RefreshRecent, FinishThread, DrainBegin
  <2>2. /\ \A m \in Threads \ {n} : flush'[m] = flush[m]
        /\ flush'[n].got = flush[n].got
        /\ UNCHANGED <<queue, cache>>
    BY <1>0, <1>3, LocalsEffect, GotStays
       DEF ReadRecent, RefreshRecent, FinishThread, DrainBegin, inputVars, gaugeVars
  <2>3. Pending(n)' <=> Pending(n)
    BY <1>0, <2>1, StepEffect DEF Pending
  <2>4. Tally(d, v)'
    BY <1>0, <2>1, <2>2, <2>3, OtherStepTally
  <2> QED BY <2>4
<1>4. CASE DrainEnd(n)
  <2>1. /\ pc[n] = "aggregate" /\ pc'[n] = "turn"
        /\ \A m \in Threads \ {n} : pc'[m] = pc[m] /\ flush'[m] = flush[m]
        /\ flush'[n].got \subseteq flush[n].must \cup queue
        /\ queue' = queue \ flush'[n].got /\ cache' = cache
    BY <1>0, <1>4, DrainEndEffect
  <2>2. ASSUME NEW k \in flush'[n].got
        PROVE  k \in queue
    <3> SUFFICES ASSUME k \notin queue PROVE FALSE
      OBVIOUS
    <3>1. PICK m \in Threads : k \in flush[m].got
      BY <2>1, <2>2 DEF Drains
    <3>2. m # n
      BY <2>1, <3>1 DEF Drains
    <3>3. k \in flush'[m].got /\ (m < n \/ n < m)
      BY <2>1, <3>1, <3>2
    <3>4. k < k
      BY <2>2, <3>3 DEF InLine, BatchesInOrder
    <3>5. k \in Int
      BY <3>1, TypedShape, MetricTypes DEF Typed
    <3> QED BY <3>4, <3>5
  <2>3. Pending(n)' /\ ~Pending(n) /\ \A m \in Threads \ {n} : Pending(m)' <=> Pending(m)
    BY <2>1 DEF Pending
  <2>4. \A k : Waiting(k)' <=> Waiting(k)
    BY <2>1, <2>2, <2>3 DEF Waiting
  <2>5. \A m \in Threads : pc'[m] \in {"forget", "cache"} => Aggregated(m, v)'
    BY <2>1 DEF Tally, Aggregated
  <2>6. Tally(d, v)'
    BY <1>0, <2>1, <2>4, <2>5, TallyKept
  <2> QED BY <2>6
<1>5. CASE AggregateGauges(n)
  BY <1>5, AggregateGaugesTally
<1>6. CASE DropForgotten(n)
  <2>1. /\ Step(n, "forget", "cache") /\ pc[n] = "forget" /\ pc'[n] = "cache"
        /\ \A m \in Threads \ {n} : flush'[m] = flush[m]
        /\ flush'[n].got = flush[n].got
        /\ UNCHANGED <<queue, cache>>
    BY <1>0, <1>6, StepEffect, LocalsEffect, GotStays DEF DropForgotten, inputVars, gaugeVars
  <2>2. flush'[n].agg = flush[n].agg
    BY <1>0, <1>6 DEF DropForgotten, Shape
  <2>3. Aggregated(n, v)'
    BY <2>1, <2>2 DEF Tally, Aggregated
  <2>4. Pending(n)' <=> Pending(n)
    BY <2>1 DEF Pending
  <2>5. Tally(d, v)'
    BY <1>0, <2>1, <2>3, <2>4, OtherStepTally
  <2> QED BY <2>5
<1>7. CASE UpdateCache(n)
  BY <1>7, UpdateCacheTally
<1> QED BY <1>1, <1>2, <1>3, <1>4, <1>5, <1>6, <1>7 DEF FlushStep

LEMMA QueueMetricTally ==
    ASSUME Typed, NEW d \in 0..Len(metric), NEW v, Tally(d, v), NEW l \in Listeners, QueueMetric(l)
    PROVE  \E e \in 0..Len(metric') : \E w : Tally(e, w)'
<1> DEFINE last == Len(metric) + 1
           new == [ts |-> hand[l].ts, op |-> Head(hand[l].ops)]
<1>1. Shape /\ Received /\ Len(metric) \in Nat /\ d \in Nat /\ d <= Len(metric)
  BY TypedShape, MetricTypes
<1>2. hand[l].ops \in Seq(Ops) /\ hand[l].ops # <<>> /\ new.op \in Ops
  BY <1>1 DEF QueueMetric, Received
<1>3. /\ metric' = Append(metric, new) /\ ordered' = Apply(ordered, new.op)
      /\ queue' = queue \cup {last} /\ UNCHANGED <<pc, flush, cache>>
  BY DEF QueueMetric, flushVars, gaugeVars
<1>4. ordered' \in Int
  BY <1>2, <1>3, ApplyType DEF Typed, TypeOK
<1> HIDE DEF new
<1>5. /\ Len(metric') = last /\ metric'[last] = new
      /\ \A k \in 1..Len(metric) : metric'[k] = metric[k]
  BY <1>1, <1>3 DEF Received
<1>6. \A n \in Threads : \A k \in flush[n].got : k \in 1..Len(metric)
  BY <1>1, MetricTypes DEF Typed
<1>7. PICK w : w[last] = ordered' /\ \A k \in 0..Len(metric) : w[k] = v[k]
  <2> DEFINE f == [k \in 0..last |-> IF k = last THEN ordered' ELSE v[k]]
  <2>1. f[last] = ordered' /\ \A k \in 0..Len(metric) : f[k] = v[k]
    BY <1>1
  <2> QED BY <2>1
<1>8. w[d] = cache' /\ w[Len(metric')] = ordered'
  BY <1>1, <1>3, <1>5, <1>7 DEF Tally
<1>9. ASSUME NEW k \in (d + 1)..Len(metric')
      PROVE  w[k] \in Int /\ w[k] = Apply(w[k - 1], metric'[k].op)
  <2>1. CASE k = last
    <3>1. k - 1 = Len(metric) /\ w[k - 1] = ordered
      BY <1>1, <1>7, <2>1 DEF Tally
    <3> QED BY <1>3, <1>4, <1>5, <1>7, <2>1, <3>1
  <2>2. CASE k # last
    <3>1. k \in (d + 1)..Len(metric) /\ k \in 1..Len(metric) /\ k - 1 \in 0..Len(metric) /\ k \in 0..Len(metric)
      BY <1>1, <1>5, <1>9, <2>2
    <3>2. v[k] \in Int /\ v[k] = Apply(v[k - 1], metric[k].op)
      BY <3>1 DEF Tally
    <3> QED BY <1>5, <1>7, <3>1, <3>2
  <2> QED BY <2>1, <2>2
<1>10. ASSUME NEW k \in 1..Len(metric')
       PROVE  d < k <=> Waiting(k)'
  <2>1. CASE k = last
    BY <1>1, <1>3, <2>1 DEF Waiting
  <2>2. CASE k # last
    <3>1. k \in 1..Len(metric)
      BY <1>1, <1>5, <1>10, <2>2
    <3>2. Waiting(k)' <=> Waiting(k)
      BY <1>3, <2>2 DEF Waiting, Pending
    <3> QED BY <3>1, <3>2 DEF Tally
  <2> QED BY <2>1, <2>2
<1>11. ASSUME NEW n \in Threads, pc'[n] \in {"forget", "cache"}
       PROVE  Aggregated(n, w)'
  <2>1. Aggregated(n, v)
    BY <1>3, <1>11 DEF Tally
  <2>2. \A k \in flush[n].got : w[k] = v[k]
    BY <1>1, <1>6, <1>7
  <2> QED BY <1>3, <2>1, <2>2 DEF Aggregated
<1>12. Tally(d, w)'
  BY <1>8, <1>9, <1>10, <1>11 DEF Tally
<1> QED BY <1>1, <1>5, <1>12

LEMMA RestartOrder ==
    ASSUME Typed, Restart
    PROVE  OrderKept'
<1>1. PICK w : w = [k \in 0..Len(metric) |-> row]
  OBVIOUS
<1>2. Len(metric) \in Nat
  BY TypedShape, MetricTypes
<1>3. cache' = row /\ ordered' = row /\ metric' = metric /\ queue' = {}
  BY DEF Restart, FreshMemory
<1>4. \A n \in Threads : pc'[n] \in {"none", "done"}
  BY TypedShape DEF Restart, FreshMemory, Active
<1>5. \A k : ~Waiting(k)'
  BY <1>3, <1>4 DEF Waiting, Pending
<1>6. Tally(Len(metric), w)'
  BY <1>1, <1>2, <1>3, <1>4, <1>5 DEF Tally
<1> QED BY <1>2, <1>3, <1>6 DEF OrderKept

LEMMA NextOrder ==
    ASSUME Typed, Turns, Drains, OneWriter, Remembered, OrderKept, [Next]_vars
    PROVE  OrderKept'
<1>0. CASE Restart
  BY <1>0, RestartOrder
<1>1. CASE ForgetMetric
  <2>1. forgets' = forgets + 1 /\ forgets \in Nat
    BY <1>1, BoundsAssumption DEF ForgetMetric, Typed, TypeOK
  <2> QED BY <2>1 DEF OrderKept
<1>2. CASE ~ForgetMetric /\ ~Restart
  <2>1. forgets' = forgets
    BY <1>2, FlushStepLeaves
       DEF Next, ListenerStep, ReceivePacket, QueueMetric, InvokeThread, CleanupBegin, CleanupStep,
           CleanupMaps, CleanupRow, CleanupCache, CleanupEnd, vars, forgetVars
  <2> SUFFICES ASSUME forgets = 0, InLine'
               PROVE  \E d \in 0..Len(metric') : \E v : Tally(d, v)'
    BY <2>1 DEF OrderKept
  <2>10. InLine
    BY <1>2, TypedShape, InLineBefore
  <2>2. ~forget /\ cleanup.pc = "idle"
    BY DEF Remembered
  <2>0. PICK d \in 0..Len(metric) : \E v : Tally(d, v)
    BY <2>10 DEF OrderKept
  <2>3. PICK v : Tally(d, v)
    BY <2>0
  <2>4. CASE ListenerStep
    <3>1. ASSUME NEW l \in Listeners, NEW ts \in {now, now + 1}, NEW ops \in Packets,
                 ReceivePacket(l, ts, ops)
          PROVE  Tally(d, v)' /\ metric' = metric
      <4>1. UNCHANGED <<metric, queue, ordered, cache, pc, flush>>
        BY <3>1 DEF ReceivePacket, flushVars, gaugeVars
      <4>2. \A k : Waiting(k)' <=> Waiting(k)
        BY <4>1 DEF Waiting, Pending
      <4>3. \A n \in Threads : pc'[n] \in {"forget", "cache"} => Aggregated(n, v)'
        BY <2>3, <4>1 DEF Tally, Aggregated
      <4> QED BY <2>3, <4>1, <4>2, <4>3, TallyKept
    <3>2. ASSUME NEW l \in Listeners, QueueMetric(l)
          PROVE  \E e \in 0..Len(metric') : \E w : Tally(e, w)'
      BY <2>3, <3>2, QueueMetricTally
    <3> QED BY <2>3, <2>4, <3>1, <3>2 DEF ListenerStep
  <2>5. CASE InvokeThread
    <3> DEFINE new == now + 1
    <3>1. new \in Threads /\ UNCHANGED <<metric, queue, ordered, cache, flush>> /\ Shape
      BY <2>5, TypedShape, BoundsAssumption DEF Shape, InvokeThread, inputVars, gaugeVars
    <3>2. pc'[new] = "invoked" /\ \A m \in Threads \ {new} : pc'[m] = pc[m]
      BY <2>5, <3>1 DEF Shape, InvokeThread
    <3>3. pc[new] = "none"
      BY <3>1, BoundsAssumption DEF Turns, Shape
    <3> HIDE DEF new
    <3>4. \A n \in Threads : Pending(n)' <=> Pending(n)
      BY <3>2, <3>3 DEF Pending
    <3>5. \A k : Waiting(k)' <=> Waiting(k)
      BY <3>1, <3>4 DEF Waiting
    <3>6. \A n \in Threads : pc'[n] \in {"forget", "cache"} => Aggregated(n, v)'
      BY <2>3, <3>1, <3>2 DEF Tally, Aggregated
    <3>7. Tally(d, v)'
      BY <2>3, <3>1, <3>5, <3>6, TallyKept
    <3> QED BY <2>3, <3>1, <3>7
  <2>6. CASE \E n \in Threads : FlushStep(n)
    <3>1. metric' = metric
      BY <2>6, FlushStepLeaves
    <3> QED BY <2>2, <2>3, <2>6, <2>10, <3>1, FlushStepTally
  <2>8. CASE UNCHANGED vars
    <3>1. UNCHANGED <<metric, queue, ordered, cache, pc, flush>>
      BY <2>8 DEF vars, inputVars, flushVars, gaugeVars
    <3>2. \A k : Waiting(k)' <=> Waiting(k)
      BY <3>1 DEF Waiting, Pending
    <3>3. \A n \in Threads : pc'[n] \in {"forget", "cache"} => Aggregated(n, v)'
      BY <2>3, <3>1 DEF Tally, Aggregated
    <3>4. Tally(d, v)'
      BY <2>3, <3>1, <3>2, <3>3, TallyKept
    <3> QED BY <2>3, <3>1, <3>4
  <2>9. ~(CleanupBegin \/ CleanupStep)
    BY <2>2 DEF CleanupBegin, CleanupStep, CleanupMaps, CleanupRow, CleanupCache, CleanupEnd
  <2> QED BY <1>2, <2>4, <2>5, <2>6, <2>8, <2>9 DEF Next
<1> QED BY <1>0, <1>1, <1>2

LEMMA KeptImpliesOrder ==
    ASSUME Typed, OrderKept
    PROVE  GaugeInOrder
<1> SUFFICES ASSUME AtRest, queue = {}, forgets = 0, BatchesInOrder
             PROVE  cache = ordered
  BY DEF GaugeInOrder
<1>0. PICK d \in 0..Len(metric) : \E v : Tally(d, v)
  BY DEF OrderKept, InLine
<1>1. PICK v : Tally(d, v)
  BY <1>0
<1>2. \A n \in Threads : ~Pending(n)
  BY DEF AtRest, NoFlush, Active, Pending
<1>3. \A k \in 1..Len(metric) : ~(d < k)
  BY <1>1, <1>2 DEF Tally, Waiting
<1>4. Len(metric) \in Nat
  BY TypedShape, MetricTypes
<1>5. d = Len(metric)
  BY <1>3, <1>4
<1> QED BY <1>1, <1>5 DEF Tally

\* However the flush threads overlap, and through restarts, the gauge is what
\* its metrics give in the order in which they were received
\* (aggregateGauge, Common.waitUntilThisIsYoungestActiveThread), once all are
\* flushed and if the walks of the queue have handed them to the threads in that
\* order (BatchesInOrder): for any number of listeners, metrics and flush
\* threads and packets of any size, provided that each thread has listed its
\* start before the next is invoked.
THEOREM GaugeKeepsOrder ==
    ASSUME OnTime
    PROVE  Spec => []GaugeInOrder
<1> DEFINE Inv == Typed /\ Turns /\ Drains /\ Remembered /\ OrderKept
<1>1. Init => Inv
  BY InitTyped, InitShape, InitOrder
<1>2. Inv /\ [Next]_vars => Inv'
  <2> SUFFICES ASSUME Inv, [Next]_vars PROVE Inv'
    OBVIOUS
  <2>1. Shape /\ OneWriter
    BY TypedShape, TurnsGiveOneWriter
  <2>2. Typed' /\ Turns' /\ Drains'
    BY <2>1, NextTyped, NextTurns, NextDrains
  <2>3. Remembered' /\ OrderKept'
    BY <2>1, NextRemembered, NextOrder
  <2> QED BY <2>2, <2>3
<1>3. Inv => GaugeInOrder
  BY KeptImpliesOrder
<1> QED BY <1>1, <1>2, <1>3, PTL DEF Spec

=============================================================================
