--------------------------- MODULE BackfillProofs ---------------------------
(***************************************************************************)
(* The checkpoint of a backfill never runs ahead of the work, however many *)
(* workers claim the job, lose their claim, come back late or die; and an  *)
(* import of option interest that says it is complete has on disk what the *)
(* provider has, but for what torn appends account for; and the candles    *)
(* the crypto service evaluates have no hole in their window.  For any     *)
(* range, sizes and bounds.                                                *)
(***************************************************************************)
EXTENDS Backfill, OiHistory, CryptoMarket, SumsAndExtrema, SequenceTheorems, TLAPS

\* Every open time before t was asked of the provider.
AskedBefore(t) == \A u \in Times : u < t => u \in asked

\* Positions of a worker that holds a chunk, and those of them that follow the
\* provider's answer.
WithChunk == {"fetch", "write", "reconcile", "advance"}

Answered == WithChunk \ {"fetch"}

\* The part of the state that the checkpoint is computed from has its type.
CheckpointTypes ==
    /\ nextStart \in Nat /\ chunk \in Nat
    /\ pc \in [Workers -> {"idle"} \cup AtWork]
    /\ claim \in [Workers -> [from : Nat, to : Nat]]

\* What a worker remembers is true of the provider's answers so far, also when
\* the row has gone back or on since: all before its chunk was asked, all of its
\* chunk once it was answered, and all of the range once a job comes back with
\* its checkpoint at the end.
ClaimsAreCovered ==
    \A w \in Workers :
        /\ pc[w] \in WithChunk => AskedBefore(claim[w].from)
        /\ pc[w] \in Answered => AskedBefore(claim[w].to)
        /\ pc[w] = "final" => AskedBefore(RangeEnd)

CheckpointInv == CheckpointTypes /\ NoSkippedChunk /\ ClaimsAreCovered

\* The chunk sizes and the range are natural numbers.
LEMMA NaturalRange == RangeEnd \in Nat /\ \A n \in Chunks : n \in Nat
  BY RangeIsSensible, LimitsAreSensible

LEMMA InitCheckpoint == BackfillInit => CheckpointInv
<1> SUFFICES ASSUME BackfillInit PROVE CheckpointInv OBVIOUS
<1>1. chunk \in Chunks
  <2>1. \E n \in Chunks : TRUE BY LimitsAreSensible
  <2>2. chunk = CHOOSE n \in Chunks : TRUE BY DEF BackfillInit
  <2> QED BY <2>1, <2>2
<1>2. CheckpointTypes BY <1>1, NaturalRange DEF BackfillInit, CheckpointTypes, NoClaim
<1>3. NoSkippedChunk BY NaturalRange DEF BackfillInit, NoSkippedChunk, Times
<1>4. ClaimsAreCovered BY DEF BackfillInit, ClaimsAreCovered, WithChunk, Answered
<1> QED BY <1>2, <1>3, <1>4 DEF CheckpointInv

\* A step that asks at least what was asked and moves no checkpoint and no
\* worker into a position that claims more.
LEMMA QuietStep ==
  ASSUME CheckpointInv, asked \subseteq asked', nextStart' = nextStart, chunk' \in Nat,
         pc' \in [Workers -> {"idle"} \cup AtWork],
         claim' \in [Workers -> [from : Nat, to : Nat]],
         \A w \in Workers :
            \/ pc'[w] = pc[w] /\ claim'[w] = claim[w]
            \/ pc'[w] \notin WithChunk \cup {"final"}
  PROVE  CheckpointInv'
<1>1. CheckpointTypes' BY DEF CheckpointInv, CheckpointTypes
<1>2. NoSkippedChunk' BY DEF CheckpointInv, NoSkippedChunk
<1>3. ClaimsAreCovered'
  BY DEF CheckpointInv, ClaimsAreCovered, AskedBefore, WithChunk, Answered
<1> QED BY <1>1, <1>2, <1>3 DEF CheckpointInv

\* Steps of the environment, of the dual writer and of the job row's time.
LEMMA OtherSteps ==
  ASSUME CheckpointInv,
         \/ Enqueue \/ LeaseExpires \/ DeadLeaseExpires \/ BackoffOver
         \/ LiveFetch \/ LiveUpsert \/ LiveVerify \/ LiveFails
         \/ \E t \in Times : Revise(t)
  PROVE  CheckpointInv'
<1>1. UNCHANGED <<asked, nextStart, pc, claim>>
  BY DEF Enqueue, LeaseExpires, DeadLeaseExpires, BackoffOver, LiveFetch, LiveUpsert, LiveVerify,
         LiveFails, Revise, row
<1>2. chunk' = chunk \/ chunk' \in Chunks
  BY DEF Enqueue, LeaseExpires, DeadLeaseExpires, BackoffOver, LiveFetch, LiveUpsert, LiveVerify,
         LiveFails, Revise, row
<1>3. chunk' \in Nat BY <1>2, NaturalRange DEF CheckpointInv, CheckpointTypes
<1> QED BY <1>1, <1>3, QuietStep DEF CheckpointInv, CheckpointTypes

\* A worker that only moves on, to a position that claims nothing new.
LEMMA WorkerElsewhere ==
  ASSUME CheckpointInv, NEW w \in Workers,
         \/ RecordFailure(w) \/ BeginRepair(w) \/ FetchGap(w) \/ UpsertGap(w) \/ CheckRepair(w)
         \/ StepFails(w) \/ Crash(w)
  PROVE  CheckpointInv'
<1> USE DEF CheckpointInv, CheckpointTypes
<1>1. UNCHANGED <<asked, nextStart, chunk>>
  BY DEF RecordFailure, FailRow, BeginRepair, FetchGap, UpsertGap, CheckRepair, StepFails, Crash, row
<1>2. \/ UNCHANGED claim
      \/ claim' = [claim EXCEPT ![w] = NoClaim]
  BY DEF RecordFailure, BeginRepair, FetchGap, UpsertGap, CheckRepair, StepFails, Crash, Forget, Keep
<1>3. claim' \in [Workers -> [from : Nat, to : Nat]] BY <1>2 DEF NoClaim
<1>4. \E to \in {"idle", "gapFetch", "gapWrite", "check", "fail"} : pc' = [pc EXCEPT ![w] = to]
  BY DEF RecordFailure, BeginRepair, FetchGap, UpsertGap, CheckRepair, StepFails, Crash, Goto
<1>5. pc' \in [Workers -> {"idle"} \cup AtWork] BY <1>4 DEF AtWork, Repairing
<1>6. \A v \in Workers : \/ pc'[v] = pc[v] /\ claim'[v] = claim[v]
                         \/ pc'[v] \notin WithChunk \cup {"final"}
  BY <1>2, <1>4 DEF WithChunk
<1> QED BY <1>1, <1>3, <1>5, <1>6, QuietStep

\* A claim begins where the checkpoint is, and all before that was asked.
LEMMA ClaimStep == ASSUME CheckpointInv, NEW w \in Workers, Claim(w) PROVE CheckpointInv'
<1> USE DEF CheckpointInv, CheckpointTypes
<1>1. UNCHANGED <<asked, nextStart, chunk>> BY DEF Claim
<1> DEFINE to == IF nextStart + chunk < RangeEnd THEN nextStart + chunk ELSE RangeEnd
           at == IF nextStart >= RangeEnd THEN "final" ELSE "fetch"
<1>2. to \in Nat BY NaturalRange
<1>3. claim' = [claim EXCEPT ![w] = [from |-> nextStart, to |-> to]] /\ pc' = [pc EXCEPT ![w] = at]
  BY DEF Claim
<1>4. CheckpointTypes' BY <1>1, <1>2, <1>3 DEF AtWork
<1>5. NoSkippedChunk' BY <1>1 DEF NoSkippedChunk
<1>6. AskedBefore(nextStart) BY DEF NoSkippedChunk, AskedBefore
<1>7. at = "final" => AskedBefore(RangeEnd) BY <1>6, NaturalRange DEF AskedBefore, Times
<1>8. ClaimsAreCovered'
  BY <1>1, <1>3, <1>6, <1>7 DEF ClaimsAreCovered, AskedBefore, WithChunk, Answered
<1> QED BY <1>4, <1>5, <1>8

\* The provider is asked for the whole chunk.
LEMMA FetchStep == ASSUME CheckpointInv, NEW w \in Workers, FetchChunk(w) PROVE CheckpointInv'
<1> USE DEF CheckpointInv, CheckpointTypes
<1>1. UNCHANGED <<nextStart, chunk, claim>> /\ pc[w] = "fetch" /\ pc' = [pc EXCEPT ![w] = "write"]
  BY DEF FetchChunk, Goto, row
<1>2. asked' = asked \cup {t \in Times : claim[w].from <= t /\ t < claim[w].to} BY DEF FetchChunk
<1>3. CheckpointTypes' BY <1>1 DEF AtWork
<1>4. NoSkippedChunk' BY <1>1, <1>2 DEF NoSkippedChunk
<1>5. AskedBefore(claim[w].from) BY <1>1 DEF ClaimsAreCovered, WithChunk
<1>6. \A u \in Times : u < claim[w].to => u \in asked'
  BY <1>2, <1>5, NaturalRange DEF AskedBefore, Times
<1>7. ClaimsAreCovered'
  BY <1>1, <1>2, <1>5, <1>6 DEF ClaimsAreCovered, AskedBefore, WithChunk, Answered
<1> QED BY <1>3, <1>4, <1>7

\* The chunk is written and compared.
LEMMA StoreStep ==
  ASSUME CheckpointInv, NEW w \in Workers, UpsertChunk(w) \/ Reconcile(w)
  PROVE  CheckpointInv'
<1> USE DEF CheckpointInv, CheckpointTypes
<1>1. UNCHANGED <<asked, nextStart, chunk>> BY DEF UpsertChunk, Reconcile, row
<1>2. claim' = claim
  <2>1. CASE UpsertChunk(w) BY <2>1 DEF UpsertChunk
  <2>2. CASE Reconcile(w) BY <2>2 DEF Reconcile, Keep
  <2> QED BY <2>1, <2>2
<1>3. /\ pc[w] \in Answered
      /\ \E at \in Answered \cup {"fail"} : pc' = [pc EXCEPT ![w] = at]
  BY DEF UpsertChunk, Reconcile, Goto, Answered, WithChunk
<1>4. CheckpointTypes' BY <1>1, <1>2, <1>3 DEF AtWork, Answered, WithChunk
<1>5. NoSkippedChunk' BY <1>1 DEF NoSkippedChunk
<1>6. ClaimsAreCovered'
  BY <1>1, <1>2, <1>3 DEF ClaimsAreCovered, AskedBefore, WithChunk, Answered
<1> QED BY <1>4, <1>5, <1>6

\* The checkpoint becomes the end of a chunk that was answered, also when the
\* row belongs to another worker by now, or the end of a range that was.
LEMMA AdvanceStep ==
  ASSUME CheckpointInv, NEW w \in Workers, Advance(w) \/ AdvanceFinal(w)
  PROVE  CheckpointInv'
<1> USE DEF CheckpointInv, CheckpointTypes
<1>1. asked' = asked /\ chunk' = chunk BY DEF Advance, AdvanceFinal, AdvanceRow
<1>2. nextStart' \in Nat /\ AskedBefore(nextStart')
  <2>1. CASE Advance(w) BY <2>1 DEF Advance, AdvanceRow, Goto, ClaimsAreCovered, WithChunk, Answered
  <2>2. CASE AdvanceFinal(w) BY <2>2, NaturalRange DEF AdvanceFinal, AdvanceRow, Goto, ClaimsAreCovered
  <2> QED BY <2>1, <2>2
<1>3. claim' = [claim EXCEPT ![w] = NoClaim] BY DEF Advance, AdvanceFinal, Forget, Keep
<1>4. \E at \in {"idle", "repair"} : pc' = [pc EXCEPT ![w] = at] BY DEF Advance, AdvanceFinal, Goto
<1>5. CheckpointTypes' BY <1>1, <1>2, <1>3, <1>4 DEF NoClaim, AtWork, Repairing
<1>6. NoSkippedChunk' BY <1>1, <1>2 DEF NoSkippedChunk, AskedBefore
<1>7. ClaimsAreCovered'
  BY <1>1, <1>3, <1>4 DEF ClaimsAreCovered, AskedBefore, WithChunk, Answered
<1> QED BY <1>5, <1>6, <1>7

\* Every step of the workers, the writer, the provider and time keeps it.
LEMMA NextCheckpoint == CheckpointInv /\ [BackfillNext]_vars => CheckpointInv'
<1> SUFFICES ASSUME CheckpointInv, [BackfillNext]_vars PROVE CheckpointInv' OBVIOUS
<1>1. CASE UNCHANGED vars
  <2>1. UNCHANGED <<asked, nextStart, chunk, pc, claim>> BY <1>1 DEF vars, row
  <2> QED BY <2>1, QuietStep DEF CheckpointInv, CheckpointTypes
<1>2. CASE \/ Enqueue \/ LeaseExpires \/ DeadLeaseExpires \/ BackoffOver
           \/ LiveFetch \/ LiveUpsert \/ LiveVerify \/ LiveFails
           \/ \E t \in Times : Revise(t)
  BY <1>2, OtherSteps
<1>3. CASE \E w \in Workers : WorkerStep(w) \/ StepFails(w) \/ Crash(w)
  <2> PICK w \in Workers : WorkerStep(w) \/ StepFails(w) \/ Crash(w) BY <1>3
  <2>1. CASE Claim(w) BY <2>1, ClaimStep
  <2>2. CASE FetchChunk(w) BY <2>2, FetchStep
  <2>3. CASE UpsertChunk(w) \/ Reconcile(w) BY <2>3, StoreStep
  <2>4. CASE Advance(w) \/ AdvanceFinal(w) BY <2>4, AdvanceStep
  <2>5. CASE \/ RecordFailure(w) \/ BeginRepair(w) \/ FetchGap(w) \/ UpsertGap(w) \/ CheckRepair(w)
             \/ StepFails(w) \/ Crash(w)
    BY <2>5, WorkerElsewhere
  <2> QED BY <2>1, <2>2, <2>3, <2>4, <2>5 DEF WorkerStep
<1> QED BY <1>1, <1>2, <1>3 DEF BackfillNext

\* What the workers remember stays true however their steps interleave, fail or
\* come after their claim ran out.
THEOREM CheckpointInvariant == BackfillSpec => []CheckpointInv
  BY InitCheckpoint, NextCheckpoint, PTL DEF BackfillSpec

\* No chunk is skipped: every open time before next_start was asked of the provider,
\* for any number of workers, any range and any chunk sizes, although
\* advance_backfill does not look who owns the row.
THEOREM NoChunkIsSkipped == BackfillSpec => []NoSkippedChunk
<1>1. CheckpointInv => NoSkippedChunk BY DEF CheckpointInv
<1> QED BY <1>1, CheckpointInvariant, PTL

-----------------------------------------------------------------------------
(* A job that reads COMPLETE is full.                                      *)

Unsettled == Repairing \cup {"fail"}

FullInv == CheckpointInv /\ CompleteIsFull

\* What is stored is replaced and never removed.
LEMMA GapsOnlyClose == ASSUME NEW c, Upsert(c) \/ UNCHANGED candles PROVE Missing' \subseteq Missing
  BY RangeIsSensible DEF Upsert, Missing, Has

\* A step that neither completes the job nor takes a worker away from its repair.
LEMMA QuietFull ==
  ASSUME CompleteIsFull, Missing' \subseteq Missing,
         status' = "COMPLETE" => status = "COMPLETE", abandoned => abandoned',
         status' = "COMPLETE" => \/ abandoned'
                                 \/ Missing = {}
                                 \/ \E w \in Workers : pc'[w] \in Unsettled
                                 \/ \A w \in Workers : pc[w] \notin Unsettled
  PROVE  CompleteIsFull'
  BY DEF CompleteIsFull, Unsettled

\* The environment and the dual writer touch neither the status nor a worker.
LEMMA OtherFull ==
  ASSUME FullInv,
         \/ Enqueue \/ LeaseExpires \/ DeadLeaseExpires \/ BackoffOver
         \/ LiveFetch \/ LiveUpsert \/ LiveVerify \/ LiveFails
         \/ \E t \in Times : Revise(t)
  PROVE  CompleteIsFull'
<1>1. UNCHANGED <<pc, abandoned>> /\ (status' = "COMPLETE" => status = "COMPLETE")
  BY DEF Enqueue, LeaseExpires, DeadLeaseExpires, BackoffOver, LiveFetch, LiveUpsert, LiveVerify, LiveFails, Revise, row
<1>2. \E c : Upsert(c) \/ UNCHANGED candles
  BY DEF Enqueue, LeaseExpires, DeadLeaseExpires, BackoffOver, LiveFetch, LiveUpsert, LiveVerify, LiveFails, Revise
<1>3. Missing' \subseteq Missing BY <1>2, GapsOnlyClose
<1> QED BY <1>1, <1>3, QuietFull DEF FullInv, CompleteIsFull, Unsettled

\* A worker leaves the repair when nothing is missing, to record its failure, or by dying;
\* a death while the row reads COMPLETE is remembered.
LEMMA WorkerFull ==
  ASSUME FullInv, NEW w \in Workers, WorkerStep(w) \/ StepFails(w) \/ Crash(w)
  PROVE  CompleteIsFull'
<1>0. pc \in [Workers -> {"idle"} \cup AtWork] /\ CompleteIsFull BY DEF FullInv, CheckpointInv, CheckpointTypes
<1> USE DEF Goto, Unsettled, Repairing
<1>1. \E c : Upsert(c) \/ UNCHANGED candles
  BY DEF WorkerStep, Claim, FetchChunk, UpsertChunk, Reconcile, Advance, AdvanceFinal, BeginRepair, FetchGap, UpsertGap,
         CheckRepair, RecordFailure, StepFails, Crash
<1>2. Missing' \subseteq Missing BY <1>1, GapsOnlyClose
<1>3. CASE Claim(w) BY <1>3 DEF Claim, CompleteIsFull
<1>4. CASE FetchChunk(w) \/ UpsertChunk(w) \/ Reconcile(w)
  <2>1. pc[w] \in {"fetch", "write", "reconcile"} /\ UNCHANGED <<status, abandoned>>
    BY <1>4 DEF FetchChunk, UpsertChunk, Reconcile, row
  <2>2. \A v \in Workers : pc'[v] \notin Unsettled => pc[v] \notin Unsettled
    BY <1>0, <1>4, <2>1 DEF FetchChunk, UpsertChunk, Reconcile
  <2> QED BY <1>0, <1>2, <2>1, <2>2, QuietFull
<1>5. CASE Advance(w)
  <2>1. CASE claim[w].to >= RangeEnd
    <3>1. pc' = [pc EXCEPT ![w] = "repair"] BY <1>5, <2>1 DEF Advance
    <3>2. pc'[w] = "repair" BY <1>0, <3>1
    <3> QED BY <3>2 DEF CompleteIsFull
  <2>2. CASE ~ (claim[w].to >= RangeEnd)
    <3>1. status' = "PENDING" BY <1>5, <2>2 DEF Advance, AdvanceRow
    <3> QED BY <3>1 DEF CompleteIsFull
  <2> QED BY <2>1, <2>2
<1>6. CASE AdvanceFinal(w)
  <2>1. pc'[w] = "repair" BY <1>0, <1>6 DEF AdvanceFinal
  <2> QED BY <2>1 DEF CompleteIsFull
<1>7. CASE BeginRepair(w) \/ CheckRepair(w)
  <2>1. UNCHANGED <<status, abandoned>> /\ (Missing = {} \/ pc' = [pc EXCEPT ![w] = "gapFetch"] \/ pc' = [pc EXCEPT ![w] = "fail"])
    BY <1>7 DEF BeginRepair, CheckRepair, row
  <2>2. Missing = {} \/ pc'[w] \in Unsettled BY <1>0, <2>1
  <2> QED BY <1>0, <1>2, <2>1, <2>2, QuietFull
<1>8. CASE FetchGap(w) \/ UpsertGap(w)
  <2>1. UNCHANGED <<status, abandoned>> /\ \E at \in {"gapFetch", "gapWrite", "check"} : pc' = [pc EXCEPT ![w] = at]
    BY <1>8 DEF FetchGap, UpsertGap, row
  <2>2. pc'[w] \in Unsettled BY <1>0, <2>1
  <2> QED BY <1>0, <1>2, <2>1, <2>2, QuietFull
<1>9. CASE RecordFailure(w)
  <2>1. status' # "COMPLETE" BY <1>9 DEF RecordFailure, FailRow
  <2> QED BY <2>1 DEF CompleteIsFull
<1>10. CASE StepFails(w)
  <2>1. UNCHANGED <<status, abandoned>> /\ pc'[w] = "fail" BY <1>0, <1>10 DEF StepFails, row
  <2> QED BY <1>0, <1>2, <2>1, QuietFull
<1>11. CASE Crash(w)
  <2>1. status' = status /\ (abandoned => abandoned') /\ (pc[w] \in Unsettled /\ status = "COMPLETE" => abandoned')
    BY <1>11 DEF Crash, row
  <2>2. \A v \in Workers : v # w => pc'[v] = pc[v] BY <1>0, <1>11 DEF Crash
  <2> QED BY <1>0, <1>2, <2>1, <2>2, QuietFull
<1> QED BY <1>3, <1>4, <1>5, <1>6, <1>7, <1>8, <1>9, <1>10, <1>11 DEF WorkerStep

LEMMA NextFull == FullInv /\ [BackfillNext]_vars => FullInv'
<1> SUFFICES ASSUME FullInv, [BackfillNext]_vars PROVE CompleteIsFull' BY NextCheckpoint DEF FullInv
<1>1. CASE UNCHANGED vars BY <1>1 DEF vars, row, FullInv, CompleteIsFull, Missing, Has
<1>2. CASE \/ Enqueue \/ LeaseExpires \/ DeadLeaseExpires \/ BackoffOver
           \/ LiveFetch \/ LiveUpsert \/ LiveVerify \/ LiveFails
           \/ \E t \in Times : Revise(t)
  BY <1>2, OtherFull
<1>3. CASE \E w \in Workers : WorkerStep(w) \/ StepFails(w) \/ Crash(w) BY <1>3, WorkerFull
<1> QED BY <1>1, <1>2, <1>3 DEF BackfillNext

\* A job that reads COMPLETE has no gap left once nobody works on it, for any number of
\* workers, unless one died in the repair of a job it had marked COMPLETE already.
THEOREM CompleteJobsAreFull == BackfillSpec => []CompleteIsFull
<1>1. BackfillInit => FullInv BY InitCheckpoint DEF FullInv, BackfillInit, CompleteIsFull
<1>2. FullInv => CompleteIsFull BY DEF FullInv
<1> QED BY <1>1, <1>2, NextFull, PTL DEF BackfillSpec
-----------------------------------------------------------------------------
(* The import of option interest: what a torn append loses is never more   *)
(* than what was written into its line.                                    *)

\* A line of a file, and a file in which no row is twice.
FileLines == [row : AllRows \cup {Junk}, ended : BOOLEAN]

RowsOnce(file) ==
    \A i, j \in DOMAIN file : i # j /\ file[i].row = file[j].row => file[i].row = Junk

\* The rows that the import under way knows, and that are not on disk any more.
LostRows == known \ Readable(optionFile)

\* A torn line at the end of the file will still lose its row and the next one.
StillToLose == IF Unended(optionFile) THEN 2 ELSE 0

HistoryTypes ==
    /\ optionFile \in Seq(FileLines)
    /\ hAt \in {"idle", "fetch", "append", "spot", "regimes", "finish"}
    /\ hTask \in 1 .. HistoryTasks
    /\ tornAppends \in Nat

\* An import knows what it has read and, once it is done with a task, all its rows.
KnownSoFar ==
    /\ known \subseteq AllRows
    /\ hAt # "idle" => Readable(optionFile) \subseteq known
    /\ hAt \in {"fetch", "append"} => \A t \in 1 .. (hTask - 1) : TaskRows(t) \subseteq known
    /\ hAt \in {"spot", "regimes", "finish"} => AllRows \subseteq known

HistoryInv ==
    /\ HistoryTypes
    /\ RowsOnce(optionFile)
    /\ KnownSoFar
    /\ Cardinality(LostRows) + StillToLose <= 2 * tornAppends
    /\ manifest = "COMPLETE" =>
          /\ hAt = "idle"
          /\ Cardinality(AllRows \ Readable(optionFile)) <= 2 * tornAppends

LEMMA NaturalTasks == HistoryTasks \in Nat \ {0} /\ HistoryDays \in Nat \ {0}
  BY HistoryBoundsAreNatural

LEMMA RowsAreFinite == IsFiniteSet(AllRows)
<1>1. \A t \in 1 .. HistoryTasks : IsFiniteSet(TaskRows(t))
  <2> TAKE t \in 1 .. HistoryTasks
  <2> DEFINE days == 1 .. HistoryDays
  <2>1. IsFiniteSet(days)
    <3>1. 1 \in Int /\ HistoryDays \in Int BY NaturalTasks
    <3> QED BY <3>1, FS_Interval
  <2> DEFINE f == [d \in days |-> [task |-> t, day |-> d]]
  <2>2. f \in Surjection(days, TaskRows(t))
    <3>1. f \in [days -> TaskRows(t)] BY DEF TaskRows
    <3>2. \A r \in TaskRows(t) : \E d \in days : f[d] = r BY DEF TaskRows
    <3> HIDE DEF f, days
    <3> QED BY <3>1, <3>2, Fun_IsSurj
  <2> HIDE DEF f, days
  <2> QED BY <2>1, <2>2, FS_Surjection
<1> DEFINE parts == {TaskRows(t) : t \in 1 .. HistoryTasks}
<1>2. IsFiniteSet(parts)
  <2> DEFINE T == 1 .. HistoryTasks
             g == [t \in T |-> TaskRows(t)]
  <2>1. IsFiniteSet(T)
    <3>1. 1 \in Int /\ HistoryTasks \in Int BY NaturalTasks
    <3> QED BY <3>1, FS_Interval
  <2>2. g \in [T -> parts] /\ \A s \in parts : \E t \in T : g[t] = s OBVIOUS
  <2> HIDE DEF T, g, parts
  <2>3. g \in Surjection(T, parts) BY <2>2, Fun_IsSurj
  <2> QED BY <2>1, <2>3, FS_Surjection
<1>3. \A s \in parts : IsFiniteSet(s) BY <1>1
<1>4. AllRows = UNION parts BY DEF AllRows
<1> HIDE DEF parts
<1> QED BY <1>2, <1>3, <1>4, FS_UNION

LEMMA RowsHaveDays ==
  /\ \A t \in 1 .. HistoryTasks : TaskRows(t) \subseteq AllRows
  /\ \A r \in AllRows : r.day \in Nat /\ r # Junk
  /\ \A t \in 1 .. HistoryTasks : \A q, r \in TaskRows(t) : q.day = r.day => q = r
<1>1. \A t \in 1 .. HistoryTasks : TaskRows(t) \subseteq AllRows BY DEF AllRows
<1>2. ASSUME NEW r \in AllRows PROVE r.day \in Nat /\ r # Junk
  <2>1. PICK t \in 1 .. HistoryTasks : r \in TaskRows(t) BY DEF AllRows
  <2>2. PICK d \in 1 .. HistoryDays : r = [task |-> t, day |-> d] BY <2>1 DEF TaskRows
  <2>3. t # 0 /\ t \in Nat /\ d \in Nat BY NaturalTasks
  <2>4. r.day = d /\ r.task = t BY <2>2
  <2> QED BY <2>3, <2>4 DEF Junk
<1>3. \A t \in 1 .. HistoryTasks : \A q, r \in TaskRows(t) : q.day = r.day => q = r BY DEF TaskRows
<1> QED BY <1>1, <1>2, <1>3

\* Rows in order of their days are all of them, each once.
LEMMA InOrderOfDays ==
  ASSUME NEW rows, IsFiniteSet(rows), \A r \in rows : r.day \in Nat,
         \A q, r \in rows : q.day = r.day => q = r
  PROVE  /\ ByDay(rows) \in Seq(rows)
         /\ \A i, j \in DOMAIN ByDay(rows) : ByDay(rows)[i] = ByDay(rows)[j] => i = j
         /\ \A r \in rows : \E i \in DOMAIN ByDay(rows) : ByDay(rows)[i] = r
<1> DEFINE N == Cardinality(rows)
           day == [r \in rows |-> r.day]
           f == [r \in rows |-> RankOf(rows, day, r)]
<1>0. N \in Nat BY FS_CardinalityType
<1>1. \A r \in rows : day[r] = r.day OBVIOUS
<1>2. \A r \in rows : f[r] = Cardinality({q \in rows : q.day <= r.day})
  <2> HIDE DEF day
  <2> TAKE r \in rows
  <2>1. {q \in rows : day[q] <= day[r]} = {q \in rows : q.day <= r.day} BY <1>1
  <2> QED BY <2>1 DEF RankOf
<1>3. /\ \A r \in rows : f[r] \in 1 .. N
      /\ \A q, r \in rows : q.day < r.day => f[q] < f[r]
      /\ \A i \in 1 .. N : \E r \in rows : f[r] = i
  <2>1. \A r \in rows : f[r] = RankOf(rows, day, r) OBVIOUS
  <2>2. (\A r \in rows : day[r] \in Int) /\ \A q, r \in rows : day[q] = day[r] => q = r BY <1>1
  <2> HIDE DEF day, f
  <2>3. /\ \A r \in rows : RankOf(rows, day, r) \in 1 .. Cardinality(rows)
        /\ \A q, r \in rows : day[q] < day[r] => RankOf(rows, day, q) < RankOf(rows, day, r)
        /\ \A i \in 1 .. Cardinality(rows) : \E r \in rows : RankOf(rows, day, r) = i
    BY <2>2, RanksByKey
  <2> QED BY <1>1, <2>1, <2>3
<1>4. \A q, r \in rows : f[q] = f[r] => q = r
  <2> SUFFICES ASSUME NEW q \in rows, NEW r \in rows, f[q] = f[r] PROVE q = r OBVIOUS
  <2>1. f[q] \in Int /\ f[r] \in Int BY <1>0, <1>3
  <2>2. q.day \in Nat /\ r.day \in Nat OBVIOUS
  <2> HIDE DEF f
  <2>3. ~ (q.day < r.day) /\ ~ (r.day < q.day) BY <1>3, <2>1
  <2>4. q.day = r.day BY <2>2, <2>3
  <2> QED BY <2>4
<1> HIDE DEF f, day
<1>7. ByDay(rows) = [i \in 1 .. N |-> CHOOSE r \in rows : f[r] = i]
  <2> DEFINE ith(i) == CHOOSE r \in rows : Cardinality({q \in rows : q.day <= r.day}) = i
             kth(i) == CHOOSE r \in rows : f[r] = i
  <2>2. \A i \in 1 .. N : ith(i) = kth(i) BY <1>2
  <2>3. ByDay(rows) = [i \in 1 .. N |-> ith(i)] BY DEF ByDay
  <2> HIDE DEF ith, kth, N
  <2>4. [i \in 1 .. N |-> ith(i)] = [i \in 1 .. N |-> kth(i)] BY <2>2
  <2> USE DEF kth
  <2> QED BY <2>3, <2>4
<1>8. \A i \in 1 .. N : ByDay(rows)[i] \in rows /\ f[ByDay(rows)[i]] = i BY <1>3, <1>7
<1>9. DOMAIN ByDay(rows) = 1 .. N BY <1>7
<1>10. ByDay(rows) \in Seq(rows)
  <2>1. ByDay(rows) \in [1 .. N -> rows] BY <1>7, <1>8
  <2> QED BY <1>0, <2>1, IsASeq
<1>11. \A r \in rows : \E i \in 1 .. N : ByDay(rows)[i] = r
  <2> TAKE r \in rows
  <2>1. f[r] \in 1 .. N BY <1>3
  <2>2. ByDay(rows)[f[r]] \in rows /\ f[ByDay(rows)[f[r]]] = f[r] BY <1>8, <2>1
  <2>3. ByDay(rows)[f[r]] = r BY <1>4, <2>2
  <2> QED BY <2>1, <2>3
<1> QED BY <1>8, <1>9, <1>10, <1>11

\* What an append makes of a file, line by line.
LEMMA LinesOf ==
  ASSUME NEW rows \in Seq(AllRows)
  PROVE  /\ Lines(rows) \in Seq(FileLines) /\ Len(Lines(rows)) = Len(rows)
         /\ \A i \in 1 .. Len(rows) : Lines(rows)[i] = Line(rows[i])
<1>1. \A i \in 1 .. Len(rows) : Line(rows[i]) \in FileLines BY DEF Line, FileLines
<1>2. Lines(rows) \in [1 .. Len(rows) -> FileLines] BY <1>1 DEF Lines
<1>3. Lines(rows) \in Seq(FileLines) BY <1>2, IsASeq
<1>4. Len(Lines(rows)) = Len(rows)
  <2>1. DOMAIN Lines(rows) = 1 .. Len(rows) BY DEF Lines
  <2> QED BY <1>3, <2>1, LenProperties
<1> QED BY <1>3, <1>4 DEF Lines

LEMMA BehindTheFile ==
  ASSUME NEW file \in Seq(FileLines), NEW rows \in Seq(AllRows), ~ (rows # <<>> /\ Unended(file))
  PROVE  /\ Appended(file, rows) \in Seq(FileLines)
         /\ Len(Appended(file, rows)) = Len(file) + Len(rows)
         /\ \A i \in 1 .. Len(file) : Appended(file, rows)[i] = file[i]
         /\ \A i \in 1 .. Len(rows) : Appended(file, rows)[Len(file) + i] = Line(rows[i])
<1>1. Appended(file, rows) = file \o Lines(rows) BY DEF Appended
<1> DEFINE ls == Lines(rows)
<1>2. ls \in Seq(FileLines) /\ Len(ls) = Len(rows) /\ \A i \in 1 .. Len(rows) : ls[i] = Line(rows[i])
  BY LinesOf
<1> HIDE DEF ls
<1>3. /\ file \o ls \in Seq(FileLines) /\ Len(file \o ls) = Len(file) + Len(ls)
      /\ \A i \in 1 .. Len(file) + Len(ls) :
           (file \o ls)[i] = IF i <= Len(file) THEN file[i] ELSE ls[i - Len(file)]
  BY <1>2, ConcatProperties
<1>4. Len(file) \in Nat /\ Len(rows) \in Nat BY LenProperties
<1>5. Appended(file, rows) = file \o ls BY <1>1 DEF ls
<1>6. ASSUME NEW i \in 1 .. Len(file) PROVE (file \o ls)[i] = file[i]
  <2>1. i \in 1 .. Len(file) + Len(ls) /\ i <= Len(file) BY <1>2, <1>4
  <2> QED BY <1>3, <2>1
<1>7. ASSUME NEW i \in 1 .. Len(rows) PROVE (file \o ls)[Len(file) + i] = Line(rows[i])
  <2>1. Len(file) + i \in 1 .. Len(file) + Len(ls) /\ ~ (Len(file) + i <= Len(file))
        /\ (Len(file) + i) - Len(file) = i BY <1>2, <1>4
  <2> QED BY <1>2, <1>3, <2>1
<1> QED BY <1>2, <1>3, <1>5, <1>6, <1>7

LEMMA IntoTheTornLine ==
  ASSUME NEW file \in Seq(FileLines), NEW rows \in Seq(AllRows), rows # <<>>, Unended(file)
  PROVE  /\ Appended(file, rows) \in Seq(FileLines)
         /\ Len(file) > 0 /\ Len(rows) > 0
         /\ Len(Appended(file, rows)) = Len(file) + Len(rows) - 1
         /\ \A i \in 1 .. (Len(file) - 1) : Appended(file, rows)[i] = file[i]
         /\ Appended(file, rows)[Len(file)] = Line(Junk)
         /\ \A i \in 2 .. Len(rows) : Appended(file, rows)[Len(file) + i - 1] = Line(rows[i])
<1> DEFINE cut == Append(Front(file), Line(Junk))
           rest == Tail(rows)
           ls == Lines(rest)
<1>1. Len(file) \in Nat /\ Len(file) > 0 /\ Len(rows) \in Nat /\ Len(rows) > 0
  BY LenProperties, EmptySeq DEF Unended
<1>2. rest \in Seq(AllRows) /\ Len(rest) = Len(rows) - 1 /\ \A i \in 1 .. (Len(rows) - 1) : rest[i] = rows[i + 1]
  BY <1>1, HeadTailProperties
<1>3. ls \in Seq(FileLines) /\ Len(ls) = Len(rows) - 1 /\ \A i \in 1 .. (Len(rows) - 1) : ls[i] = Line(rows[i + 1])
  <2> HIDE DEF rest
  <2> QED BY <1>2, LinesOf
<1>4. Front(file) \in Seq(FileLines) /\ Len(Front(file)) = Len(file) - 1
      /\ \A i \in 1 .. (Len(file) - 1) : Front(file)[i] = file[i]
  <2> DEFINE n == Len(file) - 1
  <2>1. 1 \in Int /\ n \in Nat /\ n <= Len(file) BY <1>1
  <2>2. SubSeq(file, 1, n) = [i \in 1 .. n |-> file[i]] BY <1>1, <2>1
  <2>3. \A i \in 1 .. n : file[i] \in FileLines BY <1>1, <2>1, ElementOfSeq
  <2>4. [i \in 1 .. n |-> file[i]] \in Seq(FileLines) /\ Len([i \in 1 .. n |-> file[i]]) = n
    BY <2>1, <2>3, IsASeq
  <2>5. Front(file) = [i \in 1 .. n |-> file[i]] BY <2>2 DEF Front
  <2> QED BY <2>4, <2>5
<1>5. Line(Junk) \in FileLines BY DEF Line, FileLines
<1>6. cut \in Seq(FileLines) /\ Len(cut) = Len(file) /\ cut[Len(file)] = Line(Junk)
      /\ \A i \in 1 .. (Len(file) - 1) : cut[i] = file[i]
  <2> DEFINE front == Front(file)
  <2>1. front \in Seq(FileLines) /\ Len(front) = Len(file) - 1
        /\ \A i \in 1 .. (Len(file) - 1) : front[i] = file[i] BY <1>4
  <2> HIDE DEF front
  <2>2. /\ Append(front, Line(Junk)) \in Seq(FileLines)
        /\ Len(Append(front, Line(Junk))) = Len(front) + 1
        /\ \A i \in 1 .. Len(front) : Append(front, Line(Junk))[i] = front[i]
        /\ Append(front, Line(Junk))[Len(front) + 1] = Line(Junk)
    BY <1>5, <2>1, AppendProperties
  <2>3. Len(front) + 1 = Len(file) BY <1>1, <2>1
  <2>4. cut = Append(front, Line(Junk)) BY DEF front
  <2> HIDE DEF cut
  <2> QED BY <2>1, <2>2, <2>3, <2>4
<1>7. Appended(file, rows) = cut \o ls BY DEF Appended
<1> HIDE DEF cut, ls, rest
<1>8. /\ cut \o ls \in Seq(FileLines) /\ Len(cut \o ls) = Len(cut) + Len(ls)
      /\ \A i \in 1 .. Len(cut) + Len(ls) :
           (cut \o ls)[i] = IF i <= Len(cut) THEN cut[i] ELSE ls[i - Len(cut)]
  <2>1. cut \in Seq(FileLines) BY <1>6
  <2>2. ls \in Seq(FileLines) BY <1>3
  <2> QED BY <2>1, <2>2, ConcatProperties
<1>9. Len(cut) = Len(file) /\ Len(ls) = Len(rows) - 1 BY <1>3, <1>6
<1>10. \A i \in 1 .. (Len(file) - 1) : (cut \o ls)[i] = file[i]
  <2> TAKE i \in 1 .. (Len(file) - 1)
  <2>1. i \in 1 .. Len(cut) + Len(ls) /\ i <= Len(cut) BY <1>1, <1>9
  <2> QED BY <1>6, <1>8, <2>1
<1>11. (cut \o ls)[Len(file)] = Line(Junk)
  <2>1. Len(file) \in 1 .. Len(cut) + Len(ls) /\ Len(file) <= Len(cut) BY <1>1, <1>9
  <2> QED BY <1>6, <1>8, <2>1
<1>12. \A i \in 2 .. Len(rows) : (cut \o ls)[Len(file) + i - 1] = Line(rows[i])
  <2> TAKE i \in 2 .. Len(rows)
  <2>1. /\ Len(file) + i - 1 \in 1 .. Len(cut) + Len(ls) /\ ~ (Len(file) + i - 1 <= Len(cut))
        /\ (Len(file) + i - 1) - Len(cut) = i - 1 /\ i - 1 \in 1 .. (Len(rows) - 1) /\ (i - 1) + 1 = i
    BY <1>1, <1>9
  <2>2. (cut \o ls)[Len(file) + i - 1] = ls[i - 1] BY <1>8, <2>1
  <2> QED BY <1>3, <2>1, <2>2
<1>13. Len(cut \o ls) = Len(file) + Len(rows) - 1 BY <1>1, <1>8, <1>9
<1> QED BY <1>1, <1>7, <1>8, <1>10, <1>11, <1>12, <1>13

LEMMA WhatIsReadable ==
  ASSUME NEW file \in Seq(FileLines)
  PROVE  /\ \A r : r \in Readable(file) <=> r # Junk /\ \E i \in 1 .. Len(file) : file[i].row = r
         /\ Readable(file) \subseteq AllRows
<1>1. DOMAIN file = 1 .. Len(file) BY LenProperties
<1>2. \A r : r \in Readable(file) <=> r # Junk /\ \E i \in 1 .. Len(file) : file[i].row = r
  BY <1>1 DEF Readable, ToSet
<1>3. \A i \in 1 .. Len(file) : file[i].row \in AllRows \cup {Junk}
  <2> TAKE i \in 1 .. Len(file)
  <2>1. file[i] \in FileLines BY ElementOfSeq
  <2> QED BY <2>1 DEF FileLines
<1> QED BY <1>2, <1>3

\* Where a line of the new file comes from: it is the line at the same place of the
\* old one, it holds nothing, or it holds a row that was appended, at its own place.
Origin(file, rows, new, offset, i) ==
    \/ i \in 1 .. Len(file) /\ new[i].row = file[i].row
    \/ new[i].row = Junk
    \/ \E k \in 1 .. Len(rows) : i = k + offset /\ new[i].row = rows[k]

\* Rows that may be appended: no two are the same and none is on disk.
New(file, rows) ==
    /\ \A i, j \in 1 .. Len(rows) : rows[i] = rows[j] => i = j
    /\ \A i \in 1 .. Len(rows) : rows[i] \notin Readable(file)

LEMMA OriginsKeepRowsOnce ==
  ASSUME NEW file \in Seq(FileLines), RowsOnce(file), NEW rows \in Seq(AllRows), New(file, rows),
         NEW new \in Seq(FileLines), NEW offset \in Int,
         \A i \in 1 .. Len(new) : Origin(file, rows, new, offset, i)
  PROVE  RowsOnce(new) /\ Readable(new) \subseteq Readable(file) \cup {rows[k] : k \in 1 .. Len(rows)}
<1>1. DOMAIN new = 1 .. Len(new) /\ DOMAIN file = 1 .. Len(file) /\ Len(file) \in Nat /\ Len(rows) \in Nat
  BY LenProperties
<1>2. ASSUME NEW i \in 1 .. Len(new), NEW j \in 1 .. Len(new), i # j, new[i].row = new[j].row,
             new[i].row # Junk
      PROVE  FALSE
  <2>1. Origin(file, rows, new, offset, i) /\ Origin(file, rows, new, offset, j) OBVIOUS
  <2>2. CASE i \in 1 .. Len(file) /\ new[i].row = file[i].row
    <3>1. file[i].row \in Readable(file) BY <1>2, <2>2, WhatIsReadable
    <3>2. CASE j \in 1 .. Len(file) /\ new[j].row = file[j].row
      BY <1>1, <1>2, <2>2, <3>2 DEF RowsOnce
    <3>3. CASE \E k \in 1 .. Len(rows) : j = k + offset /\ new[j].row = rows[k]
      BY <1>2, <2>2, <3>1, <3>3 DEF New
    <3> QED BY <1>2, <2>1, <3>2, <3>3 DEF Origin
  <2>3. CASE \E k \in 1 .. Len(rows) : i = k + offset /\ new[i].row = rows[k]
    <3>1. PICK k \in 1 .. Len(rows) : i = k + offset /\ new[i].row = rows[k] BY <2>3
    <3>2. CASE j \in 1 .. Len(file) /\ new[j].row = file[j].row
      <4>1. file[j].row \in Readable(file) BY <1>2, <3>2, WhatIsReadable
      <4> QED BY <1>2, <3>1, <3>2, <4>1 DEF New
    <3>3. CASE \E h \in 1 .. Len(rows) : j = h + offset /\ new[j].row = rows[h]
      <4>1. PICK h \in 1 .. Len(rows) : j = h + offset /\ new[j].row = rows[h] BY <3>3
      <4>2. k = h BY <1>2, <3>1, <4>1 DEF New
      <4> QED BY <1>2, <3>1, <4>1, <4>2
    <3> QED BY <1>2, <2>1, <3>2, <3>3 DEF Origin
  <2> QED BY <1>2, <2>1, <2>2, <2>3 DEF Origin
<1>3. ASSUME NEW r \in Readable(new)
      PROVE  r \in Readable(file) \cup {rows[k] : k \in 1 .. Len(rows)}
  <2>1. r # Junk /\ \E i \in 1 .. Len(new) : new[i].row = r BY WhatIsReadable
  <2>2. PICK i \in 1 .. Len(new) : new[i].row = r BY <2>1
  <2>3. Origin(file, rows, new, offset, i) OBVIOUS
  <2>4. CASE i \in 1 .. Len(file) /\ new[i].row = file[i].row BY <2>1, <2>2, <2>4, WhatIsReadable
  <2>5. CASE \E k \in 1 .. Len(rows) : i = k + offset /\ new[i].row = rows[k] BY <2>2, <2>5
  <2> QED BY <2>1, <2>2, <2>3, <2>4, <2>5 DEF Origin
<1>4. RowsOnce(new) BY <1>1, <1>2 DEF RowsOnce
<1> QED BY <1>3, <1>4

OffsetOf(file, rows) == IF rows # <<>> /\ Unended(file) THEN Len(file) - 1 ELSE Len(file)

LEMMA OriginsOfAppended ==
  ASSUME NEW file \in Seq(FileLines), NEW rows \in Seq(AllRows)
  PROVE  /\ Appended(file, rows) \in Seq(FileLines)
         /\ Len(Appended(file, rows)) = Len(rows) + OffsetOf(file, rows)
         /\ \A i \in 1 .. Len(Appended(file, rows)) :
               Origin(file, rows, Appended(file, rows), OffsetOf(file, rows), i)
<1>1. Len(file) \in Nat /\ Len(rows) \in Nat BY LenProperties
<1>2. \A i \in 1 .. Len(rows) : Line(rows[i]).row = rows[i] BY DEF Line
<1>3. CASE rows # <<>> /\ Unended(file)
  <2> DEFINE new == Appended(file, rows)
  <2>1. /\ new \in Seq(FileLines) /\ Len(file) > 0 /\ Len(rows) > 0
        /\ Len(new) = Len(file) + Len(rows) - 1
        /\ \A i \in 1 .. (Len(file) - 1) : new[i] = file[i]
        /\ new[Len(file)] = Line(Junk)
        /\ \A i \in 2 .. Len(rows) : new[Len(file) + i - 1] = Line(rows[i])
    BY <1>3, IntoTheTornLine
  <2> HIDE DEF new
  <2>2. OffsetOf(file, rows) = Len(file) - 1 BY <1>3 DEF OffsetOf
  <2>3. ASSUME NEW i \in 1 .. Len(new) PROVE Origin(file, rows, new, Len(file) - 1, i)
    <3>1. CASE i < Len(file)
      <4>1. i \in 1 .. (Len(file) - 1) /\ i \in 1 .. Len(file) BY <1>1, <2>1, <3>1
      <4>2. new[i].row = file[i].row BY <2>1, <4>1
      <4> QED BY <4>1, <4>2 DEF Origin
    <3>2. CASE i = Len(file) BY <2>1, <3>2 DEF Origin, Line
    <3>3. CASE i > Len(file)
      <4> DEFINE k == i - Len(file) + 1
      <4>1. k \in 2 .. Len(rows) /\ k \in 1 .. Len(rows) /\ i = k + (Len(file) - 1) /\ i = Len(file) + k - 1
        BY <1>1, <2>1, <3>3
      <4> HIDE DEF k
      <4>2. new[i] = Line(rows[k]) BY <2>1, <4>1
      <4>3. new[i].row = rows[k] BY <1>2, <4>1, <4>2
      <4> QED BY <4>1, <4>3 DEF Origin
    <3> QED BY <1>1, <2>1, <3>1, <3>2, <3>3
  <2>4. Len(new) = Len(rows) + (Len(file) - 1) BY <1>1, <2>1
  <2> QED BY <2>1, <2>2, <2>3, <2>4 DEF new
<1>4. CASE ~ (rows # <<>> /\ Unended(file))
  <2> DEFINE new == Appended(file, rows)
  <2>1. /\ new \in Seq(FileLines) /\ Len(new) = Len(file) + Len(rows)
        /\ \A i \in 1 .. Len(file) : new[i] = file[i]
        /\ \A i \in 1 .. Len(rows) : new[Len(file) + i] = Line(rows[i])
    BY <1>4, BehindTheFile
  <2> HIDE DEF new
  <2>2. OffsetOf(file, rows) = Len(file) BY <1>4 DEF OffsetOf
  <2>3. ASSUME NEW i \in 1 .. Len(new) PROVE Origin(file, rows, new, Len(file), i)
    <3>1. CASE i <= Len(file)
      <4>1. i \in 1 .. Len(file) BY <1>1, <2>1, <3>1
      <4>2. new[i].row = file[i].row BY <2>1, <4>1
      <4> QED BY <4>1, <4>2 DEF Origin
    <3>2. CASE i > Len(file)
      <4> DEFINE k == i - Len(file)
      <4>1. k \in 1 .. Len(rows) /\ i = k + Len(file) /\ i = Len(file) + k BY <1>1, <2>1, <3>2
      <4> HIDE DEF k
      <4>2. new[i] = Line(rows[k]) BY <2>1, <4>1
      <4>3. new[i].row = rows[k] BY <1>2, <4>1, <4>2
      <4> QED BY <4>1, <4>3 DEF Origin
    <3> QED BY <1>1, <2>1, <3>1, <3>2
  <2>4. Len(new) = Len(rows) + Len(file) BY <1>1, <2>1
  <2> QED BY <2>1, <2>2, <2>3, <2>4 DEF new
<1> QED BY <1>3, <1>4

\* An append loses two rows where a line was torn, and none elsewhere.
LEMMA AppendLoses ==
  ASSUME NEW file \in Seq(FileLines), NEW rows \in Seq(AllRows)
  PROVE  \E lost : /\ IsFiniteSet(lost)
                   /\ Cardinality(lost) <= (IF rows # <<>> /\ Unended(file) THEN 2 ELSE 0)
                   /\ Readable(file) \cup {rows[k] : k \in 1 .. Len(rows)}
                        \subseteq Readable(Appended(file, rows)) \cup lost
<1>1. Len(file) \in Nat /\ Len(rows) \in Nat BY LenProperties
<1>2. \A k \in 1 .. Len(rows) : rows[k] # Junk /\ Line(rows[k]).row = rows[k]
  <2> TAKE k \in 1 .. Len(rows)
  <2>1. rows[k] \in AllRows BY ElementOfSeq
  <2> QED BY <2>1, RowsHaveDays DEF Line
<1> DEFINE new == Appended(file, rows)
           all == Readable(file) \cup {rows[k] : k \in 1 .. Len(rows)}
<1>3. new \in Seq(FileLines) BY OriginsOfAppended
<1>4. CASE rows # <<>> /\ Unended(file)
  <2> DEFINE lost == {file[Len(file)].row} \cup {rows[1]}
  <2>1. IsFiniteSet(lost) /\ Cardinality(lost) <= 2
    <3> DEFINE A == {file[Len(file)].row}
    <3>1. IsFiniteSet(A) /\ Cardinality(A) = 1 BY FS_Singleton
    <3> HIDE DEF A
    <3>2. IsFiniteSet(A \cup {rows[1]}) /\ Cardinality(A \cup {rows[1]})
             = IF rows[1] \in A THEN Cardinality(A) ELSE Cardinality(A) + 1 BY <3>1, FS_AddElement
    <3>3. Cardinality(A \cup {rows[1]}) <= 2 BY <3>1, <3>2
    <3> QED BY <3>2, <3>3 DEF A
  <2>2. /\ Len(file) > 0 /\ Len(rows) > 0
        /\ Len(new) = Len(file) + Len(rows) - 1
        /\ \A i \in 1 .. (Len(file) - 1) : new[i] = file[i]
        /\ \A i \in 2 .. Len(rows) : new[Len(file) + i - 1] = Line(rows[i])
    BY <1>4, IntoTheTornLine
  <2> HIDE DEF new
  <2>3. ASSUME NEW r \in Readable(file), r \notin lost PROVE r \in Readable(new)
    <3>1. PICK i \in 1 .. Len(file) : file[i].row = r BY WhatIsReadable
    <3>2. r # Junk BY WhatIsReadable
    <3>3. i # Len(file) BY <2>3, <3>1
    <3>4. i \in 1 .. (Len(file) - 1) /\ i \in 1 .. Len(new) BY <1>1, <2>2, <3>3
    <3>5. new[i].row = r BY <2>2, <3>1, <3>4
    <3> QED BY <1>3, <3>2, <3>4, <3>5, WhatIsReadable
  <2>4. ASSUME NEW k \in 1 .. Len(rows), rows[k] \notin lost PROVE rows[k] \in Readable(new)
    <3>1. k # 1 BY <2>4
    <3>2. k \in 2 .. Len(rows) /\ Len(file) + k - 1 \in 1 .. Len(new) BY <1>1, <2>2, <3>1
    <3>3. new[Len(file) + k - 1].row = rows[k] BY <1>2, <2>2, <3>2
    <3> QED BY <1>2, <1>3, <3>2, <3>3, WhatIsReadable
  <2> HIDE DEF lost
  <2>5. all \subseteq Readable(new) \cup lost BY <2>3, <2>4
  <2> QED BY <1>4, <2>1, <2>5 DEF new
<1>5. CASE ~ (rows # <<>> /\ Unended(file))
  <2>1. IsFiniteSet({}) /\ Cardinality({}) = 0 BY FS_EmptySet
  <2>2. /\ Len(new) = Len(file) + Len(rows)
        /\ \A i \in 1 .. Len(file) : new[i] = file[i]
        /\ \A i \in 1 .. Len(rows) : new[Len(file) + i] = Line(rows[i])
    BY <1>5, BehindTheFile
  <2> HIDE DEF new
  <2>3. ASSUME NEW r \in Readable(file) PROVE r \in Readable(new)
    <3>1. PICK i \in 1 .. Len(file) : file[i].row = r BY WhatIsReadable
    <3>2. r # Junk BY WhatIsReadable
    <3>3. i \in 1 .. Len(new) BY <1>1, <2>2
    <3>4. new[i].row = r BY <2>2, <3>1
    <3> QED BY <1>3, <3>2, <3>3, <3>4, WhatIsReadable
  <2>4. ASSUME NEW k \in 1 .. Len(rows) PROVE rows[k] \in Readable(new)
    <3>1. Len(file) + k \in 1 .. Len(new) BY <1>1, <2>2
    <3>2. new[Len(file) + k].row = rows[k] BY <1>2, <2>2
    <3> QED BY <1>2, <1>3, <3>1, <3>2, WhatIsReadable
  <2>5. all \subseteq Readable(new) \cup {} BY <2>3, <2>4
  <2> HIDE DEF all
  <2>6. IsFiniteSet({}) /\ Cardinality({}) <= 0 /\ all \subseteq Readable(new) \cup {} BY <2>1, <2>5
  <2> QED BY <1>5, <2>6 DEF new, all
<1> QED BY <1>4, <1>5

LEMMA EndOfAppended ==
  ASSUME NEW file \in Seq(FileLines), NEW rows \in Seq(AllRows)
  PROVE  Unended(Appended(file, rows)) <=> rows = <<>> /\ Unended(file)
<1>1. Len(file) \in Nat /\ Len(rows) \in Nat /\ (Len(rows) = 0 <=> rows = <<>>)
      /\ (Len(file) = 0 <=> file = <<>>)
  BY LenProperties, EmptySeq
<1> DEFINE new == Appended(file, rows)
<1>2. new \in Seq(FileLines) BY OriginsOfAppended
<1>3. Len(new) \in Nat /\ (Len(new) = 0 <=> new = <<>>) BY <1>2, LenProperties, EmptySeq
<1>4. CASE rows # <<>> /\ Unended(file)
  <2>1. /\ Len(file) > 0 /\ Len(rows) > 0 /\ Len(new) = Len(file) + Len(rows) - 1
        /\ new[Len(file)] = Line(Junk)
        /\ \A i \in 2 .. Len(rows) : new[Len(file) + i - 1] = Line(rows[i])
    BY <1>4, IntoTheTornLine
  <2> HIDE DEF new
  <2>2. new[Len(new)].ended
    <3>1. CASE Len(rows) = 1
      <4>1. Len(new) = Len(file) BY <1>1, <2>1, <3>1
      <4> QED BY <2>1, <4>1 DEF Line
    <3>2. CASE Len(rows) > 1
      <4>1. Len(rows) \in 2 .. Len(rows) /\ Len(new) = Len(file) + Len(rows) - 1 BY <1>1, <2>1, <3>2
      <4>2. new[Len(new)] = Line(rows[Len(rows)]) BY <2>1, <4>1
      <4> QED BY <4>2 DEF Line
    <3>3. Len(rows) = 1 \/ Len(rows) > 1
      <4> DEFINE n == Len(rows)
      <4>1. n \in Nat /\ n > 0 BY <1>1, <2>1
      <4> HIDE DEF n
      <4>2. n = 1 \/ n > 1 BY <4>1
      <4> QED BY <4>2 DEF n
    <3> QED BY <3>1, <3>2, <3>3
  <2>3. ~ Unended(new) BY <2>2 DEF Unended
  <2> QED BY <1>4, <2>3 DEF new
<1>5. CASE ~ (rows # <<>> /\ Unended(file))
  <2>1. /\ Len(new) = Len(file) + Len(rows)
        /\ \A i \in 1 .. Len(file) : new[i] = file[i]
        /\ \A i \in 1 .. Len(rows) : new[Len(file) + i] = Line(rows[i])
    BY <1>5, BehindTheFile
  <2> HIDE DEF new
  <2>2. CASE rows = <<>>
    <3>1. Len(new) = Len(file) BY <1>1, <2>1, <2>2
    <3>2. new = <<>> <=> file = <<>> BY <1>1, <1>3, <3>1
    <3>3. file # <<>> => new[Len(new)] = file[Len(file)]
      <4>1. file # <<>> => Len(file) \in 1 .. Len(file) BY <1>1
      <4> QED BY <2>1, <3>1, <4>1
    <3>4. Unended(new) <=> Unended(file) BY <3>2, <3>3 DEF Unended
    <3> QED BY <2>2, <3>4 DEF new
  <2>3. CASE rows # <<>>
    <3>1. Len(rows) \in 1 .. Len(rows) /\ Len(new) = Len(file) + Len(rows) BY <1>1, <2>1, <2>3
    <3>2. new[Len(new)] = Line(rows[Len(rows)]) BY <2>1, <3>1
    <3>3. ~ Unended(new) BY <3>2 DEF Unended, Line
    <3> QED BY <2>3, <3>3 DEF new
  <2> QED BY <2>2, <2>3
<1> QED BY <1>4, <1>5

\* Whatever is left of an append, no row is twice in it.
LEMMA CutsKeepRowsOnce ==
  ASSUME NEW file \in Seq(FileLines), RowsOnce(file), NEW rows \in Seq(AllRows), New(file, rows),
         NEW cut \in Cuts(file, rows)
  PROVE  cut \in Seq(FileLines) /\ RowsOnce(cut)
<1>1. Len(file) \in Nat /\ Len(rows) \in Nat /\ (Len(file) = 0 <=> file = <<>>) BY LenProperties, EmptySeq
<1> DEFINE sub(n) == SubSeq(rows, 1, n)
           whole(n) == Appended(file, sub(n))
           after(n) == {Append(whole(n), Piece(r)) : r \in {Junk, rows[n + 1]}}
<1>2. PICK n \in 0 .. (Len(rows) - 1) :
        cut \in (IF n = 0 /\ Unended(file) THEN {Append(Front(file), Piece(Junk))} ELSE after(n))
  BY DEF Cuts
<1>3. n \in Nat /\ n < Len(rows) /\ n + 1 \in 1 .. Len(rows) BY <1>1
<1>4. rows[n + 1] \in AllRows BY <1>3, ElementOfSeq
<1>5. CASE n = 0 /\ Unended(file)
  <2> DEFINE front == Front(file)
             m == Len(file) - 1
  <2>1. cut = Append(front, Piece(Junk)) BY <1>2, <1>5
  <2>2. Len(file) > 0 BY <1>1, <1>5 DEF Unended
  <2>3. front \in Seq(FileLines) /\ Len(front) = m /\ \A i \in 1 .. m : front[i] = file[i]
    <3>1. 1 \in Int /\ m \in Int /\ m >= 0 /\ m - 1 + 1 = m /\ (1 <= m => m - 1 + 1 = m) BY <1>1, <2>2
    <3>2. \A i \in 1 .. m : file[i] \in FileLines
      <4> TAKE i \in 1 .. m
      <4>1. i \in 1 .. Len(file) BY <1>1, <2>2
      <4> QED BY <4>1, ElementOfSeq
    <3> HIDE DEF m
    <3>3. /\ SubSeq(file, 1, m) \in Seq(FileLines)
          /\ Len(SubSeq(file, 1, m)) = IF 1 <= m THEN m - 1 + 1 ELSE 0
          /\ \A i \in 1 .. m - 1 + 1 : SubSeq(file, 1, m)[i] = file[1 + i - 1]
      BY <3>1, <3>2, SubSeqProperties
    <3>4. front = SubSeq(file, 1, m) BY DEF Front, m
    <3>5. Len(SubSeq(file, 1, m)) = m BY <3>1, <3>3
    <3>6. \A i \in 1 .. m : SubSeq(file, 1, m)[i] = file[i]
      <4> TAKE i \in 1 .. m
      <4>1. i \in 1 .. m - 1 + 1 /\ 1 + i - 1 = i BY <3>1
      <4> QED BY <3>3, <4>1
    <3> HIDE DEF front
    <3> QED BY <3>3, <3>4, <3>5, <3>6
  <2>4. Piece(Junk) \in FileLines BY DEF Piece, FileLines
  <2> HIDE DEF front
  <2>5. /\ cut \in Seq(FileLines) /\ Len(cut) = m + 1
        /\ \A i \in 1 .. m : cut[i] = file[i]
        /\ cut[m + 1] = Piece(Junk)
    BY <2>1, <2>3, <2>4, AppendProperties
  <2>6. ASSUME NEW i \in 1 .. Len(cut) PROVE Origin(file, rows, cut, 0, i)
    <3>1. CASE i = m + 1 BY <2>5, <3>1 DEF Origin, Piece
    <3>2. CASE i # m + 1
      <4>1. i \in 1 .. m /\ i \in 1 .. Len(file) BY <1>1, <2>2, <2>5, <3>2
      <4>2. cut[i].row = file[i].row BY <2>5, <4>1
      <4> QED BY <4>1, <4>2 DEF Origin
    <3> QED BY <3>1, <3>2
  <2> QED BY <2>5, <2>6, OriginsKeepRowsOnce
<1>6. CASE ~ (n = 0 /\ Unended(file))
  <2>1. PICK r \in {Junk, rows[n + 1]} : cut = Append(whole(n), Piece(r)) BY <1>2, <1>6
  <2> DEFINE part == sub(n)
  <2>2. part \in Seq(AllRows) /\ Len(part) = n /\ \A i \in 1 .. n : part[i] = rows[i]
    <3>1. 1 \in Int /\ n \in Int /\ n - 1 + 1 = n /\ (IF 1 <= n THEN n - 1 + 1 ELSE 0) = n BY <1>3
    <3>2. \A i \in 1 .. n : rows[i] \in AllRows
      <4> TAKE i \in 1 .. n
      <4>1. i \in 1 .. Len(rows) BY <1>1, <1>3
      <4> QED BY <4>1, ElementOfSeq
    <3>3. /\ SubSeq(rows, 1, n) \in Seq(AllRows)
          /\ Len(SubSeq(rows, 1, n)) = IF 1 <= n THEN n - 1 + 1 ELSE 0
          /\ \A i \in 1 .. n - 1 + 1 : SubSeq(rows, 1, n)[i] = rows[1 + i - 1]
      BY <3>1, <3>2, SubSeqProperties
    <3>4. \A i \in 1 .. n : SubSeq(rows, 1, n)[i] = rows[i]
      <4> TAKE i \in 1 .. n
      <4>1. i \in 1 .. n - 1 + 1 /\ 1 + i - 1 = i BY <3>1
      <4> QED BY <3>3, <4>1
    <3> QED BY <3>1, <3>3, <3>4
  <2> HIDE DEF part
  <2> DEFINE old == Appended(file, part)
             offset == OffsetOf(file, part)
  <2>3. cut = Append(old, Piece(r)) BY <2>1 DEF part
  <2>4. /\ old \in Seq(FileLines) /\ Len(old) = n + offset
        /\ \A i \in 1 .. Len(old) : Origin(file, part, old, offset, i)
    BY <2>2, OriginsOfAppended
  <2>5. offset \in Int BY <1>1 DEF OffsetOf
  <2>6. Piece(r) \in FileLines BY <1>4 DEF Piece, FileLines
  <2> HIDE DEF old, offset
  <2>7. /\ cut \in Seq(FileLines) /\ Len(cut) = Len(old) + 1
        /\ \A i \in 1 .. Len(old) : cut[i] = old[i]
        /\ cut[Len(old) + 1] = Piece(r)
    BY <2>3, <2>4, <2>6, AppendProperties
  <2>8. Len(old) \in Nat BY <2>4, LenProperties
  <2>9. ASSUME NEW i \in 1 .. Len(cut) PROVE Origin(file, rows, cut, offset, i)
    <3>1. CASE i = Len(old) + 1
      <4>1. cut[i].row = r BY <2>7, <3>1 DEF Piece
      <4>2. i = (n + 1) + offset BY <1>3, <2>4, <2>5, <3>1
      <4> QED BY <1>3, <4>1, <4>2 DEF Origin
    <3>2. CASE i # Len(old) + 1
      <4>1. i \in 1 .. Len(old) BY <2>7, <2>8, <3>2
      <4>2. Origin(file, part, old, offset, i) /\ cut[i] = old[i] BY <2>4, <2>7, <4>1
      <4>3. \A k \in 1 .. Len(part) : k \in 1 .. Len(rows) /\ part[k] = rows[k] BY <1>1, <1>3, <2>2
      <4> QED BY <4>2, <4>3 DEF Origin
    <3> QED BY <3>1, <3>2
  <2> QED BY <2>5, <2>7, <2>9, OriginsKeepRowsOnce
<1> QED BY <1>5, <1>6

LEMMA UnionBound ==
  ASSUME NEW A, NEW B, NEW C, IsFiniteSet(A), IsFiniteSet(B), C \subseteq A \cup B
  PROVE  IsFiniteSet(C) /\ Cardinality(C) \in Nat /\ Cardinality(C) <= Cardinality(A) + Cardinality(B)
<1> DEFINE U == A \cup B
           D == A \cap B
<1>1. IsFiniteSet(U) /\ Cardinality(U) = Cardinality(A) + Cardinality(B) - Cardinality(D) BY FS_Union
<1>2. D \in SUBSET A /\ C \in SUBSET U OBVIOUS
<1> HIDE DEF U, D
<1>3. IsFiniteSet(D) BY <1>2, FS_Subset
<1>4. IsFiniteSet(C) /\ Cardinality(C) <= Cardinality(U) BY <1>1, <1>2, FS_Subset
<1>5. /\ Cardinality(A) \in Nat /\ Cardinality(B) \in Nat /\ Cardinality(C) \in Nat
      /\ Cardinality(D) \in Nat /\ Cardinality(U) \in Nat
  BY <1>1, <1>3, <1>4, FS_CardinalityType
<1> QED BY <1>1, <1>4, <1>5

LEMMA NothingIsLost ==
  ASSUME known' = {}
  PROVE  Cardinality(LostRows') = 0
<1>1. LostRows' = {} BY DEF LostRows
<1> QED BY <1>1, FS_EmptySet

LEMMA LostIsFinite ==
  ASSUME HistoryInv
  PROVE  IsFiniteSet(LostRows) /\ Cardinality(LostRows) \in Nat
<1>1. LostRows \in SUBSET AllRows BY DEF HistoryInv, KnownSoFar, LostRows
<1>2. IsFiniteSet(LostRows) BY <1>1, RowsAreFinite, FS_Subset
<1> QED BY <1>2, FS_CardinalityType

LEMMA FreshRows ==
  ASSUME HistoryInv, hAt # "idle"
  PROVE  /\ Fresh(hTask) \in Seq(AllRows)
         /\ New(optionFile, Fresh(hTask))
         /\ {Fresh(hTask)[k] : k \in 1 .. Len(Fresh(hTask))} = TaskRows(hTask) \ known
<1> DEFINE rows == TaskRows(hTask) \ known
           fresh == ByDay(rows)
<1>1. hTask \in 1 .. HistoryTasks BY DEF HistoryInv, HistoryTypes
<1>2. rows \in SUBSET AllRows /\ \A q, r \in rows : q.day = r.day => q = r BY <1>1, RowsHaveDays
<1>3. Readable(optionFile) \subseteq known BY DEF HistoryInv, KnownSoFar
<1>4. \A r \in rows : r \notin known OBVIOUS
<1> HIDE DEF rows
<1>5. IsFiniteSet(rows) /\ \A r \in rows : r.day \in Nat BY <1>2, RowsAreFinite, RowsHaveDays, FS_Subset
<1>6. /\ fresh \in Seq(rows)
      /\ \A i, j \in DOMAIN fresh : fresh[i] = fresh[j] => i = j
      /\ \A r \in rows : \E i \in DOMAIN fresh : fresh[i] = r
  BY <1>2, <1>5, InOrderOfDays
<1> HIDE DEF fresh
<1>7. DOMAIN fresh = 1 .. Len(fresh) /\ \A i \in 1 .. Len(fresh) : fresh[i] \in rows
  BY <1>6, LenProperties, ElementOfSeq
<1>8. fresh \in Seq(AllRows) BY <1>2, <1>6, SeqMonotonic
<1>9. New(optionFile, fresh) BY <1>3, <1>4, <1>6, <1>7 DEF New
<1>10. {fresh[k] : k \in 1 .. Len(fresh)} = rows BY <1>6, <1>7
<1>11. Fresh(hTask) = fresh BY DEF Fresh, fresh, rows
<1> QED BY <1>8, <1>9, <1>10, <1>11 DEF rows

\* A step of the import that writes no option row, and loses none of its memory but
\* all of it at its end.
LEMMA FileIsLeftAlone ==
  ASSUME HistoryInv, UNCHANGED optionFile, tornAppends' \in Nat, tornAppends' >= tornAppends,
         hAt' \in {"idle", "fetch", "append", "spot", "regimes", "finish"}, hTask' \in 1 .. HistoryTasks,
         KnownSoFar',
         known' \in {known, {}, Readable(optionFile)},
         manifest' # "COMPLETE"
  PROVE  HistoryInv'
<1>1. HistoryTypes' BY DEF HistoryInv, HistoryTypes
<1>2. RowsOnce(optionFile)' BY DEF HistoryInv, RowsOnce
<1>3. StillToLose' = StillToLose /\ StillToLose \in {0, 2} BY DEF StillToLose, Unended
<1>4. Cardinality(LostRows') + StillToLose' <= 2 * tornAppends'
  <2>1. Cardinality(LostRows) \in Nat BY LostIsFinite
  <2>2. Cardinality(LostRows') = Cardinality(LostRows) \/ Cardinality(LostRows') = 0
    <3>1. CASE known' = known
      <4>1. LostRows' = LostRows BY <3>1 DEF LostRows, Readable
      <4> QED BY <4>1
    <3>2. CASE known' # known
      <4>1. LostRows' = {} BY <3>2 DEF LostRows, Readable
      <4> QED BY <4>1, FS_EmptySet
    <3> QED BY <3>1, <3>2
  <2>3. tornAppends \in Nat /\ Cardinality(LostRows) + StillToLose <= 2 * tornAppends
    BY DEF HistoryInv, HistoryTypes
  <2> QED BY <1>3, <2>1, <2>2, <2>3
<1> QED BY <1>1, <1>2, <1>4 DEF HistoryInv

\* An append of the rows of a task.
LEMMA AppendTaskKeeps ==
  ASSUME HistoryInv, AppendTask
  PROVE  HistoryInv'
<1> DEFINE rows == Fresh(hTask)
           new == Appended(optionFile, rows)
<1>1. hAt = "append" /\ hAt # "idle" BY DEF AppendTask
<1>2. optionFile \in Seq(FileLines) /\ RowsOnce(optionFile) /\ hTask \in 1 .. HistoryTasks /\ tornAppends \in Nat
  BY DEF HistoryInv, HistoryTypes
<1>3. rows \in Seq(AllRows) /\ New(optionFile, rows)
      /\ {rows[k] : k \in 1 .. Len(rows)} = TaskRows(hTask) \ known
  BY <1>1, FreshRows
<1>4. optionFile' = new /\ known' = known \cup TaskRows(hTask) /\ tornAppends' = tornAppends
      /\ manifest' = manifest
  BY DEF AppendTask
<1>5. HistoryTasks \in Nat BY NaturalTasks
<1>6. /\ hTask' = IF hTask < HistoryTasks THEN hTask + 1 ELSE hTask
      /\ hAt' = IF hTask < HistoryTasks THEN "fetch" ELSE "spot"
  BY DEF AppendTask
<1> HIDE DEF rows
<1>7. /\ new \in Seq(FileLines)
      /\ \A i \in 1 .. Len(new) : Origin(optionFile, rows, new, OffsetOf(optionFile, rows), i)
  BY <1>2, <1>3, OriginsOfAppended
<1>8. OffsetOf(optionFile, rows) \in Int
  <2>1. Len(optionFile) \in Nat BY <1>2, LenProperties
  <2> QED BY <2>1 DEF OffsetOf
<1>9. RowsOnce(new) /\ Readable(new) \subseteq Readable(optionFile) \cup {rows[k] : k \in 1 .. Len(rows)}
  <2> HIDE DEF new
  <2> QED BY <1>2, <1>3, <1>7, <1>8, OriginsKeepRowsOnce
<1>10. Unended(new) <=> rows = <<>> /\ Unended(optionFile) BY <1>2, <1>3, EndOfAppended
<1>11. PICK lost : /\ IsFiniteSet(lost)
                   /\ Cardinality(lost) <= (IF rows # <<>> /\ Unended(optionFile) THEN 2 ELSE 0)
                   /\ Readable(optionFile) \cup {rows[k] : k \in 1 .. Len(rows)} \subseteq Readable(new) \cup lost
  BY <1>2, <1>3, AppendLoses
<1> HIDE DEF new
<1>12. HistoryTypes' BY <1>2, <1>4, <1>5, <1>6, <1>7 DEF HistoryTypes
<1>13. RowsOnce(optionFile)' BY <1>4, <1>9 DEF RowsOnce
<1>14. KnownSoFar'
  <2>1. /\ known \subseteq AllRows /\ Readable(optionFile) \subseteq known
        /\ \A t \in 1 .. (hTask - 1) : TaskRows(t) \subseteq known
    BY <1>1 DEF HistoryInv, KnownSoFar
  <2>2. TaskRows(hTask) \subseteq AllRows BY <1>2, RowsHaveDays
  <2>3. known' \subseteq AllRows BY <1>4, <2>1, <2>2
  <2>4. Readable(optionFile') \subseteq known' BY <1>3, <1>4, <1>9, <2>1
  <2>5. \A t \in 1 .. hTask : TaskRows(t) \subseteq known'
    <3> SUFFICES ASSUME NEW t \in 1 .. hTask PROVE TaskRows(t) \subseteq known' OBVIOUS
    <3>1. t = hTask \/ t \in 1 .. (hTask - 1) BY <1>2
    <3> QED BY <1>4, <2>1, <3>1
  <2>6. hTask' - 1 <= hTask BY <1>2, <1>6
  <2>7. \A t \in 1 .. (hTask' - 1) : TaskRows(t) \subseteq known'
    <3> SUFFICES ASSUME NEW t \in 1 .. (hTask' - 1) PROVE TaskRows(t) \subseteq known' OBVIOUS
    <3>1. t \in 1 .. hTask BY <1>2, <1>6, <2>6
    <3> QED BY <2>5, <3>1
  <2>8. hAt' = "spot" => AllRows \subseteq known'
    <3> SUFFICES ASSUME hAt' = "spot" PROVE AllRows \subseteq known' OBVIOUS
    <3>1. hTask = HistoryTasks BY <1>2, <1>5, <1>6
    <3> QED BY <2>5, <3>1 DEF AllRows
  <2>9. hAt' \in {"fetch", "spot"} BY <1>6
  <2>10. \A t : TaskRows(t)' = TaskRows(t) BY DEF TaskRows
  <2>11. AllRows' = AllRows BY DEF AllRows, TaskRows
  <2> QED BY <2>3, <2>4, <2>7, <2>8, <2>9 DEF KnownSoFar
<1>15. Cardinality(LostRows') + StillToLose' <= 2 * tornAppends'
  <2>1. LostRows' \subseteq LostRows \cup lost
    <3>1. LostRows' = (known \cup TaskRows(hTask)) \ Readable(new) BY <1>4 DEF LostRows
    <3> SUFFICES ASSUME NEW r \in (known \cup TaskRows(hTask)) \ Readable(new)
                 PROVE  r \in LostRows \cup lost
      BY <3>1
    <3>2. CASE r \in Readable(optionFile) \/ r \in TaskRows(hTask) \ known BY <1>3, <1>11, <3>2
    <3>3. CASE ~ (r \in Readable(optionFile) \/ r \in TaskRows(hTask) \ known) BY <3>3 DEF LostRows
    <3> QED BY <3>2, <3>3
  <2>2. IsFiniteSet(LostRows) /\ Cardinality(LostRows) \in Nat BY LostIsFinite
  <2>3. /\ Cardinality(LostRows') \in Nat
        /\ Cardinality(LostRows') <= Cardinality(LostRows) + Cardinality(lost)
    <3> DEFINE later == LostRows'
    <3>1. later \subseteq LostRows \cup lost BY <2>1
    <3> HIDE DEF later
    <3>2. Cardinality(later) \in Nat /\ Cardinality(later) <= Cardinality(LostRows) + Cardinality(lost)
      BY <1>11, <2>2, <3>1, UnionBound
    <3> QED BY <3>2 DEF later
  <2>4. Cardinality(lost) \in Nat BY <1>11, FS_CardinalityType
  <2>5. Cardinality(LostRows) + StillToLose <= 2 * tornAppends BY DEF HistoryInv
  <2>6. StillToLose' = (IF rows = <<>> /\ Unended(optionFile) THEN 2 ELSE 0)
    BY <1>4, <1>10 DEF StillToLose
  <2>7. StillToLose = (IF Unended(optionFile) THEN 2 ELSE 0) BY DEF StillToLose
  <2>8. Cardinality(lost) + StillToLose' <= StillToLose
    <3>1. CASE Unended(optionFile) /\ rows # <<>> BY <1>11, <2>4, <2>6, <2>7, <3>1
    <3>2. CASE Unended(optionFile) /\ rows = <<>> BY <1>11, <2>4, <2>6, <2>7, <3>2
    <3>3. CASE ~ Unended(optionFile) BY <1>11, <2>4, <2>6, <2>7, <3>3
    <3> QED BY <3>1, <3>2, <3>3
  <2>9. StillToLose \in Nat /\ StillToLose' \in Nat BY <2>6, <2>7
  <2> DEFINE a == Cardinality(LostRows)
             b == Cardinality(lost)
             c == Cardinality(LostRows')
             s == StillToLose
             u == StillToLose'
  <2>10. a \in Nat /\ b \in Nat /\ c \in Nat /\ s \in Nat /\ u \in Nat
         /\ c <= a + b /\ a + s <= 2 * tornAppends /\ b + u <= s
    BY <2>2, <2>3, <2>4, <2>5, <2>8, <2>9
  <2> HIDE DEF a, b, c, s, u
  <2>11. c + u <= 2 * tornAppends BY <1>2, <2>10
  <2> QED BY <1>4, <2>11 DEF c, u
<1>16. manifest' # "COMPLETE" BY <1>1, <1>4 DEF HistoryInv
<1> QED BY <1>12, <1>13, <1>14, <1>15, <1>16 DEF HistoryInv

LEMMA InitHistoryInv == HistoryInit => HistoryInv
<1> SUFFICES ASSUME HistoryInit PROVE HistoryInv OBVIOUS
<1>1. optionFile = <<>> /\ hAt = "idle" /\ hTask = 1 /\ known = {} /\ tornAppends = 0
      /\ manifest = "NOT_IMPORTED"
  BY DEF HistoryInit
<1>2. HistoryTypes
  <2>1. <<>> \in Seq(FileLines) BY EmptySeq
  <2>2. 1 \in 1 .. HistoryTasks BY NaturalTasks
  <2> QED BY <1>1, <2>1, <2>2 DEF HistoryTypes
<1>3. RowsOnce(optionFile) BY <1>1 DEF RowsOnce
<1>4. KnownSoFar BY <1>1 DEF KnownSoFar
<1>5. Cardinality(LostRows) + StillToLose <= 2 * tornAppends
  <2>1. LostRows = {} BY <1>1 DEF LostRows
  <2>2. Cardinality(LostRows) = 0 BY <2>1, FS_EmptySet
  <2>3. StillToLose = 0 BY <1>1 DEF StillToLose, Unended
  <2> QED BY <1>1, <2>2, <2>3
<1> QED BY <1>1, <1>2, <1>3, <1>4, <1>5 DEF HistoryInv

\* An append is cut off: one more torn append, whatever it leaves.
LEMMA DieAppendingKeeps ==
  ASSUME HistoryInv, DieAppending
  PROVE  HistoryInv'
<1>1. /\ hAt' = "idle" /\ known' = {} /\ tornAppends' = tornAppends + 1 /\ hTask' = hTask
      /\ manifest' \in {manifest, "INTERRUPTED"} /\ hAt \in {"append", "regimes"}
  BY DEF DieAppending, Die
<1>2. optionFile \in Seq(FileLines) /\ RowsOnce(optionFile) /\ hTask \in 1 .. HistoryTasks /\ tornAppends \in Nat
  BY DEF HistoryInv, HistoryTypes
<1>3. optionFile' \in Seq(FileLines) /\ RowsOnce(optionFile')
  <2>1. CASE hAt = "append"
    <3> DEFINE rows == Fresh(hTask)
    <3>1. rows \in Seq(AllRows) /\ New(optionFile, rows) BY <2>1, FreshRows
    <3>2. optionFile' \in Cuts(optionFile, rows) BY <2>1 DEF DieAppending
    <3> HIDE DEF rows
    <3> QED BY <1>2, <3>1, <3>2, CutsKeepRowsOnce
  <2>2. CASE hAt # "append"
    <3>1. optionFile' = optionFile BY <2>2 DEF DieAppending
    <3> QED BY <1>2, <3>1
  <2> QED BY <2>1, <2>2
<1>4. HistoryTypes' BY <1>1, <1>2, <1>3 DEF HistoryTypes
<1>5. RowsOnce(optionFile)' BY <1>3 DEF RowsOnce
<1>6. KnownSoFar' BY <1>1 DEF KnownSoFar
<1>7. Cardinality(LostRows') + StillToLose' <= 2 * tornAppends'
  <2>1. Cardinality(LostRows') = 0 BY <1>1, NothingIsLost
  <2> DEFINE c == Cardinality(LostRows')
             u == StillToLose'
  <2>2. c = 0 /\ u \in {0, 2} BY <2>1 DEF StillToLose
  <2> HIDE DEF c, u
  <2>3. c + u <= 2 * (tornAppends + 1) BY <1>2, <2>2
  <2> QED BY <1>1, <2>3 DEF c, u
<1>8. manifest' # "COMPLETE" BY <1>1 DEF HistoryInv
<1> QED BY <1>4, <1>5, <1>6, <1>7, <1>8 DEF HistoryInv

\* The end of an import: it knows every row, and what it lost is what is missing.
LEMMA FinishKeeps ==
  ASSUME HistoryInv, FinishImport
  PROVE  HistoryInv'
<1>1. /\ hAt = "finish" /\ hAt' = "idle" /\ known' = {} /\ tornAppends' = tornAppends /\ hTask' = hTask
      /\ optionFile' = optionFile
  BY DEF FinishImport, hDisk
<1>2. optionFile \in Seq(FileLines) /\ RowsOnce(optionFile) /\ hTask \in 1 .. HistoryTasks /\ tornAppends \in Nat
  BY DEF HistoryInv, HistoryTypes
<1>3. HistoryTypes' BY <1>1, <1>2 DEF HistoryTypes
<1>4. RowsOnce(optionFile)' BY <1>1, <1>2 DEF RowsOnce
<1>5. KnownSoFar' BY <1>1 DEF KnownSoFar
<1>6. Cardinality(LostRows) + StillToLose <= 2 * tornAppends /\ Cardinality(LostRows) \in Nat
      /\ StillToLose \in {0, 2}
  BY LostIsFinite DEF HistoryInv, StillToLose
<1>7. Cardinality(LostRows') + StillToLose' <= 2 * tornAppends'
  <2>1. Cardinality(LostRows') = 0 BY <1>1, NothingIsLost
  <2>2. StillToLose' = StillToLose BY <1>1 DEF StillToLose
  <2> QED BY <1>1, <1>2, <1>6, <2>1, <2>2
<1>8. Cardinality(AllRows \ Readable(optionFile))' <= 2 * tornAppends'
  <2>1. known = AllRows BY <1>1 DEF HistoryInv, KnownSoFar
  <2>2. LostRows = AllRows \ Readable(optionFile) BY <2>1 DEF LostRows
  <2>3. (AllRows \ Readable(optionFile))' = LostRows BY <1>1, <2>2 DEF AllRows, TaskRows, Readable
  <2>4. Cardinality(LostRows) <= 2 * tornAppends BY <1>2, <1>6
  <2> QED BY <1>1, <2>3, <2>4
<1> QED BY <1>1, <1>3, <1>4, <1>5, <1>7, <1>8 DEF HistoryInv

LEMMA HistoryStep == HistoryInv /\ [HistoryNext]_historyVars => HistoryInv'
<1> SUFFICES ASSUME HistoryInv, [HistoryNext]_historyVars PROVE HistoryInv' OBVIOUS
<1> USE DEF hDisk
<1>1. /\ optionFile \in Seq(FileLines) /\ hTask \in 1 .. HistoryTasks /\ tornAppends \in Nat
      /\ KnownSoFar /\ hAt \in {"idle", "fetch", "append", "spot", "regimes", "finish"}
  BY DEF HistoryInv, HistoryTypes
<1>2. hAt # "idle" => manifest # "COMPLETE" BY DEF HistoryInv
<1>3. Readable(optionFile) \subseteq AllRows BY <1>1, WhatIsReadable
<1>4. 1 \in 1 .. HistoryTasks BY NaturalTasks
<1>5. CASE StartImport
  <2>1. /\ hAt' = "fetch" /\ hTask' = 1 /\ known' = Readable(optionFile) /\ optionFile' = optionFile
        /\ tornAppends' = tornAppends /\ manifest' = "RUNNING"
    BY <1>5 DEF StartImport
  <2>2. KnownSoFar' BY <1>3, <2>1 DEF KnownSoFar, Readable
  <2> QED BY <1>1, <1>4, <2>1, <2>2, FileIsLeftAlone
<1>6. CASE FetchPayload
  <2>1. /\ hAt = "fetch" /\ hAt' \in {"fetch", "append"} /\ hTask' = hTask /\ known' = known
        /\ optionFile' = optionFile /\ tornAppends' = tornAppends /\ manifest' = manifest
    BY <1>6 DEF FetchPayload, Fetched
  <2>2. KnownSoFar' BY <1>1, <2>1 DEF KnownSoFar, Readable
  <2> QED BY <1>1, <1>2, <2>1, <2>2, FileIsLeftAlone
<1>7. CASE AppendTask BY <1>7, AppendTaskKeeps
<1>8. CASE FetchSpot
  <2>1. /\ hAt = "spot" /\ hAt' = "regimes" /\ hTask' = hTask /\ known' = known
        /\ optionFile' = optionFile /\ tornAppends' = tornAppends /\ manifest' = manifest
    BY <1>8 DEF FetchSpot
  <2>2. KnownSoFar' BY <1>1, <2>1 DEF KnownSoFar, Readable
  <2> QED BY <1>1, <1>2, <2>1, <2>2, FileIsLeftAlone
<1>9. CASE SpotUnreadable \/ ImportFails \/ DieBetweenWrites \/ DieWritingSpot
  <2>1. /\ hAt # "idle" /\ hAt' = "idle" /\ hTask' = hTask /\ known' = {}
        /\ optionFile' = optionFile /\ tornAppends' \in {tornAppends, tornAppends + 0}
        /\ manifest' \in {manifest, "INTERRUPTED"}
    <3>1. CASE SpotUnreadable BY <3>1 DEF SpotUnreadable
    <3>2. CASE ImportFails BY <3>2 DEF ImportFails
    <3>3. CASE DieBetweenWrites BY <3>3 DEF DieBetweenWrites, Die
    <3>4. CASE DieWritingSpot BY <3>4 DEF DieWritingSpot, Die
    <3> QED BY <1>9, <3>1, <3>2, <3>3, <3>4
  <2>2. tornAppends' = tornAppends BY <1>1, <2>1
  <2>3. KnownSoFar' BY <2>1 DEF KnownSoFar
  <2> QED BY <1>1, <1>2, <2>1, <2>2, <2>3, FileIsLeftAlone
<1>10. CASE MaterializeRegimes
  <2>1. /\ hAt = "regimes" /\ hAt' = "finish" /\ hTask' = hTask /\ known' = known
        /\ optionFile' = optionFile /\ tornAppends' = tornAppends /\ manifest' = manifest
    BY <1>10 DEF MaterializeRegimes
  <2>2. KnownSoFar' BY <1>1, <2>1 DEF KnownSoFar, Readable
  <2> QED BY <1>1, <1>2, <2>1, <2>2, FileIsLeftAlone
<1>11. CASE FinishImport BY <1>11, FinishKeeps
<1>12. CASE SplitRange
  <2>1. /\ hAt = "fetch" /\ hAt' = hAt /\ hTask' = hTask /\ known' = known
        /\ optionFile' = optionFile /\ tornAppends' = tornAppends /\ manifest' = manifest
    BY <1>12 DEF SplitRange
  <2>2. KnownSoFar' BY <1>1, <2>1 DEF KnownSoFar, Readable
  <2> QED BY <1>1, <1>2, <2>1, <2>2, FileIsLeftAlone
<1>13. CASE DieAppending BY <1>13, DieAppendingKeeps
<1>14. CASE UNCHANGED historyVars
  <2>1. UNCHANGED <<optionFile, hAt, hTask, known, tornAppends, manifest>> BY <1>14 DEF historyVars, hRun
  <2> QED BY <2>1 DEF HistoryInv, HistoryTypes, RowsOnce, KnownSoFar, LostRows, StillToLose, Readable, Unended
<1> QED BY <1>5, <1>6, <1>7, <1>8, <1>9, <1>10, <1>11, <1>12, <1>13, <1>14
       DEF HistoryNext, ImportStep, ImportFault

LEMMA HistoryInvIsWhole == HistoryInv => ResumedImportIsWhole
  BY DEF HistoryInv, RowsOnce, ResumedImportIsWhole

\* Each lost row is accounted for by a torn append: the inductive invariant of the
\* import (HistoricalOiImporter._run with OiRegimeRepository._append).
THEOREM HistoryInvariant == HistorySpec => []HistoryInv
  BY InitHistoryInv, HistoryStep, PTL DEF HistorySpec

\* However often an import was interrupted and resumed, once it says COMPLETE every
\* row of the provider is on disk once, but for two rows for each torn append.
THEOREM ImportsAreWhole == HistorySpec => []ResumedImportIsWhole
  BY HistoryInvariant, HistoryInvIsWhole, PTL

-----------------------------------------------------------------------------
(* The market data of the crypto service. *)

\* The answer of OKX for the page that ends before the cursor is full only when all of
\* its bars exist.
LEMMA OkxPageIs ==
  ASSUME NEW c \in Nat, barNow \in Nat
  PROVE  /\ IsFiniteSet(OkxPage(c)) /\ OkxPage(c) \in SUBSET Int
         /\ Cardinality(OkxPage(c)) >= PageSize =>
              /\ OkxPage(c) = (c - PageSize) .. (c - 1)
              /\ c - PageSize \in Nat /\ Min(OkxPage(c)) = c - PageSize
         /\ Cardinality(OkxPage(c)) < PageSize /\ c <= barNow + 1 => OkxPage(c) = 0 .. (c - 1)
<1>1. PageSize \in Nat /\ PageSize > 0 BY CryptoBounds
<1> DEFINE a == IF c >= PageSize THEN c - PageSize ELSE 0
           b == IF c - 1 <= barNow THEN c - 1 ELSE barNow
<1>2. a \in Int /\ b \in Int /\ a >= 0 BY <1>1
<1>3. OkxPage(c) = a .. b BY <1>1 DEF OkxPage
<1>4. IsFiniteSet(a .. b) /\ Cardinality(a .. b) = IF a > b THEN 0 ELSE b - a + 1
  <2> HIDE DEF a, b
  <2> QED BY <1>2, FS_Interval
<1>5. ASSUME Cardinality(OkxPage(c)) >= PageSize PROVE a = c - PageSize /\ b = c - 1 /\ a <= b /\ c - PageSize \in Nat
  <2>1. b - a + 1 >= PageSize /\ a <= b
    <3> HIDE DEF a, b
    <3> QED BY <1>1, <1>2, <1>3, <1>4, <1>5
  <2> QED BY <1>1, <2>1
<1>6. ASSUME Cardinality(OkxPage(c)) >= PageSize PROVE Min(OkxPage(c)) = c - PageSize
  <2> HIDE DEF a, b
  <2>1. OkxPage(c) = a .. b /\ a <= b /\ a = c - PageSize BY <1>3, <1>5, <1>6
  <2>2. a .. b # {} /\ a .. b \in SUBSET Int BY <1>2, <2>1
  <2>3. Min(a .. b) \in a .. b /\ \A y \in a .. b : Min(a .. b) <= y BY <1>4, <2>2, MinIsLeast
  <2>4. a \in a .. b BY <1>2, <2>1
  <2>5. Min(a .. b) = a BY <1>2, <2>3, <2>4
  <2> QED BY <2>1, <2>5
<1>7. ASSUME Cardinality(OkxPage(c)) < PageSize, c <= barNow + 1 PROVE a = 0 /\ b = c - 1
  <2>1. ~ (a <= b /\ b - a + 1 >= PageSize)
    <3> HIDE DEF a, b
    <3> QED BY <1>1, <1>2, <1>3, <1>4, <1>7
  <2> QED BY <1>1, <1>7, <2>1
<1>8. IsFiniteSet(OkxPage(c)) /\ OkxPage(c) \in SUBSET Int
  <2> HIDE DEF a, b
  <2> QED BY <1>2, <1>3, <1>4
<1> HIDE DEF a, b
<1> QED BY <1>3, <1>5, <1>6, <1>7, <1>8

\* The candles of the pages from a cursor back to the start of a window.
IsPages(f, start, n) ==
    f = [cursor \in 0 .. n |->
            IF cursor <= start THEN {}
            ELSE IF Cardinality(OkxPage(cursor)) < PageSize THEN OkxPage(cursor)
            ELSE OkxPage(cursor) \cup f[Min(OkxPage(cursor))]]

\* There is one function of the cursor that is the pages.
LEMMA PagesExist ==
  ASSUME barNow \in Nat, NEW start \in Nat, NEW n \in Nat PROVE \E f : IsPages(f, start, n)
<1> DEFINE S == {k \in Nat : \E f : IsPages(f, start, k)}
<1>0. PageSize \in Nat /\ PageSize > 0 BY CryptoBounds
<1>1. 0 \in S
  <2> DEFINE g == [cursor \in 0 .. 0 |-> {}]
  <2>1. IsPages(g, start, 0)
    <3>1. \A cursor \in 0 .. 0 : cursor <= start OBVIOUS
    <3> QED BY <3>1 DEF IsPages
  <2> QED BY <2>1
<1>2. ASSUME NEW m \in Nat, m \in S PROVE m + 1 \in S
  <2>1. PICK f : IsPages(f, start, m) BY <1>2
  <2> DEFINE Page(cursor) == OkxPage(cursor)
             Value(cursor, h) == IF cursor <= start THEN {}
                                 ELSE IF Cardinality(Page(cursor)) < PageSize THEN Page(cursor)
                                 ELSE Page(cursor) \cup h[Min(Page(cursor))]
             g == [k \in 0 .. (m + 1) |-> IF k <= m THEN f[k] ELSE Value(m + 1, f)]
  <2>2. \A k \in 0 .. m : f[k] = Value(k, f) BY <2>1 DEF IsPages
  <2>3. ASSUME NEW k \in 0 .. (m + 1) PROVE Value(k, f) = Value(k, g)
    <3>1. CASE Cardinality(Page(k)) < PageSize BY <3>1
    <3>2. CASE ~ (Cardinality(Page(k)) < PageSize)
      <4>1. Cardinality(Page(k)) >= PageSize
        <5>1. IsFiniteSet(OkxPage(k)) BY OkxPageIs
        <5>2. Cardinality(OkxPage(k)) \in Nat BY <5>1, FS_CardinalityType
        <5> QED BY <1>0, <3>2, <5>2
      <4>2. Min(Page(k)) = k - PageSize /\ k - PageSize \in Nat BY <4>1, OkxPageIs
      <4>3. k - PageSize \in 0 .. (m + 1) /\ k - PageSize <= m BY <1>0, <4>2
      <4>4. f[Min(Page(k))] = g[Min(Page(k))] BY <4>2, <4>3
      <4> HIDE DEF Page, g
      <4> QED BY <4>4
    <3> QED BY <3>1, <3>2
  <2>4. ASSUME NEW k \in 0 .. (m + 1) PROVE g[k] = Value(k, g)
    <3>1. g[k] = Value(k, f)
      <4>1. CASE k <= m
        <5>1. k \in 0 .. m BY <4>1
        <5>2. f[k] = Value(k, f) BY <2>2, <5>1
        <5>3. g[k] = f[k] BY <4>1
        <5> HIDE DEF g, Value
        <5> QED BY <5>2, <5>3
      <4>2. CASE k = m + 1
        <5>1. ~ (k <= m) BY <4>2
        <5> HIDE DEF Value
        <5> QED BY <4>2, <5>1
      <4> QED BY <4>1, <4>2
    <3>2. Value(k, f) = Value(k, g) BY <2>3
    <3> HIDE DEF g, Value
    <3> QED BY <3>1, <3>2
  <2>5. g = [k \in 0 .. (m + 1) |-> g[k]] OBVIOUS
  <2>6. IsPages(g, start, m + 1)
    <3> HIDE DEF g
    <3> QED BY <2>4, <2>5 DEF IsPages
  <2> HIDE DEF g
  <2> QED BY <2>6
<1> HIDE DEF S
<1>3. n \in S BY <1>1, <1>2, CountUp
<1> QED BY <1>3 DEF S

\* The pages hold every bar from the start of the window to the cursor.
LEMMA PagesHold ==
  ASSUME barNow \in Nat, NEW start \in Nat, NEW n \in Nat, NEW f, IsPages(f, start, n),
         NEW c \in 0 .. n, c <= barNow + 1
  PROVE  start .. (c - 1) \in SUBSET f[c] /\ f[c] \in SUBSET Int
<1> DEFINE Held(d) == start .. (d - 1) \in SUBSET f[d] /\ f[d] \in SUBSET Int
           S == {k \in Nat : \A d \in 0 .. n : d <= k /\ d <= barNow + 1 => Held(d)}
<1>0. PageSize \in Nat /\ PageSize > 0 BY CryptoBounds
<1>a. \A d \in 0 .. n : f[d] = IF d <= start THEN {}
            ELSE IF Cardinality(OkxPage(d)) < PageSize THEN OkxPage(d)
            ELSE OkxPage(d) \cup f[Min(OkxPage(d))] BY DEF IsPages
<1>1. 0 \in S
  <2> SUFFICES ASSUME NEW d \in 0 .. n, d <= 0 PROVE Held(d) OBVIOUS
  <2>1. start .. (d - 1) = {} /\ d <= start OBVIOUS
  <2> QED BY <1>a, <2>1
<1>2. ASSUME NEW m \in Nat, m \in S PROVE m + 1 \in S
  <2> HIDE DEF Held
  <2> SUFFICES ASSUME NEW d \in 0 .. n, d <= m + 1, d <= barNow + 1 PROVE Held(d) OBVIOUS
  <2> USE DEF Held
  <2>1. CASE d <= start
    <3>1. start .. (d - 1) = {} BY <2>1
    <3> QED BY <1>a, <2>1, <3>1
  <2>2. CASE ~ (d <= start) /\ Cardinality(OkxPage(d)) < PageSize
    <3>1. f[d] = OkxPage(d) BY <1>a, <2>2
    <3>2. OkxPage(d) = 0 .. (d - 1) BY <2>2, OkxPageIs
    <3>3. start .. (d - 1) \in SUBSET (0 .. (d - 1)) OBVIOUS
    <3> QED BY <3>1, <3>2, <3>3, OkxPageIs
  <2>3. CASE ~ (d <= start) /\ ~ (Cardinality(OkxPage(d)) < PageSize)
    <3>1. f[d] = OkxPage(d) \cup f[Min(OkxPage(d))] BY <1>a, <2>3
    <3>2. Cardinality(OkxPage(d)) >= PageSize
      <4>1. IsFiniteSet(OkxPage(d)) BY OkxPageIs
      <4>2. Cardinality(OkxPage(d)) \in Nat BY <4>1, FS_CardinalityType
      <4> QED BY <1>0, <2>3, <4>2
    <3>3. OkxPage(d) = (d - PageSize) .. (d - 1) /\ d - PageSize \in Nat /\ Min(OkxPage(d)) = d - PageSize
      BY <3>2, OkxPageIs
    <3>4. d - PageSize \in 0 .. n /\ d - PageSize <= m /\ d - PageSize <= barNow + 1 BY <1>0, <3>3
    <3>5. Held(d - PageSize) BY <1>2, <3>4
    <3>6. f[d] = ((d - PageSize) .. (d - 1)) \cup f[d - PageSize] BY <3>1, <3>3
    <3>7. ASSUME NEW x \in start .. (d - 1) PROVE x \in ((d - PageSize) .. (d - 1)) \/ x \in start .. ((d - PageSize) - 1)
      BY <1>0
    <3>8. start .. (d - 1) \in SUBSET f[d] BY <3>5, <3>6, <3>7
    <3>9. f[d] \in SUBSET Int BY <1>0, <3>5, <3>6
    <3> QED BY <3>8, <3>9
  <2> QED BY <2>1, <2>2, <2>3
<1> HIDE DEF S, Held
<1>3. c \in S
  <2>1. c \in Nat OBVIOUS
  <2> QED BY <1>1, <1>2, <2>1, CountUp
<1>4. c <= c OBVIOUS
<1>5. Held(c) BY <1>3, <1>4 DEF S
<1> QED BY <1>5 DEF Held

\* OKX: every bar of a window that ends in the past.
LEMMA OkxCandlesAre ==
  ASSUME barNow \in Nat, barNow <= MaxBarTime, NEW start \in Nat, NEW end \in Nat, end <= barNow
  PROVE  OkxCandles(start, end) = start .. (end - 1)
<1>0. MaxBarTime \in Nat BY CryptoBounds
<1> DEFINE n == MaxBarTime + 1
           h == CHOOSE f : f = [cursor \in 0 .. n |->
                    IF cursor <= start THEN {}
                    ELSE IF Cardinality(OkxPage(cursor)) < PageSize THEN OkxPage(cursor)
                    ELSE OkxPage(cursor) \cup f[Min(OkxPage(cursor))]]
<1>1. n \in Nat BY <1>0
<1>2. IsPages(h, start, n)
  <2> HIDE DEF n
  <2>1. \E f : IsPages(f, start, n) BY <1>1, PagesExist
  <2> QED BY <2>1 DEF IsPages
<1>3. OkxCandles(start, end) = {b \in h[end + 1] : start <= b /\ b < end /\ b < barNow} BY DEF OkxCandles
<1> HIDE DEF h
<1>4. start .. ((end + 1) - 1) \in SUBSET h[end + 1] /\ h[end + 1] \in SUBSET Int
  <2>1. end + 1 \in 0 .. n /\ end + 1 <= barNow + 1 BY <1>0
  <2> HIDE DEF n
  <2> QED BY <1>1, <1>2, <2>1, PagesHold
<1>5. \A x \in start .. (end - 1) : x \in start .. ((end + 1) - 1) /\ start <= x /\ x < end /\ x < barNow OBVIOUS
<1>6. \A x \in h[end + 1] : start <= x /\ x < end /\ x < barNow => x \in start .. (end - 1)
  <2> TAKE x \in h[end + 1]
  <2>1. x \in Int BY <1>4
  <2> QED BY <2>1
<1> QED BY <1>3, <1>4, <1>5, <1>6

\* VALR: the chunks from a cursor on to the end of the window.
IsChunks(f, end, n) ==
    f = [cursor \in 0 .. n |->
            IF cursor >= end THEN {}
            ELSE (cursor .. (Min({end, cursor + PageSize}) - 1)) \cup f[cursor + PageSize]]

\* One chunk and the chunks behind it are the rest of the window.
LEMMA ChunkJoins ==
  ASSUME NEW end \in Nat, NEW c \in Nat, c < end
  PROVE  (c .. (Min({end, c + PageSize}) - 1)) \cup ((c + PageSize) .. (end - 1)) = c .. (end - 1)
<1>1. PageSize \in Nat /\ PageSize > 0 BY CryptoBounds
<1> DEFINE least == Min({end, c + PageSize})
<1>2. least = IF end <= c + PageSize THEN end ELSE c + PageSize BY <1>1, OfTwo
<1> HIDE DEF least
<1>3. (c .. (least - 1)) \cup ((c + PageSize) .. (end - 1)) = c .. (end - 1) BY <1>1, <1>2
<1> QED BY <1>3 DEF least

\* There is one function of the cursor that is the chunks.
LEMMA ChunksExist ==
  ASSUME NEW end \in Nat, end <= MaxBarTime
  PROVE  \E f : IsChunks(f, end, MaxBarTime + PageSize)
<1>0. PageSize \in Nat /\ PageSize > 0 /\ MaxBarTime \in Nat BY CryptoBounds
<1> DEFINE n == MaxBarTime + PageSize
           g == [cursor \in 0 .. n |-> cursor .. (end - 1)]
<1>1. ASSUME NEW c \in 0 .. n
      PROVE  g[c] = IF c >= end THEN {} ELSE (c .. (Min({end, c + PageSize}) - 1)) \cup g[c + PageSize]
  <2>1. CASE c >= end BY <1>0, <2>1
  <2>2. CASE ~ (c >= end)
    <3>1. c \in Nat /\ c < end /\ c + PageSize \in 0 .. n BY <1>0, <2>2
    <3>2. g[c + PageSize] = (c + PageSize) .. (end - 1) BY <3>1
    <3>3. (c .. (Min({end, c + PageSize}) - 1)) \cup ((c + PageSize) .. (end - 1)) = c .. (end - 1) BY <3>1, ChunkJoins
    <3>4. g[c] = c .. (end - 1) OBVIOUS
    <3> HIDE DEF g
    <3> QED BY <2>2, <3>2, <3>3, <3>4
  <2> QED BY <2>1, <2>2
<1>2. g = [c \in 0 .. n |-> g[c]] OBVIOUS
<1> HIDE DEF g
<1>3. IsChunks(g, end, n) BY <1>1, <1>2 DEF IsChunks
<1> QED BY <1>3

\* The chunks hold every bar from the cursor to the end of the window.
LEMMA ChunksHold ==
  ASSUME NEW end \in Nat, end <= MaxBarTime, NEW f, IsChunks(f, end, MaxBarTime + PageSize),
         NEW c \in 0 .. (MaxBarTime + PageSize)
  PROVE  f[c] = c .. (end - 1)
<1>0. PageSize \in Nat /\ PageSize > 0 /\ MaxBarTime \in Nat BY CryptoBounds
<1> DEFINE n == MaxBarTime + PageSize
           S == {k \in Nat : \A d \in 0 .. n : end - d <= k => f[d] = d .. (end - 1)}
<1>a. \A d \in 0 .. n : f[d] = IF d >= end THEN {}
            ELSE (d .. (Min({end, d + PageSize}) - 1)) \cup f[d + PageSize] BY DEF IsChunks
<1>b. n \in Nat BY <1>0
<1> HIDE DEF n
<1>1. 0 \in S
  <2> SUFFICES ASSUME NEW d \in 0 .. n, end - d <= 0 PROVE f[d] = d .. (end - 1) OBVIOUS
  <2>1. d >= end /\ d .. (end - 1) = {} BY <1>b
  <2> QED BY <1>a, <2>1
<1>2. ASSUME NEW m \in Nat, m \in S PROVE m + 1 \in S
  <2> SUFFICES ASSUME NEW d \in 0 .. n, end - d <= m + 1 PROVE f[d] = d .. (end - 1) OBVIOUS
  <2>1. CASE d >= end
    <3>1. d .. (end - 1) = {} BY <1>b, <2>1
    <3> QED BY <1>a, <2>1, <3>1
  <2>2. CASE ~ (d >= end)
    <3>1. d \in Nat /\ d < end /\ d + PageSize \in 0 .. n /\ end - (d + PageSize) <= m BY <1>0, <2>2 DEF n
    <3>2. f[d + PageSize] = (d + PageSize) .. (end - 1) BY <1>2, <3>1
    <3>3. (d .. (Min({end, d + PageSize}) - 1)) \cup ((d + PageSize) .. (end - 1)) = d .. (end - 1) BY <3>1, ChunkJoins
    <3> QED BY <1>a, <2>2, <3>2, <3>3
  <2> QED BY <2>1, <2>2
<1> HIDE DEF S
<1>3. end \in S BY <1>1, <1>2, CountUp
<1>4. c \in 0 .. n /\ end - c <= end BY DEF n
<1> QED BY <1>3, <1>4 DEF S

\* VALR: the same bars.
LEMMA ValrCandlesAre ==
  ASSUME barNow \in Nat, barNow <= MaxBarTime, NEW start \in Nat, start <= MaxBarTime, NEW end \in Nat, end <= barNow
  PROVE  ValrCandles(start, end) = start .. (end - 1)
<1>0. PageSize \in Nat /\ MaxBarTime \in Nat BY CryptoBounds
<1> DEFINE n == MaxBarTime + PageSize
           h == CHOOSE f : f = [cursor \in 0 .. n |->
                    IF cursor >= end THEN {}
                    ELSE (cursor .. (Min({end, cursor + PageSize}) - 1)) \cup f[cursor + PageSize]]
<1>1. end <= MaxBarTime BY <1>0
<1>2. IsChunks(h, end, n)
  <2>1. \E f : IsChunks(f, end, n) BY <1>1, ChunksExist
  <2> HIDE DEF n
  <2> QED BY <2>1 DEF IsChunks
<1>3. ValrCandles(start, end) = {b \in h[start] : b < barNow} BY DEF ValrCandles
<1> HIDE DEF h
<1>4. start \in 0 .. n BY <1>0
<1>5. h[start] = start .. (end - 1) BY <1>1, <1>2, <1>4, ChunksHold
<1>6. \A x \in start .. (end - 1) : x < barNow OBVIOUS
<1> QED BY <1>3, <1>5, <1>6

\* What either provider answers for a window that ends in the past.
LEMMA ProviderCandlesAre ==
  ASSUME barNow \in Nat, barNow <= MaxBarTime, NEW i, NEW start \in Nat, NEW end \in Nat, start <= MaxBarTime, end <= barNow
  PROVE  ProviderCandles(i, start, end) = start .. (end - 1)
BY OkxCandlesAre, ValrCandlesAre DEF ProviderCandles
-----------------------------------------------------------------------------
ThreadRecord == [at : {"idle", "read", "fetch", "save", "again", "evaluate"}, kind : {"scan", "backtest"},
                 todo : SUBSET Instruments, start : Nat, end : Nat, fetch : Nat, result : SUBSET Nat]

\* A thread at work has an instrument left and a window that ends in the past.
TaskIsSane(task, now) ==
    /\ task \in ThreadRecord
    /\ task.at # "idle" => task.todo # {}
    /\ task.end <= now /\ task.start <= MaxBarTime /\ task.fetch <= MaxBarTime
    /\ task.at \in {"fetch", "save"} => task.start <= task.fetch
    /\ task.at = "save" => task.result = task.fetch .. (task.end - 1)

\* A thread that fetches or saves the tail of its window has the rest in the cache, and
\* one that has saved it has all of the window there.
RestIsCached(task, bars, apart) ==
    /\ task.at \in {"fetch", "save"} =>
        \/ Subject(task) \in apart
        \/ (task.start + 1) .. (task.fetch - 1) \in SUBSET bars[Subject(task)]
    /\ task.at = "again" =>
        \/ Subject(task) \in apart
        \/ (task.start + 1) .. (task.end - 2) \in SUBSET bars[Subject(task)]

\* A thread that evaluates its candles has all of the window but its first and last bar.
WindowIsWhole(task, apart) ==
    task.at = "evaluate" =>
        \/ Subject(task) \in apart
        \/ (task.start + 1) .. (task.end - 2) \in SUBSET task.result

CryptoTypes ==
    /\ barNow \in Nat /\ barNow <= MaxBarTime
    /\ cachedBars \in [Instruments -> SUBSET (0 .. MaxBarTime)]
    /\ cryptoThread \in [CryptoThreads -> ThreadRecord]

\* A cache that no sync ever filled apart from what it held has no hole.
NoHole(bars) == \A x, z \in bars : \A y \in x .. z : y \in bars
CachesAreWhole == \A i \in Instruments : i \in detached \/ NoHole(cachedBars[i])

TasksAreSound ==
    \A t \in CryptoThreads :
        /\ TaskIsSane(cryptoThread[t], barNow)
        /\ RestIsCached(cryptoThread[t], cachedBars, detached)
        /\ WindowIsWhole(cryptoThread[t], detached)

CryptoInv == CryptoTypes /\ CachesAreWhole /\ TasksAreSound

\* The instrument a thread works on is one it still has to do.
LEMMA SubjectIsOne ==
  ASSUME NEW task, TaskIsSane(task, barNow), task.at # "idle"
  PROVE  Subject(task) \in Instruments /\ Subject(task) \in task.todo
BY DEF TaskIsSane, Subject, ThreadRecord

\* The service starts with empty caches and idle threads.
LEMMA InitCrypto == CryptoInit => CryptoInv
<1> SUFFICES ASSUME CryptoInit PROVE CryptoInv OBVIOUS
<1>0. MaxBarTime \in Nat /\ 1 <= MaxBarTime BY CryptoBounds
<1>1. IdleThread \in ThreadRecord BY DEF IdleThread, ThreadRecord
<1>2. CryptoTypes BY <1>0, <1>1 DEF CryptoInit, CryptoTypes
<1>3. CachesAreWhole BY DEF CryptoInit, CachesAreWhole, NoHole
<1>4. ASSUME NEW t \in CryptoThreads
      PROVE  /\ TaskIsSane(cryptoThread[t], barNow) /\ RestIsCached(cryptoThread[t], cachedBars, detached)
             /\ WindowIsWhole(cryptoThread[t], detached)
  <2>1. cryptoThread[t] = IdleThread /\ barNow = 1 BY DEF CryptoInit
  <2>2. IdleThread.at = "idle" /\ IdleThread.end = 0 /\ IdleThread.start = 0 /\ IdleThread.fetch = 0 BY DEF IdleThread
  <2>3. TaskIsSane(IdleThread, 1) BY <1>0, <1>1, <2>2 DEF TaskIsSane
  <2>4. RestIsCached(IdleThread, cachedBars, detached) /\ WindowIsWhole(IdleThread, detached)
    BY <2>2 DEF RestIsCached, WindowIsWhole
  <2> QED BY <2>1, <2>3, <2>4
<1> QED BY <1>2, <1>3, <1>4 DEF CryptoInv, TasksAreSound

\* What a task has is not lost while time passes and caches are filled.
LEMMA TaskStays ==
  ASSUME NEW task, NEW now \in Nat, NEW later \in Nat, now <= later, TaskIsSane(task, now),
         NEW bars, NEW more, \A i \in Instruments : bars[i] \in SUBSET more[i],
         NEW apart, NEW aparter, apart \in SUBSET aparter,
         RestIsCached(task, bars, apart), WindowIsWhole(task, apart)
  PROVE  TaskIsSane(task, later) /\ RestIsCached(task, more, aparter) /\ WindowIsWhole(task, aparter)
<1>1. TaskIsSane(task, later)
  <2>1. task.end \in Nat BY DEF TaskIsSane, ThreadRecord
  <2> QED BY <2>1 DEF TaskIsSane
<1>2. RestIsCached(task, more, aparter)
  <2> SUFFICES ASSUME task.at \in {"fetch", "save", "again"} PROVE RestIsCached(task, more, aparter) BY DEF RestIsCached
  <2>1. Subject(task) \in Instruments BY DEF TaskIsSane, Subject, ThreadRecord
  <2>2. bars[Subject(task)] \in SUBSET more[Subject(task)] BY <2>1
  <2> QED BY <2>2 DEF RestIsCached
<1>3. WindowIsWhole(task, aparter) BY DEF WindowIsWhole
<1> QED BY <1>1, <1>2, <1>3

\* A step that only lets time pass or fills caches without a hole.
LEMMA TasksStay ==
  ASSUME CryptoInv, barNow' \in Nat, barNow <= barNow', barNow' <= MaxBarTime,
         cachedBars' = cachedBars, detached' = detached, cryptoThread' = cryptoThread
  PROVE  CryptoInv'
<1>1. CryptoTypes' BY DEF CryptoInv, CryptoTypes
<1>2. CachesAreWhole' BY DEF CryptoInv, CachesAreWhole
<1>3. ASSUME NEW t \in CryptoThreads
      PROVE  /\ TaskIsSane(cryptoThread[t], barNow') /\ RestIsCached(cryptoThread[t], cachedBars, detached)
             /\ WindowIsWhole(cryptoThread[t], detached)
  <2>1. /\ TaskIsSane(cryptoThread[t], barNow) /\ RestIsCached(cryptoThread[t], cachedBars, detached)
        /\ WindowIsWhole(cryptoThread[t], detached) /\ barNow \in Nat BY DEF CryptoInv, TasksAreSound, CryptoTypes
  <2>2. \A i \in Instruments : cachedBars[i] \in SUBSET cachedBars[i] OBVIOUS
  <2>3. detached \in SUBSET detached OBVIOUS
  <2> QED BY <2>1, <2>2, <2>3, TaskStays
<1>4. TasksAreSound' BY <1>3 DEF TasksAreSound
<1> QED BY <1>1, <1>2, <1>4 DEF CryptoInv

\* A step of one thread, which may fill the cache of an instrument.
LEMMA ThreadMoves ==
  ASSUME CryptoInv, NEW t \in CryptoThreads, NEW task, barNow' = barNow,
         cryptoThread' = [cryptoThread EXCEPT ![t] = task],
         cachedBars' \in [Instruments -> SUBSET (0 .. MaxBarTime)],
         \A i \in Instruments : cachedBars[i] \in SUBSET cachedBars'[i],
         detached \in SUBSET detached', CachesAreWhole',
         TaskIsSane(task, barNow), RestIsCached(task, cachedBars', detached'), WindowIsWhole(task, detached')
  PROVE  CryptoInv'
<1>1. CryptoTypes'
  <2>1. task \in ThreadRecord BY DEF TaskIsSane
  <2> QED BY <2>1 DEF CryptoInv, CryptoTypes
<1>2. ASSUME NEW u \in CryptoThreads
      PROVE  /\ TaskIsSane(cryptoThread'[u], barNow') /\ RestIsCached(cryptoThread'[u], cachedBars', detached')
             /\ WindowIsWhole(cryptoThread'[u], detached')
  <2>0. cryptoThread \in [CryptoThreads -> ThreadRecord] /\ barNow \in Nat BY DEF CryptoInv, CryptoTypes
  <2>1. CASE u = t
    <3>1. cryptoThread'[u] = task BY <2>0, <2>1
    <3> QED BY <3>1
  <2>2. CASE u # t
    <3>1. cryptoThread'[u] = cryptoThread[u] BY <2>0, <2>2
    <3>2. /\ TaskIsSane(cryptoThread[u], barNow) /\ RestIsCached(cryptoThread[u], cachedBars, detached)
          /\ WindowIsWhole(cryptoThread[u], detached) BY DEF CryptoInv, TasksAreSound
    <3>3. barNow <= barNow BY <2>0
    <3>4. /\ TaskIsSane(cryptoThread[u], barNow) /\ RestIsCached(cryptoThread[u], cachedBars', detached')
          /\ WindowIsWhole(cryptoThread[u], detached') BY <2>0, <3>2, <3>3, TaskStays
    <3> QED BY <3>1, <3>4
  <2> QED BY <2>1, <2>2
<1>3. TasksAreSound' BY <1>2 DEF TasksAreSound
<1> QED BY <1>1, <1>3 DEF CryptoInv

\* A step of one thread that fills no cache and neither fetches nor evaluates next.
LEMMA ThreadGoesOn ==
  ASSUME CryptoInv, NEW t \in CryptoThreads, NEW task, barNow' = barNow, cachedBars' = cachedBars, detached' = detached,
         cryptoThread' = [cryptoThread EXCEPT ![t] = task],
         TaskIsSane(task, barNow), task.at \in {"idle", "read"}
  PROVE  CryptoInv'
<1>1. cachedBars' \in [Instruments -> SUBSET (0 .. MaxBarTime)] BY DEF CryptoInv, CryptoTypes
<1>2. \A i \in Instruments : cachedBars[i] \in SUBSET cachedBars'[i] OBVIOUS
<1>3. detached \in SUBSET detached' /\ CachesAreWhole' BY DEF CryptoInv, CachesAreWhole
<1>4. RestIsCached(task, cachedBars', detached') /\ WindowIsWhole(task, detached') BY DEF RestIsCached, WindowIsWhole
<1> QED BY <1>1, <1>2, <1>3, <1>4, ThreadMoves

\* A thread that has nothing to do.
LEMMA IdleIsSane == ASSUME CryptoInv PROVE TaskIsSane(IdleThread, barNow) /\ IdleThread.at = "idle"
<1>1. IdleThread \in ThreadRecord /\ IdleThread.at = "idle" BY DEF IdleThread, ThreadRecord
<1>2. IdleThread.end = 0 /\ IdleThread.start = 0 /\ IdleThread.fetch = 0 BY DEF IdleThread
<1>3. MaxBarTime \in Nat /\ barNow \in Nat BY CryptoBounds DEF CryptoInv, CryptoTypes
<1> QED BY <1>1, <1>2, <1>3 DEF TaskIsSane

\* A thread that is done with one instrument goes on to the next or rests.
LEMMA AfterIsSane ==
  ASSUME CryptoInv, NEW task, TaskIsSane(task, barNow)
  PROVE  TaskIsSane(After(task), barNow) /\ After(task).at \in {"idle", "read"}
<1> DEFINE rest == task.todo \ {Subject(task)}
<1>1. CASE rest = {} BY <1>1, IdleIsSane DEF After
<1>2. CASE rest # {}
  <2> DEFINE next == [task EXCEPT !.at = "read", !.todo = rest, !.result = {}]
  <2>1. After(task) = next BY <1>2 DEF After
  <2>2. task \in ThreadRecord BY DEF TaskIsSane
  <2>3. rest \in SUBSET Instruments BY <2>2 DEF ThreadRecord
  <2> HIDE DEF rest
  <2>4. next \in ThreadRecord /\ next.at = "read" /\ next.todo = rest BY <2>2, <2>3 DEF ThreadRecord
  <2>5. next.end = task.end /\ next.start = task.start /\ next.fetch = task.fetch BY <2>2 DEF ThreadRecord
  <2> HIDE DEF next
  <2>6. TaskIsSane(next, barNow) BY <1>2, <2>4, <2>5 DEF TaskIsSane
  <2> QED BY <2>1, <2>4, <2>6
<1> QED BY <1>1, <1>2

\* A scan or a backtest starts on a window that ends now.
LEMMA StartCrypto ==
  ASSUME CryptoInv, NEW t \in CryptoThreads, NEW kind \in {"scan", "backtest"}, NEW is \in SUBSET Instruments,
         NEW n \in Windows, StartTask(t, kind, is, n)
  PROVE  CryptoInv'
<1> DEFINE task == [IdleThread EXCEPT !.at = "read", !.kind = kind, !.todo = is, !.start = barNow - n, !.end = barNow]
<1>1. /\ is # {} /\ n <= barNow /\ cryptoThread' = [cryptoThread EXCEPT ![t] = task]
      /\ barNow' = barNow /\ cachedBars' = cachedBars /\ detached' = detached BY DEF StartTask
<1>2. n \in Nat /\ barNow \in Nat /\ barNow <= MaxBarTime /\ MaxBarTime \in Nat
  BY CryptoBounds DEF CryptoInv, CryptoTypes
<1>3. barNow - n \in Nat /\ barNow - n <= MaxBarTime BY <1>1, <1>2
<1>4. /\ task \in ThreadRecord /\ task.at = "read" /\ task.todo = is /\ task.start = barNow - n /\ task.end = barNow
      /\ task.fetch = 0 BY <1>2, <1>3 DEF IdleThread, ThreadRecord
<1> HIDE DEF task
<1>5. TaskIsSane(task, barNow) BY <1>1, <1>2, <1>3, <1>4 DEF TaskIsSane
<1> QED BY <1>1, <1>4, <1>5, ThreadGoesOn

\* The part of a cache in a window is finite, so it has a first and a last bar.
LEMMA CachedIsFinite ==
  ASSUME CryptoInv, NEW i \in Instruments, NEW start, NEW end
  PROVE  CachedIn(i, start, end) \in SUBSET Nat /\ IsFiniteSet(CachedIn(i, start, end))
<1>1. MaxBarTime \in Nat BY CryptoBounds
<1>2. CachedIn(i, start, end) \in SUBSET (0 .. MaxBarTime) BY DEF CryptoInv, CryptoTypes, CachedIn
<1>3. IsFiniteSet(0 .. MaxBarTime)
  <2>1. 0 \in Int /\ MaxBarTime \in Int BY <1>1
  <2> QED BY <2>1, FS_Interval
<1>4. CachedIn(i, start, end) \in SUBSET Nat BY <1>1, <1>2
<1> QED BY <1>2, <1>3, <1>4, FS_Subset

\* A window that the cache suffices for, and the part of one that is not fetched.
LEMMA CacheSpans ==
  ASSUME CryptoInv, NEW i \in Instruments, NoHole(cachedBars[i]), NEW start \in Nat, NEW end \in Nat
  PROVE  LET cached == CachedIn(i, start, end) IN
         /\ CacheSuffices(cached, start, end) => (start + 1) .. (end - 2) \in SUBSET cached
         /\ (start + 1) .. (FetchFrom(cached, start) - 1) \in SUBSET cachedBars[i]
<1> DEFINE cached == CachedIn(i, start, end)
<1>1. cached \in SUBSET Nat /\ IsFiniteSet(cached) BY CachedIsFinite
<1>2. cached \in SUBSET cachedBars[i] /\ \A b \in cachedBars[i] : start <= b /\ b < end => b \in cached BY DEF CachedIn
<1>3. ASSUME cached # {} PROVE Min(cached) \in cached /\ Max(cached) \in cached
  <2> HIDE DEF cached
  <2>1. cached \in SUBSET Int BY <1>1
  <2> QED BY <1>1, <1>3, <2>1, MinIsLeast, MaxIsGreatest
<1> HIDE DEF cached
<1>4. ASSUME cached # {}, Min(cached) <= start + 1, NEW x \in (start + 1) .. Max(cached) PROVE x \in cachedBars[i]
  <2>1. Min(cached) \in Nat /\ Max(cached) \in Nat /\ Min(cached) \in cachedBars[i] /\ Max(cached) \in cachedBars[i]
    BY <1>1, <1>2, <1>3, <1>4
  <2>2. x \in Min(cached) .. Max(cached) BY <1>4, <2>1
  <2> QED BY <2>1, <2>2 DEF NoHole
<1>5. ASSUME CacheSuffices(cached, start, end) PROVE (start + 1) .. (end - 2) \in SUBSET cached
  <2>1. cached # {} /\ Min(cached) <= start + 1 /\ Max(cached) + 1 >= end - 1 BY <1>5 DEF CacheSuffices
  <2>2. Max(cached) \in Nat BY <1>1, <1>3, <2>1
  <2>3. ASSUME NEW x \in (start + 1) .. (end - 2) PROVE x \in cached
    <3>1. x \in (start + 1) .. Max(cached) /\ start <= x /\ x < end BY <2>1, <2>2
    <3> QED BY <1>2, <1>4, <2>1, <3>1
  <2> QED BY <2>3
<1>6. (start + 1) .. (FetchFrom(cached, start) - 1) \in SUBSET cachedBars[i]
  <2>1. CASE cached # {} /\ Min(cached) <= start + 1
    <3>1. Max(cached) \in Nat BY <1>1, <1>3, <2>1
    <3>2. Max(cached) - 1 \in Int BY <3>1
    <3>3. FetchFrom(cached, start) = Max({start, Max(cached) - 1}) BY <2>1 DEF FetchFrom
    <3>4. FetchFrom(cached, start) = IF start <= Max(cached) - 1 THEN Max(cached) - 1 ELSE start
      <4>1. PICK last : last = Max(cached) - 1 OBVIOUS
      <4>2. start \in Int /\ last \in Int BY <3>2, <4>1
      <4>3. Max({start, last}) = IF start <= last THEN last ELSE start BY <4>2, OfTwo
      <4> QED BY <3>3, <4>1, <4>3
    <3>5. ASSUME NEW x \in (start + 1) .. (FetchFrom(cached, start) - 1) PROVE x \in (start + 1) .. Max(cached)
      BY <3>1, <3>4
    <3> QED BY <1>4, <2>1, <3>5
  <2>2. CASE ~ (cached # {} /\ Min(cached) <= start + 1)
    <3>1. FetchFrom(cached, start) = start BY <2>2 DEF FetchFrom
    <3>2. (start + 1) .. (start - 1) = {} OBVIOUS
    <3> QED BY <3>1, <3>2
  <2> QED BY <2>1, <2>2
<1> QED BY <1>5, <1>6 DEF cached

\* What is fetched starts inside the window.
LEMMA FetchIsInWindow ==
  ASSUME CryptoInv, NEW i \in Instruments, NEW start \in Nat, NEW end \in Nat, start <= MaxBarTime, end <= barNow
  PROVE  LET from == FetchFrom(CachedIn(i, start, end), start) IN
         from \in Nat /\ start <= from /\ from <= MaxBarTime
<1> DEFINE cached == CachedIn(i, start, end)
<1>0. MaxBarTime \in Nat /\ barNow \in Nat /\ barNow <= MaxBarTime BY CryptoBounds DEF CryptoInv, CryptoTypes
<1>1. cached \in SUBSET Nat /\ IsFiniteSet(cached) BY CachedIsFinite
<1>2. \A b \in cached : b < end BY DEF CachedIn
<1> HIDE DEF cached
<1>3. CASE cached # {} /\ Min(cached) <= start + 1
  <2>1. Max(cached) \in cached
    <3>1. cached \in SUBSET Int BY <1>1
    <3> QED BY <1>1, <1>3, <3>1, MaxIsGreatest
  <2>2. Max(cached) \in Nat /\ Max(cached) < end BY <1>1, <1>2, <2>1
  <2>3. Max(cached) - 1 \in Int BY <2>2
  <2>4. FetchFrom(cached, start) = Max({start, Max(cached) - 1}) BY <1>3 DEF FetchFrom
  <2>5. FetchFrom(cached, start) = IF start <= Max(cached) - 1 THEN Max(cached) - 1 ELSE start
    <3>1. PICK last : last = Max(cached) - 1 OBVIOUS
    <3>2. start \in Int /\ last \in Int BY <2>3, <3>1
    <3>3. Max({start, last}) = IF start <= last THEN last ELSE start BY <3>2, OfTwo
    <3> QED BY <2>4, <3>1, <3>3
  <2> QED BY <1>0, <2>2, <2>5 DEF cached
<1>4. CASE ~ (cached # {} /\ Min(cached) <= start + 1)
  <2>1. FetchFrom(cached, start) = start BY <1>4 DEF FetchFrom
  <2> QED BY <2>1 DEF cached
<1> QED BY <1>3, <1>4

\* A cache without a hole that a fetch touches has none afterwards.
LEMMA HolesStayAway ==
  ASSUME NEW bars \in SUBSET Nat, NoHole(bars), NEW from \in Nat, NEW end \in Nat,
         bars = {} \/ bars \cap ((from - 1) .. end) # {}
  PROVE  NoHole(bars \cup (from .. (end - 1)))
<1> DEFINE all == bars \cup (from .. (end - 1))
<1> SUFFICES ASSUME NEW x \in all, NEW z \in all, NEW y \in x .. z PROVE y \in all BY DEF NoHole
<1>0. x \in Nat /\ z \in Nat /\ y \in Nat /\ x <= y /\ y <= z OBVIOUS
<1>1. CASE bars = {} BY <1>0, <1>1
<1>2. CASE bars # {}
  <2>1. PICK w \in bars : w \in (from - 1) .. end BY <1>2
  <2>2. w \in Nat /\ from - 1 <= w /\ w <= end BY <2>1
  <2>3. \A p, q \in bars : p <= y /\ y <= q => y \in bars
    <3> TAKE p, q \in bars
    <3>1. p \in Nat /\ q \in Nat OBVIOUS
    <3> QED BY <1>0, <3>1 DEF NoHole
  <2>4. CASE from <= y /\ y < end BY <1>0, <2>4
  <2>5. CASE y < from
    <3>1. x \in bars BY <1>0, <2>5
    <3>2. CASE z \in bars BY <1>0, <2>3, <3>1, <3>2
    <3>3. CASE z \notin bars
      <4>1. y <= w BY <1>0, <2>2, <2>5
      <4> QED BY <1>0, <2>1, <2>3, <3>1, <4>1
    <3> QED BY <3>2, <3>3
  <2>6. CASE y >= end
    <3>1. z \in bars BY <1>0, <2>6
    <3>2. CASE x \in bars BY <1>0, <2>3, <3>1, <3>2
    <3>3. CASE x \notin bars
      <4>1. w <= y BY <1>0, <2>2, <2>6
      <4> QED BY <1>0, <2>1, <2>3, <3>1, <4>1
    <3> QED BY <3>2, <3>3
  <2> QED BY <1>0, <2>4, <2>5, <2>6
<1> QED BY <1>1, <1>2

\* A thread reads the cache: it evaluates what it holds, or fetches the tail.
LEMMA ReadStep ==
  ASSUME CryptoInv, NEW t \in CryptoThreads, ReadCache(t) PROVE CryptoInv'
<1> DEFINE task == cryptoThread[t]
           i == Subject(task)
           cached == CachedIn(i, task.start, task.end)
           from == FetchFrom(cached, task.start)
           hit == [task EXCEPT !.at = "evaluate", !.result = cached]
           miss == [task EXCEPT !.at = "fetch", !.fetch = from]
           next == IF CacheSuffices(cached, task.start, task.end) THEN hit ELSE miss
<1>1. /\ task.at = "read" /\ cryptoThread' = [cryptoThread EXCEPT ![t] = next]
      /\ barNow' = barNow /\ cachedBars' = cachedBars /\ detached' = detached BY DEF ReadCache
<1>2. TaskIsSane(task, barNow) BY DEF CryptoInv, TasksAreSound
<1>3. task \in ThreadRecord BY <1>2 DEF TaskIsSane
<1>4. /\ task.start \in Nat /\ task.end \in Nat /\ task.start <= MaxBarTime /\ task.end <= barNow /\ task.fetch <= MaxBarTime
      /\ task.todo # {} BY <1>1, <1>2, <1>3 DEF TaskIsSane, ThreadRecord
<1>5. i \in Instruments BY <1>1, <1>2, SubjectIsOne
<1>6. cached \in SUBSET Nat BY <1>5, CachedIsFinite
<1>7. from \in Nat /\ task.start <= from /\ from <= MaxBarTime BY <1>4, <1>5, FetchIsInWindow
<1>8. i \in detached \/ NoHole(cachedBars[i]) BY <1>5 DEF CryptoInv, CachesAreWhole
<1>9. NoHole(cachedBars[i]) =>
          /\ CacheSuffices(cached, task.start, task.end) => (task.start + 1) .. (task.end - 2) \in SUBSET cached
          /\ (task.start + 1) .. (from - 1) \in SUBSET cachedBars[i]
  BY <1>4, <1>5, CacheSpans
<1> HIDE DEF cached, from
<1>10. CASE CacheSuffices(cached, task.start, task.end)
  <2>1. next = hit BY <1>10
  <2> HIDE DEF next
  <2>2. /\ hit \in ThreadRecord /\ hit.at = "evaluate" /\ hit.result = cached /\ hit.todo = task.todo
        /\ hit.start = task.start /\ hit.end = task.end /\ hit.fetch = task.fetch BY <1>3, <1>6 DEF ThreadRecord
  <2>3. Subject(hit) = i BY <2>2 DEF Subject
  <2> HIDE DEF hit, task, i
  <2>4. TaskIsSane(hit, barNow) BY <1>4, <2>2 DEF TaskIsSane
  <2>5. WindowIsWhole(hit, detached) BY <1>8, <1>9, <1>10, <2>2, <2>3 DEF WindowIsWhole
  <2>6. RestIsCached(hit, cachedBars, detached) BY <2>2 DEF RestIsCached
  <2>7. cachedBars \in [Instruments -> SUBSET (0 .. MaxBarTime)] BY DEF CryptoInv, CryptoTypes
  <2>8. CachesAreWhole' BY <1>1 DEF CryptoInv, CachesAreWhole
  <2> QED BY <1>1, <2>1, <2>4, <2>5, <2>6, <2>7, <2>8, ThreadMoves
<1>11. CASE ~ CacheSuffices(cached, task.start, task.end)
  <2>1. next = miss BY <1>11
  <2> HIDE DEF next
  <2>2. /\ miss \in ThreadRecord /\ miss.at = "fetch" /\ miss.todo = task.todo
        /\ miss.start = task.start /\ miss.end = task.end /\ miss.fetch = from BY <1>3, <1>7 DEF ThreadRecord
  <2>3. Subject(miss) = i BY <2>2 DEF Subject
  <2> HIDE DEF miss, task, i
  <2>4. TaskIsSane(miss, barNow) BY <1>4, <1>7, <2>2 DEF TaskIsSane
  <2>5. RestIsCached(miss, cachedBars, detached) BY <1>8, <1>9, <2>2, <2>3 DEF RestIsCached
  <2>6. WindowIsWhole(miss, detached) BY <2>2 DEF WindowIsWhole
  <2>7. cachedBars \in [Instruments -> SUBSET (0 .. MaxBarTime)] BY DEF CryptoInv, CryptoTypes
  <2>8. CachesAreWhole' BY <1>1 DEF CryptoInv, CachesAreWhole
  <2> QED BY <1>1, <2>1, <2>4, <2>5, <2>6, <2>7, <2>8, ThreadMoves
<1> QED BY <1>10, <1>11

\* A step of one thread that fills no cache.
LEMMA ThreadStep ==
  ASSUME CryptoInv, NEW t \in CryptoThreads, NEW task, barNow' = barNow, cachedBars' = cachedBars, detached' = detached,
         cryptoThread' = [cryptoThread EXCEPT ![t] = task],
         TaskIsSane(task, barNow), RestIsCached(task, cachedBars, detached), WindowIsWhole(task, detached)
  PROVE  CryptoInv'
<1>1. cachedBars' \in [Instruments -> SUBSET (0 .. MaxBarTime)] BY DEF CryptoInv, CryptoTypes
<1>2. \A i \in Instruments : cachedBars[i] \in SUBSET cachedBars'[i] OBVIOUS
<1>3. detached \in SUBSET detached' /\ CachesAreWhole' BY DEF CryptoInv, CachesAreWhole
<1> QED BY <1>1, <1>2, <1>3, ThreadMoves

\* The provider answers with the tail of the window.
LEMMA FetchCandlesStep ==
  ASSUME CryptoInv, NEW t \in CryptoThreads, FetchCandles(t) PROVE CryptoInv'
<1> DEFINE task == cryptoThread[t]
           served == task.fetch .. (task.end - 1)
           next == [task EXCEPT !.at = "save", !.result = served]
<1>0. MaxBarTime \in Nat /\ barNow \in Nat /\ barNow <= MaxBarTime BY CryptoBounds DEF CryptoInv, CryptoTypes
<1>1. TaskIsSane(task, barNow) /\ RestIsCached(task, cachedBars, detached) BY DEF CryptoInv, TasksAreSound
<1>2. task \in ThreadRecord /\ task.at = "fetch" BY <1>1 DEF TaskIsSane, FetchCandles
<1>3. /\ task.start \in Nat /\ task.end \in Nat /\ task.fetch \in Nat /\ task.start <= MaxBarTime /\ task.end <= barNow
      /\ task.fetch <= MaxBarTime /\ task.start <= task.fetch /\ task.todo # {}
  BY <1>1, <1>2 DEF TaskIsSane, ThreadRecord
<1>4. ProviderCandles(Subject(task), task.fetch, task.end) = served BY <1>0, <1>3, ProviderCandlesAre
<1>5. /\ cryptoThread' = [cryptoThread EXCEPT ![t] = next]
      /\ barNow' = barNow /\ cachedBars' = cachedBars /\ detached' = detached
  BY <1>4 DEF FetchCandles, CryptoInv, CryptoTypes
<1>6. served \in SUBSET Nat BY <1>3
<1>7. /\ next \in ThreadRecord /\ next.at = "save" /\ next.result = served /\ next.todo = task.todo
      /\ next.start = task.start /\ next.end = task.end /\ next.fetch = task.fetch
  <2> HIDE DEF served
  <2> QED BY <1>2, <1>6 DEF ThreadRecord
<1>8. Subject(next) = Subject(task) BY <1>7 DEF Subject
<1>9. TaskIsSane(next, barNow)
  <2> HIDE DEF next, task
  <2> QED BY <1>3, <1>7 DEF TaskIsSane
<1> HIDE DEF next, task, served
<1>10. RestIsCached(next, cachedBars, detached) BY <1>1, <1>2, <1>7, <1>8 DEF RestIsCached
<1>11. WindowIsWhole(next, detached) BY <1>7 DEF WindowIsWhole
<1> QED BY <1>5, <1>9, <1>10, <1>11, ThreadStep

\* A thread fills the cache with the answer of the provider.
LEMMA StoreCandlesStep ==
  ASSUME CryptoInv, NEW t \in CryptoThreads, StoreCandles(t) PROVE CryptoInv'
<1> DEFINE task == cryptoThread[t]
           i == Subject(task)
           served == task.fetch .. (task.end - 1)
           next == [task EXCEPT !.at = "again", !.result = {}]
<1>0. MaxBarTime \in Nat /\ barNow \in Nat /\ barNow <= MaxBarTime BY CryptoBounds DEF CryptoInv, CryptoTypes
<1>2. TaskIsSane(task, barNow) /\ RestIsCached(task, cachedBars, detached) BY DEF CryptoInv, TasksAreSound
<1>3. task \in ThreadRecord /\ task.at = "save" BY <1>2 DEF TaskIsSane, StoreCandles
<1>4. /\ task.start \in Nat /\ task.end \in Nat /\ task.fetch \in Nat /\ task.start <= MaxBarTime /\ task.end <= barNow
      /\ task.fetch <= MaxBarTime /\ task.start <= task.fetch /\ task.todo # {} /\ task.result = served
  BY <1>2, <1>3 DEF TaskIsSane, ThreadRecord
<1>5. i \in Instruments BY <1>2, <1>3, SubjectIsOne
<1>7. /\ cachedBars' = [cachedBars EXCEPT ![i] = cachedBars[i] \cup served]
      /\ detached' = IF cachedBars[i] # {} /\ cachedBars[i] \cap ((task.fetch - 1) .. task.end) = {}
                     THEN detached \cup {i} ELSE detached
      /\ barNow' = barNow
  BY <1>4 DEF StoreCandles, SaveCandles
<1>8. cryptoThread' = [cryptoThread EXCEPT ![t] = next]
  BY DEF StoreCandles, CryptoInv, CryptoTypes
<1>9. cachedBars \in [Instruments -> SUBSET (0 .. MaxBarTime)] BY DEF CryptoInv, CryptoTypes
<1>10. served \in SUBSET (0 .. MaxBarTime) BY <1>0, <1>4
<1>12. detached \in SUBSET detached' BY <1>7
<1>13. /\ cachedBars' \in [Instruments -> SUBSET (0 .. MaxBarTime)]
       /\ \A j \in Instruments : cachedBars[j] \in SUBSET cachedBars'[j]
       /\ cachedBars'[i] = cachedBars[i] \cup served
       /\ \A j \in Instruments \ {i} : cachedBars'[j] = cachedBars[j]
  <2> HIDE DEF served, i
  <2> QED BY <1>5, <1>7, <1>9, <1>10
<1>14. CachesAreWhole'
  <2> SUFFICES ASSUME NEW j \in Instruments, j \notin detached' PROVE NoHole(cachedBars'[j])
    BY DEF CachesAreWhole
  <2>1. NoHole(cachedBars[j]) BY <1>12 DEF CryptoInv, CachesAreWhole
  <2>2. CASE j # i BY <1>13, <2>1, <2>2
  <2>3. CASE j = i
    <3>1. cachedBars[i] = {} \/ cachedBars[i] \cap ((task.fetch - 1) .. task.end) # {} BY <1>7, <2>3
    <3>2. cachedBars[i] \in SUBSET Nat BY <1>0, <1>5, <1>9
    <3> HIDE DEF task, i
    <3>3. NoHole(cachedBars[i] \cup (task.fetch .. (task.end - 1))) BY <1>4, <2>1, <2>3, <3>1, <3>2, HolesStayAway
    <3> QED BY <1>13, <2>3, <3>3
  <2> QED BY <2>2, <2>3
<1>15. /\ next \in ThreadRecord /\ next.at = "again" /\ next.todo = task.todo
       /\ next.start = task.start /\ next.end = task.end /\ next.fetch = task.fetch
  BY <1>3 DEF ThreadRecord
<1>16. Subject(next) = i BY <1>15 DEF Subject
<1>17. ASSUME i \notin detached PROVE (task.start + 1) .. (task.end - 2) \in SUBSET cachedBars'[i]
  <2>1. (task.start + 1) .. (task.fetch - 1) \in SUBSET cachedBars[i] BY <1>2, <1>3, <1>17 DEF RestIsCached
  <2>2. ASSUME NEW x \in (task.start + 1) .. (task.end - 2) PROVE x \in cachedBars[i] \cup served
    <3> HIDE DEF task, i
    <3>1. CASE x < task.fetch
      <4>1. x \in (task.start + 1) .. (task.fetch - 1) BY <1>4, <3>1
      <4> QED BY <2>1, <4>1
    <3>2. CASE ~ (x < task.fetch) BY <1>4, <3>2
    <3> QED BY <3>1, <3>2
  <2> QED BY <1>13, <2>2
<1> HIDE DEF next, task, i, served
<1>18. TaskIsSane(next, barNow) BY <1>4, <1>15 DEF TaskIsSane
<1>19. RestIsCached(next, cachedBars', detached') BY <1>12, <1>15, <1>16, <1>17 DEF RestIsCached
<1>20. WindowIsWhole(next, detached') BY <1>15 DEF WindowIsWhole
<1> QED BY <1>7, <1>8, <1>12, <1>13, <1>14, <1>18, <1>19, <1>20, ThreadMoves

\* A thread reads the window again, which the cache now holds.
LEMMA ReadWindowStep ==
  ASSUME CryptoInv, NEW t \in CryptoThreads, ReadWindow(t) PROVE CryptoInv'
<1> DEFINE task == cryptoThread[t]
           i == Subject(task)
           cached == CachedIn(i, task.start, task.end)
           next == [task EXCEPT !.at = "evaluate", !.result = cached]
<1>1. TaskIsSane(task, barNow) /\ RestIsCached(task, cachedBars, detached) BY DEF CryptoInv, TasksAreSound
<1>2. task \in ThreadRecord /\ task.at = "again" BY <1>1 DEF TaskIsSane, ReadWindow
<1>3. /\ task.start \in Nat /\ task.end \in Nat /\ task.fetch \in Nat /\ task.start <= MaxBarTime /\ task.end <= barNow
      /\ task.fetch <= MaxBarTime /\ task.todo # {}
  BY <1>1, <1>2 DEF TaskIsSane, ThreadRecord
<1>4. i \in Instruments BY <1>1, <1>2, SubjectIsOne
<1>5. /\ cryptoThread' = [cryptoThread EXCEPT ![t] = next]
      /\ barNow' = barNow /\ cachedBars' = cachedBars /\ detached' = detached
  BY DEF ReadWindow, CryptoInv, CryptoTypes
<1>6. cached \in SUBSET Nat /\ \A b \in cachedBars[i] : task.start <= b /\ b < task.end => b \in cached
  BY <1>4, CachedIsFinite DEF CachedIn
<1>7. /\ next \in ThreadRecord /\ next.at = "evaluate" /\ next.result = cached /\ next.todo = task.todo
      /\ next.start = task.start /\ next.end = task.end /\ next.fetch = task.fetch
  <2> HIDE DEF cached
  <2> QED BY <1>2, <1>6 DEF ThreadRecord
<1>8. Subject(next) = i BY <1>7 DEF Subject
<1>9. ASSUME i \notin detached PROVE (task.start + 1) .. (task.end - 2) \in SUBSET cached
  <2>1. (task.start + 1) .. (task.end - 2) \in SUBSET cachedBars[i] BY <1>1, <1>2, <1>9 DEF RestIsCached
  <2>2. ASSUME NEW x \in (task.start + 1) .. (task.end - 2) PROVE x \in cached
    <3> HIDE DEF cached, task, i
    <3>1. task.start <= x /\ x < task.end BY <1>3
    <3> QED BY <1>6, <2>1, <3>1
  <2> QED BY <2>2
<1> HIDE DEF next, task, i, cached
<1>10. TaskIsSane(next, barNow) BY <1>1, <1>3, <1>7 DEF TaskIsSane
<1>11. RestIsCached(next, cachedBars, detached) BY <1>7 DEF RestIsCached
<1>12. WindowIsWhole(next, detached) BY <1>7, <1>8, <1>9 DEF WindowIsWhole
<1> QED BY <1>5, <1>10, <1>11, <1>12, ThreadStep

\* Every step of the service keeps the caches and the threads in order.
LEMMA NextCrypto == CryptoInv /\ [CryptoNext]_cryptoVars => CryptoInv'
<1> SUFFICES ASSUME CryptoInv, [CryptoNext]_cryptoVars PROVE CryptoInv' OBVIOUS
<1>0. barNow \in Nat /\ MaxBarTime \in Nat /\ barNow <= MaxBarTime BY CryptoBounds DEF CryptoInv, CryptoTypes
<1>1. CASE BarCloses
  <2>1. barNow' = barNow + 1 /\ barNow < MaxBarTime /\ cachedBars' = cachedBars /\ detached' = detached /\ cryptoThread' = cryptoThread
    BY <1>1 DEF BarCloses
  <2> QED BY <1>0, <2>1, TasksStay
<1>2. ASSUME NEW i \in Instruments, AddInstrument(i) \/ RemoveInstrument(i) PROVE CryptoInv'
  <2>1. barNow' = barNow /\ cachedBars' = cachedBars /\ detached' = detached /\ cryptoThread' = cryptoThread
    BY <1>2 DEF AddInstrument, RemoveInstrument
  <2> QED BY <1>0, <2>1, TasksStay
<1>3. ASSUME NEW t \in CryptoThreads, SyncFails(t) \/ NoSignal(t) \/ \E bar \in 0 .. MaxBarTime : SaveSignal(t, bar)
      PROVE  CryptoInv'
  <2>1. /\ cryptoThread' = [cryptoThread EXCEPT ![t] = After(cryptoThread[t])]
        /\ barNow' = barNow /\ cachedBars' = cachedBars /\ detached' = detached
    BY <1>3 DEF SyncFails, NoSignal, SaveSignal
  <2>2. TaskIsSane(After(cryptoThread[t]), barNow) /\ After(cryptoThread[t]).at \in {"idle", "read"}
    <3>1. TaskIsSane(cryptoThread[t], barNow) BY DEF CryptoInv, TasksAreSound
    <3> QED BY <3>1, AfterIsSane
  <2> QED BY <2>1, <2>2, ThreadGoesOn
<1>4. ASSUME NEW t \in CryptoThreads, SaveBacktest(t) \/ InstrumentGone(t) \/ StoreFails(t) PROVE CryptoInv'
  <2>1. /\ cryptoThread' = [cryptoThread EXCEPT ![t] = IdleThread]
        /\ barNow' = barNow /\ cachedBars' = cachedBars /\ detached' = detached
    BY <1>4 DEF SaveBacktest, InstrumentGone, StoreFails
  <2>2. TaskIsSane(IdleThread, barNow) /\ IdleThread.at \in {"idle", "read"} BY IdleIsSane
  <2> QED BY <2>1, <2>2, ThreadGoesOn
<1>5. CASE UNCHANGED cryptoVars
  <2>1. barNow' = barNow /\ cachedBars' = cachedBars /\ detached' = detached /\ cryptoThread' = cryptoThread
    BY <1>5 DEF cryptoVars
  <2> QED BY <1>0, <2>1, TasksStay
<1> QED BY <1>1, <1>2, <1>3, <1>4, <1>5, ReadStep, FetchCandlesStep, StoreCandlesStep, ReadWindowStep, StartCrypto DEF CryptoNext

\* The candles a task works on: no hole while no sync ever filled its cache apart.
LEMMA WholeWindows == CryptoInv => SyncedWindowIsWhole
<1> SUFFICES ASSUME CryptoInv, NEW t \in CryptoThreads, cryptoThread[t].at = "evaluate"
    PROVE  \/ Subject(cryptoThread[t]) \in detached
           \/ (cryptoThread[t].start + 1) .. (cryptoThread[t].end - 2) \subseteq cryptoThread[t].result
  BY DEF SyncedWindowIsWhole
<1>1. WindowIsWhole(cryptoThread[t], detached) BY DEF CryptoInv, TasksAreSound
<1> QED BY <1>1 DEF WindowIsWhole

\* The inductive invariant of the crypto caches (sync_candles and save_candles,
\* markets/crypto/engine.py): a cache that no sync ever filled apart from what it held has
\* no hole, a thread that fetches or saves has the rest of its window in the cache, and a
\* thread that evaluates has all of its window but the first and the last bar.
THEOREM CacheInvariant == CryptoSpec => []CryptoInv
<1> QED BY InitCrypto, NextCrypto, PTL DEF CryptoSpec

\* SyncedWindowIsWhole, for any instruments, providers, page size, windows and number
\* of threads: the candles a scan or a backtest evaluates (sync_candles,
\* markets/crypto/engine.py) have no hole between the second and the last but one bar of the window, unless a
\* sync once filled the cache of the instrument apart from what it already held.
THEOREM SyncedWindowsAreWhole == CryptoSpec => []SyncedWindowIsWhole
<1> QED BY CacheInvariant, WholeWindows, PTL
=============================================================================
