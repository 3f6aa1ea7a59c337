------------------------------ MODULE Backfill ------------------------------
(***************************************************************************)
(* Resumable backfill of canonical candles: one row of                     *)
(* market_data_repair_jobs, the workers that claim it chunk by chunk       *)
(* (BackfillWorker), the gap repair that follows the last chunk            *)
(* (GapRepairService), and the dual writer of the live readers, which      *)
(* writes the same table (TimescaleDualWriter). All of it is in            *)
(* backend/data/timescale.py. Open times are 0 .. RangeEnd - 1 and a chunk *)
(* is a number of them.                                                    *)
(***************************************************************************)
EXTENDS Integers, Sequences, FiniteSets

CONSTANTS
    Workers,      \* processes of backend.data.worker; a lost lease lets two overlap
    RangeEnd,     \* range_end of the job; range_start is 0
    Sessions,     \* open times at which the market calendar expects a candle
    Provided,     \* open times the provider has a candle for
    Late,         \* those of them it does not return at first
    Chunks,       \* values of chunk_days
    MaxAttempts,
    None,
    MaxExpiries,  \* bound: job leases that run out (300 s without an answer)
    MaxFaults,    \* bound: provider and database errors, crashes
    MaxRevisions, \* bound: candles the provider corrects
    MaxLive,      \* bound: batches of the dual writer
    MaxEnqueues   \* bound: enqueue commands

Times == 0 .. RangeEnd - 1

ASSUME RangeIsSensible == RangeEnd \in Nat \ {0} /\ Sessions \subseteq Times /\ Provided \subseteq Times /\ Late \subseteq Provided
ASSUME LimitsAreSensible == Chunks \subseteq Nat \ {0} /\ Chunks # {} /\ MaxAttempts \in Nat \ {0}

VARIABLES
    status,       \* of the job row; "absent" before the insert
    nextStart,    \* next_start, the checkpoint
    chunk,        \* chunk_days
    attempts,
    leaseLive,    \* lease_expires_at is in the future
    backoff,      \* next_attempt_at is in the future
    candles,      \* candles[t]: value stored for t, None if there is none
    health,       \* status column of market_data_health
    quote,        \* quote[t]: what the provider answers for t, None if nothing
    pc,           \* pc[w]: where run_once stands
    claim,        \* claim[w]: the chunk the worker took, [from |-> _, to |-> _]
    fetched,      \* fetched[w]: candles in the worker's memory
    gaps,         \* gaps[w]: ranges the repair has left
    live,         \* the dual writer: "idle", "upsert" or "verify"
    batch,        \* candles in its memory
    writerError,  \* _last_error_type is set
    asked,        \* open times some chunk asked the provider for (history)
    abandoned,    \* a worker died between COMPLETE and the end of the repair (history)
    expiries, faults, revisions, lives, enqueues

row == <<status, nextStart, chunk, attempts, leaseLive, backoff>>
writer == <<live, batch, writerError>>
bounds == <<expiries, faults, revisions, lives, enqueues>>
vars == <<row, candles, health, quote, pc, claim, fetched, gaps, writer, asked, abandoned, bounds>>

Nothing == [t \in Times |-> None]

NoClaim == [from |-> 0, to |-> 0]

Open == {"PENDING", "RETRY", "RUNNING"}

\* Positions of run_once at which the row may read COMPLETE although the
\* repair of the range is not over.
Repairing == {"repair", "gapFetch", "gapWrite", "check"}

AtWork == {"fetch", "write", "reconcile", "advance", "final", "fail"} \cup Repairing

BackfillInit ==
    /\ status = "absent" /\ nextStart = 0 /\ attempts = 0
    /\ chunk = CHOOSE n \in Chunks : TRUE
    /\ leaseLive = FALSE /\ backoff = FALSE
    /\ candles = Nothing
    /\ health = "absent"
    /\ quote = [t \in Times |-> IF t \in Provided \ Late THEN 1 ELSE None]
    /\ pc = [w \in Workers |-> "idle"]
    /\ claim = [w \in Workers |-> NoClaim]
    /\ fetched = [w \in Workers |-> Nothing]
    /\ gaps = [w \in Workers |-> <<>>]
    /\ live = "idle" /\ batch = Nothing /\ writerError = FALSE
    /\ asked = {} /\ abandoned = FALSE
    /\ expiries = 0 /\ faults = 0 /\ revisions = 0 /\ lives = 0 /\ enqueues = 0

-----------------------------------------------------------------------------
(* The candle table and the calendar.                                      *)

Has(c, t) == c[t] # None

\* upsert_candles: the last writer wins.
Upsert(c) == candles' = [t \in Times |-> IF Has(c, t) THEN c[t] ELSE candles[t]]

\* reconcile compares count and checksum of a range.
Matched(c, from, to) == \A t \in Times : from <= t /\ t < to => candles[t] = c[t]

\* A provider's answer for a range.
Answer(from, to) == [t \in Times |-> IF from <= t /\ t < to THEN quote[t] ELSE None]

\* What expected_times lists and the table has not.
Missing == {t \in Sessions : ~ Has(candles, t)}

\* contiguous_missing_ranges: the maximal runs of missing open times, in order.
GapAfter(S, t) == CHOOSE n \in t + 1 .. RangeEnd : n \notin S /\ \A m \in t .. n - 1 : m \in S

MissingRanges(S) ==
    LET starts == {t \in S : t - 1 \notin S}
        nth(i) == CHOOSE t \in starts : Cardinality({u \in starts : u <= t}) = i
    IN  [i \in 1 .. Cardinality(starts) |-> [from |-> nth(i), to |-> GapAfter(S, nth(i))]]

-----------------------------------------------------------------------------
(* The job row: enqueue_backfill, claim_backfill, advance, fail.           *)

\* The job id is a hash of the range: the same range is the same row, and a
\* row that exists only takes the new chunk size, whatever became of it.
Enqueue ==
    /\ enqueues < MaxEnqueues /\ enqueues' = enqueues + 1
    /\ \E n \in Chunks :
         IF status = "absent"
           THEN status' = "PENDING" /\ chunk' = n
           ELSE UNCHANGED status /\ chunk' = (IF status \in {"RUNNING", "COMPLETE"} THEN chunk ELSE n)
    /\ UNCHANGED <<nextStart, attempts, leaseLive, backoff, candles, health, quote, pc, claim, fetched, gaps, writer, asked, abandoned>>
    /\ UNCHANGED <<expiries, faults, revisions, lives>>

Claimable == (status \in {"PENDING", "RETRY"} \/ (status = "RUNNING" /\ ~ leaseLive)) /\ ~ backoff

\* claim_backfill and the branches of run_once that follow it.
Claim(w) ==
    /\ pc[w] = "idle" /\ Claimable
    /\ status' = "RUNNING" /\ leaseLive' = TRUE
    /\ claim' = [claim EXCEPT ![w] = [from |-> nextStart, to |-> IF nextStart + chunk < RangeEnd THEN nextStart + chunk ELSE RangeEnd]]
    /\ pc' = [pc EXCEPT ![w] = IF nextStart >= RangeEnd THEN "final" ELSE "fetch"]
    /\ UNCHANGED <<nextStart, chunk, attempts, backoff, candles, health, quote, fetched, gaps, writer, asked, abandoned, bounds>>

\* Mutant: the checkpoint moves on by the chunk from where it is now.
AdvanceFromRow(to) ==
    /\ nextStart' = nextStart + chunk
    /\ status' = IF nextStart + chunk >= RangeEnd THEN "COMPLETE" ELSE "PENDING"
    /\ leaseLive' = FALSE /\ backoff' = FALSE
    /\ UNCHANGED <<chunk, attempts>>

\* advance_backfill writes the checkpoint of the caller, whoever owns the row.
AdvanceRow(to) ==
    /\ nextStart' = to
    /\ status' = IF to >= RangeEnd THEN "COMPLETE" ELSE "PENDING"
    /\ leaseLive' = FALSE /\ backoff' = FALSE
    /\ UNCHANGED <<chunk, attempts>>

\* Mutant: a failure does not count.
FailUncounted ==
    /\ status' = "RETRY"
    /\ leaseLive' = FALSE /\ backoff' = TRUE
    /\ UNCHANGED <<nextStart, chunk, attempts>>

\* fail_backfill counts the failure; the last one ends the job.
FailRow ==
    /\ attempts' = attempts + 1
    /\ status' = IF attempts + 1 >= MaxAttempts THEN "FAILED" ELSE "RETRY"
    /\ leaseLive' = FALSE
    /\ backoff' = (attempts + 1 < MaxAttempts)
    /\ UNCHANGED <<nextStart, chunk>>

-----------------------------------------------------------------------------
(* BackfillWorker.run_once.                                                *)

\* One step of a worker. What run_once holds in its variables goes with it.
Goto(w, from, to) ==
    /\ pc[w] = from
    /\ pc' = [pc EXCEPT ![w] = to]

Keep(w, c, f, g) ==
    /\ claim' = [claim EXCEPT ![w] = c]
    /\ fetched' = [fetched EXCEPT ![w] = f]
    /\ gaps' = [gaps EXCEPT ![w] = g]

Forget(w) == Keep(w, NoClaim, Nothing, <<>>)

Fault == faults < MaxFaults /\ faults' = faults + 1

FetchChunk(w) ==
    /\ Goto(w, "fetch", "write")
    /\ fetched' = [fetched EXCEPT ![w] = Answer(claim[w].from, claim[w].to)]
    /\ asked' = asked \cup {t \in Times : claim[w].from <= t /\ t < claim[w].to}
    /\ UNCHANGED <<row, candles, health, quote, claim, gaps, writer, abandoned, bounds>>

UpsertChunk(w) ==
    /\ Goto(w, "write", "reconcile")
    /\ Upsert(fetched[w])
    /\ UNCHANGED <<row, health, quote, claim, fetched, gaps, writer, asked, abandoned, bounds>>

Reconcile(w) ==
    /\ Goto(w, "reconcile", IF Matched(fetched[w], claim[w].from, claim[w].to) THEN "advance" ELSE "fail")
    /\ Keep(w, claim[w], Nothing, <<>>)
    /\ UNCHANGED <<row, candles, health, quote, writer, asked, abandoned, bounds>>

\* Mutant: the last chunk ends the work on the job.
AdvanceWithoutRepair(w) ==
    /\ Goto(w, "advance", "idle")
    /\ AdvanceRow(claim[w].to)
    /\ Forget(w)
    /\ UNCHANGED <<candles, health, quote, writer, asked, abandoned, bounds>>

\* The checkpoint moves; after the last chunk the row is COMPLETE already and
\* the repair begins.
Advance(w) ==
    /\ Goto(w, "advance", IF claim[w].to >= RangeEnd THEN "repair" ELSE "idle")
    /\ AdvanceRow(claim[w].to)
    /\ Forget(w)
    /\ UNCHANGED <<candles, health, quote, writer, asked, abandoned, bounds>>

\* A job whose repair failed comes back with its checkpoint at the end.
AdvanceFinal(w) ==
    /\ Goto(w, "final", "repair")
    /\ AdvanceRow(RangeEnd)
    /\ Forget(w)
    /\ UNCHANGED <<candles, health, quote, writer, asked, abandoned, bounds>>

\* The provider raises or answers with a candle of another range, or a
\* statement fails; during a repair the health row says so.
StepFails(w) ==
    /\ pc[w] \in AtWork \ {"fail"}
    /\ Fault
    /\ pc' = [pc EXCEPT ![w] = "fail"]
    /\ health' = IF pc[w] \in {"gapFetch", "gapWrite", "check"} THEN "PROVIDER_UNAVAILABLE" ELSE health
    /\ Forget(w)
    /\ UNCHANGED <<row, candles, quote, writer, asked, abandoned, expiries, revisions, lives, enqueues>>

RecordFailure(w) ==
    /\ Goto(w, "fail", "idle")
    /\ FailRow
    /\ UNCHANGED <<candles, health, quote, claim, fetched, gaps, writer, asked, abandoned, bounds>>

-----------------------------------------------------------------------------
(* GapRepairService.repair.                                                *)

BeginRepair(w) ==
    /\ Goto(w, "repair", IF Missing = {} THEN "idle" ELSE "gapFetch")
    /\ gaps' = [gaps EXCEPT ![w] = MissingRanges(Missing)]
    /\ health' = IF Missing = {} THEN "HEALTHY" ELSE "REPAIRING"
    /\ UNCHANGED <<row, candles, quote, claim, fetched, writer, asked, abandoned, bounds>>

FetchGap(w) ==
    /\ Goto(w, "gapFetch", "gapWrite")
    /\ fetched' = [fetched EXCEPT ![w] = Answer(Head(gaps[w]).from, Head(gaps[w]).to)]
    /\ UNCHANGED <<row, candles, health, quote, claim, gaps, writer, asked, abandoned, bounds>>

UpsertGap(w) ==
    /\ Goto(w, "gapWrite", IF Len(gaps[w]) > 1 THEN "gapFetch" ELSE "check")
    /\ Upsert(fetched[w])
    /\ Keep(w, NoClaim, Nothing, Tail(gaps[w]))
    /\ UNCHANGED <<row, health, quote, writer, asked, abandoned, bounds>>

CheckRepair(w) ==
    /\ Goto(w, "check", IF Missing = {} THEN "idle" ELSE "fail")
    /\ health' = IF Missing = {} THEN "HEALTHY" ELSE "GAPS_DETECTED"
    /\ UNCHANGED <<row, candles, quote, claim, fetched, gaps, writer, asked, abandoned, bounds>>

-----------------------------------------------------------------------------
(* TimescaleDualWriter.write, called by HistoricalDataStore.candles.       *)

\* A reader whose cache is stale fetches the whole range.
LiveFetch ==
    /\ live = "idle" /\ lives < MaxLive /\ lives' = lives + 1
    /\ live' = "upsert" /\ batch' = quote
    /\ UNCHANGED <<row, candles, health, quote, pc, claim, fetched, gaps, writerError, asked, abandoned, expiries, faults, revisions, enqueues>>

LiveUpsert ==
    /\ live = "upsert" /\ live' = "verify"
    /\ Upsert(batch)
    /\ UNCHANGED <<row, health, quote, pc, claim, fetched, gaps, batch, writerError, asked, abandoned, bounds>>

\* The range it verifies is that of its own rows.
LiveVerify ==
    /\ live = "verify" /\ live' = "idle"
    /\ LET own == {t \in Times : Has(batch, t)}
       IN  writerError' = ~ \A t \in Times : ((\E u \in own : u <= t) /\ (\E u \in own : t <= u)) => candles[t] = batch[t]
    /\ batch' = Nothing
    /\ UNCHANGED <<row, candles, health, quote, pc, claim, fetched, gaps, asked, abandoned, bounds>>

\* Every error of a batch is counted and swallowed: the legacy output stands.
LiveFails ==
    /\ live # "idle" /\ Fault
    /\ live' = "idle" /\ batch' = Nothing /\ writerError' = TRUE
    /\ UNCHANGED <<row, candles, health, quote, pc, claim, fetched, gaps, asked, abandoned, expiries, revisions, lives, enqueues>>

-----------------------------------------------------------------------------
(* Time, the provider and crashes.                                         *)

LeaseExpires ==
    /\ status = "RUNNING" /\ leaseLive
    /\ expiries < MaxExpiries /\ expiries' = expiries + 1
    /\ leaseLive' = FALSE
    /\ UNCHANGED <<status, nextStart, chunk, attempts, backoff, candles, health, quote, pc, claim, fetched, gaps, writer, asked, abandoned>>
    /\ UNCHANGED <<faults, revisions, lives, enqueues>>

\* The lease of a worker that is gone runs out by itself.
DeadLeaseExpires ==
    /\ status = "RUNNING" /\ leaseLive /\ \A w \in Workers : pc[w] = "idle"
    /\ leaseLive' = FALSE
    /\ UNCHANGED <<status, nextStart, chunk, attempts, backoff, candles, health, quote, pc, claim, fetched, gaps, writer, asked, abandoned, bounds>>

BackoffOver ==
    /\ backoff /\ backoff' = FALSE
    /\ UNCHANGED <<status, nextStart, chunk, attempts, leaseLive, candles, health, quote, pc, claim, fetched, gaps, writer, asked, abandoned, bounds>>

\* The provider adds a late candle or corrects one.
Revise(t) ==
    /\ revisions < MaxRevisions /\ revisions' = revisions + 1
    /\ t \in Provided
    /\ quote' = [quote EXCEPT ![t] = IF @ = None THEN 1 ELSE 2]
    /\ UNCHANGED <<row, candles, health, pc, claim, fetched, gaps, writer, asked, abandoned, expiries, faults, lives, enqueues>>

\* The process dies, or the statement that records a failure fails itself. The
\* timer starts the process again.
Crash(w) ==
    /\ pc[w] \in AtWork /\ Fault
    /\ pc' = [pc EXCEPT ![w] = "idle"]
    /\ abandoned' = (abandoned \/ (pc[w] \in Repairing \cup {"fail"} /\ status = "COMPLETE"))
    /\ Forget(w)
    /\ UNCHANGED <<row, candles, health, quote, writer, asked, expiries, revisions, lives, enqueues>>

WorkerStep(w) ==
    \/ Claim(w) \/ FetchChunk(w) \/ UpsertChunk(w) \/ Reconcile(w) \/ Advance(w) \/ AdvanceFinal(w)
    \/ BeginRepair(w) \/ FetchGap(w) \/ UpsertGap(w) \/ CheckRepair(w) \/ RecordFailure(w)

BackfillNext ==
    \/ Enqueue \/ LeaseExpires \/ DeadLeaseExpires \/ BackoffOver
    \/ LiveFetch \/ LiveUpsert \/ LiveVerify \/ LiveFails
    \/ \E t \in Times : Revise(t)
    \/ \E w \in Workers : WorkerStep(w) \/ StepFails(w) \/ Crash(w)

\* systemd's timer runs the worker again ten minutes after it ended, and time
\* passes; nothing else need ever happen.
BackfillFairness ==
    /\ \A w \in Workers : WF_vars(WorkerStep(w))
    /\ WF_vars(BackoffOver) /\ WF_vars(DeadLeaseExpires)

BackfillSpec == BackfillInit /\ [][BackfillNext]_vars /\ BackfillFairness

-----------------------------------------------------------------------------
(* Properties.                                                             *)

\* The row, the table and the workers hold values the code can write.
TypeOK ==
    /\ status \in {"absent", "COMPLETE", "FAILED"} \cup Open
    /\ nextStart \in 0 .. RangeEnd
    /\ chunk \in Chunks
    /\ attempts \in Nat
    /\ leaseLive \in BOOLEAN /\ backoff \in BOOLEAN
    /\ candles \in [Times -> {None, 1, 2}] /\ quote \in [Times -> {None, 1, 2}]
    /\ health \in {"absent", "HEALTHY", "REPAIRING", "GAPS_DETECTED", "PROVIDER_UNAVAILABLE"}
    /\ pc \in [Workers -> {"idle"} \cup AtWork]
    /\ claim \in [Workers -> [from : 0 .. RangeEnd, to : 0 .. RangeEnd]]
    /\ fetched \in [Workers -> [Times -> {None, 1, 2}]]
    /\ live \in {"idle", "upsert", "verify"} /\ writerError \in BOOLEAN
    /\ asked \subseteq Times

\* The checkpoint never runs ahead of the work: whichever workers lost their
\* lease, came back late, crashed or wrote an older checkpoint over a newer
\* one, every open time before next_start was asked of the provider.
NoSkippedChunk == \A t \in Times : t < nextStart => t \in asked

\* A job that reads COMPLETE with nobody at work on it has no gap left in the
\* calendar's open times. The exception is the code's: a worker that dies
\* between writing COMPLETE and ending the repair leaves a job that is never
\* claimed again.
CompleteIsFull ==
    (status = "COMPLETE" /\ ~ abandoned /\ \A w \in Workers : pc[w] \notin Repairing \cup {"fail"}) => Missing = {}

\* Retries are bounded and a lease that ran out is taken over: however the
\* provider, the database and the workers fail, the job comes to rest.
JobSettles == (status # "absent") ~> [](status \notin Open)
=============================================================================
